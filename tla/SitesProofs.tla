----------------------------- MODULE SitesProofs -----------------------------
(***************************************************************************)
(* The invariants of Sites and of Netfilter beneath it hold for any names,  *)
(* packets and addresses, any number of commands, and whichever of them may *)
(* run side by side (Rivals).  First what the operators on names and lists  *)
(* come to, then IInv, which is inductive: one lemma for each of its parts, *)
(* and in it one step per action.  The part that takes the work is Said:    *)
(* what the files and the kernel have to do with what was promised while a  *)
(* command is in the middle of changing them.                               *)
(***************************************************************************)
EXTENDS Sites, SequenceTheorems, FiniteSetTheorems, WellFoundedInduction, TLAPS

-----------------------------------------------------------------------------
(* Sets of numbers. *)

(* A set of numbers that is not empty has a least one. *)
LEMMA MinWorks ==
  ASSUME NEW S, S \subseteq Nat, S # {}
  PROVE  Min(S) \in S /\ \A n \in S : Min(S) <= n
<1>1. PICK m \in S : \A n \in S : ~ (<<n, m>> \in OpToRel(<, Nat))
  BY NatLessThanWellFounded, WFMin, Zenon
<1>2. \A n \in S : ~ (n < m)
  <2>1. ASSUME NEW n \in S, n < m
        PROVE  <<n, m>> \in OpToRel(<, Nat)
    BY <2>1, Zenon DEF OpToRel
  <2> QED BY <1>1, <2>1
<1>3. \A n \in S : m <= n
  BY <1>2
<1> QED BY <1>3, Zenon DEF Min

(* One that is bounded has a greatest one. *)
LEMMA MaxWorks ==
  ASSUME NEW b \in Nat, NEW S, S \subseteq 0..b, S # {}
  PROVE  Max(S) \in S /\ \A n \in S : Max(S) >= n
<1> DEFINE T == {b - n : n \in S}
<1>1. T \subseteq Nat /\ T # {}
  <2>1. \A n \in S : n \in Int /\ n <= b
    OBVIOUS
  <2>2. \A n \in S : b - n \in Nat
    BY <2>1
  <2> QED BY <2>2
<1>2. Min(T) \in T /\ \A n \in T : Min(T) <= n
  BY <1>1, MinWorks
<1>3. PICK m \in S : Min(T) = b - m
  BY <1>2
<1>4. \A n \in S : m >= n
  <2> SUFFICES ASSUME NEW n \in S PROVE m >= n
    OBVIOUS
  <2>1. b - m <= b - n
    BY <1>2, <1>3
  <2>2. m \in Int /\ n \in Int
    OBVIOUS
  <2> QED BY <2>1, <2>2
<1> QED BY <1>4, Zenon DEF Max

-----------------------------------------------------------------------------
(* Trimming. *)

LEMMA TrimBounds ==
  ASSUME NEW S, NEW s \in Seq(S), NEW c
  PROVE  LET first == Min(Without(s, c) \cup {Len(s) + 1})
             last  == Max(Without(s, c) \cup {0}) IN
         /\ first \in 1..(Len(s) + 1) /\ last \in 0..Len(s)
         /\ \/ /\ first \in Without(s, c) /\ last \in Without(s, c)
               /\ \A i \in Without(s, c) : first <= i /\ i <= last
            \/ Without(s, c) = {} /\ first = Len(s) + 1 /\ last = 0
<1> DEFINE W == Without(s, c)
           first == Min(W \cup {Len(s) + 1})
           last == Max(W \cup {0})
<1>1. Len(s) \in Nat /\ W \subseteq 1..Len(s)
  BY DEF Without
<1> HIDE DEF W
<1>2. /\ first \in W \cup {Len(s) + 1}
      /\ \A i \in W \cup {Len(s) + 1} : first <= i
  <2>1. W \subseteq Nat /\ Len(s) + 1 \in Nat
    BY <1>1
  <2>2. W \cup {Len(s) + 1} \subseteq Nat /\ W \cup {Len(s) + 1} # {}
    BY <2>1
  <2> QED BY <2>2, MinWorks
<1>3. last \in W \cup {0} /\ \A i \in W \cup {0} : last >= i
  <2>1. W \cup {0} \subseteq 0..Len(s)
    BY <1>1
  <2> QED BY <1>1, <2>1, MaxWorks
<1> HIDE DEF first, last
<1>4. CASE W = {}
  <2>1. first = Len(s) + 1 /\ last = 0
    BY <1>2, <1>3, <1>4
  <2> QED BY <1>1, <1>4, <2>1 DEF W, first, last
<1>5. CASE W # {}
  <2>1. PICK i \in W : TRUE
    BY <1>5
  <2>2. i \in 1..Len(s) /\ first <= i /\ i <= last
    BY <1>1, <1>2, <1>3, <2>1
  <2>3. first \in W /\ last \in W
    BY <1>1, <1>2, <1>3, <2>2
  <2>4. first \in 1..(Len(s) + 1) /\ last \in 0..Len(s)
    BY <1>1, <2>3
  <2>5. \A j \in W : first <= j /\ j <= last
    BY <1>1, <1>2, <1>3, <2>3
  <2> QED BY <2>3, <2>4, <2>5 DEF W, first, last
<1> QED BY <1>4, <1>5

(* What is left begins and ends with something else. *)
LEMMA TrimWorks ==
  ASSUME NEW S, NEW s \in Seq(S), NEW c
  PROVE  /\ Trim(s, c) \in Seq(S)
         /\ Trim(s, c) # <<>> =>
              Trim(s, c)[1] # c /\ Trim(s, c)[Len(Trim(s, c))] # c
<1> DEFINE first == Min(Without(s, c) \cup {Len(s) + 1})
           last == Max(Without(s, c) \cup {0})
<1>1. /\ first \in 1..(Len(s) + 1) /\ last \in 0..Len(s)
      /\ \/ /\ first \in Without(s, c) /\ last \in Without(s, c)
            /\ \A i \in Without(s, c) : first <= i /\ i <= last
         \/ Without(s, c) = {} /\ first = Len(s) + 1 /\ last = 0
  BY TrimBounds
<1>2. Trim(s, c) = SubSeq(s, first, last)
  BY DEF Trim
<1> HIDE DEF first, last
<1>3. Len(s) \in Nat
  OBVIOUS
<1>4. /\ SubSeq(s, first, last) \in Seq(S)
      /\ Len(SubSeq(s, first, last)) =
           IF first <= last THEN last - first + 1 ELSE 0
      /\ \A i \in 1..(last - first + 1) :
           SubSeq(s, first, last)[i] = s[first + i - 1]
  <2>1. \A i \in first..last : s[i] \in S
    BY <1>1, <1>3
  <2> QED BY <1>1, <1>3, <2>1, SubSeqProperties
<1>5. ASSUME Trim(s, c) # <<>>
      PROVE  Trim(s, c)[1] # c /\ Trim(s, c)[Len(Trim(s, c))] # c
  <2>1. first <= last
    <3>1. CASE first > last
      <4>1. Len(SubSeq(s, first, last)) = 0
        BY <1>1, <1>3, <1>4, <3>1
      <4> QED BY <1>2, <1>4, <1>5, <4>1, EmptySeq
    <3> QED BY <1>1, <1>3, <3>1
  <2>2. first \in Without(s, c) /\ last \in Without(s, c)
    BY <1>1, <1>3, <2>1
  <2>3. s[first] # c /\ s[last] # c
    BY <2>2 DEF Without
  <2>4. SubSeq(s, first, last)[1] = s[first]
    BY <1>1, <1>3, <1>4, <2>1
  <2>5. SubSeq(s, first, last)[last - first + 1] = s[last]
    BY <1>1, <1>3, <1>4, <2>1
  <2> QED BY <1>2, <1>4, <2>1, <2>3, <2>4, <2>5
<1> QED BY <1>2, <1>4, <1>5

LEMMA TrimKeeps ==
  ASSUME NEW S, NEW s \in Seq(S), NEW c, s # <<>>, s[1] # c, s[Len(s)] # c
  PROVE  Trim(s, c) = s
<1> DEFINE first == Min(Without(s, c) \cup {Len(s) + 1})
           last == Max(Without(s, c) \cup {0})
<1>1. Len(s) \in Nat /\ Len(s) >= 1
  BY EmptySeq
<1>2. 1 \in Without(s, c) /\ Len(s) \in Without(s, c)
  BY <1>1 DEF Without
<1>3. first \in 1..(Len(s) + 1) /\ last \in 0..Len(s) /\ first <= 1 /\ Len(s) <= last
  BY <1>2, TrimBounds
<1> HIDE DEF first, last
<1>4. first = 1 /\ last = Len(s)
  BY <1>1, <1>3
<1> QED BY <1>4, SubSeqFull DEF Trim, first, last

LEMMA TrimEndWorks ==
  ASSUME NEW S, NEW s \in Seq(S), NEW c
  PROVE  TrimEnd(s, c) \in Seq(S)
<1> DEFINE last == Max(Without(s, c) \cup {0})
<1>1. last \in 0..Len(s)
  BY TrimBounds
<1> HIDE DEF last
<1>2. \A i \in 1..last : s[i] \in S
  BY <1>1
<1>3. last \in Int
  BY <1>1
<1>4. SubSeq(s, 1, last) \in Seq(S)
  BY <1>2, <1>3, SubSeqProperties
<1> QED BY <1>4 DEF TrimEnd, last
-----------------------------------------------------------------------------
(* Names. *)

LEMMA LowerWorks ==
  /\ \A c \in DomainChars : ToLower(c) = c
  /\ \A c : ToLower(c) \in DomainChars \/ ToLower(c) = c
  /\ \A c : ToLower(c) = "." <=> c = "."
  /\ "." \in DomainChars
<1>1. \A c \in DOMAIN Small : Small[c] \in DomainChars /\ Small[c] # "."
  BY NetfilterAssumption DEF Range
<1> QED BY <1>1, NetfilterAssumption DEF ToLower

LEMMA LowerType ==
  ASSUME NEW S, NEW s \in Seq(S), NEW T, \A i \in 1..Len(s) : ToLower(s[i]) \in T
  PROVE  Lower(s) \in Seq(T) /\ Len(Lower(s)) = Len(s)
<1>1. Len(s) \in Nat /\ \A i \in 1..Len(s) : Lower(s)[i] = ToLower(s[i])
  BY DEF Lower
<1>2. Lower(s) \in [1..Len(s) -> T]
  BY <1>1 DEF Lower
<1> QED BY <1>1, <1>2, LenProperties

(* What can stand in the list of the kernel. *)
CleanName(n) ==
  /\ n \in Seq(DomainChars) /\ n # <<>> /\ Len(n) < MaxDomainLen
  /\ n[1] # "." /\ n[Len(n)] # "."

LEMMA WithoutStarType ==
  ASSUME NEW S, NEW s \in Seq(S)
  PROVE  WithoutStar(s) \in Seq(S)
<1>1. CASE Len(s) >= 2
  <2>1. \A i \in 3..Len(s) : s[i] \in S
    OBVIOUS
  <2>2. 3 \in Int /\ Len(s) \in Int
    OBVIOUS
  <2> QED BY <2>1, <2>2, SubSeqProperties DEF WithoutStar
<1>2. CASE ~ (Len(s) >= 2)
  BY <1>2 DEF WithoutStar
<1> QED BY <1>1, <1>2

(* The kernel stores a clean name or none, ...  *)
LEMMA NormalizeCleans ==
  ASSUME NEW t \in Seq(Chars), Normalize(t) # NoName
  PROVE  CleanName(Normalize(t))
<1> DEFINE d == Trim(WithoutStar(Trim(t, " ")), ".")
<1>1. d \in Seq(Chars) /\ (d # <<>> => d[1] # "." /\ d[Len(d)] # ".")
  <2>1. WithoutStar(Trim(t, " ")) \in Seq(Chars)
    BY TrimWorks, WithoutStarType
  <2> QED BY <2>1, TrimWorks
<1>2. Normalize(t) = Cleaned(d)
  BY DEF Normalize
<1> HIDE DEF d
<1>3. /\ Len(d) < MaxDomainLen
      /\ \A i \in 1..Len(d) : ToLower(d[i]) \in DomainChars
      /\ Normalize(t) = Lower(d)
  BY <1>2 DEF Cleaned
<1>4. Lower(d) \in Seq(DomainChars) /\ Len(Lower(d)) = Len(d)
  BY <1>1, <1>3, LowerType
<1>5. Len(d) \in Nat /\ Len(d) >= 1 /\ d # <<>>
  <2>1. Len(d) # 0
    <3>1. CASE Len(d) = 0
      BY <1>3, <1>4, <3>1, EmptySeq DEF NoName
    <3> QED BY <3>1
  <2> QED BY <1>1, <2>1, EmptySeq
<1>6. Lower(d)[1] # "." /\ Lower(d)[Len(d)] # "."
  <2>1. Lower(d)[1] = ToLower(d[1]) /\ Lower(d)[Len(d)] = ToLower(d[Len(d)])
    BY <1>5 DEF Lower
  <2> QED BY <1>1, <1>5, <2>1, LowerWorks
<1> QED BY <1>3, <1>4, <1>6 DEF CleanName, NoName

LEMMA CleanIsLower ==
  ASSUME NEW n, CleanName(n)
  PROVE  Lower(n) = n
<1>1. n \in Seq(DomainChars) /\ Len(n) \in Nat
  BY DEF CleanName
<1>2. \A i \in 1..Len(n) : ToLower(n[i]) = n[i] /\ n[i] \in DomainChars
  BY <1>1, LowerWorks
<1>3. Lower(n) \in Seq(DomainChars) /\ Len(Lower(n)) = Len(n)
  BY <1>1, <1>2, LowerType
<1>4. \A i \in 1..Len(n) : Lower(n)[i] = n[i]
  BY <1>1, <1>2 DEF Lower
<1> QED BY <1>1, <1>3, <1>4, SeqEqual

(* ... and a name that it stored comes back as it is, from the files as     *)
(* from the state file.                                                     *)
LEMMA NormalizeKeeps ==
  ASSUME NEW n, CleanName(n)
  PROVE  Normalize(n) = n
<1>1. n \in Seq(DomainChars) /\ n # <<>> /\ Len(n) \in Nat /\ Len(n) >= 1
  BY EmptySeq DEF CleanName
<1>2. n[1] \in DomainChars /\ n[Len(n)] \in DomainChars
  BY <1>1
<1>3. Trim(n, " ") = n
  BY <1>1, <1>2, TrimKeeps, NetfilterAssumption
<1>4. WithoutStar(n) = n
  BY <1>2, NetfilterAssumption DEF WithoutStar
<1>5. Trim(n, ".") = n
  BY <1>1, TrimKeeps DEF CleanName
<1>6. \A i \in 1..Len(n) : ToLower(n[i]) \in DomainChars
  BY <1>1, LowerWorks
<1> QED BY <1>3, <1>4, <1>5, <1>6, CleanIsLower DEF Normalize, Cleaned, CleanName

LEMMA NormalizeType ==
  ASSUME NEW t \in Seq(Chars)
  PROVE  Normalize(t) \in Seq(DomainChars)
<1>1. CASE Normalize(t) = NoName
  BY <1>1, EmptySeq DEF NoName
<1>2. CASE Normalize(t) # NoName
  BY <1>2, NormalizeCleans DEF CleanName
<1> QED BY <1>1, <1>2

LEMMA NamesClean ==
  /\ \A n \in Names : CleanName(n) /\ Normalize(n) = n
  /\ \A t \in Typed \cup Names : t \in Seq(Chars) /\ Normalize(t) \in Names \cup {NoName}
<1>1. \A t \in Typed : t \in Seq(Chars)
  BY SitesAssumption
<1>2. ASSUME NEW n \in Range(Defaults)
      PROVE  n \in Seq(Chars) /\ Normalize(n) = n /\ n # NoName
  <2>1. PICK i \in 1..Len(Defaults) : n = Defaults[i]
    BY SitesAssumption DEF Range
  <2>2. Defaults[i] = Normalize(Defaults[i])
    BY <2>1, SitesAssumption DEF Normalized
  <2>3. Defaults[i] # NoName
    BY <2>1, SitesAssumption DEF Valid, Range
  <2> QED BY <2>1, <2>2, <2>3, SitesAssumption
<1>3. ASSUME NEW n \in Names
      PROVE  CleanName(n)
  <2>1. CASE n \in Range(Defaults)
    BY <1>2, <2>1, NormalizeCleans
  <2>2. CASE n \notin Range(Defaults)
    BY <1>1, <2>2, NormalizeCleans DEF Names
  <2> QED BY <2>1, <2>2
<1>4. \A n \in Names : Normalize(n) = n
  BY <1>3, NormalizeKeeps
<1>5. \A n \in Names : n \in Seq(Chars)
  BY <1>3, SeqMonotonic, NetfilterAssumption DEF CleanName
<1>6. \A t \in Typed : Normalize(t) \in Names \cup {NoName}
  BY DEF Names
<1> QED BY <1>1, <1>3, <1>4, <1>5, <1>6
-----------------------------------------------------------------------------
(* Lists of names. *)

(* The places of a list that are kept, counted from the left. *)
LEMMA RankWorks ==
  ASSUME NEW n \in Nat, NEW S, S \subseteq 1..n
  PROVE  /\ Cardinality(S) \in Nat
         /\ \A i \in S : Rank(S, i) \in 1..Cardinality(S)
         /\ \A i, j \in S : Rank(S, i) = Rank(S, j) => i = j
         /\ \A k \in 1..Cardinality(S) : \E i \in S : Rank(S, i) = k
<1> DEFINE upto(i) == {j \in S : j <= i}
<1>1. /\ IsFiniteSet(S)
      /\ \A T \in SUBSET S : /\ IsFiniteSet(T) /\ Cardinality(T) \in Nat
                             /\ Cardinality(T) <= Cardinality(S)
  <2>1. IsFiniteSet(1..n)
    BY FS_Interval
  <2>2. IsFiniteSet(S)
    BY <2>1, FS_Subset
  <2> QED BY <2>2, FS_Subset, FS_CardinalityType
<1>2. Cardinality(S) \in Nat
  BY <1>1, FS_CardinalityType
<1>3. \A i \in Int : upto(i) \in SUBSET S /\ Rank(S, i) \in Nat
  BY <1>1 DEF Rank
<1>4. \A i \in Nat : /\ i + 1 \notin S => Rank(S, i + 1) = Rank(S, i)
                     /\ i + 1 \in S => Rank(S, i + 1) = Rank(S, i) + 1
  <2> SUFFICES ASSUME NEW i \in Nat
               PROVE  /\ i + 1 \notin S => Rank(S, i + 1) = Rank(S, i)
                      /\ i + 1 \in S => Rank(S, i + 1) = Rank(S, i) + 1
    OBVIOUS
  <2>1. CASE i + 1 \notin S
    <3>1. upto(i + 1) = upto(i)
      <4>1. \A j \in S : j \in Int /\ j # i + 1
        BY <2>1
      <4>2. \A j \in S : j <= i + 1 <=> j <= i
        BY <4>1
      <4> QED BY <4>2
    <3> QED BY <2>1, <3>1 DEF Rank
  <2>2. CASE i + 1 \in S
    <3>1. upto(i + 1) = upto(i) \cup {i + 1}
      <4>1. \A j \in S : j \in Int
        OBVIOUS
      <4>2. \A j \in S : j <= i + 1 <=> j <= i \/ j = i + 1
        BY <4>1
      <4> QED BY <2>2, <4>2
    <3>2. i + 1 \notin upto(i)
      OBVIOUS
    <3>3. IsFiniteSet(upto(i))
      BY <1>1, <1>3
    <3>4. Cardinality(upto(i) \cup {i + 1}) = Cardinality(upto(i)) + 1
      BY <3>2, <3>3, FS_AddElement
    <3> QED BY <2>2, <3>1, <3>4 DEF Rank
  <2> QED BY <2>1, <2>2
<1>5. \A i \in Int, j \in Int : i <= j => Rank(S, i) <= Rank(S, j)
  <2> SUFFICES ASSUME NEW i \in Int, NEW j \in Int, i <= j
               PROVE  Rank(S, i) <= Rank(S, j)
    OBVIOUS
  <2>1. \A m \in S : m \in Int
    OBVIOUS
  <2>2. \A m \in S : m <= i => m <= j
    BY <2>1
  <2>3. IsFiniteSet(upto(j))
    BY <1>1, <1>3
  <2>4. upto(i) \subseteq upto(j)
    BY <2>2
  <2> QED BY <2>3, <2>4, FS_Subset DEF Rank
<1>6. Rank(S, 0) = 0
  <2>1. \A j \in S : j \in Int /\ ~ (j <= 0)
    OBVIOUS
  <2>2. upto(0) = {}
    BY <2>1
  <2> QED BY <2>2, FS_EmptySet DEF Rank
<1>7. Rank(S, n) = Cardinality(S)
  <2>1. \A i \in S : i <= n
    OBVIOUS
  <2>2. upto(n) = S
    BY <2>1
  <2> QED BY <2>2 DEF Rank
<1>8. \A i \in S : Rank(S, i) = Rank(S, i - 1) + 1
  <2> SUFFICES ASSUME NEW i \in S PROVE Rank(S, i) = Rank(S, i - 1) + 1
    OBVIOUS
  <2>1. i - 1 \in Nat /\ (i - 1) + 1 = i
    OBVIOUS
  <2> QED BY <1>4, <2>1
<1> HIDE DEF upto
<1>9. \A i \in S : Rank(S, i) \in 1..Cardinality(S)
  <2> SUFFICES ASSUME NEW i \in S PROVE Rank(S, i) \in 1..Cardinality(S)
    OBVIOUS
  <2>1. i \in Int /\ i - 1 \in Int /\ i <= n /\ n \in Int
    OBVIOUS
  <2>2. Rank(S, i - 1) \in Nat /\ Rank(S, i) \in Nat /\ Rank(S, i) <= Rank(S, n)
    BY <1>3, <1>5, <2>1
  <2> QED BY <1>2, <1>7, <1>8, <2>2
<1>10. \A i, j \in S : i < j => Rank(S, i) < Rank(S, j)
  <2> SUFFICES ASSUME NEW i \in S, NEW j \in S, i < j
               PROVE  Rank(S, i) < Rank(S, j)
    OBVIOUS
  <2>1. i \in Int /\ j \in Int /\ j - 1 \in Int /\ i <= j - 1
    OBVIOUS
  <2>2. /\ Rank(S, i) \in Nat /\ Rank(S, j - 1) \in Nat
        /\ Rank(S, i) <= Rank(S, j - 1)
    BY <1>3, <1>5, <2>1
  <2> QED BY <1>8, <2>2
<1>11. \A i, j \in S : Rank(S, i) = Rank(S, j) => i = j
  <2> SUFFICES ASSUME NEW i \in S, NEW j \in S, Rank(S, i) = Rank(S, j)
               PROVE  i = j
    OBVIOUS
  <2>1. i \in Int /\ j \in Int /\ Rank(S, i) \in Nat /\ Rank(S, j) \in Nat
    BY <1>3
  <2>2. ~ (i < j) /\ ~ (j < i)
    BY <1>10, <2>1
  <2> QED BY <2>1, <2>2
<1>12. ASSUME NEW k \in 1..Cardinality(S)
       PROVE  \E i \in S : Rank(S, i) = k
  <2> DEFINE above == {i \in Nat : Rank(S, i) >= k}
  <2>1. n \in above
    BY <1>2, <1>7
  <2>2. Min(above) \in above /\ \A i \in above : Min(above) <= i
    BY <2>1, MinWorks
  <2> DEFINE m == Min(above)
  <2>3. m \in Nat /\ Rank(S, m) >= k
    BY <2>2
  <2> HIDE DEF m
  <2>4. m # 0
    BY <1>6, <2>3
  <2>5. m - 1 \in Nat /\ (m - 1) + 1 = m
    BY <2>3, <2>4
  <2>6. m - 1 \notin above
    <3>1. ~ (m <= m - 1)
      BY <2>5
    <3> QED BY <2>2, <3>1 DEF m
  <2>7. ~ (Rank(S, m - 1) >= k)
    BY <2>5, <2>6
  <2>8. Rank(S, m - 1) \in Nat /\ Rank(S, m) \in Nat /\ k \in Nat
    BY <1>2, <1>3, <2>3, <2>5
  <2>9. m \in S
    BY <1>4, <2>3, <2>5, <2>7, <2>8
  <2>10. Rank(S, m) = Rank(S, m - 1) + 1
    BY <1>8, <2>9
  <2> QED BY <2>3, <2>7, <2>8, <2>9, <2>10
<1> QED BY <1>2, <1>9, <1>11, <1>12

(* What is not c stays, and nothing else. *)
LEMMA OthersWorks ==
  ASSUME NEW S, NEW s \in Seq(S), NEW c
  PROVE  /\ Others(s, c) \in Seq(S)
         /\ Range(Others(s, c)) = Range(s) \ {c}
<1> DEFINE rest == Without(s, c)
           place(k) == CHOOSE i \in rest : Rank(rest, i) = k
<1>1. Len(s) \in Nat /\ rest \subseteq 1..Len(s)
  BY DEF Without
<1>2. \A i \in rest : s[i] \in S /\ s[i] # c /\ s[i] \in Range(s)
  BY DEF Without, Range
<1>3. \A y \in Range(s) \ {c} : \E i \in rest : s[i] = y
  BY DEF Without, Range
<1> HIDE DEF rest
<1>4. /\ Cardinality(rest) \in Nat
      /\ \A i \in rest : Rank(rest, i) \in 1..Cardinality(rest)
      /\ \A i, j \in rest : Rank(rest, i) = Rank(rest, j) => i = j
      /\ \A k \in 1..Cardinality(rest) : \E i \in rest : Rank(rest, i) = k
  BY <1>1, RankWorks
<1>5. \A k \in 1..Cardinality(rest) :
        place(k) \in rest /\ Rank(rest, place(k)) = k
  BY <1>4
<1>6. Others(s, c) = [k \in 1..Cardinality(rest) |-> s[place(k)]]
  BY DEF Others, rest
<1> HIDE DEF place
<1>7. Others(s, c) \in [1..Cardinality(rest) -> S]
  BY <1>2, <1>5, <1>6
<1>8. Others(s, c) \in Seq(S)
  BY <1>4, <1>7
<1>9. \A y \in Range(Others(s, c)) : y \in Range(s) \ {c}
  BY <1>2, <1>5, <1>6 DEF Range
<1>10. ASSUME NEW y \in Range(s) \ {c}
       PROVE  y \in Range(Others(s, c))
  <2>1. PICK i \in rest : s[i] = y
    BY <1>3
  <2> DEFINE k == Rank(rest, i)
  <2>2. k \in 1..Cardinality(rest) /\ place(k) = i
    BY <1>4, <1>5
  <2> HIDE DEF k
  <2>3. k \in DOMAIN Others(s, c) /\ Others(s, c)[k] = y
    BY <1>6, <2>1, <2>2
  <2> QED BY <2>3 DEF Range
<1> QED BY <1>8, <1>9, <1>10

LEMMA OthersKeeps ==
  ASSUME NEW S, NEW s \in Seq(S), NEW c, c \notin Range(s)
  PROVE  Others(s, c) = s
<1> DEFINE n == Len(s)
<1>1. n \in Nat
  OBVIOUS
<1>2. Without(s, c) = 1..n
  BY DEF Without, Range
<1>3. \A i \in Nat : Cardinality(1..i) = i
  <2> SUFFICES ASSUME NEW i \in Nat PROVE Cardinality(1..i) = i
    OBVIOUS
  <2>1. 1 \in Int /\ i \in Int
    OBVIOUS
  <2>2. Cardinality(1..i) = IF 1 > i THEN 0 ELSE i - 1 + 1
    BY <2>1, FS_Interval, Zenon
  <2> QED BY <2>2
<1>8. \A i \in 1..n : Rank(1..n, i) = i
  <2> SUFFICES ASSUME NEW i \in 1..n PROVE Rank(1..n, i) = i
    OBVIOUS
  <2>1. {j \in 1..n : j <= i} = 1..i
    BY <1>1
  <2>2. Cardinality(1..i) = i
    BY <1>1, <1>3
  <2> QED BY <2>1, <2>2, Zenon DEF Rank
<1>4. Cardinality(1..n) = n
  BY <1>1, <1>3
<1> HIDE DEF n
<1>5. Others(s, c) = [k \in 1..n |-> s[CHOOSE i \in 1..n : Rank(1..n, i) = k]]
  BY <1>2, <1>4 DEF Others
<1>6. \A k \in 1..n : (CHOOSE i \in 1..n : Rank(1..n, i) = k) = k
  BY <1>8
<1>7. Others(s, c) = [k \in 1..n |-> s[k]]
  BY <1>5, <1>6
<1> QED BY <1>7 DEF n

LEMMA NormalizedType ==
  ASSUME NEW lines \in Seq(Typed \cup Names)
  PROVE  /\ Normalized(lines) \in Seq(Names \cup {NoName})
         /\ Len(Normalized(lines)) = Len(lines)
         /\ \A i \in 1..Len(lines) : Normalized(lines)[i] = Normalize(lines[i])
         /\ Range(Normalized(lines)) = {Normalize(line) : line \in Range(lines)}
         /\ Valid(lines) => Normalized(lines) \in Seq(Names)
<1>1. Len(lines) \in Nat
  OBVIOUS
<1>2. \A i \in 1..Len(lines) :
        /\ Normalized(lines)[i] = Normalize(lines[i])
        /\ Normalized(lines)[i] \in Names \cup {NoName}
  <2>1. \A i \in 1..Len(lines) : lines[i] \in Typed \cup Names
    OBVIOUS
  <2> QED BY <2>1, NamesClean DEF Normalized
<1>3. Normalized(lines) \in [1..Len(lines) -> Names \cup {NoName}]
  BY <1>2 DEF Normalized
<1>4. Normalized(lines) \in Seq(Names \cup {NoName})
  BY <1>1, <1>3
<1>5. Len(Normalized(lines)) = Len(lines)
  BY <1>1, <1>3, <1>4, LenProperties
<1>6. Range(Normalized(lines)) = {Normalize(line) : line \in Range(lines)}
  <2>1. DOMAIN lines = 1..Len(lines) /\ DOMAIN Normalized(lines) = 1..Len(lines)
    BY DEF Normalized
  <2> QED BY <1>2, <2>1 DEF Range
<1>7. ASSUME Valid(lines)
      PROVE  Normalized(lines) \in Seq(Names)
  <2>1. \A i \in 1..Len(lines) : Normalized(lines)[i] # NoName
    BY <1>3, <1>7 DEF Valid, Range
  <2>2. Normalized(lines) \in [1..Len(lines) -> Names]
    BY <1>2, <1>3, <2>1
  <2> QED BY <1>1, <2>2
<1> QED BY <1>2, <1>4, <1>5, <1>6, <1>7

(* A list of the kernel's goes through the kernel unchanged. *)
LEMMA NamesStay ==
  ASSUME NEW lines \in Seq(Names)
  PROVE  /\ Normalized(lines) = lines
         /\ NoName \notin Range(lines)
         /\ Len(lines) <= MaxDomains => Valid(lines)
         /\ Others(Normalized(lines), NoName) = lines
<1>1. \A i \in 1..Len(lines) : lines[i] \in Names
  OBVIOUS
<1>2. \A i \in 1..Len(lines) :
        Normalize(lines[i]) = lines[i] /\ lines[i] # NoName
  BY <1>1, NamesClean DEF CleanName, NoName
<1>3. Normalized(lines) = lines
  BY <1>2 DEF Normalized
<1>4. NoName \notin Range(lines)
  BY <1>2 DEF Range
<1> QED BY <1>3, <1>4, OthersKeeps DEF Valid
-----------------------------------------------------------------------------
(* A name is blocked by what it belongs to (netfilter.c:106): the match     *)
(* from the right is the definition.                                        *)
THEOREM MatchIsBelonging ==
  ASSUME NEW host \in Seq(Chars), NEW n \in Names
  PROVE  DomainMatches(TrimEnd(host, "."), n) <=> BelongsTo(host, n)
<1> DEFINE t == TrimEnd(host, ".")
           h == Len(t)
           b == Len(n)
           name == Lower(t)
           AnyChar == Chars \cup DomainChars
<1>1. t \in Seq(Chars) /\ h \in Nat
  BY TrimEndWorks
<1>2. /\ n \in Seq(DomainChars) /\ b \in Nat /\ b > 0
      /\ \A i \in 1..b : ToLower(n[i]) = n[i]
  <2>1. n \in Seq(DomainChars) /\ n # <<>>
    BY NamesClean DEF CleanName
  <2> QED BY <2>1, LowerWorks, EmptySeq
<1> HIDE DEF t
<1>3. /\ name \in Seq(AnyChar) /\ Len(name) = h
      /\ \A i \in 1..h : name[i] = ToLower(t[i]) /\ name[i] \in AnyChar
  <2>1. \A i \in 1..h : ToLower(t[i]) \in AnyChar
    BY <1>1, LowerWorks
  <2>2. name \in Seq(AnyChar) /\ Len(name) = h
    BY <1>1, <2>1, LowerType
  <2> QED BY <1>1, <2>1, <2>2 DEF Lower
<1>4. n \in Seq(AnyChar) /\ <<".">> \in Seq(AnyChar) /\ Len(<<".">>) = 1
      /\ <<".">>[1] = "."
  BY <1>2, LowerWorks, SeqMonotonic
<1>5. DomainMatches(t, n) <=>
        /\ h >= b /\ \A i \in 1..b : name[h - b + i] = n[i]
        /\ h = b \/ name[h - b] = "."
  <2>1. ASSUME h >= b, NEW i \in 1..b
        PROVE  /\ h - b + i \in 1..h
               /\ name[h - b + i] = ToLower(t[h - b + i])
    BY <1>1, <1>2, <1>3, <2>1
  <2>2. ASSUME h >= b, h # b
        PROVE  h - b \in 1..h /\ (name[h - b] = "." <=> t[h - b] = ".")
    <3>1. h - b \in 1..h
      BY <1>1, <1>2, <2>2
    <3> QED BY <1>3, <3>1, LowerWorks
  <2>3. DomainMatches(t, n) <=>
          /\ h >= b /\ \A i \in 1..b : ToLower(t[h - b + i]) = ToLower(n[i])
          /\ h = b \/ t[h - b] = "."
    BY <1>2 DEF DomainMatches
  <2> HIDE DEF h, b, name
  <2> QED BY <1>2, <2>1, <2>2, <2>3
<1> HIDE DEF name, AnyChar
<1>6. ASSUME h = b
      PROVE  name = n <=> \A i \in 1..b : name[i] = n[i]
  BY <1>1, <1>2, <1>3, <1>4, <1>6, SeqEqual
<1>7. ASSUME NEW k \in 0..h
      PROVE  LET front == SubSeq(name, 1, k) \o <<".">> \o n IN
             /\ front \in Seq(AnyChar) /\ Len(front) = k + 1 + b
             /\ \A i \in 1..k : front[i] = name[i]
             /\ front[k + 1] = "."
             /\ \A i \in 1..b : front[k + 1 + i] = n[i]
  <2> DEFINE first == SubSeq(name, 1, k)
             dotted == first \o <<".">>
             front == dotted \o n
  <2>1. k \in Nat /\ k <= h
    BY <1>1
  <2>2. /\ first \in Seq(AnyChar) /\ Len(first) = k
        /\ \A i \in 1..k : first[i] = name[i]
    <3>1. \A i \in 1..k : name[i] \in AnyChar
      BY <1>1, <1>3, <2>1
    <3>2. 1 \in Int /\ k \in Int
      BY <2>1
    <3>3. /\ first \in Seq(AnyChar)
          /\ Len(first) = IF 1 <= k THEN k - 1 + 1 ELSE 0
          /\ \A i \in 1..(k - 1 + 1) : first[i] = name[1 + i - 1]
      BY <3>1, <3>2, SubSeqProperties
    <3>4. \A i \in 1..k : 1 + i - 1 = i
      BY <2>1
    <3>5. k - 1 + 1 = k /\ (1 <= k \/ k = 0)
      BY <2>1
    <3> QED BY <3>3, <3>4, <3>5
  <2> HIDE DEF first
  <2>3. /\ dotted \in Seq(AnyChar) /\ Len(dotted) = k + 1
        /\ \A i \in 1..(k + 1) : dotted[i] = IF i <= k THEN first[i] ELSE "."
    <3>1. /\ dotted \in Seq(AnyChar) /\ Len(dotted) = Len(first) + Len(<<".">>)
          /\ \A i \in 1..(Len(first) + Len(<<".">>)) :
               dotted[i] = IF i <= Len(first) THEN first[i]
                                              ELSE <<".">>[i - Len(first)]
      BY <1>4, <2>2, ConcatProperties, Zenon
    <3>2. Len(first) + Len(<<".">>) = k + 1
      BY <1>4, <2>2
    <3>3. \A i \in 1..(k + 1) : ~ (i <= k) => i - k = 1
      BY <2>1
    <3> HIDE DEF dotted
    <3> QED BY <1>4, <2>2, <3>1, <3>2, <3>3
  <2> HIDE DEF dotted
  <2>4. /\ front \in Seq(AnyChar) /\ Len(front) = k + 1 + b
        /\ \A i \in 1..(k + 1 + b) :
             front[i] = IF i <= k + 1 THEN dotted[i] ELSE n[i - (k + 1)]
    <3>1. /\ front \in Seq(AnyChar) /\ Len(front) = Len(dotted) + Len(n)
          /\ \A i \in 1..(Len(dotted) + Len(n)) :
               front[i] = IF i <= Len(dotted) THEN dotted[i]
                                              ELSE n[i - Len(dotted)]
      BY <1>4, <2>3, ConcatProperties, Zenon
    <3> HIDE DEF front
    <3> QED BY <2>3, <3>1
  <2> HIDE DEF front
  <2>5. \A i \in 1..k : front[i] = name[i]
    BY <1>2, <2>1, <2>2, <2>3, <2>4
  <2>6. front[k + 1] = "."
    BY <1>2, <2>1, <2>3, <2>4
  <2>7. ASSUME NEW i \in 1..b PROVE front[k + 1 + i] = n[i]
    <3>1. k + 1 + i \in 1..(k + 1 + b) /\ ~ (k + 1 + i <= k + 1)
      BY <1>2, <2>1
    <3>2. k + 1 + i - (k + 1) = i
      BY <2>1
    <3> QED BY <2>4, <3>1, <3>2
  <2> QED BY <2>4, <2>5, <2>6, <2>7 DEF front, dotted, first
<1>8. ASSUME DomainMatches(t, n)
      PROVE  BelongsTo(host, n)
  <2>1. CASE h = b
    <3>1. \A i \in 1..b : name[i] = n[i]
      <4>1. \A i \in 1..b : h - b + i = i
        BY <1>1, <1>2, <2>1
      <4> QED BY <1>5, <1>8, <4>1
    <3>2. name = n
      BY <1>6, <2>1, <3>1
    <3> QED BY <3>2 DEF BelongsTo, name, t
  <2>2. CASE h # b
    <3> DEFINE k == h - b - 1
               front == SubSeq(name, 1, k) \o <<".">> \o n
    <3>1. k \in 0..h /\ k + 1 + b = h /\ k + 1 = h - b
      BY <1>1, <1>2, <1>5, <1>8, <2>2
    <3> HIDE DEF k
    <3>2. /\ front \in Seq(AnyChar) /\ Len(front) = k + 1 + b
          /\ \A i \in 1..k : front[i] = name[i]
          /\ front[k + 1] = "."
          /\ \A i \in 1..b : front[k + 1 + i] = n[i]
      BY <1>7, <3>1
    <3>3. ASSUME NEW i \in 1..h PROVE name[i] = front[i]
      <4>1. CASE i <= k
        BY <1>1, <3>1, <3>2, <4>1
      <4>2. CASE i = k + 1
        BY <1>5, <1>8, <2>2, <3>1, <3>2, <4>2
      <4>3. CASE i > k + 1
        <5> DEFINE j == i - (k + 1)
        <5>1. j \in 1..b /\ k + 1 + j = i /\ h - b + j = i
          <6>1. k \in Nat /\ b \in Nat /\ h \in Nat /\ i \in Nat /\ i <= h
            BY <1>1, <1>2, <3>1
          <6> QED BY <3>1, <4>3, <6>1
        <5> HIDE DEF j
        <5> QED BY <1>5, <1>8, <3>2, <5>1
      <4> QED BY <1>1, <3>1, <4>1, <4>2, <4>3
    <3>4. name = front
      BY <1>3, <3>1, <3>2, <3>3, SeqEqual
    <3> QED BY <1>3, <3>1, <3>4 DEF BelongsTo, name, t, front
  <2> QED BY <2>1, <2>2
<1>9. ASSUME BelongsTo(host, n)
      PROVE  DomainMatches(t, n)
  <2>1. CASE name = n
    <3>1. h = b /\ \A i \in 1..b : h - b + i = i
      BY <1>1, <1>2, <1>3, <2>1
    <3> QED BY <1>1, <1>2, <1>5, <2>1, <3>1
  <2>2. CASE name # n
    <3>1. PICK k \in 0..h : name = SubSeq(name, 1, k) \o <<".">> \o n
      BY <1>3, <1>9, <2>2 DEF BelongsTo, name, t
    <3>2. /\ h = k + 1 + b /\ name[k + 1] = "."
          /\ \A i \in 1..b : name[k + 1 + i] = n[i]
      BY <1>3, <1>7, <3>1
    <3>3. k \in Nat /\ h - b = k + 1
      BY <1>1, <1>2, <3>2
    <3> QED BY <1>1, <1>2, <1>5, <3>2, <3>3
  <2> QED BY <2>1, <2>2
<1> QED BY <1>8, <1>9 DEF t
-----------------------------------------------------------------------------
(* TypeOK in parts. *)

Cmds == [cmd : {"none", "block", "add", "remove", "block-ip", "allow-ip", "reload",
                "reset", "enable"},
         at : {"idle", "read", "store", "ips", "sync", "truncate", "fill", "readnets",
               "nets", "truncnets", "fillnets", "rmnets", "start"},
         typed : Seq(Typed), lines : Seq(Typed \cup Names),
         ips : SUBSET Addrs, nets : SUBSET Nets]
Lists == [on : BOOLEAN, locked : BOOLEAN, domains : Seq(Names),
          ips : SUBSET Addrs, nets : SUBSET Nets]

KernelType == kernel \in Lists /\ Len(kernel.domains) <= MaxDomains
PacketType ==
  /\ stage \in {"off", "up", "leaving", "wait", "unhook", "free", "freed"}
  /\ raced \in BOOLEAN
  /\ pkt \in [p : Packets \cup {<<>>}, at : Places, steady : BOOLEAN]
ProcType == proc \in [Procs -> Cmds]
FileType ==
  /\ sitesFile \in [there : BOOLEAN, lines : Seq(Names)]
  /\ Len(sitesFile.lines) <= MaxDomains
  /\ netsFile \in [there : BOOLEAN, nets : SUBSET Nets]
HistoryType ==
  /\ unloads \in 0..MaxUnloads
  /\ promised \in [known : BOOLEAN, names : SUBSET Names, nets : SUBSET Nets]

(* Where the module is says what it can have.  `raced' exempts a block that *)
(* began behind the back of the exit function, and what goes on under it.   *)
Stages ==
  /\ stage = "off" => kernel = NoLists
  /\ stage \in {"off", "up"} => ~raced
  /\ stage \notin {"off", "up"} /\ kernel.on => raced
  /\ stage \in {"unhook", "free", "freed"}
       /\ pkt.at \in {"allowed", "blocked", "domains", "name"} => raced

(* What a hook has found out by the place that it has reached. *)
Passed ==
  /\ pkt.at # "none" => pkt.p \in Packets
  /\ pkt.steady =>
       /\ pkt.at \in {"allowed", "blocked", "domains", "name"} => kernel.on
       /\ pkt.at \in {"blocked", "domains", "name"} =>
            \A n \in kernel.nets : pkt.p.dst \notin n
       /\ pkt.at \in {"domains", "name"} => pkt.p.dst \notin kernel.ips
       /\ pkt.at = "name" =>
            kernel.domains # <<>> /\ ~pkt.p.fragment /\ pkt.p.l4 = "tcp"

(* Which command is where, and with what. *)
Path(c) ==
  /\ c.at = "idle" <=> c = Free
  /\ c.cmd = "none" <=> c = Free
  /\ c.at = "read" => c.cmd \in {"add", "remove", "enable"}
  /\ c.at = "store" =>
       c.cmd \in {"block", "add", "remove", "reload", "reset", "enable"}
  /\ c.at = "sync" => c.cmd \in {"block", "add", "remove"}
  /\ c.at \in {"truncate", "fill"} =>
       /\ c.cmd \in {"block", "add", "remove", "reset"}
       /\ c.lines \in Seq(Names) /\ Len(c.lines) <= MaxDomains
  /\ c.at = "ips" => c.cmd \in {"block-ip", "reset"}
  /\ c.at = "nets" => c.cmd \in {"allow-ip", "reset", "enable"}
  /\ c.at \in {"truncnets", "fillnets"} => c.cmd = "allow-ip"
  /\ c.at = "rmnets" => c.cmd = "reset"
  /\ c.at \in {"readnets", "start"} => c.cmd = "enable"
  /\ c.cmd = "reload" => c.at = "store"
  /\ c.cmd = "reset" => c.lines = Defaults /\ c.nets = {}
  /\ c.cmd \in {"add", "remove"} => Len(c.typed) = 1
Paths == \A p \in Procs : Path(proc[p])

(* As long as it is known what was promised, commands have run one by one,  *)
(* none was cut off from the module half-way, and a block saw none begin    *)
(* but `reload', which cannot touch it.                                     *)
Alone ==
  \A p \in Procs : proc[p] # Free =>
    /\ \A q \in Procs : proc[q] # Free => q = p
    /\ stage \in {"off", "up", "leaving"}
    /\ proc[p].at \notin {"truncate", "fill", "rmnets"} => Sysfs
    /\ kernel.on => proc[p].cmd = "reload"

(* The files say what was promised, but for one that is being written, and  *)
(* what is in no file the kernel does not have either.                      *)
Some(places) == \E p \in Procs : proc[p].at \in places
Filed ==
  /\ Some({"fill"}) \/ promised.names = Range(sitesFile.lines)
  /\ Some({"fillnets"}) \/ promised.nets = netsFile.nets
  /\ sitesFile.lines = <<>> =>
       kernel.domains = <<>> \/ Some({"sync", "ips", "truncate", "fill"})
  /\ ~sitesFile.there => sitesFile.lines = <<>>
  /\ ~netsFile.there =>
       netsFile.nets = {} /\ (kernel.nets = {} \/ Some({"truncnets"}))

(* What a command that runs is about to write, or has written. *)
Edit(c) ==
  /\ c.at = "store" /\ c.cmd \in {"block", "add", "remove"} =>
       Range(Normalized(c.lines)) = NamesAfter(c)
  /\ c.at = "store" /\ c.cmd \in {"reload", "enable"} =>
       c.lines = sitesFile.lines /\ c.lines # <<>>
  /\ c.at = "ips" /\ c.cmd # "reset" /\ sitesFile.lines = <<>> => kernel.domains = <<>>
  /\ c.at = "ips" /\ c.cmd = "reset" => kernel.domains = c.lines
  /\ c.at = "sync" => Range(kernel.domains) = NamesAfter(c)
  /\ c.at \in {"truncate", "fill"} =>
       Range(c.lines) = NamesAfter(c) /\ kernel.domains \in {<<>>, c.lines}
  /\ c.at = "fill" => sitesFile.lines = <<>>
  /\ c.at = "fillnets" => netsFile.nets = {}
  /\ c.at = "rmnets" => kernel.nets = {}
  /\ c.cmd = "enable" /\ c.at \in {"readnets", "nets", "start"} =>
       kernel.domains = sitesFile.lines
  /\ c.cmd = "enable" /\ c.at = "nets" => c.nets = netsFile.nets
  /\ c.at = "start" => kernel.nets = netsFile.nets
Edits == \A p \in Procs : Edit(proc[p])

Said == promised.known => Alone /\ Filed /\ Edits

IInv == /\ TypeOK /\ Stages /\ Passed /\ VerdictRight /\ FixedWhileOn
        /\ Paths /\ Said /\ BlocksWhatWasSaid

-----------------------------------------------------------------------------
USE DEF kernelVars, fileVars, history

LEMMA Parts ==
  TypeOK <=> KernelType /\ PacketType /\ ProcType /\ FileType /\ HistoryType
BY DEF TypeOK, KernelType, PacketType, ProcType, FileType, HistoryType, Cmds, Lists

LEMMA Constants ==
  /\ NoLists \in Lists /\ Len(NoLists.domains) = 0 /\ NoLists.domains = <<>>
  /\ NoLists.nets = {} /\ ~NoLists.on /\ ~NoLists.locked
  /\ Free \in Cmds /\ NoPacket \in [p : Packets \cup {<<>>}, at : Places,
                                    steady : BOOLEAN]
  /\ Defaults \in Seq(Names) /\ Len(Defaults) <= MaxDomains
  /\ MaxDomains \in Nat
<1>1. <<>> \in Seq(Names) /\ <<>> \in Seq(Typed) /\ <<>> \in Seq(Typed \cup Names)
      /\ Len(<<>>) = 0
  BY EmptySeq
<1>2. MaxDomains \in Nat /\ Len(Defaults) <= MaxDomains
  BY NetfilterAssumption, SitesAssumption DEF Valid
<1>3. Defaults \in Seq(Names)
  <2>1. Defaults \in Seq(Seq(Chars))
    BY SitesAssumption
  <2>2. Defaults \in Seq(Range(Defaults))
    BY <2>1, SeqOfRange
  <2>3. Range(Defaults) \subseteq Names
    BY DEF Names
  <2> QED BY <2>2, <2>3, SeqMonotonic
<1>4. NoLists \in Lists /\ NoLists.domains = <<>> /\ NoLists.nets = {}
      /\ ~NoLists.on /\ ~NoLists.locked
  BY <1>1 DEF NoLists, Lists
<1>5. Free \in Cmds
  BY <1>1 DEF Free, Cmds
<1>6. NoPacket \in [p : Packets \cup {<<>>}, at : Places, steady : BOOLEAN]
  BY DEF NoPacket, Places, Judged
<1> QED BY <1>1, <1>2, <1>3, <1>4, <1>5, <1>6

(* What changes the kernel at all. *)
LEMMA KernelTypeStep ==
  ASSUME IInv, Next
  PROVE  KernelType'
<1>1. KernelType /\ ProcType /\ FileType
  BY Parts DEF IInv
<1>2. kernel.domains \in Seq(Names) /\ kernel = [kernel EXCEPT !.on = kernel.on]
  BY <1>1 DEF KernelType, Lists
<1>3. CASE \E p \in Procs : Begins(p)
  BY <1>1, <1>3 DEF Begins, BlockSites, Add, Remove, BlockIp, AllowIp, Reload, Reset,
     Enable, Begin, KernelType
<1>4. CASE \E p \in Procs : \/ Read(p) \/ Sync(p) \/ Truncate(p) \/ Fill(p)
                            \/ ReadNets(p) \/ TruncateNets(p) \/ FillNets(p)
                            \/ RemoveNets(p) \/ Kill(p)
  BY <1>1, <1>4 DEF Read, Sync, Truncate, Fill, ReadNets, TruncateNets, FillNets,
     RemoveNets, Kill, OnlyProc, KernelType
<1>5. ASSUME NEW p \in Procs, Store(p)
      PROVE  KernelType'
  <2>1. proc[p].lines \in Seq(Typed \cup Names)
    BY <1>1 DEF ProcType, Cmds
  <2>2. CASE Valid(proc[p].lines)
    <3>1. /\ Normalized(proc[p].lines) \in Seq(Names)
          /\ Len(Normalized(proc[p].lines)) <= MaxDomains
      BY <2>1, <2>2, NormalizedType DEF Valid
    <3>2. kernel' \in {kernel, [kernel EXCEPT !.domains = Normalized(proc[p].lines)]}
      BY <1>5 DEF Store, SetKernel, StoredDomains
    <3> QED BY <1>1, <3>1, <3>2 DEF KernelType, Lists
  <2>3. CASE ~Valid(proc[p].lines)
    BY <1>1, <1>5, <2>3 DEF Store, SetKernel, KernelType
  <2> QED BY <2>2, <2>3
<1>6. ASSUME NEW p \in Procs, StoreIps(p) \/ StoreNets(p) \/ Start(p)
      PROVE  KernelType'
  <2>1. proc[p].ips \in SUBSET Addrs /\ proc[p].nets \in SUBSET Nets
    BY <1>1 DEF ProcType, Cmds
  <2>2. CASE StoreIps(p)
    BY <1>1, <2>1, <2>2 DEF StoreIps, SetKernel, StoredIps, KernelType, Lists
  <2>3. CASE StoreNets(p)
    BY <1>1, <2>1, <2>3 DEF StoreNets, SetKernel, StoredNets, KernelType, Lists
  <2>4. CASE Start(p)
    BY <1>1, <2>4 DEF Start, SetKernel, KernelType, Lists
  <2> QED BY <1>6, <2>2, <2>3, <2>4
<1>7. CASE End \/ Rmmod \/ SysfsGone
  BY <1>1, <1>7 DEF End, Rmmod, SysfsGone, Leave, RemoveSysfs, SetKernel, KernelType, Lists
<1>8. CASE PowerLoss
  <2>1. RestoredLists(kernel) = kernel
    BY <1>1, NamesStay DEF RestoredLists, KernelType, Lists
  <2> QED BY <1>1, <1>8, <2>1, Constants DEF PowerLoss, KernelType
<1>9. CASE Kernel
  BY <1>1, <1>9, Constants DEF Kernel, Hook, Load, Unload, Wait, CleanupNetfilter,
     FreeLists, Unloaded, Arrive, Depart, Enter, CheckAllowed, CheckBlocked,
     CheckDomains, CheckName, OnlyPacket, SetKernel, KernelType
<1> QED BY <1>3, <1>4, <1>5, <1>6, <1>7, <1>8, <1>9 DEF Next, Runs

LEMMA PacketTypeStep ==
  ASSUME IInv, Next
  PROVE  PacketType'
<1>1. PacketType /\ KernelType
  BY Parts DEF IInv
<1>2. CASE \E p \in Procs : Begins(p)
  BY <1>1, <1>2 DEF Begins, BlockSites, Add, Remove, BlockIp, AllowIp, Reload, Reset,
     Enable, Begin, PacketType
<1>3. CASE \E p \in Procs : \/ Read(p) \/ Sync(p) \/ Truncate(p) \/ Fill(p)
                            \/ ReadNets(p) \/ TruncateNets(p) \/ FillNets(p)
                            \/ RemoveNets(p) \/ Kill(p)
  BY <1>1, <1>3 DEF Read, Sync, Truncate, Fill, ReadNets, TruncateNets, FillNets,
     RemoveNets, Kill, OnlyProc, PacketType
<1>4. ASSUME UNCHANGED <<stage, raced>>, NEW k, SetKernel(k)
      PROVE  PacketType'
  BY <1>1, <1>4 DEF PacketType, SetKernel
<1>5. CASE \E p \in Procs : Store(p) \/ StoreIps(p) \/ StoreNets(p)
  BY <1>4, <1>5 DEF Store, StoreIps, StoreNets, Still
<1>6. CASE \E p \in Procs : Start(p)
  BY <1>1, <1>6 DEF Start, SetKernel, PacketType
<1>7. CASE End
  BY <1>4, <1>7 DEF End, Still
<1>8. CASE PowerLoss \/ Rmmod \/ SysfsGone
  BY <1>1, <1>8, Constants DEF PowerLoss, Rmmod, SysfsGone, Leave, RemoveSysfs, PacketType
<1>9. CASE Load \/ Unload
  BY <1>1, <1>9 DEF Load, Unload, Wait, CleanupNetfilter, FreeLists, Unloaded, SetKernel,
     PacketType
<1>10. CASE \E p \in Packets : Arrive(p)
  BY <1>1, <1>10 DEF Arrive, OnlyPacket, PacketType, Places
<1>11. CASE Hook
  <2>1. /\ UNCHANGED <<stage, raced>>
        /\ pkt' = NoPacket \/ \E at \in Places : pkt' = [pkt EXCEPT !.at = at]
    <3>1. CASE Depart \/ Enter \/ CheckAllowed \/ CheckBlocked \/ CheckName
      BY <3>1 DEF Depart, Enter, CheckAllowed, CheckBlocked, CheckName, OnlyPacket,
         ToPlace, Places, Judged
    <3>2. CASE CheckDomains
      <4>1. pkt.p.l4 \in {"tcp", "quic", "other"}
        BY <3>2, NetfilterAssumption DEF CheckDomains, IInv, Passed
      <4>2. CASE kernel.domains = <<>> \/ pkt.p.fragment
        BY <3>2, <4>2 DEF CheckDomains, OnlyPacket, ToPlace, Places, Judged
      <4>3. CASE ~ (kernel.domains = <<>> \/ pkt.p.fragment)
        BY <3>2, <4>1, <4>3 DEF CheckDomains, OnlyPacket, ToPlace, Places, Judged
      <4> QED BY <4>2, <4>3
    <3> QED BY <1>11, <3>1, <3>2 DEF Hook
  <2> QED BY <1>1, <2>1, Constants DEF PacketType
<1> QED BY <1>2, <1>3, <1>5, <1>6, <1>7, <1>8, <1>9, <1>10, <1>11
        DEF Next, Runs, Kernel

(* A command is begun, goes on, or leaves. *)
LEMMA ProcMoves ==
  ASSUME ProcType, NEW p \in Procs
  PROVE  /\ Exit(p) => ProcType'
         /\ \A place \in {"read", "store", "ips", "sync", "truncate", "fill", "readnets",
                          "nets", "truncnets", "fillnets", "rmnets", "start"} :
              Goto(p, place) => ProcType'
         /\ \A c \in Cmds : proc' = [proc EXCEPT ![p] = c] => ProcType'
<1>1. \A c \in Cmds : proc' = [proc EXCEPT ![p] = c] => ProcType'
  BY DEF ProcType
<1>2. proc[p] \in Cmds
  BY DEF ProcType
<1>3. ASSUME NEW place \in {"read", "store", "ips", "sync", "truncate", "fill",
                           "readnets", "nets", "truncnets", "fillnets", "rmnets",
                           "start"},
             Goto(p, place)
      PROVE  ProcType'
  <2>1. [proc[p] EXCEPT !.at = place] \in Cmds
    BY <1>2 DEF Cmds
  <2>2. proc' = [proc EXCEPT ![p] = [proc[p] EXCEPT !.at = place]]
    BY <1>3 DEF Goto
  <2> QED BY <1>1, <2>1, <2>2
<1> QED BY <1>1, <1>3, Constants DEF Exit

LEMMA ReadMoves ==
  ASSUME IInv, NEW p \in Procs, Read(p)
  PROVE  LET c == proc[p]  d == c.typed[1] IN
         /\ c.at = "read"
         /\ \/ c.cmd \in {"add", "remove"} /\ Exit(p)
            \/ /\ c.cmd = "add"
               /\ proc' = [proc EXCEPT ![p] = [c EXCEPT !.at = "store",
                                                       !.lines = Append(Current, d)]]
            \/ /\ c.cmd = "remove" /\ d \in Range(Current)
               /\ proc' = [proc EXCEPT ![p] = [c EXCEPT !.at = "store",
                                                       !.lines = Others(Current, d)]]
            \/ /\ c.cmd = "enable"
               /\ proc' = [proc EXCEPT ![p] =
                     [c EXCEPT !.at = IF sitesFile.lines = <<>> THEN "readnets"
                                                                ELSE "store",
                               !.lines = sitesFile.lines]]
<1>1. proc[p].at = "read" /\ proc[p].cmd \in {"add", "remove", "enable"}
  BY DEF Read, IInv, Paths, Path
<1>2. proc \in [Procs -> Cmds]
  BY Parts DEF IInv, ProcType
<1>3. CASE proc[p].cmd = "add"
  BY <1>1, <1>2, <1>3 DEF Read
<1>4. CASE proc[p].cmd = "remove"
  BY <1>1, <1>2, <1>4 DEF Read
<1>5. CASE proc[p].cmd = "enable"
  BY <1>1, <1>2, <1>5 DEF Read
<1> QED BY <1>1, <1>3, <1>4, <1>5

LEMMA ProcTypeStep ==
  ASSUME IInv, Next
  PROVE  ProcType'
<1>1. ProcType /\ KernelType /\ FileType
  BY Parts DEF IInv
<1> DEFINE Both == Typed \cup Names
<1>2. /\ \A lines \in Seq(Typed) : lines \in Seq(Both)
      /\ \A lines \in Seq(Names) : lines \in Seq(Both)
      /\ \A d \in Typed : <<d>> \in Seq(Typed)
  BY SeqMonotonic
<1>3. ASSUME NEW p \in Procs, Begins(p)
      PROVE  ProcType'
  <2>1. ASSUME NEW c \in Cmds, Begin(p, c)
        PROVE  ProcType'
    BY <1>1, <2>1, ProcMoves DEF Begin
  <2>2. ASSUME NEW typed \in BlockArgs, BlockSites(p, typed)
        PROVE  ProcType'
    <3>1. typed \in Seq(Typed) /\ typed \in Seq(Both)
      BY <1>2, SitesAssumption
    <3> QED BY <2>1, <2>2, <3>1, Constants DEF BlockSites, Command, Cmds, Free
  <2>3. ASSUME NEW d \in Single, Add(p, d) \/ Remove(p, d)
        PROVE  ProcType'
    <3>1. <<d>> \in Seq(Typed)
      BY <1>2, SitesAssumption
    <3> QED BY <2>1, <2>3, <3>1, Constants DEF Add, Remove, Command, Cmds, Free
  <2>4. ASSUME NEW ips \in IpArgs, BlockIp(p, ips)
        PROVE  ProcType'
    <3>1. ips \in SUBSET Addrs
      BY SitesAssumption
    <3> QED BY <2>1, <2>4, <3>1, Constants DEF BlockIp, Command, Cmds, Free
  <2>5. ASSUME NEW nets \in NetArgs, AllowIp(p, nets)
        PROVE  ProcType'
    <3>1. nets \in SUBSET Nets
      BY SitesAssumption DEF Nets
    <3> QED BY <2>1, <2>5, <3>1, Constants DEF AllowIp, Command, Cmds, Free
  <2>6. CASE Reload(p)
    <3>1. sitesFile.lines \in Seq(Both)
      BY <1>1, <1>2 DEF FileType
    <3> QED BY <2>1, <2>6, <3>1, Constants DEF Reload, Command, Cmds, Free
  <2>7. CASE Reset(p)
    <3>1. Defaults \in Seq(Both)
      BY <1>2, Constants
    <3> QED BY <2>1, <2>7, <3>1, Constants DEF Reset, Command, Cmds, Free
  <2>8. CASE Enable(p)
    BY <2>1, <2>8, Constants DEF Enable, Command, Cmds, Free
  <2> QED BY <1>3, <2>2, <2>3, <2>4, <2>5, <2>6, <2>7, <2>8 DEF Begins
<1>4. ASSUME NEW p \in Procs, Read(p)
      PROVE  ProcType'
  <2>1. Current \in Seq(Names) /\ sitesFile.lines \in Seq(Both)
    BY <1>1, <1>2 DEF Current, FileType, KernelType, Lists
  <2>2. proc[p] \in Cmds
    BY <1>1 DEF ProcType
  <2>3. ASSUME proc[p].cmd \in {"add", "remove"}
        PROVE  proc[p].typed[1] \in Typed
    BY <1>4, <2>2, <2>3 DEF IInv, Paths, Path, Cmds
  <2>4. CASE proc[p].cmd = "add"
    <3>1. Append(Current, proc[p].typed[1]) \in Seq(Both)
      BY <1>2, <2>1, <2>3, <2>4, AppendProperties
    <3>2. [proc[p] EXCEPT !.at = "store", !.lines = Append(Current, proc[p].typed[1])]
            \in Cmds
      BY <2>2, <3>1 DEF Cmds
    <3> QED BY <1>1, <1>4, <2>4, <3>2, ProcMoves, ReadMoves
  <2>5. CASE proc[p].cmd = "remove"
    <3>1. Others(Current, proc[p].typed[1]) \in Seq(Both)
      BY <1>2, <2>1, OthersWorks
    <3>2. [proc[p] EXCEPT !.at = "store", !.lines = Others(Current, proc[p].typed[1])]
            \in Cmds
      BY <2>2, <3>1 DEF Cmds
    <3> QED BY <1>1, <1>4, <2>5, <3>2, ProcMoves, ReadMoves
  <2>6. CASE proc[p].cmd = "enable"
    <3>1. \A place \in {"readnets", "store"} :
            [proc[p] EXCEPT !.at = place, !.lines = sitesFile.lines] \in Cmds
      BY <2>1, <2>2 DEF Cmds
    <3> QED BY <1>1, <1>4, <2>6, <3>1, ProcMoves, ReadMoves
  <2> QED BY <1>4, <2>4, <2>5, <2>6 DEF Read, IInv, Paths, Path
<1>5. ASSUME NEW p \in Procs, Store(p) \/ StoreIps(p) \/ StoreNets(p) \/ Truncate(p)
                              \/ Fill(p) \/ TruncateNets(p) \/ FillNets(p)
                              \/ RemoveNets(p) \/ Start(p) \/ Kill(p)
      PROVE  ProcType'
  <2>1. CASE Store(p)
    <3>1. proc[p].cmd \in {"block", "add", "remove", "reload", "reset", "enable"}
      BY <2>1 DEF Store, IInv, Paths, Path
    <3> QED BY <1>1, <2>1, <3>1, ProcMoves DEF Store, Continue, AfterStore, ResetNets
  <2>2. CASE StoreIps(p) \/ StoreNets(p) \/ Fill(p)
    BY <1>1, <2>2, ProcMoves DEF StoreIps, StoreNets, Fill, ResetNets
  <2>3. CASE \/ Truncate(p) \/ TruncateNets(p) \/ FillNets(p) \/ RemoveNets(p)
             \/ Start(p) \/ Kill(p)
    BY <1>1, <2>3, ProcMoves DEF Truncate, TruncateNets, FillNets, RemoveNets, Start, Kill
  <2> QED BY <1>5, <2>1, <2>2, <2>3
<1>6. ASSUME NEW p \in Procs, Sync(p) \/ ReadNets(p)
      PROVE  ProcType'
  <2>1. kernel.domains \in Seq(Both) /\ netsFile.nets \in SUBSET Nets
    BY <1>1, <1>2 DEF KernelType, Lists, FileType
  <2>2. proc[p] \in Cmds
    BY <1>1 DEF ProcType
  <2>3. [proc[p] EXCEPT !.at = "truncate", !.lines = kernel.domains] \in Cmds
    BY <2>1, <2>2 DEF Cmds
  <2>4. \A place \in {"nets", "start"} :
          [proc[p] EXCEPT !.at = place, !.nets = netsFile.nets] \in Cmds
    BY <2>1, <2>2 DEF Cmds
  <2>5. CASE Sync(p)
    <3>1. proc' = [proc EXCEPT ![p] =
                     [proc[p] EXCEPT !.at = "truncate", !.lines = kernel.domains]]
      BY <1>1, <2>5 DEF Sync, ProcType
    <3> QED BY <1>1, <2>3, <3>1, ProcMoves
  <2>6. CASE ReadNets(p)
    <3>1. PICK place \in {"nets", "start"} :
            proc' = [proc EXCEPT ![p] =
                       [proc[p] EXCEPT !.at = place, !.nets = netsFile.nets]]
      BY <1>1, <2>6 DEF ReadNets, ProcType
    <3> QED BY <1>1, <2>4, <3>1, ProcMoves
  <2> QED BY <1>6, <2>5, <2>6
<1>7. CASE End \/ PowerLoss \/ Rmmod \/ SysfsGone \/ (Kernel /\ UNCHANGED proc)
  BY <1>1, <1>7, Constants DEF End, PowerLoss, Rmmod, SysfsGone, ProcType
<1> QED BY <1>3, <1>4, <1>5, <1>6, <1>7 DEF Next, Runs

LEMMA FileTypeStep ==
  ASSUME IInv, Next
  PROVE  FileType'
<1>1. ProcType /\ FileType
  BY Parts DEF IInv
<1>2. ASSUME UNCHANGED fileVars
      PROVE  FileType'
  BY <1>1, <1>2 DEF FileType
<1>3. CASE \E p \in Procs : Begins(p)
  BY <1>2, <1>3 DEF Begins, BlockSites, Add, Remove, BlockIp, AllowIp, Reload, Reset,
     Enable, Begin
<1>4. CASE \E p \in Procs : \/ Read(p) \/ Store(p) \/ Sync(p) \/ StoreIps(p)
                            \/ ReadNets(p) \/ StoreNets(p) \/ Start(p) \/ Kill(p)
  BY <1>2, <1>4 DEF Read, Store, Sync, StoreIps, ReadNets, StoreNets, Start, Kill, OnlyProc
<1>5. ASSUME NEW p \in Procs, Truncate(p) \/ Fill(p)
      PROVE  FileType'
  <2>1. CASE Truncate(p)
    BY <1>1, <2>1, EmptySeq, Constants DEF Truncate, FileType
  <2>2. CASE Fill(p)
    <3>1. proc[p].lines \in Seq(Names) /\ Len(proc[p].lines) <= MaxDomains
      BY <2>2 DEF Fill, IInv, Paths, Path
    <3> QED BY <1>1, <2>2, <3>1 DEF Fill, FileType
  <2> QED BY <1>5, <2>1, <2>2
<1>6. ASSUME NEW p \in Procs, TruncateNets(p) \/ FillNets(p) \/ RemoveNets(p)
      PROVE  FileType'
  <2>1. proc[p].nets \in SUBSET Nets
    BY <1>1 DEF ProcType, Cmds
  <2>2. /\ UNCHANGED sitesFile
        /\ \E there \in BOOLEAN, nets \in {{}, proc[p].nets} :
             netsFile' = [there |-> there, nets |-> nets]
    BY <1>6 DEF TruncateNets, FillNets, RemoveNets, NoNets
  <2> QED BY <1>1, <2>1, <2>2 DEF FileType
<1>7. CASE \/ End \/ PowerLoss \/ Rmmod \/ SysfsGone
           \/ (Kernel /\ UNCHANGED <<proc, fileVars, history>>)
  BY <1>2, <1>7 DEF End, PowerLoss, Rmmod, SysfsGone
<1> QED BY <1>3, <1>4, <1>5, <1>6, <1>7 DEF Next, Runs

LEMMA HistoryTypeStep ==
  ASSUME IInv, Next
  PROVE  HistoryType'
<1>1. ProcType /\ HistoryType
  BY Parts DEF IInv
<1>2. Unknown \in [known : BOOLEAN, names : SUBSET Names, nets : SUBSET Nets]
  BY DEF Unknown
<1>3. ASSUME unloads' = unloads, promised' \in {promised, Unknown}
      PROVE  HistoryType'
  BY <1>1, <1>2, <1>3 DEF HistoryType
<1>4. CASE \E p \in Procs : Begins(p)
  BY <1>3, <1>4 DEF Begins, BlockSites, Add, Remove, BlockIp, AllowIp, Reload, Reset,
     Enable, Begin, MuddledIf
<1>5. CASE \E p \in Procs : \/ Read(p) \/ Store(p) \/ Sync(p) \/ StoreIps(p)
                            \/ ReadNets(p) \/ StoreNets(p) \/ Start(p) \/ Kill(p)
                            \/ Truncate(p) \/ TruncateNets(p)
  BY <1>3, <1>5 DEF Read, Store, Sync, StoreIps, ReadNets, StoreNets, Start, Kill,
     Truncate, TruncateNets, OnlyProc, MuddledIf
<1>6. ASSUME NEW p \in Procs, Fill(p)
      PROVE  HistoryType'
  <2>1. CASE ~promised.known
    BY <1>3, <1>6, <2>1 DEF Fill, Promise
  <2>2. CASE promised.known
    <3>1. NamesAfter(proc[p]) = Range(proc[p].lines) /\ proc[p].lines \in Seq(Names)
      BY <1>6, <2>2 DEF Fill, IInv, Said, Edits, Edit, Paths, Path
    <3>2. NamesAfter(proc[p]) \in SUBSET Names
      BY <3>1, RangeOfSeq
    <3> QED BY <1>1, <1>6, <2>2, <3>2 DEF Fill, Promise, HistoryType
  <2> QED BY <2>1, <2>2
<1>7. ASSUME NEW p \in Procs, FillNets(p) \/ RemoveNets(p)
      PROVE  HistoryType'
  <2>1. proc[p].nets \in SUBSET Nets /\ {} \in SUBSET Nets
    BY <1>1 DEF ProcType, Cmds
  <2>2. CASE ~promised.known
    BY <1>3, <1>7, <2>2 DEF FillNets, RemoveNets, Promise
  <2>3. CASE promised.known
    BY <1>1, <1>7, <2>1, <2>3 DEF FillNets, RemoveNets, Promise, HistoryType
  <2> QED BY <2>2, <2>3
<1>8. CASE End \/ SysfsGone \/ (Kernel /\ UNCHANGED <<proc, fileVars, history>>)
  BY <1>3, <1>8 DEF End, SysfsGone, MuddledIf
<1>9. CASE PowerLoss \/ Rmmod
  <2>1. unloads' \in 0..MaxUnloads /\ promised' \in {promised, Unknown}
    BY <1>1, <1>9, SitesAssumption DEF PowerLoss, Rmmod, MuddledIf, HistoryType
  <2> QED BY <1>1, <1>2, <2>1 DEF HistoryType
<1> QED BY <1>4, <1>5, <1>6, <1>7, <1>8, <1>9 DEF Next, Runs

(* Where the module is, and what it may have there. *)
LEMMA StagesStep ==
  ASSUME IInv, Next
  PROVE  Stages'
<1>1. Stages /\ Passed /\ KernelType /\ ProcType /\ PacketType /\ FixedWhileOn
  BY Parts DEF IInv
<1>2. ASSUME UNCHANGED <<stage, raced, kernel, pkt>>
      PROVE  Stages'
  BY <1>1, <1>2 DEF Stages
<1>3. CASE \E p \in Procs : Begins(p)
  BY <1>2, <1>3 DEF Begins, BlockSites, Add, Remove, BlockIp, AllowIp, Reload, Reset,
     Enable, Begin
<1>4. CASE \E p \in Procs : \/ Read(p) \/ Sync(p) \/ Truncate(p) \/ Fill(p)
                            \/ ReadNets(p) \/ TruncateNets(p) \/ FillNets(p)
                            \/ RemoveNets(p) \/ Kill(p)
  BY <1>2, <1>4 DEF Read, Sync, Truncate, Fill, ReadNets, TruncateNets, FillNets,
     RemoveNets, Kill, OnlyProc
<1>5. ASSUME NEW k, SetKernel(k), UNCHANGED <<stage, raced>>,
             stage \in {"up", "leaving"} \/ k = kernel,
             k.on => kernel.on
      PROVE  Stages'
  BY <1>1, <1>5 DEF Stages, SetKernel, PacketType
<1>6. ASSUME NEW p \in Procs, Store(p) \/ StoreIps(p) \/ StoreNets(p)
      PROVE  Stages'
  <2>1. ASSUME NEW domains, NEW ips, NEW nets
        PROVE  /\ [kernel EXCEPT !.domains = domains].on = kernel.on
               /\ [kernel EXCEPT !.ips = ips].on = kernel.on
               /\ [kernel EXCEPT !.nets = nets].on = kernel.on
    BY <1>1 DEF KernelType, Lists
  <2>2. CASE Store(p)
    BY <1>5, <2>1, <2>2 DEF Store, Still, Refused, Sysfs, StoredDomains
  <2>3. CASE StoreIps(p)
    BY <1>5, <2>1, <2>3 DEF StoreIps, Still, Refused, Sysfs, StoredIps
  <2>4. CASE StoreNets(p)
    BY <1>5, <2>1, <2>4 DEF StoreNets, Still, Refused, Sysfs, StoredNets
  <2> QED BY <1>6, <2>2, <2>3, <2>4
<1>7. ASSUME NEW p \in Procs, Start(p)
      PROVE  Stages'
  BY <1>1, <1>2, <1>7 DEF Start, Stages, SetKernel, PacketType, Refused, Sysfs
<1>8. CASE End
  BY <1>1, <1>8 DEF End, SetKernel, Still, Stages, KernelType, Lists, Sysfs, PacketType
<1>9. CASE PowerLoss \/ Rmmod \/ SysfsGone
  BY <1>1, <1>9, Constants DEF PowerLoss, Rmmod, SysfsGone, Leave, RemoveSysfs, Stages,
     NoPacket
<1>10. CASE Load \/ Unload
  <2>1. CASE Load \/ Unloaded
    BY <1>1, <2>1, Constants DEF Load, Unloaded, SetKernel, Stages, PacketType
  <2>2. CASE Wait \/ CleanupNetfilter \/ FreeLists
    BY <1>1, <2>2 DEF Wait, CleanupNetfilter, FreeLists, Stages
  <2> QED BY <1>10, <2>1, <2>2 DEF Unload
<1>11. CASE \E p \in Packets : Arrive(p)
  BY <1>1, <1>11 DEF Arrive, OnlyPacket, Stages
<1>12. CASE Hook
  BY <1>1, <1>12 DEF Hook, Depart, Enter, CheckAllowed, CheckBlocked, CheckDomains,
     CheckName, OnlyPacket, ToPlace, Stages, PacketType, NoPacket
<1> QED BY <1>3, <1>4, <1>6, <1>7, <1>8, <1>9, <1>10, <1>11, <1>12
        DEF Next, Runs, Kernel

(* What the steps other than the hook's do to a packet. *)
LEMMA PacketWaits ==
  ASSUME IInv, Next
  PROVE  \/ UNCHANGED <<kernel, pkt>>
         \/ pkt' = NoPacket
         \/ /\ pkt'.p = pkt.p /\ pkt'.at = pkt.at
            /\ pkt'.steady => pkt.steady /\ kernel' = kernel
         \/ (Hook \/ \E p \in Packets : Arrive(p))
<1>1. PacketType
  BY Parts DEF IInv
<1>2. ASSUME NEW k, SetKernel(k)
      PROVE  /\ pkt'.p = pkt.p /\ pkt'.at = pkt.at
             /\ pkt'.steady => pkt.steady /\ kernel' = kernel
  BY <1>1, <1>2 DEF SetKernel, PacketType
<1>3. CASE \E p \in Procs : Begins(p)
  BY <1>3 DEF Begins, BlockSites, Add, Remove, BlockIp, AllowIp, Reload, Reset,
     Enable, Begin, kernelVars
<1>4. CASE \E p \in Procs : \/ Read(p) \/ Sync(p) \/ Truncate(p) \/ Fill(p)
                            \/ ReadNets(p) \/ TruncateNets(p) \/ FillNets(p)
                            \/ RemoveNets(p) \/ Kill(p)
  BY <1>4 DEF Read, Sync, Truncate, Fill, ReadNets, TruncateNets, FillNets,
     RemoveNets, Kill, OnlyProc
<1>5. CASE \E p \in Procs : Store(p) \/ StoreIps(p) \/ StoreNets(p) \/ Start(p)
  BY <1>2, <1>5 DEF Store, StoreIps, StoreNets, Start
<1>6. CASE End \/ Load \/ Unloaded
  BY <1>2, <1>6 DEF End, Load, Unloaded
<1>7. CASE PowerLoss \/ Rmmod \/ SysfsGone \/ Wait \/ CleanupNetfilter \/ FreeLists
  BY <1>7 DEF PowerLoss, Rmmod, SysfsGone, Leave, RemoveSysfs, Wait, CleanupNetfilter,
     FreeLists
<1> QED BY <1>3, <1>4, <1>5, <1>6, <1>7 DEF Next, Runs, Kernel, Unload

LEMMA PassedStep ==
  ASSUME IInv, Next
  PROVE  Passed'
<1>1. Passed /\ PacketType
  BY Parts DEF IInv
<1>2. CASE UNCHANGED <<kernel, pkt>>
  BY <1>1, <1>2 DEF Passed
<1>3. CASE pkt' = NoPacket
  BY <1>1, <1>3 DEF Passed, NoPacket
<1>4. CASE /\ pkt'.p = pkt.p /\ pkt'.at = pkt.at
           /\ pkt'.steady => pkt.steady /\ kernel' = kernel
  BY <1>1, <1>4 DEF Passed
<1>5. CASE \E p \in Packets : Arrive(p)
  BY <1>1, <1>5 DEF Arrive, OnlyPacket, Passed
<1>6. CASE Hook
  <2>1. CASE Depart
    BY <2>1, <1>3 DEF Depart
  <2>2. CASE Enter \/ CheckAllowed \/ CheckBlocked \/ CheckName
    BY <1>1, <2>2 DEF Enter, CheckAllowed, CheckBlocked, CheckName, OnlyPacket, ToPlace,
       Passed, PacketType
  <2>3. CASE CheckDomains
    <3>1. pkt.at = "domains" /\ UNCHANGED kernel /\ pkt'.p = pkt.p
          /\ pkt'.steady = pkt.steady
      BY <1>1, <2>3 DEF CheckDomains, OnlyPacket, ToPlace, PacketType
    <3>2. pkt.p.l4 \in {"tcp", "quic", "other"}
      BY <1>1, <3>1, NetfilterAssumption DEF Passed
    <3>3. \/ pkt'.at \in {"accept", "drop"}
          \/ /\ pkt'.at = "name" /\ pkt.p.l4 = "tcp" /\ kernel.domains # <<>>
             /\ ~pkt.p.fragment
      <4>1. CASE kernel.domains = <<>> \/ pkt.p.fragment
        BY <1>1, <2>3, <4>1 DEF CheckDomains, ToPlace, PacketType
      <4>2. CASE ~ (kernel.domains = <<>> \/ pkt.p.fragment)
        BY <1>1, <2>3, <3>2, <4>2 DEF CheckDomains, ToPlace, PacketType
      <4> QED BY <4>1, <4>2
    <3> QED BY <1>1, <3>1, <3>3 DEF Passed
  <2> QED BY <1>6, <2>1, <2>2, <2>3 DEF Hook
<1> QED BY <1>2, <1>3, <1>4, <1>5, <1>6, PacketWaits

(* The verdict is taken where the hook leaves. *)
LEMMA VerdictStep ==
  ASSUME IInv, Next
  PROVE  VerdictRight'
<1>1. VerdictRight /\ Passed /\ PacketType /\ KernelType
  BY Parts DEF IInv
<1>2. CASE UNCHANGED <<kernel, pkt>>
  BY <1>1, <1>2 DEF VerdictRight, ToBeDropped
<1>3. CASE pkt' = NoPacket
  BY <1>3 DEF VerdictRight, NoPacket, Judged
<1>4. CASE /\ pkt'.p = pkt.p /\ pkt'.at = pkt.at
           /\ pkt'.steady => pkt.steady /\ kernel' = kernel
  BY <1>1, <1>4 DEF VerdictRight, ToBeDropped
<1>5. CASE \E p \in Packets : Arrive(p)
  BY <1>5 DEF Arrive, VerdictRight, Judged
<1>6. CASE Hook
  <2>1. CASE Depart
    BY <1>3, <2>1 DEF Depart
  <2>2. ASSUME Enter \/ CheckAllowed \/ CheckBlocked \/ CheckDomains \/ CheckName
        PROVE  /\ UNCHANGED kernel /\ pkt'.p = pkt.p /\ pkt'.steady = pkt.steady
               /\ pkt.at # "none" /\ pkt.p \in Packets
    <3>1. /\ UNCHANGED kernel /\ pkt'.p = pkt.p /\ pkt'.steady = pkt.steady
          /\ pkt.at # "none"
      BY <1>1, <2>2 DEF Enter, CheckAllowed, CheckBlocked, CheckDomains, CheckName,
         OnlyPacket, ToPlace, PacketType
    <3> QED BY <1>1, <3>1 DEF Passed
  <2>3. SUFFICES ASSUME Enter \/ CheckAllowed \/ CheckBlocked \/ CheckDomains \/ CheckName,
                        pkt'.at \in Judged, pkt.steady, pkt.p \in Packets
                 PROVE  (pkt'.at = "drop") = ToBeDropped(pkt.p)
    BY <1>3, <1>6, <2>1, <2>2 DEF Hook, VerdictRight, ToBeDropped
  <2>4. ToBeDropped(pkt.p) \in BOOLEAN
    BY DEF ToBeDropped
  <2>5. CASE Enter
    BY <1>1, <2>3, <2>4, <2>5 DEF Enter, ToPlace, PacketType, ToBeDropped, Judged
  <2>6. CASE CheckAllowed
    BY <1>1, <2>3, <2>4, <2>6 DEF CheckAllowed, ToPlace, PacketType, ToBeDropped,
       Judged
  <2>7. CASE CheckBlocked
    BY <1>1, <2>3, <2>4, <2>7 DEF CheckBlocked, ToPlace, PacketType, ToBeDropped,
       Judged, Passed
  <2>8. CASE CheckDomains
    <3>1. pkt.p.l4 \in {"tcp", "quic", "other"}
      BY <2>3, NetfilterAssumption
    <3>2. /\ kernel.on /\ pkt.p.dst \notin kernel.ips
          /\ \A n \in kernel.nets : pkt.p.dst \notin n
      BY <1>1, <2>3, <2>8 DEF CheckDomains, Passed
    <3>3. CASE kernel.domains = <<>> \/ pkt.p.fragment
      BY <1>1, <2>3, <2>8, <3>2, <3>3 DEF CheckDomains, ToPlace, PacketType, ToBeDropped
    <3>4. CASE ~ (kernel.domains = <<>> \/ pkt.p.fragment)
      BY <1>1, <2>3, <2>8, <3>1, <3>2, <3>4 DEF CheckDomains, ToPlace, PacketType,
         ToBeDropped, Judged
    <3> QED BY <3>3, <3>4
  <2>9. CASE CheckName
    <3> DEFINE host == SniExtract(pkt.p)
    <3>1. /\ kernel.on /\ pkt.p.dst \notin kernel.ips
          /\ \A n \in kernel.nets : pkt.p.dst \notin n
          /\ kernel.domains # <<>> /\ ~pkt.p.fragment /\ pkt.p.l4 = "tcp"
      BY <1>1, <2>3, <2>9 DEF CheckName, Passed
    <3>2. host \in Seq(Chars)
      BY <2>3, NetfilterAssumption, EmptySeq DEF SniExtract, NoName
    <3>3. Range(kernel.domains) \subseteq Names
      BY <1>1, RangeOfSeq DEF KernelType, Lists
    <3>4. ListContains(host) <=> \E d \in Range(kernel.domains) : BelongsTo(host, d)
      BY <3>2, <3>3, MatchIsBelonging DEF ListContains
    <3>5. ToBeDropped(pkt.p) <=> host # NoName /\ ListContains(host)
      BY <3>1, <3>4 DEF ToBeDropped
    <3>6. pkt'.at = IF host # NoName /\ ListContains(host) THEN "drop" ELSE "accept"
      BY <1>1, <2>9 DEF CheckName, ToPlace, PacketType
    <3> QED BY <2>3, <2>4, <3>5, <3>6
  <2> QED BY <2>3, <2>5, <2>6, <2>7, <2>8, <2>9
<1> QED BY <1>2, <1>3, <1>4, <1>5, <1>6, PacketWaits

(* Nothing is written to the lists of a block, and it comes back with them. *)
LEMMA FixedStep ==
  ASSUME IInv, Next
  PROVE  FixedWhileOn'
<1>1. FixedWhileOn /\ Stages /\ KernelType
  BY Parts DEF IInv
<1>2. ASSUME UNCHANGED <<kernel, chosen>>
      PROVE  FixedWhileOn'
  BY <1>1, <1>2 DEF FixedWhileOn, ListsOf
<1>3. CASE \E p \in Procs : Begins(p)
  BY <1>2, <1>3 DEF Begins, BlockSites, Add, Remove, BlockIp, AllowIp, Reload, Reset,
     Enable, Begin
<1>4. CASE \E p \in Procs : \/ Read(p) \/ Sync(p) \/ Truncate(p) \/ Fill(p)
                            \/ ReadNets(p) \/ TruncateNets(p) \/ FillNets(p)
                            \/ RemoveNets(p) \/ Kill(p)
  BY <1>2, <1>4 DEF Read, Sync, Truncate, Fill, ReadNets, TruncateNets, FillNets,
     RemoveNets, Kill, OnlyProc
<1>5. ASSUME NEW p \in Procs, Store(p) \/ StoreIps(p) \/ StoreNets(p)
      PROVE  FixedWhileOn'
  <2>1. CASE Refused
    BY <1>2, <1>5, <2>1 DEF Store, StoreIps, StoreNets, SetKernel
  <2>2. CASE ~Refused
    <3>1. ~kernel.on
      BY <2>2 DEF Refused
    <3>2. ~kernel'.on
      BY <1>1, <1>5, <3>1 DEF Store, StoreIps, StoreNets, SetKernel, StoredDomains,
         StoredIps, StoredNets, KernelType, Lists
    <3> QED BY <3>2 DEF FixedWhileOn
  <2> QED BY <2>1, <2>2
<1>6. ASSUME NEW p \in Procs, Start(p)
      PROVE  FixedWhileOn'
  <2>1. CASE Refused
    BY <1>2, <1>6, <2>1 DEF Start
  <2>2. CASE ~Refused
    BY <1>1, <1>6, <2>2 DEF Start, SetKernel, FixedWhileOn, ListsOf, KernelType, Lists
  <2> QED BY <2>1, <2>2
<1>7. CASE End
  BY <1>1, <1>7 DEF End, SetKernel, FixedWhileOn, KernelType, Lists
<1>8. CASE PowerLoss
  <2>1. RestoredLists(kernel) = kernel
    BY <1>1, NamesStay DEF RestoredLists, KernelType, Lists
  <2> QED BY <1>1, <1>8, <2>1, Constants DEF PowerLoss, FixedWhileOn, ListsOf
<1>9. CASE Rmmod \/ SysfsGone
  BY <1>2, <1>9 DEF Rmmod, SysfsGone, Leave, RemoveSysfs
<1>10. CASE Load \/ Unloaded
  BY <1>10, Constants DEF Load, Unloaded, SetKernel, FixedWhileOn
<1>11. CASE /\ Hook \/ Wait \/ CleanupNetfilter \/ FreeLists \/ \E p \in Packets : Arrive(p)
            /\ UNCHANGED history
  BY <1>2, <1>11 DEF Hook, Depart, Enter, CheckAllowed, CheckBlocked, CheckDomains,
     CheckName, OnlyPacket, Wait, CleanupNetfilter, FreeLists, Arrive
<1> QED BY <1>3, <1>4, <1>5, <1>6, <1>7, <1>8, <1>9, <1>10, <1>11
        DEF Next, Runs, Kernel, Unload

(* One command moves; the paths of the others are what they were. *)
LEMMA PathMoves ==
  ASSUME IInv, NEW p \in Procs, NEW c \in Cmds, Path(c),
         proc' = [proc EXCEPT ![p] = c]
  PROVE  Paths'
BY Parts DEF IInv, ProcType, Paths

LEMMA PathGoes ==
  ASSUME IInv, NEW p \in Procs
  PROVE  /\ Exit(p) => Paths'
         /\ \A place : Goto(p, place) /\ [proc[p] EXCEPT !.at = place] \in Cmds
                         /\ Path([proc[p] EXCEPT !.at = place]) => Paths'
<1>1. Path(Free)
  BY DEF Path, Free
<1>2. ASSUME NEW place, Goto(p, place), [proc[p] EXCEPT !.at = place] \in Cmds,
             Path([proc[p] EXCEPT !.at = place])
      PROVE  Paths'
  BY <1>2, PathMoves, Parts DEF IInv, ProcType, Goto
<1> QED BY <1>1, <1>2, PathMoves, Constants DEF Exit

LEMMA PathsStep ==
  ASSUME IInv, Next
  PROVE  Paths'
<1>1. ProcType /\ KernelType /\ Paths
  BY Parts DEF IInv
<1>2. ASSUME UNCHANGED proc
      PROVE  Paths'
  BY <1>1, <1>2 DEF Paths
<1>3. ASSUME NEW p \in Procs, Begins(p)
      PROVE  Paths'
  <2>1. ASSUME NEW c \in Cmds, Begin(p, c), Path(c)
        PROVE  Paths'
    BY <2>1, PathMoves DEF Begin
  <2> DEFINE Both == Typed \cup Names
  <2>2. /\ \A lines \in Seq(Typed) : lines \in Seq(Both)
        /\ \A lines \in Seq(Names) : lines \in Seq(Both)
        /\ \A d \in Typed : <<d>> \in Seq(Typed) /\ Len(<<d>>) = 1
    BY SeqMonotonic
  <2>3. ASSUME NEW typed \in BlockArgs, BlockSites(p, typed)
        PROVE  Paths'
    <3>1. typed \in Seq(Typed) /\ typed \in Seq(Both)
      BY <2>2, SitesAssumption
    <3> QED BY <2>1, <2>3, <3>1, Constants DEF BlockSites, Command, Cmds, Free, Path
  <2>4. ASSUME NEW d \in Single, Add(p, d) \/ Remove(p, d)
        PROVE  Paths'
    <3>1. <<d>> \in Seq(Typed) /\ Len(<<d>>) = 1
      BY <2>2, SitesAssumption
    <3> QED BY <2>1, <2>4, <3>1, Constants DEF Add, Remove, Command, Cmds, Free, Path
  <2>5. ASSUME NEW ips \in IpArgs, BlockIp(p, ips)
        PROVE  Paths'
    <3>1. ips \in SUBSET Addrs
      BY SitesAssumption
    <3> QED BY <2>1, <2>5, <3>1, Constants DEF BlockIp, Command, Cmds, Free, Path
  <2>6. ASSUME NEW nets \in NetArgs, AllowIp(p, nets)
        PROVE  Paths'
    <3>1. nets \in SUBSET Nets
      BY SitesAssumption DEF Nets
    <3> QED BY <2>1, <2>6, <3>1, Constants DEF AllowIp, Command, Cmds, Free, Path
  <2>7. CASE Reload(p)
    <3>1. sitesFile.lines \in Seq(Both)
      BY <2>2, Parts DEF IInv, FileType
    <3> QED BY <2>1, <2>7, <3>1, Constants DEF Reload, Command, Cmds, Free, Path
  <2>8. CASE Reset(p)
    <3>1. Defaults \in Seq(Both)
      BY <2>2, Constants
    <3> QED BY <2>1, <2>8, <3>1, Constants DEF Reset, Command, Cmds, Free, Path
  <2>9. CASE Enable(p)
    BY <2>1, <2>9, Constants DEF Enable, Command, Cmds, Free, Path
  <2> QED BY <1>3, <2>3, <2>4, <2>5, <2>6, <2>7, <2>8, <2>9 DEF Begins
<1>4. ASSUME NEW p \in Procs, Read(p)
      PROVE  Paths'
  <2> DEFINE c == proc[p]
  <2>1. c \in Cmds /\ Path(c) /\ c.at = "read" /\ proc' \in [Procs -> Cmds]
    BY <1>1, <1>4, ProcTypeStep, ReadMoves DEF ProcType, Paths
  <2>2. proc'[p] \in Cmds
    BY <2>1
  <2>3. CASE Exit(p)
    BY <2>3, PathGoes
  <2>4. ASSUME NEW d \in Cmds, proc' = [proc EXCEPT ![p] = d], d.cmd = c.cmd,
               d.typed = c.typed, d.at = "store", c.cmd \in {"add", "remove", "enable"}
        PROVE  Paths'
    BY <2>1, <2>4, PathMoves DEF Path, Cmds, Free
  <2>5. ASSUME NEW d \in Cmds, proc' = [proc EXCEPT ![p] = d], d.cmd = c.cmd,
               d.typed = c.typed, d.at = "readnets", c.cmd = "enable"
        PROVE  Paths'
    BY <2>1, <2>5, PathMoves DEF Path, Cmds, Free
  <2>6. CASE c.cmd = "add" /\ proc' = [proc EXCEPT ![p] =
               [c EXCEPT !.at = "store", !.lines = Append(Current, c.typed[1])]]
    <3> DEFINE d == [c EXCEPT !.at = "store", !.lines = Append(Current, c.typed[1])]
    <3>1. d.cmd = c.cmd /\ d.typed = c.typed /\ d.at = "store"
      BY <2>1 DEF Cmds
    <3>2. proc'[p] = d
      BY <1>1, <2>6 DEF ProcType
    <3> HIDE DEF d
    <3> QED BY <2>2, <2>4, <2>5, <2>6, <3>1, <3>2 DEF d
  <2>7. CASE c.cmd = "remove" /\ proc' = [proc EXCEPT ![p] =
               [c EXCEPT !.at = "store", !.lines = Others(Current, c.typed[1])]]
    <3> DEFINE d == [c EXCEPT !.at = "store", !.lines = Others(Current, c.typed[1])]
    <3>1. d.cmd = c.cmd /\ d.typed = c.typed /\ d.at = "store"
      BY <2>1 DEF Cmds
    <3>2. proc'[p] = d
      BY <1>1, <2>7 DEF ProcType
    <3> HIDE DEF d
    <3> QED BY <2>2, <2>4, <2>5, <2>7, <3>1, <3>2 DEF d
  <2>8. CASE c.cmd = "enable" /\ proc' = [proc EXCEPT ![p] =
               [c EXCEPT !.at = IF sitesFile.lines = <<>> THEN "readnets" ELSE "store",
                         !.lines = sitesFile.lines]]
    <3> DEFINE d == [c EXCEPT !.at = IF sitesFile.lines = <<>> THEN "readnets" ELSE "store",
                              !.lines = sitesFile.lines]
    <3>1. d.cmd = c.cmd /\ d.typed = c.typed /\ d.at \in {"readnets", "store"}
      BY <2>1 DEF Cmds
    <3>2. proc'[p] = d
      BY <1>1, <2>8 DEF ProcType
    <3> HIDE DEF d
    <3> QED BY <2>2, <2>4, <2>5, <2>8, <3>1, <3>2 DEF d
  <2> QED BY <1>4, <2>3, <2>6, <2>7, <2>8, ReadMoves
<1>5. ASSUME NEW p \in Procs, Store(p) \/ StoreIps(p) \/ StoreNets(p) \/ Truncate(p)
                              \/ Fill(p) \/ TruncateNets(p) \/ FillNets(p)
                              \/ RemoveNets(p) \/ Start(p) \/ Kill(p)
      PROVE  Paths'
  <2> DEFINE c == proc[p]
  <2>1. c \in Cmds /\ Path(c)
    BY <1>1 DEF ProcType, Paths
  <2>2. ASSUME NEW place \in {"ips", "sync", "truncate", "fill", "readnets",
                              "nets", "truncnets", "fillnets", "rmnets", "start"},
               Goto(p, place), c.at # "idle",
               place = "ips" => c.cmd = "reset",
               place = "sync" => c.cmd \in {"block", "add", "remove"},
               place = "truncate" => c.cmd = "reset",
               place = "fill" => c.at = "truncate",
               place = "nets" => c.cmd = "reset",
               place \in {"readnets", "start"} => c.cmd = "enable",
               place \in {"truncnets", "fillnets"} => c.cmd = "allow-ip",
               place = "rmnets" => c.cmd = "reset"
        PROVE  Paths'
    <3>1. [c EXCEPT !.at = place] \in Cmds
      BY <2>1 DEF Cmds
    <3>2. Path([c EXCEPT !.at = place])
      BY <2>1, <2>2, Constants DEF Cmds, Path, Free
    <3> QED BY <2>2, <3>1, <3>2, PathGoes
  <2>3. CASE Store(p)
    <3>1. c.cmd \in {"block", "add", "remove", "reload", "reset", "enable"}
      BY <2>1, <2>3 DEF Store, Path
    <3>2. \/ Exit(p)
          \/ Goto(p, "sync") /\ c.cmd \in {"block", "add", "remove"}
          \/ c.cmd = "reset" /\ \E place \in {"ips", "nets", "rmnets"} : Goto(p, place)
          \/ Goto(p, "readnets") /\ c.cmd = "enable"
      <4>1. CASE c.cmd \in {"block", "add", "remove", "reload"}
        BY <2>3, <4>1 DEF Store, Continue, AfterStore
      <4>2. CASE c.cmd = "reset"
        BY <2>3, <4>2 DEF Store, Continue, AfterStore, ResetNets
      <4>3. CASE c.cmd = "enable"
        BY <2>3, <4>3 DEF Store, Continue, AfterStore
      <4> QED BY <3>1, <4>1, <4>2, <4>3
    <3>3. c.at = "store"
      BY <2>3 DEF Store
    <3> QED BY <2>2, <3>2, <3>3, PathGoes
  <2>4. CASE StoreIps(p)
    <3>1. c.cmd \in {"block-ip", "reset"} /\ c.at = "ips"
      BY <2>1, <2>4 DEF StoreIps, Path
    <3>2. \/ Exit(p)
          \/ c.cmd = "reset" /\ \E place \in {"nets", "rmnets", "truncate"} : Goto(p, place)
      BY <2>4, <3>1 DEF StoreIps, ResetNets
    <3> QED BY <2>2, <3>1, <3>2, PathGoes
  <2>5. CASE StoreNets(p)
    <3>1. c.cmd \in {"allow-ip", "reset", "enable"} /\ c.at = "nets"
      BY <2>1, <2>5 DEF StoreNets, Path
    <3>2. \/ Exit(p)
          \/ c.cmd = "reset" /\ Goto(p, "rmnets")
          \/ c.cmd = "enable" /\ Goto(p, "start")
          \/ c.cmd = "allow-ip" /\ Goto(p, "truncnets")
      BY <2>5, <3>1 DEF StoreNets
    <3> QED BY <2>2, <3>1, <3>2, PathGoes
  <2>6. CASE Truncate(p)
    BY <2>2, <2>6 DEF Truncate
  <2>7. CASE Fill(p)
    <3>1. c.at = "fill"
      BY <2>7 DEF Fill
    <3>2. \/ Exit(p)
          \/ c.cmd = "reset" /\ \E place \in {"nets", "rmnets"} : Goto(p, place)
      BY <2>7 DEF Fill, ResetNets
    <3> QED BY <2>2, <3>1, <3>2, PathGoes
  <2>8. CASE TruncateNets(p)
    BY <2>1, <2>2, <2>8 DEF TruncateNets, Path
  <2>9. CASE FillNets(p) \/ RemoveNets(p) \/ Start(p) \/ Kill(p)
    BY <2>9, PathGoes DEF FillNets, RemoveNets, Start, Kill
  <2> QED BY <1>5, <2>3, <2>4, <2>5, <2>6, <2>7, <2>8, <2>9
<1>6. ASSUME NEW p \in Procs, Sync(p) \/ ReadNets(p)
      PROVE  Paths'
  <2>1. proc[p] \in Cmds /\ Path(proc[p])
    BY <1>1 DEF ProcType, Paths
  <2>2. kernel.domains \in Seq(Names) /\ kernel.domains \in Seq(Typed \cup Names)
        /\ Len(kernel.domains) <= MaxDomains /\ netsFile.nets \in SUBSET Nets
    <3>1. kernel.domains \in Seq(Names) /\ Len(kernel.domains) <= MaxDomains
          /\ netsFile.nets \in SUBSET Nets
      BY Parts DEF IInv, KernelType, Lists, FileType
    <3> QED BY <3>1, SeqMonotonic
  <2>3. CASE Sync(p)
    <3> DEFINE d == [proc[p] EXCEPT !.at = "truncate", !.lines = kernel.domains]
    <3>1. d \in Cmds
      BY <2>1, <2>2 DEF Cmds
    <3>2. Path(d)
      BY <2>1, <2>2, <2>3 DEF Path, Sync, Cmds, Free
    <3>3. proc' = [proc EXCEPT ![p] = d]
      BY <1>1, <2>3 DEF Sync, ProcType
    <3> HIDE DEF d
    <3> QED BY <3>1, <3>2, <3>3, PathMoves
  <2>4. CASE ReadNets(p)
    <3>1. PICK place \in {"nets", "start"} :
            proc' = [proc EXCEPT ![p] =
                       [proc[p] EXCEPT !.at = place, !.nets = netsFile.nets]]
      BY <1>1, <2>4 DEF ReadNets, ProcType
    <3> DEFINE d == [proc[p] EXCEPT !.at = place, !.nets = netsFile.nets]
    <3>2. d \in Cmds
      BY <2>1, <2>2 DEF Cmds
    <3>3. Path(d)
      BY <2>1, <2>4 DEF Path, ReadNets, Cmds, Free
    <3> HIDE DEF d
    <3> QED BY <3>1, <3>2, <3>3, PathMoves DEF d
  <2> QED BY <1>6, <2>3, <2>4
<1>7. CASE End \/ Rmmod \/ SysfsGone \/ (Kernel /\ UNCHANGED proc)
  BY <1>2, <1>7 DEF End, Rmmod, SysfsGone
<1>8. CASE PowerLoss
  <2>1. Path(Free)
    BY DEF Path, Free
  <2> QED BY <1>8, <2>1 DEF PowerLoss, Paths
<1> QED BY <1>3, <1>4, <1>5, <1>6, <1>7, <1>8 DEF Next, Runs

(* What is said of the commands, for p when no other is running. *)
Only(p) ==
  /\ proc[p] # Free =>
       /\ stage \in {"off", "up", "leaving"}
       /\ proc[p].at \notin {"truncate", "fill", "rmnets"} => Sysfs
       /\ kernel.on => proc[p].cmd = "reload"
  /\ proc[p].at = "fill" \/ promised.names = Range(sitesFile.lines)
  /\ proc[p].at = "fillnets" \/ promised.nets = netsFile.nets
  /\ sitesFile.lines = <<>> =>
       kernel.domains = <<>> \/ proc[p].at \in {"sync", "ips", "truncate", "fill"}
  /\ ~sitesFile.there => sitesFile.lines = <<>>
  /\ ~netsFile.there =>
       netsFile.nets = {} /\ (kernel.nets = {} \/ proc[p].at = "truncnets")
  /\ Edit(proc[p])

LEMMA OnlyBefore ==
  ASSUME IInv, promised.known, NEW p \in Procs,
         proc[p] # Free \/ \A q \in Procs : proc[q] = Free
  PROVE  Only(p) /\ \A q \in Procs : q # p => proc[q] = Free
<1>1. Alone /\ Filed /\ Edits
  BY DEF IInv, Said
<1>2. \A q \in Procs : q # p => proc[q] = Free
  BY <1>1 DEF Alone
<1>3. \A places : "idle" \notin places => (Some(places) <=> proc[p].at \in places)
  BY <1>2 DEF Some, Free
<1>4. /\ Some({"fill"}) <=> proc[p].at = "fill"
      /\ Some({"fillnets"}) <=> proc[p].at = "fillnets"
      /\ Some({"truncnets"}) <=> proc[p].at = "truncnets"
      /\ Some({"sync", "ips", "truncate", "fill"})
           <=> proc[p].at \in {"sync", "ips", "truncate", "fill"}
  BY <1>3
<1> QED BY <1>1, <1>2, <1>4 DEF Only, Alone, Filed, Edits

LEMMA OnlyAfter ==
  ASSUME NEW p \in Procs, Only(p)', \A q \in Procs : q # p => proc'[q] = Free
  PROVE  Said'
<1>1. \A places : proc'[p].at \in places => Some(places)'
  BY DEF Some
<1>2. Edit(Free)'
  BY DEF Edit, Free
<1>3. Edits'
  <2>1. SUFFICES ASSUME NEW q \in Procs
                 PROVE  Edit(proc[q])'
    BY DEF Edits
  <2>2. CASE q = p
    BY <2>2 DEF Only
  <2>3. CASE q # p
    BY <1>2, <2>3 DEF Edit
  <2> QED BY <2>2, <2>3
<1>4. Alone'
  BY DEF Only, Alone
<1>5. /\ proc'[p].at = "fill" => Some({"fill"})'
      /\ proc'[p].at = "fillnets" => Some({"fillnets"})'
      /\ proc'[p].at = "truncnets" => Some({"truncnets"})'
      /\ proc'[p].at \in {"sync", "ips", "truncate", "fill"}
           => Some({"sync", "ips", "truncate", "fill"})'
  BY <1>1
<1>6. Filed'
  BY <1>5 DEF Only, Filed
<1> QED BY <1>3, <1>4, <1>6 DEF Said

(* A step of p, when what was promised is known before and after it. *)
LEMMA OnlyMoves ==
  ASSUME IInv, NEW p \in Procs, NEW c, proc' = [proc EXCEPT ![p] = c],
         proc[p] # Free \/ \A q \in Procs : proc[q] = Free,
         promised'.known => promised.known,
         promised.known /\ promised'.known => Only(p)'
  PROVE  Said'
<1>1. CASE promised.known /\ promised'.known
  <2>1. \A q \in Procs : q # p => proc'[q] = Free
    BY <1>1, OnlyBefore, Parts DEF IInv, ProcType
  <2> QED BY <1>1, <2>1, OnlyAfter
<1>2. CASE ~promised'.known
  BY <1>2 DEF Said
<1> QED BY <1>1, <1>2

LEMMA Goes ==
  ASSUME IInv, NEW p \in Procs, NEW place, Goto(p, place)
  PROVE  /\ proc'[p].at = place /\ proc'[p].cmd = proc[p].cmd
         /\ proc'[p].typed = proc[p].typed /\ proc'[p].lines = proc[p].lines
         /\ proc'[p].nets = proc[p].nets
         /\ proc' = [proc EXCEPT ![p] = proc'[p]]
<1>1. proc \in [Procs -> Cmds] /\ proc[p] \in Cmds
  BY Parts DEF IInv, ProcType
<1>2. proc' = [proc EXCEPT ![p] = [proc[p] EXCEPT !.at = place]]
  BY <1>1 DEF Goto
<1> QED BY <1>1, <1>2 DEF Cmds

LEMMA Exits ==
  ASSUME IInv, NEW p \in Procs, Exit(p)
  PROVE  /\ proc'[p] = Free /\ proc'[p].at = "idle" /\ Edit(proc[p])'
         /\ proc' = [proc EXCEPT ![p] = proc'[p]]
<1>1. proc'[p] = Free /\ proc' = [proc EXCEPT ![p] = proc'[p]]
  BY Parts DEF IInv, ProcType, Exit
<1> QED BY <1>1 DEF Free, Edit

(* A command that begins where no other is running. *)
LEMMA SaidBegins ==
  ASSUME IInv, NEW p \in Procs, Settled, Begins(p)
  PROVE  Said'
<1>1. ProcType /\ Stages /\ FileType /\ PacketType
  BY Parts DEF IInv
<1>2. ASSUME NEW c \in Cmds, Begin(p, c),
             stage \in {"off", "up", "leaving"},
             c.at \notin {"truncate", "fill", "rmnets"} => Sysfs,
             kernel.on => c.cmd = "reload",
             c.at \notin {"fill", "fillnets", "sync", "truncnets", "rmnets", "start",
                          "readnets"},
             c.at = "truncate" => ~Sysfs /\ c.cmd = "reset" /\ c.lines = Defaults,
             c.at = "store" /\ c.cmd = "block" => c.lines = c.typed,
             c.at = "store" => c.cmd \notin {"add", "remove", "enable"},
             c.at = "store" /\ c.cmd = "reload" =>
               c.lines = sitesFile.lines /\ sitesFile.lines # <<>>,
             c.at = "ips" => c.cmd # "reset",
             c.at = "nets" => c.cmd # "enable"
      PROVE  Said'
  <2>1. /\ proc[p] = Free /\ proc' = [proc EXCEPT ![p] = c] /\ proc'[p] = c
        /\ UNCHANGED <<kernelVars, fileVars>>
        /\ promised' \in {promised, Unknown} /\ ~Unknown.known
        /\ promised'.known => promised' = promised /\ \A q \in Procs : proc[q] = Free
    BY <1>1, <1>2 DEF Begin, MuddledIf, Unknown, ProcType
  <2>2. ASSUME promised.known, promised'.known
        PROVE  Only(p)'
    <3>1. Only(p) /\ proc[p].at = "idle" /\ promised' = promised
      BY <2>1, <2>2, OnlyBefore DEF Free
    <3>2. promised.names = Range(sitesFile.lines) /\ promised.nets = netsFile.nets
          /\ (sitesFile.lines = <<>> => kernel.domains = <<>>)
          /\ (~sitesFile.there => sitesFile.lines = <<>>)
          /\ (~netsFile.there => netsFile.nets = {} /\ kernel.nets = {})
      BY <3>1 DEF Only
    <3>3. ~Sysfs => kernel.domains = <<>>
      BY <1>1, <1>2, Constants DEF Sysfs, Stages
    <3>4. c.cmd = "block" => NamesAfter(c)' = Range(Normalized(c.typed))
      BY DEF NamesAfter
    <3>5. c.cmd = "reset" => NamesAfter(c)' = Range(Defaults)
      BY DEF NamesAfter
    <3>6. Edit(proc[p])'
      BY <1>2, <2>1, <3>2, <3>3, <3>4, <3>5 DEF Edit
    <3> QED BY <1>2, <2>1, <3>1, <3>2, <3>6 DEF Only, Sysfs
  <2>3. CASE \A q \in Procs : proc[q] = Free
    BY <2>1, <2>2, <2>3, OnlyMoves
  <2>4. CASE ~promised'.known
    BY <2>4 DEF Said
  <2> QED BY <2>1, <2>3, <2>4
<1>3. stage \in {"off", "up", "leaving"} /\ (Sysfs <=> stage # "off")
      /\ (~Sysfs => ~kernel.on)
  BY <1>1, Constants DEF Settled, PacketType, Sysfs, Stages
<1> DEFINE Both == Typed \cup Names
<1>4. /\ \A lines \in Seq(Typed) : lines \in Seq(Both)
      /\ \A lines \in Seq(Names) : lines \in Seq(Both)
      /\ \A d \in Typed : <<d>> \in Seq(Typed)
  BY SeqMonotonic
<1>5. ASSUME NEW typed \in BlockArgs, BlockSites(p, typed)
      PROVE  Said'
  <2>1. typed \in Seq(Typed) /\ typed \in Seq(Both)
    BY <1>4, SitesAssumption
  <2> DEFINE c == [Command("block", "store") EXCEPT !.typed = typed, !.lines = typed]
  <2>2. c \in Cmds /\ c.cmd = "block" /\ c.at = "store" /\ c.lines = c.typed
    BY <2>1, Constants DEF Command, Cmds, Free
  <2>3. Begin(p, c) /\ MayEdit
    BY <1>5 DEF BlockSites
  <2> HIDE DEF c
  <2> QED BY <1>2, <1>3, <2>2, <2>3 DEF MayEdit
<1>6. ASSUME NEW d \in Single, Add(p, d) \/ Remove(p, d)
      PROVE  Said'
  <2>1. <<d>> \in Seq(Typed)
    BY <1>4, SitesAssumption
  <2>2. PICK cmd \in {"add", "remove"} :
          Begin(p, [Command(cmd, "read") EXCEPT !.typed = <<d>>])
    BY <1>6 DEF Add, Remove
  <2> DEFINE c == [Command(cmd, "read") EXCEPT !.typed = <<d>>]
  <2>3. c \in Cmds /\ c.at = "read"
    BY <2>1, Constants DEF Command, Cmds, Free
  <2>4. Begin(p, c) /\ MayEdit
    BY <1>6, <2>2 DEF Add, Remove
  <2> HIDE DEF c
  <2> QED BY <1>2, <1>3, <2>3, <2>4 DEF MayEdit
<1>7. ASSUME NEW ips \in IpArgs, BlockIp(p, ips)
      PROVE  Said'
  <2>1. ips \in SUBSET Addrs
    BY SitesAssumption
  <2> DEFINE c == [Command("block-ip", "ips") EXCEPT !.ips = ips]
  <2>2. c \in Cmds /\ c.at = "ips" /\ c.cmd = "block-ip"
    BY <2>1, Constants DEF Command, Cmds, Free
  <2>3. Begin(p, c) /\ MayEdit
    BY <1>7 DEF BlockIp
  <2> HIDE DEF c
  <2> QED BY <1>2, <1>3, <2>2, <2>3 DEF MayEdit
<1>8. ASSUME NEW nets \in NetArgs, AllowIp(p, nets)
      PROVE  Said'
  <2>1. nets \in SUBSET Nets
    BY SitesAssumption DEF Nets
  <2> DEFINE c == [Command("allow-ip", "nets") EXCEPT !.nets = nets]
  <2>2. c \in Cmds /\ c.at = "nets" /\ c.cmd = "allow-ip"
    BY <2>1, Constants DEF Command, Cmds, Free
  <2>3. Begin(p, c) /\ MayEdit
    BY <1>8 DEF AllowIp
  <2> HIDE DEF c
  <2> QED BY <1>2, <1>3, <2>2, <2>3 DEF MayEdit
<1>9. CASE Reload(p)
  <2>1. sitesFile.lines \in Seq(Both)
    BY <1>1, <1>4 DEF FileType
  <2> DEFINE c == [Command("reload", "store") EXCEPT !.lines = sitesFile.lines]
  <2>2. c \in Cmds /\ c.at = "store" /\ c.cmd = "reload" /\ c.lines = sitesFile.lines
    BY <2>1, Constants DEF Command, Cmds, Free
  <2>3. Begin(p, c) /\ Sysfs /\ sitesFile.lines # <<>>
    BY <1>9 DEF Reload
  <2> HIDE DEF c
  <2> QED BY <1>2, <1>3, <2>2, <2>3
<1>10. CASE Reset(p)
  <2>1. Defaults \in Seq(Both)
    BY <1>4, Constants
  <2>2. PICK place \in {"store", "truncate"} :
          /\ Begin(p, [Command("reset", place) EXCEPT !.lines = Defaults])
          /\ place = "store" <=> Sysfs
    BY <1>10 DEF Reset
  <2> DEFINE c == [Command("reset", place) EXCEPT !.lines = Defaults]
  <2>3. c \in Cmds /\ c.at = place /\ c.cmd = "reset" /\ c.lines = Defaults
    BY <2>1, Constants DEF Command, Cmds, Free
  <2>4. Begin(p, c) /\ ~kernel.on
    BY <1>3, <1>10, <2>2 DEF Reset
  <2> HIDE DEF c
  <2> QED BY <1>2, <1>3, <2>2, <2>3, <2>4
<1>11. CASE Enable(p)
  <2> DEFINE c == Command("enable", "read")
  <2>1. c \in Cmds /\ c.at = "read"
    BY Constants DEF Command, Cmds, Free
  <2>2. Begin(p, c) /\ Sysfs /\ ~kernel.on
    BY <1>11 DEF Enable
  <2> HIDE DEF c
  <2> QED BY <1>2, <1>3, <2>1, <2>2
<1> QED BY <1>5, <1>6, <1>7, <1>8, <1>9, <1>10, <1>11 DEF Begins

(* What is known of a command in the middle of its work. *)
LEMMA Running ==
  ASSUME IInv, NEW p \in Procs, proc[p].at # "idle"
  PROVE  /\ proc[p] # Free /\ proc[p] \in Cmds /\ Path(proc[p])
         /\ promised.known => Only(p) /\ Edit(proc[p])
         /\ promised.known /\ proc[p].at \notin {"truncate", "fill", "rmnets"} => Sysfs
         /\ promised.known /\ proc[p].at \notin {"truncate", "fill", "rmnets"}
              /\ proc[p].cmd # "reload" => ~Refused
         /\ promised.known /\ ~Sysfs => kernel = NoLists
<1>1. proc[p] # Free /\ proc[p] \in Cmds /\ Path(proc[p])
  BY Parts DEF IInv, ProcType, Paths, Free
<1>2. promised.known => Only(p) /\ Edit(proc[p])
  BY <1>1, OnlyBefore DEF Only
<1> QED BY <1>1, <1>2 DEF Only, Refused, IInv, Stages, Sysfs

LEMMA SaidReads ==
  ASSUME IInv, NEW p \in Procs, Read(p)
  PROVE  Said'
<1> DEFINE c == proc[p]
           d == c.typed[1]
<1>1. UNCHANGED <<kernelVars, fileVars, history>> /\ c.at = "read"
  BY DEF Read, OnlyProc
<1>2. /\ c \in Cmds /\ Path(c) /\ c # Free /\ proc \in [Procs -> Cmds]
      /\ promised.known => Only(p) /\ Sysfs /\ ~kernel.on
  BY <1>1, Running, Parts DEF IInv, ProcType, Only, Path
<1>3. KernelType /\ FileType
  BY Parts DEF IInv
<1>4. ASSUME promised.known
      PROVE  /\ promised.names = Range(sitesFile.lines) /\ promised.nets = netsFile.nets
             /\ sitesFile.lines = <<>> => kernel.domains = <<>>
             /\ ~sitesFile.there => sitesFile.lines = <<>>
             /\ ~netsFile.there => netsFile.nets = {} /\ kernel.nets = {}
  BY <1>1, <1>2, <1>4 DEF Only
<1>5. promised.known => Range(Current) = promised.names
  BY <1>4 DEF Current
<1>6. /\ Current \in Seq(Names) /\ Range(Current) \subseteq Names
      /\ \A n \in Range(Current) : Normalize(n) = n
  <2>1. Current \in Seq(Names)
    BY <1>3 DEF Current, KernelType, Lists, FileType
  <2> QED BY <2>1, NamesClean, RangeOfSeq
<1>7. c.cmd \in {"add", "remove"} =>
        /\ d \in Typed /\ Len(c.typed) = 1 /\ c.typed \in Seq(Typed)
        /\ Range(Normalized(c.typed)) = {Normalize(d)}
  <2>1. SUFFICES ASSUME c.cmd \in {"add", "remove"}
                 PROVE  /\ d \in Typed /\ Len(c.typed) = 1 /\ c.typed \in Seq(Typed)
                        /\ Range(Normalized(c.typed)) = {Normalize(d)}
    OBVIOUS
  <2>2. d \in Typed /\ Len(c.typed) = 1 /\ c.typed \in Seq(Typed)
    BY <1>2, <2>1 DEF Path, Cmds
  <2>3. DOMAIN Normalized(c.typed) = 1..1 /\ Normalized(c.typed)[1] = Normalize(d)
    BY <2>2 DEF Normalized
  <2> QED BY <2>2, <2>3 DEF Range
<1>8. CASE Exit(p)
  <2>1. promised.known /\ promised'.known => Only(p)'
    BY <1>1, <1>4, <1>8, Exits DEF Only
  <2> QED BY <1>1, <1>2, <1>8, <2>1, Exits, OnlyMoves
<1>9. ASSUME NEW e, proc' = [proc EXCEPT ![p] = e], e.cmd = c.cmd, e.typed = c.typed,
             \/ e.at = "store" /\ c.cmd \in {"add", "remove"}
                /\ (promised.known => Range(Normalized(e.lines)) = NamesAfter(c))
             \/ e.at = "store" /\ c.cmd = "enable" /\ e.lines = sitesFile.lines
                /\ sitesFile.lines # <<>>
             \/ e.at = "readnets" /\ c.cmd = "enable" /\ sitesFile.lines = <<>>
      PROVE  Said'
  <2>1. proc'[p] = e /\ promised' = promised
    BY <1>1, <1>2, <1>9
  <2>2. NamesAfter(e)' = NamesAfter(c)
    BY <1>9, <2>1 DEF NamesAfter
  <2>3. ASSUME promised.known
        PROVE  Only(p)'
    <3>1. Edit(proc[p])'
      BY <1>1, <1>4, <1>9, <2>1, <2>2, <2>3 DEF Edit
    <3> QED BY <1>1, <1>2, <1>4, <1>9, <2>1, <2>3, <3>1 DEF Only, Sysfs
  <2> QED BY <1>1, <1>2, <1>9, <2>1, <2>3, OnlyMoves
<1>10. CASE c.cmd = "add"
            /\ proc' = [proc EXCEPT ![p] =
                          [c EXCEPT !.at = "store", !.lines = Append(Current, d)]]
  <2> DEFINE e == [c EXCEPT !.at = "store", !.lines = Append(Current, d)]
             Both == Typed \cup Names
  <2>1. e.cmd = "add" /\ e.at = "store" /\ e.typed = c.typed
        /\ e.lines = Append(Current, d)
    BY <1>2, <1>10 DEF Cmds
  <2>2. Current \in Seq(Both) /\ d \in Both
    BY <1>6, <1>7, <1>10, SeqMonotonic
  <2>3. Append(Current, d) \in Seq(Both)
        /\ Range(Append(Current, d)) = Range(Current) \cup {d}
    BY <2>2, AppendProperties DEF Range
  <2>4. Range(Normalized(Append(Current, d))) = Range(Current) \cup {Normalize(d)}
    <3>1. Range(Normalized(Append(Current, d)))
            = {Normalize(line) : line \in Range(Current) \cup {d}}
      BY <2>3, NormalizedType
    <3>2. {Normalize(line) : line \in Range(Current)} = Range(Current)
      BY <1>6
    <3> QED BY <3>1, <3>2
  <2>5. promised.known => Range(Normalized(e.lines)) = NamesAfter(c)
    BY <1>5, <1>7, <1>10, <2>1, <2>4 DEF NamesAfter
  <2>6. proc' = [proc EXCEPT ![p] = e]
    BY <1>10
  <2> HIDE DEF e
  <2> QED BY <1>9, <1>10, <2>1, <2>5, <2>6
<1>11. CASE c.cmd = "remove" /\ d \in Range(Current)
            /\ proc' = [proc EXCEPT ![p] =
                          [c EXCEPT !.at = "store", !.lines = Others(Current, d)]]
  <2> DEFINE e == [c EXCEPT !.at = "store", !.lines = Others(Current, d)]
             Both == Typed \cup Names
  <2>1. e.cmd = "remove" /\ e.at = "store" /\ e.typed = c.typed
        /\ e.lines = Others(Current, d)
    BY <1>2, <1>11 DEF Cmds
  <2>2. Others(Current, d) \in Seq(Names) /\ Range(Others(Current, d)) = Range(Current) \ {d}
    BY <1>6, OthersWorks
  <2>3. Normalized(Others(Current, d)) = Others(Current, d)
    BY <2>2, NamesStay
  <2>4. Normalize(d) = d
    BY <1>6, <1>11
  <2>5. promised.known => Range(Normalized(e.lines)) = NamesAfter(c)
    BY <1>5, <1>7, <1>11, <2>1, <2>2, <2>3, <2>4 DEF NamesAfter
  <2>6. proc' = [proc EXCEPT ![p] = e]
    BY <1>11
  <2> HIDE DEF e
  <2> QED BY <1>9, <1>11, <2>1, <2>5, <2>6
<1>12. CASE c.cmd = "enable"
            /\ proc' = [proc EXCEPT ![p] =
                 [c EXCEPT !.at = IF sitesFile.lines = <<>> THEN "readnets" ELSE "store",
                           !.lines = sitesFile.lines]]
  <2> DEFINE e == [c EXCEPT !.at = IF sitesFile.lines = <<>> THEN "readnets" ELSE "store",
                            !.lines = sitesFile.lines]
  <2>1. e.cmd = "enable" /\ e.typed = c.typed /\ e.lines = sitesFile.lines
        /\ e.at = IF sitesFile.lines = <<>> THEN "readnets" ELSE "store"
    BY <1>2, <1>12 DEF Cmds
  <2>2. proc' = [proc EXCEPT ![p] = e]
    BY <1>12
  <2> HIDE DEF e
  <2> QED BY <1>9, <1>12, <2>1, <2>2
<1> QED BY <1>8, <1>10, <1>11, <1>12, ReadMoves

(* A write to the list of sites. *)
LEMMA SaidStores ==
  ASSUME IInv, NEW p \in Procs, Store(p)
  PROVE  Said'
<1> DEFINE c == proc[p]
           taken == ~Refused /\ Valid(c.lines)
<1>1. /\ c.at = "store" /\ UNCHANGED <<fileVars, history, stage>>
      /\ kernel' = IF taken THEN StoredDomains(c.lines) ELSE kernel
      /\ Continue(p, AfterStore(c.cmd, taken))
  BY DEF Store, SetKernel, Still
<1>2. /\ c \in Cmds /\ Path(c) /\ c # Free /\ KernelType /\ FileType
      /\ promised.known => Only(p) /\ Edit(c) /\ Sysfs
      /\ promised.known /\ c.cmd # "reload" => ~Refused
  BY <1>1, Running, Parts DEF IInv
<1>3. c.cmd \in {"block", "add", "remove", "reload", "reset", "enable"}
  BY <1>1, <1>2 DEF Path
<1>4. kernel'.on = kernel.on /\ kernel'.nets = kernel.nets
      /\ kernel'.domains = IF taken THEN Normalized(c.lines) ELSE kernel.domains
  BY <1>1, <1>2 DEF StoredDomains, KernelType, Lists
<1>5. ASSUME promised.known
      PROVE  /\ promised.names = Range(sitesFile.lines) /\ promised.nets = netsFile.nets
             /\ sitesFile.lines = <<>> => kernel.domains = <<>>
             /\ ~sitesFile.there => sitesFile.lines = <<>>
             /\ ~netsFile.there => netsFile.nets = {} /\ kernel.nets = {}
             /\ kernel.on => c.cmd = "reload"
             /\ stage \in {"off", "up", "leaving"} /\ Sysfs
  BY <1>1, <1>2, <1>5 DEF Only
<1>6. Sysfs' = Sysfs
  BY <1>1 DEF Sysfs
<1>7. CASE c.cmd \in {"block", "add", "remove"} /\ taken
  <2>1. Goto(p, "sync")
    BY <1>1, <1>7 DEF Continue, AfterStore
  <2>2. NamesAfter(proc[p])' = NamesAfter(c)
    BY <1>1, <2>1, Goes DEF NamesAfter
  <2>3. ASSUME promised.known
        PROVE  Only(p)'
    <3>1. Range(kernel'.domains) = NamesAfter(c)
      BY <1>1, <1>2, <1>4, <1>7, <2>3 DEF Edit
    <3>2. Edit(proc[p])'
      BY <1>1, <1>7, <2>1, <2>2, <3>1, Goes DEF Edit
    <3> QED BY <1>1, <1>2, <1>4, <1>5, <1>6, <1>7, <2>1, <2>3, <3>2, Goes DEF Only
  <2> QED BY <1>1, <1>2, <2>1, <2>3, Goes, OnlyMoves
<1>8. CASE c.cmd \in {"block", "add", "remove"} /\ ~taken
  <2>1. Exit(p)
    BY <1>1, <1>8 DEF Continue, AfterStore
  <2>2. ASSUME promised.known
        PROVE  Only(p)'
    BY <1>1, <1>4, <1>5, <1>8, <2>1, <2>2, Exits DEF Only
  <2> QED BY <1>1, <1>2, <2>1, <2>2, Exits, OnlyMoves
<1>9. CASE c.cmd = "reload"
  <2>1. Exit(p)
    BY <1>1, <1>9 DEF Continue, AfterStore
  <2>2. ASSUME promised.known
        PROVE  Only(p)'
    <3>1. sitesFile.lines # <<>>
      BY <1>1, <1>2, <1>9, <2>2 DEF Edit
    <3> QED BY <1>1, <1>4, <1>5, <1>9, <2>1, <2>2, <3>1, Exits DEF Only
  <2> QED BY <1>1, <1>2, <2>1, <2>2, Exits, OnlyMoves
<1>10. CASE c.cmd = "reset"
  <2>1. PICK place : place = AfterStore(c.cmd, taken)
    OBVIOUS
  <2>2. Goto(p, place) /\ place # "idle"
    BY <1>1, <1>10, <2>1 DEF Continue, AfterStore, ResetNets
  <2>3. ASSUME promised.known
        PROVE  Only(p)'
    <3>1. c.lines = Defaults /\ Defaults \in Seq(Names)
      BY <1>2, <1>10, Constants DEF Path
    <3>2. taken /\ Normalized(c.lines) = c.lines
      BY <1>2, <1>10, <2>3, <3>1, Constants, NamesStay
    <3>3. place = "ips"
      BY <1>10, <2>1, <3>2 DEF AfterStore
    <3>4. Edit(proc[p])'
      BY <1>1, <1>4, <1>10, <2>2, <3>2, <3>3, Goes DEF Edit
    <3> QED BY <1>1, <1>2, <1>4, <1>5, <1>6, <1>10, <2>2, <2>3, <3>3, <3>4, Goes DEF Only
  <2> QED BY <1>1, <1>2, <2>2, <2>3, Goes, OnlyMoves
<1>11. CASE c.cmd = "enable"
  <2>1. Goto(p, "readnets")
    BY <1>1, <1>11 DEF Continue, AfterStore
  <2>2. ASSUME promised.known
        PROVE  Only(p)'
    <3>1. c.lines = sitesFile.lines /\ sitesFile.lines # <<>>
      BY <1>1, <1>2, <1>11, <2>2 DEF Edit
    <3>2. taken /\ Normalized(c.lines) = c.lines
      BY <1>2, <1>11, <2>2, <3>1, NamesStay DEF FileType
    <3>3. Edit(proc[p])'
      BY <1>1, <1>4, <1>11, <2>1, <3>1, <3>2, Goes DEF Edit
    <3> QED BY <1>1, <1>2, <1>4, <1>5, <1>6, <1>11, <2>1, <2>2, <3>1, <3>3, Goes DEF Only
  <2> QED BY <1>1, <1>2, <2>1, <2>2, Goes, OnlyMoves
<1> QED BY <1>3, <1>7, <1>8, <1>9, <1>10, <1>11

(* The file of the sites is written in two steps. *)
LEMMA SaidFiles ==
  ASSUME IInv, NEW p \in Procs, Sync(p) \/ Truncate(p) \/ Fill(p)
  PROVE  Said'
<1> DEFINE c == proc[p]
<1>1. c.at \in {"sync", "truncate", "fill"}
      /\ UNCHANGED <<kernelVars, netsFile>>
  BY DEF Sync, Truncate, Fill, OnlyProc
<1>2. /\ c \in Cmds /\ Path(c) /\ c # Free /\ KernelType /\ proc \in [Procs -> Cmds]
      /\ c.cmd \in {"block", "add", "remove", "reset"}
      /\ promised.known => Only(p) /\ Edit(c) /\ ~kernel.on
      /\ promised.known /\ ~Sysfs => kernel = NoLists
  BY <1>1, Running, Parts DEF IInv, ProcType, Only, Path
<1>3. ASSUME promised.known
      PROVE  /\ promised.nets = netsFile.nets
             /\ ~sitesFile.there => sitesFile.lines = <<>>
             /\ ~netsFile.there => netsFile.nets = {} /\ kernel.nets = {}
             /\ stage \in {"off", "up", "leaving"}
  BY <1>1, <1>2, <1>3 DEF Only
<1>4. Sysfs' = Sysfs
  BY <1>1 DEF Sysfs
<1>5. CASE Sync(p)
  <2> DEFINE e == [c EXCEPT !.at = "truncate", !.lines = kernel.domains]
  <2>1. proc' = [proc EXCEPT ![p] = e] /\ proc'[p] = e
    BY <1>2, <1>5 DEF Sync
  <2>2. e.at = "truncate" /\ e.lines = kernel.domains /\ e.cmd = c.cmd /\ e.typed = c.typed
    BY <1>2 DEF Cmds
  <2> HIDE DEF e
  <2>3. UNCHANGED <<fileVars, history>> /\ c.at = "sync"
    BY <1>5 DEF Sync, OnlyProc
  <2>4. NamesAfter(proc[p])' = NamesAfter(c)
    BY <2>1, <2>2, <2>3 DEF NamesAfter
  <2>5. ASSUME promised.known
        PROVE  Only(p)'
    <3>1. Range(kernel.domains) = NamesAfter(c)
      BY <1>2, <2>3, <2>5 DEF Edit
    <3>2. Edit(proc[p])'
      BY <1>1, <2>1, <2>2, <2>4, <3>1 DEF Edit
    <3> QED BY <1>1, <1>2, <1>3, <1>4, <2>1, <2>2, <2>3, <2>5, <3>2 DEF Only
  <2> QED BY <1>2, <2>1, <2>3, <2>5, OnlyMoves
<1>6. CASE Truncate(p)
  <2>1. Goto(p, "fill") /\ UNCHANGED history /\ c.at = "truncate"
        /\ sitesFile'.there /\ sitesFile'.lines = <<>>
    BY <1>6 DEF Truncate
  <2>2. NamesAfter(proc[p])' = NamesAfter(c)
    BY <2>1, Goes DEF NamesAfter
  <2>3. ASSUME promised.known
        PROVE  Only(p)'
    <3>1. Range(c.lines) = NamesAfter(c) /\ kernel.domains \in {<<>>, c.lines}
      BY <1>2, <2>1, <2>3 DEF Edit
    <3>2. Edit(proc[p])'
      BY <1>1, <2>1, <2>2, <3>1, Goes DEF Edit
    <3> QED BY <1>1, <1>2, <1>3, <2>1, <2>3, <3>2, Goes DEF Only
  <2> QED BY <1>2, <2>1, <2>3, Goes, OnlyMoves
<1>7. CASE Fill(p)
  <2>1. /\ c.at = "fill" /\ sitesFile'.there /\ sitesFile'.lines = c.lines
        /\ Promise([promised EXCEPT !.names = NamesAfter(c)])
        /\ IF c.cmd = "reset" THEN Goto(p, ResetNets) ELSE Exit(p)
    BY <1>7 DEF Fill
  <2>2. HistoryType
    BY Parts DEF IInv
  <2>3. promised'.known => promised.known
    BY <2>1 DEF Promise, Unknown
  <2>4. ASSUME promised.known
        PROVE  /\ promised'.names = Range(sitesFile'.lines)
               /\ promised'.nets = netsFile'.nets
               /\ sitesFile'.lines = <<>> => kernel'.domains = <<>>
    <3>1. Range(c.lines) = NamesAfter(c) /\ kernel.domains \in {<<>>, c.lines}
      BY <1>2, <2>1, <2>4 DEF Edit
    <3> QED BY <1>1, <1>3, <2>1, <2>2, <2>4, <3>1 DEF Promise, HistoryType
  <2>5. CASE Exit(p)
    <3>1. promised.known => Only(p)'
      BY <1>1, <1>3, <2>1, <2>4, <2>5, Exits DEF Only
    <3> QED BY <1>2, <2>3, <2>5, <3>1, Exits, OnlyMoves
  <2>6. CASE c.cmd = "reset" /\ Goto(p, ResetNets)
    <3>1. PICK place \in {"nets", "rmnets"} : place = ResetNets
      BY DEF ResetNets
    <3>2. Goto(p, place)
      BY <2>6, <3>1
    <3>3. ASSUME promised.known
          PROVE  Only(p)'
      <4>1. place = "rmnets" => kernel.nets = {}
        BY <1>2, <3>1, <3>3, Constants DEF ResetNets
      <4>2. place = "nets" => Sysfs
        BY <3>1 DEF ResetNets
      <4>3. Edit(proc[p])'
        BY <1>1, <2>6, <3>2, <4>1, Goes DEF Edit
      <4> QED BY <1>1, <1>2, <1>3, <1>4, <2>1, <2>4, <3>2, <3>3, <4>2, <4>3, Goes
              DEF Only
    <3> QED BY <1>2, <2>3, <3>2, <3>3, Goes, OnlyMoves
  <2> QED BY <2>1, <2>5, <2>6
<1> QED BY <1>5, <1>6, <1>7

(* The addresses and the networks. *)
LEMMA SaidIps ==
  ASSUME IInv, NEW p \in Procs, StoreIps(p)
  PROVE  Said'
<1> DEFINE c == proc[p]
<1>1. /\ c.at = "ips" /\ UNCHANGED <<fileVars, history, stage>>
      /\ kernel' = IF Refused THEN kernel ELSE StoredIps(c.ips)
  BY DEF StoreIps, SetKernel, Still
<1>2. /\ c \in Cmds /\ Path(c) /\ c # Free /\ KernelType
      /\ c.cmd \in {"block-ip", "reset"}
      /\ promised.known => Only(p) /\ Edit(c) /\ ~Refused
  BY <1>1, Running, Parts DEF IInv, Path
<1>3. kernel'.on = kernel.on /\ kernel'.nets = kernel.nets
      /\ kernel'.domains = kernel.domains
  BY <1>1, <1>2 DEF StoredIps, KernelType, Lists
<1>4. ASSUME promised.known
      PROVE  /\ promised.names = Range(sitesFile.lines) /\ promised.nets = netsFile.nets
             /\ ~sitesFile.there => sitesFile.lines = <<>>
             /\ ~netsFile.there => netsFile.nets = {} /\ kernel.nets = {}
             /\ stage \in {"off", "up", "leaving"} /\ ~kernel.on
  BY <1>1, <1>2, <1>4 DEF Only, Refused
<1>5. CASE c.cmd = "block-ip"
  <2>1. Exit(p)
    BY <1>5 DEF StoreIps
  <2>2. ASSUME promised.known
        PROVE  Only(p)'
    <3>1. sitesFile.lines = <<>> => kernel.domains = <<>>
      BY <1>1, <1>2, <1>5, <2>2 DEF Edit
    <3> QED BY <1>1, <1>3, <1>4, <2>1, <2>2, <3>1, Exits DEF Only
  <2> QED BY <1>1, <1>2, <2>1, <2>2, Exits, OnlyMoves
<1>6. CASE c.cmd = "reset"
  <2>1. PICK place \in {"truncate", "nets", "rmnets"} :
          Goto(p, place) /\ (~Refused => place = "truncate")
    BY <1>6 DEF StoreIps, ResetNets
  <2>2. NamesAfter(proc[p])' = Range(Defaults)
    BY <1>6, <2>1, Goes DEF NamesAfter
  <2>3. ASSUME promised.known
        PROVE  Only(p)'
    <3>1. place = "truncate" /\ kernel.domains = c.lines /\ c.lines = Defaults
      BY <1>1, <1>2, <1>6, <2>1, <2>3 DEF Edit, Path
    <3>2. Edit(proc[p])'
      BY <1>3, <2>1, <2>2, <3>1, Goes DEF Edit
    <3> QED BY <1>1, <1>3, <1>4, <2>1, <2>3, <3>1, <3>2, Goes DEF Only
  <2> QED BY <1>1, <1>2, <2>1, <2>3, Goes, OnlyMoves
<1> QED BY <1>2, <1>5, <1>6

LEMMA SaidNets ==
  ASSUME IInv, NEW p \in Procs, ReadNets(p) \/ StoreNets(p)
  PROVE  Said'
<1> DEFINE c == proc[p]
<1>1. /\ c.at \in {"readnets", "nets"} /\ UNCHANGED <<fileVars, history, stage>>
      /\ ReadNets(p) => UNCHANGED kernel /\ c.at = "readnets"
      /\ StoreNets(p) =>
           c.at = "nets" /\ kernel' = IF Refused THEN kernel ELSE StoredNets(c.nets)
  BY DEF ReadNets, StoreNets, OnlyProc, SetKernel, Still
<1>2. /\ c \in Cmds /\ Path(c) /\ c # Free /\ KernelType /\ proc \in [Procs -> Cmds]
      /\ c.cmd \in {"allow-ip", "reset", "enable"}
      /\ c.at = "readnets" => c.cmd = "enable"
      /\ promised.known => Only(p) /\ Edit(c) /\ ~Refused
  BY <1>1, Running, Parts DEF IInv, Path, ProcType
<1>3. kernel'.on = kernel.on /\ kernel'.domains = kernel.domains
      /\ (StoreNets(p) /\ ~Refused => kernel'.nets = c.nets)
  BY <1>1, <1>2 DEF StoredNets, KernelType, Lists
<1>4. ASSUME promised.known
      PROVE  /\ promised.names = Range(sitesFile.lines) /\ promised.nets = netsFile.nets
             /\ sitesFile.lines = <<>> => kernel.domains = <<>>
             /\ ~sitesFile.there => sitesFile.lines = <<>>
             /\ ~netsFile.there => netsFile.nets = {} /\ kernel.nets = {}
             /\ stage \in {"off", "up", "leaving"} /\ ~kernel.on
             /\ Sysfs /\ Sysfs'
             /\ c.cmd = "enable" => kernel.domains = sitesFile.lines
             /\ c.cmd = "enable" /\ c.at = "nets" => c.nets = netsFile.nets
  BY <1>1, <1>2, <1>4 DEF Only, Refused, Edit, Sysfs
<1>5. CASE ReadNets(p)
  <2>1. PICK place \in {"nets", "start"} :
          /\ proc' = [proc EXCEPT ![p] = [c EXCEPT !.at = place, !.nets = netsFile.nets]]
          /\ place = IF netsFile.there THEN "nets" ELSE "start"
    BY <1>2, <1>5 DEF ReadNets
  <2> DEFINE e == [c EXCEPT !.at = place, !.nets = netsFile.nets]
  <2>2. proc' = [proc EXCEPT ![p] = e] /\ proc'[p] = e
    BY <1>2, <2>1
  <2>3. e.at = place /\ e.nets = netsFile.nets /\ e.cmd = c.cmd
    BY <1>2 DEF Cmds
  <2> HIDE DEF e
  <2>4. ASSUME promised.known
        PROVE  Only(p)'
    <3>1. Edit(proc[p])'
      BY <1>1, <1>2, <1>4, <1>5, <2>1, <2>2, <2>3, <2>4 DEF Edit
    <3> QED BY <1>1, <1>4, <1>5, <2>1, <2>2, <2>3, <2>4, <3>1 DEF Only
  <2> QED BY <1>1, <1>2, <2>2, <2>4, OnlyMoves
<1>6. CASE StoreNets(p) /\ Exit(p)
  <2>1. ASSUME promised.known, ~Refused
        PROVE  FALSE
    <3>1. Goto(p, "start") \/ Goto(p, "rmnets") \/ Goto(p, "truncnets")
      BY <1>2, <1>6, <2>1 DEF StoreNets
    <3> QED BY <1>6, <3>1, Goes, Exits
  <2>2. promised.known => Only(p)'
    BY <1>2, <2>1
  <2> QED BY <1>1, <1>2, <1>6, <2>2, Exits, OnlyMoves
<1>7. CASE StoreNets(p) /\ ~Exit(p)
  <2>1. PICK place \in {"start", "rmnets", "truncnets"} :
          /\ Goto(p, place)
          /\ place = "start" => c.cmd = "enable"
          /\ place = "rmnets" => c.cmd = "reset"
          /\ place = "truncnets" => c.cmd = "allow-ip"
          /\ c.cmd = "enable" => place = "start"
    BY <1>2, <1>7 DEF StoreNets
  <2>2. ASSUME promised.known
        PROVE  Only(p)'
    <3>1. kernel'.nets = c.nets
      BY <1>2, <1>3, <1>7, <2>2
    <3>2. place = "rmnets" => kernel'.nets = {}
      BY <1>2, <2>1, <3>1 DEF Path
    <3>3. place = "start" => kernel'.nets = netsFile.nets
      BY <1>1, <1>4, <1>7, <2>1, <2>2, <3>1
    <3>4. Edit(proc[p])'
      BY <1>1, <1>3, <1>4, <2>1, <2>2, <3>2, <3>3, Goes DEF Edit
    <3> QED BY <1>1, <1>3, <1>4, <2>1, <2>2, <3>2, <3>3, <3>4, Goes DEF Only
  <2> QED BY <1>1, <1>2, <2>1, <2>2, Goes, OnlyMoves
<1> QED BY <1>5, <1>6, <1>7

LEMMA SaidNetsFiles ==
  ASSUME IInv, NEW p \in Procs, TruncateNets(p) \/ FillNets(p) \/ RemoveNets(p)
  PROVE  Said'
<1> DEFINE c == proc[p]
<1>1. c.at \in {"truncnets", "fillnets", "rmnets"} /\ UNCHANGED <<kernelVars, sitesFile>>
  BY DEF TruncateNets, FillNets, RemoveNets
<1>2. /\ c \in Cmds /\ Path(c) /\ c # Free /\ HistoryType
      /\ c.cmd \in {"allow-ip", "reset"}
      /\ promised.known => Only(p) /\ Edit(c)
  BY <1>1, Running, Parts DEF IInv, Path
<1>3. ASSUME promised.known
      PROVE  /\ promised.names = Range(sitesFile.lines)
             /\ sitesFile.lines = <<>> => kernel.domains = <<>>
             /\ ~sitesFile.there => sitesFile.lines = <<>>
             /\ stage \in {"off", "up", "leaving"} /\ ~kernel.on
             /\ c.at \in {"truncnets", "fillnets"} => Sysfs /\ Sysfs'
  BY <1>1, <1>2, <1>3 DEF Only, Sysfs
<1>4. CASE TruncateNets(p)
  <2>1. Goto(p, "fillnets") /\ UNCHANGED history /\ c.at = "truncnets"
        /\ netsFile'.there /\ netsFile'.nets = {}
    BY <1>4 DEF TruncateNets
  <2>2. ASSUME promised.known
        PROVE  Only(p)'
    <3>1. Edit(proc[p])'
      BY <1>1, <1>2, <2>1, Goes DEF Edit
    <3> QED BY <1>1, <1>3, <2>1, <2>2, <3>1, Goes DEF Only
  <2> QED BY <1>2, <2>1, <2>2, Goes, OnlyMoves
<1>5. CASE FillNets(p) \/ RemoveNets(p)
  <2>1. /\ Exit(p)
        /\ promised'.known => promised.known
        /\ netsFile'.there \/ (c.at = "rmnets" /\ netsFile'.nets = {})
    BY <1>5 DEF FillNets, RemoveNets, Promise, Unknown, NoNets
  <2>3. promised.known => /\ promised'.names = promised.names
                          /\ promised'.nets = netsFile'.nets
    BY <1>2, <1>5 DEF FillNets, RemoveNets, Promise, HistoryType, NoNets
  <2>2. ASSUME promised.known
        PROVE  Only(p)'
    <3>1. c.at = "rmnets" => kernel.nets = {}
      BY <1>2, <2>2 DEF Edit
    <3> QED BY <1>1, <1>3, <2>1, <2>3, <2>2, <3>1, Exits DEF Only
  <2> QED BY <1>2, <2>1, <2>2, Exits, OnlyMoves
<1> QED BY <1>4, <1>5

(* A block begins; a command is killed. *)
LEMMA SaidStarts ==
  ASSUME IInv, NEW p \in Procs, Start(p) \/ Kill(p)
  PROVE  Said'
<1> DEFINE c == proc[p]
<1>1. Exit(p) /\ c # Free /\ UNCHANGED <<stage, fileVars>>
  <2>1. CASE Start(p)
    <3>1. c.at = "start"
      BY <2>1 DEF Start
    <3>2. c # Free
      BY <3>1 DEF Free
    <3> QED BY <2>1, <3>2 DEF Start
  <2>2. CASE Kill(p)
    BY <2>2 DEF Kill
  <2> QED BY <2>1, <2>2
<1>2. promised.known => Only(p) /\ Edit(c)
  BY <1>1, OnlyBefore DEF Only
<1>3. KernelType
  BY Parts DEF IInv
<1>4. kernel'.domains = kernel.domains /\ kernel'.nets = kernel.nets
  BY <1>3 DEF Start, Kill, SetKernel, KernelType, Lists
<1>5. promised'.known => promised' = promised
  <2>1. CASE Start(p)
    BY <2>1 DEF Start
  <2>2. CASE Kill(p)
    BY <2>2 DEF Kill, MuddledIf, Unknown
  <2> QED BY <2>1, <2>2
<1>6. ASSUME promised.known, promised'.known
      PROVE  Only(p)'
  <2>1. CASE Start(p)
    <3>1. c.at = "start"
      BY <2>1 DEF Start
    <3> QED BY <1>1, <1>2, <1>4, <1>5, <1>6, <3>1, Exits DEF Only
  <2>2. CASE Kill(p)
    <3>1. ~Harmed(p)
      BY <1>6, <2>2 DEF Kill, MuddledIf, Unknown
    <3>2. c.at \notin {"fill", "fillnets"}
      BY <1>2, <1>6, <3>1 DEF Harmed, Edit
    <3>3. c.at \in {"sync", "ips", "truncate"} => sitesFile.lines # <<>>
      BY <3>1 DEF Harmed
    <3>4. c.at = "truncnets" => netsFile.nets # {}
      BY <3>1 DEF Harmed
    <3> QED BY <1>1, <1>2, <1>4, <1>5, <1>6, <3>2, <3>3, <3>4, Exits DEF Only
  <2> QED BY <2>1, <2>2
<1> QED BY <1>1, <1>5, <1>6, Exits, OnlyMoves

(* What happens beneath the commands. *)
LEMMA SaidBeneath ==
  ASSUME IInv, End \/ Rmmod \/ SysfsGone \/ (Kernel /\ UNCHANGED <<proc, fileVars, history>>)
  PROVE  Said'
<1>1. KernelType /\ Stages /\ PacketType
  BY Parts DEF IInv
<1>2. ASSUME promised.known
      PROVE  Alone /\ Filed /\ Edits
  BY <1>2 DEF IInv, Said
<1>3. UNCHANGED <<proc, fileVars>>
      /\ (promised'.known => promised' = promised)
  <2>1. CASE End \/ Rmmod
    BY <2>1 DEF End, Rmmod
  <2>2. CASE SysfsGone
    BY <2>2 DEF SysfsGone, MuddledIf, Unknown
  <2> QED BY <2>1, <2>2
<1>4. /\ \A places : Some(places)' = Some(places)
      /\ promised' = promised => \A p \in Procs : NamesAfter(proc[p])' = NamesAfter(proc[p])
  BY <1>3 DEF Some, NamesAfter
<1>5. ASSUME UNCHANGED <<kernel, stage>>
      PROVE  Said'
  BY <1>2, <1>3, <1>4, <1>5 DEF Said, Alone, Filed, Edits, Edit, Sysfs
<1>6. ASSUME kernel'.domains = kernel.domains, kernel'.nets = kernel.nets,
             kernel'.on => kernel.on,
             stage' = stage \/ (stage' = "leaving" /\ stage = "up")
      PROVE  Said'
  BY <1>2, <1>3, <1>4, <1>6 DEF Said, Alone, Filed, Edits, Edit, Sysfs
<1>7. ASSUME \/ kernel'.domains = kernel.domains /\ kernel'.nets = kernel.nets
             \/ kernel'.domains = <<>> /\ kernel'.nets = {},
             promised'.known => \A p \in Procs : proc[p] = Free
      PROVE  Said'
  <2>1. SUFFICES ASSUME promised'.known
                 PROVE  Alone' /\ Filed' /\ Edits'
    BY DEF Said
  <2>2. /\ Filed /\ promised' = promised
        /\ \A p \in Procs : proc[p] = Free /\ proc'[p] = Free
    BY <1>2, <1>3, <1>7, <2>1
  <2>3. Alone'
    BY <2>2 DEF Alone
  <2>4. \A p \in Procs : Edit(proc[p])'
    BY <2>2 DEF Edit, Free
  <2>5. Edits'
    BY <2>4 DEF Edits
  <2>6. \A places : "idle" \notin places => ~Some(places)
    BY <2>2 DEF Some, Free
  <2>7. /\ ~Some({"fill"}) /\ ~Some({"fillnets"}) /\ ~Some({"truncnets"})
        /\ ~Some({"sync", "ips", "truncate", "fill"})
    BY <2>6
  <2>8. Filed'
    BY <1>3, <1>4, <1>7, <2>2, <2>7 DEF Filed
  <2> QED BY <2>3, <2>5, <2>8
<1>8. CASE End
  BY <1>1, <1>6, <1>8 DEF End, SetKernel, Still, KernelType, Lists
<1>9. CASE Rmmod
  BY <1>6, <1>9 DEF Rmmod, Leave
<1>10. CASE SysfsGone
  BY <1>7, <1>10 DEF SysfsGone, RemoveSysfs, MuddledIf, Unknown
<1>11. CASE Load
  <2>1. UNCHANGED kernel /\ kernel = NoLists /\ stage = "off" /\ stage' = "up"
    BY <1>1, <1>11 DEF Load, SetKernel, Stages
  <2>2. ASSUME promised.known, promised' = promised
        PROVE  Alone' /\ Filed' /\ Edits'
    <3>1. Alone /\ Filed /\ Edits
      BY <1>2, <2>2
    <3>2. Alone'
      BY <1>3, <2>1, <3>1 DEF Alone, Sysfs
    <3>3. Filed'
      BY <1>3, <1>4, <2>1, <2>2, <3>1 DEF Filed
    <3>4. Edits'
      BY <1>3, <1>4, <2>1, <2>2, <3>1 DEF Edits, Edit
    <3> QED BY <3>2, <3>3, <3>4
  <2> QED BY <1>3, <2>2 DEF Said
<1>12. CASE Unload
  <2>1. stage \in {"wait", "unhook", "free", "freed"}
    BY <1>12 DEF Unload, Wait, CleanupNetfilter, FreeLists, Unloaded
  <2>2. promised'.known => \A p \in Procs : proc[p] = Free
    BY <1>2, <1>3, <2>1 DEF Alone
  <2>3. kernel' \in {kernel, NoLists}
    BY <1>12 DEF Unload, Wait, CleanupNetfilter, FreeLists, Unloaded, SetKernel
  <2> QED BY <1>7, <2>2, <2>3, Constants
<1>13. CASE Hook \/ \E p \in Packets : Arrive(p)
  <2>1. UNCHANGED <<kernel, stage>>
    BY <1>13 DEF Hook, Depart, Enter, CheckAllowed, CheckBlocked, CheckDomains, CheckName,
       OnlyPacket, Arrive
  <2> QED BY <1>5, <2>1
<1> QED BY <1>8, <1>9, <1>10, <1>11, <1>12, <1>13 DEF Kernel

LEMMA SaidPowerLoss ==
  ASSUME IInv, PowerLoss
  PROVE  Said'
<1>1. KernelType /\ ProcType
  BY Parts DEF IInv
<1>2. /\ \A p \in Procs : proc'[p] = Free
      /\ UNCHANGED fileVars
      /\ promised'.known => promised' = promised /\ \A p \in Procs : ~Harmed(p)
  BY DEF PowerLoss, MuddledIf, Unknown
<1>3. \/ kernel'.domains = kernel.domains /\ kernel'.nets = kernel.nets
      \/ kernel'.domains = <<>> /\ kernel'.nets = {}
  <2>1. RestoredLists(kernel) = kernel
    BY <1>1, NamesStay DEF RestoredLists, KernelType, Lists
  <2> QED BY <2>1, Constants DEF PowerLoss
<1>4. SUFFICES ASSUME promised'.known
               PROVE  Alone' /\ Filed' /\ Edits'
  BY DEF Said
<1>5. Filed /\ Edits /\ promised' = promised /\ \A p \in Procs : ~Harmed(p)
  BY <1>2, <1>4 DEF IInv, Said
<1>6. Alone'
  BY <1>2 DEF Alone
<1>7. \A p \in Procs : Edit(proc[p])'
  BY <1>2 DEF Edit, Free
<1>8. Edits'
  BY <1>7 DEF Edits
<1>9. /\ ~Some({"fill"}) /\ ~Some({"fillnets"})
      /\ sitesFile.lines = <<>> => ~Some({"sync", "ips", "truncate", "fill"})
      /\ netsFile.nets = {} => ~Some({"truncnets"})
  <2>1. \A p \in Procs : Edit(proc[p]) /\ ~Harmed(p)
    BY <1>5 DEF Edits
  <2> QED BY <2>1 DEF Some, Harmed, Edit
<1>10. Filed'
  BY <1>2, <1>3, <1>5, <1>9 DEF Filed
<1> QED BY <1>6, <1>8, <1>10

LEMMA SaidStep ==
  ASSUME IInv, Next
  PROVE  Said'
BY SaidBegins, SaidReads, SaidStores, SaidFiles, SaidIps, SaidNets, SaidNetsFiles,
   SaidStarts, SaidBeneath, SaidPowerLoss DEF Next, Runs

(* A block that stands has what was said, and one that begins gets it. *)
LEMMA BlocksStep ==
  ASSUME IInv, Next
  PROVE  BlocksWhatWasSaid'
<1>1. KernelType /\ Stages /\ BlocksWhatWasSaid /\ FixedWhileOn /\ ProcType
  BY Parts DEF IInv
<1>2. SUFFICES ASSUME kernel'.on, Sysfs', promised'.known
               PROVE  Range(kernel'.domains) = promised'.names
                      /\ kernel'.nets = promised'.nets
  BY DEF BlocksWhatWasSaid
<1>3. Said' /\ promised.known => Alone /\ Filed /\ Edits
  BY SaidStep DEF IInv, Said
<1>4. ASSUME kernel.on, Sysfs, promised' = promised, kernel'.domains = kernel.domains,
             kernel'.nets = kernel.nets
      PROVE  Range(kernel'.domains) = promised'.names /\ kernel'.nets = promised'.nets
  BY <1>1, <1>2, <1>4 DEF BlocksWhatWasSaid
<1>5. CASE \E p \in Procs : Begins(p)
  <2>1. UNCHANGED kernelVars /\ promised' \in {promised, Unknown}
    BY <1>5 DEF Begins, BlockSites, Add, Remove, BlockIp, AllowIp, Reload, Reset, Enable,
       Begin, MuddledIf
  <2>2. promised' = promised
    BY <1>2, <2>1 DEF Unknown
  <2> QED BY <1>2, <1>4, <2>1, <2>2 DEF Sysfs
<1>6. CASE \E p \in Procs : \/ Read(p) \/ Sync(p) \/ Truncate(p) \/ ReadNets(p)
                            \/ TruncateNets(p)
  <2>1. UNCHANGED <<kernelVars, promised>>
    BY <1>6 DEF Read, Sync, Truncate, ReadNets, TruncateNets, OnlyProc
  <2> QED BY <1>2, <1>4, <2>1 DEF Sysfs
<1>7. CASE \E p \in Procs : Kill(p)
  <2>1. UNCHANGED kernelVars /\ promised' \in {promised, Unknown}
    BY <1>7 DEF Kill, MuddledIf
  <2>2. promised' = promised
    BY <1>2, <2>1 DEF Unknown
  <2> QED BY <1>2, <1>4, <2>1, <2>2 DEF Sysfs
<1>8. ASSUME NEW p \in Procs, Fill(p) \/ FillNets(p) \/ RemoveNets(p)
      PROVE  FALSE
  <2>1. UNCHANGED kernel /\ proc[p].at \in {"fill", "fillnets", "rmnets"}
        /\ promised.known
    <3>1. UNCHANGED kernel /\ proc[p].at \in {"fill", "fillnets", "rmnets"}
      BY <1>8 DEF Fill, FillNets, RemoveNets
    <3>2. PICK after : promised' = IF promised.known THEN after ELSE Unknown
      BY <1>8 DEF Fill, FillNets, RemoveNets, Promise
    <3>3. promised.known
      BY <1>2, <3>2 DEF Unknown
    <3> QED BY <3>1, <3>3
  <2>2. Path(proc[p]) /\ Only(p) /\ proc[p] # Free
    BY <2>1, Running
  <2> QED BY <1>2, <2>1, <2>2 DEF Path, Only
<1>9. ASSUME NEW p \in Procs, Store(p) \/ StoreIps(p) \/ StoreNets(p)
      PROVE  Range(kernel'.domains) = promised'.names /\ kernel'.nets = promised'.nets
  <2>1. UNCHANGED <<stage, promised>> /\ (Refused => UNCHANGED kernel)
        /\ kernel'.on = kernel.on
    <3>1. UNCHANGED <<stage, promised>> /\ (Refused => UNCHANGED kernel)
      BY <1>9 DEF Store, StoreIps, StoreNets, SetKernel, Still
    <3>2. kernel'.on = kernel.on
      BY <1>1, <1>9 DEF Store, StoreIps, StoreNets, SetKernel, StoredDomains, StoredIps,
         StoredNets, KernelType, Lists
    <3> QED BY <3>1, <3>2
  <2> QED BY <1>2, <1>4, <2>1 DEF Refused, Sysfs
<1>10. ASSUME NEW p \in Procs, Start(p)
       PROVE  Range(kernel'.domains) = promised'.names /\ kernel'.nets = promised'.nets
  <2>1. proc[p].at = "start" /\ UNCHANGED <<promised, stage>>
        /\ kernel'.domains = kernel.domains /\ kernel'.nets = kernel.nets
    BY <1>1, <1>10 DEF Start, SetKernel, KernelType, Lists
  <2>2. Path(proc[p]) /\ Only(p) /\ Edit(proc[p])
    BY <1>2, <2>1, Running
  <2> QED BY <2>1, <2>2 DEF Path, Only, Edit
<1>11. CASE End
  BY <1>1, <1>2, <1>11 DEF End, SetKernel, KernelType, Lists
<1>12. CASE PowerLoss
  <2>1. RestoredLists(kernel) = kernel
    BY <1>1, NamesStay DEF RestoredLists, KernelType, Lists
  <2>2. kernel' = kernel /\ Sysfs /\ promised' \in {promised, Unknown}
    BY <1>2, <1>12, <2>1, Constants DEF PowerLoss, MuddledIf, Sysfs
  <2> QED BY <1>2, <1>4, <2>2 DEF Unknown
<1>13. CASE Rmmod \/ SysfsGone
  BY <1>2, <1>4, <1>13 DEF Rmmod, SysfsGone, Leave, RemoveSysfs, Sysfs
<1>14. CASE Load \/ Unload
  BY <1>2, <1>14, Constants DEF Load, Unload, Wait, CleanupNetfilter, FreeLists, Unloaded,
     SetKernel, Sysfs
<1>15. CASE UNCHANGED <<history>> /\ (Hook \/ \E p \in Packets : Arrive(p))
  <2>1. UNCHANGED <<kernel, stage, promised>>
    BY <1>15 DEF Hook, Depart, Enter, CheckAllowed, CheckBlocked, CheckDomains, CheckName,
       OnlyPacket, Arrive
  <2> QED BY <1>2, <1>4, <2>1 DEF Sysfs
<1> QED BY <1>5, <1>6, <1>7, <1>8, <1>9, <1>10, <1>11, <1>12, <1>13, <1>14, <1>15
        DEF Next, Runs, Kernel

-----------------------------------------------------------------------------
LEMMA InitIInv ==
  ASSUME Init
  PROVE  IInv
<1>1. sitesFile \in [there : BOOLEAN, lines : Seq(Names)]
      /\ Len(sitesFile.lines) <= MaxDomains
      /\ (~sitesFile.there => sitesFile.lines = <<>>)
  <2>1. CASE sitesFile = Absent
    BY <2>1, Constants, EmptySeq DEF Absent
  <2>2. CASE sitesFile = [there |-> TRUE, lines |-> Defaults]
    BY <2>2, Constants
  <2> QED BY <2>1, <2>2 DEF Init
<1>2. Range(sitesFile.lines) \in SUBSET Names
  BY <1>1, RangeOfSeq
<1>3. TypeOK
  <2>1. KernelType /\ PacketType
    <3>1. kernel = NoLists /\ pkt = NoPacket /\ stage = "off" /\ raced = FALSE
      BY DEF Init, NetfilterInit
    <3>2. KernelType
      BY <3>1, Constants DEF KernelType
    <3>3. PacketType
      BY <3>1, Constants DEF PacketType
    <3> QED BY <3>2, <3>3
  <2>2. ProcType
    BY Constants DEF Init, ProcType
  <2>3. FileType
    BY <1>1 DEF Init, NoNets, FileType
  <2>4. HistoryType
    BY <1>2, SitesAssumption DEF Init, HistoryType
  <2> QED BY <2>1, <2>2, <2>3, <2>4, Parts
<1>4. Stages /\ Passed /\ VerdictRight /\ FixedWhileOn /\ BlocksWhatWasSaid
  BY Constants DEF Init, NetfilterInit, NoPacket, Stages, Passed, VerdictRight,
     FixedWhileOn, BlocksWhatWasSaid, Judged
<1>5. Paths
  BY DEF Init, Paths, Path, Free
<1>6. Said
  <2>1. Alone
    BY DEF Init, Alone
  <2>2. Filed
    BY <1>1, Constants DEF Init, NetfilterInit, Filed, NoNets
  <2>3. Edits
    BY DEF Init, Edits, Edit, Free
  <2> QED BY <2>1, <2>2, <2>3 DEF Said
<1> QED BY <1>3, <1>4, <1>5, <1>6 DEF IInv

LEMMA NextIInv ==
  ASSUME IInv, [Next]_vars
  PROVE  IInv'
<1>1. CASE Next
  <2>1. TypeOK'
    BY <1>1, Parts, KernelTypeStep, PacketTypeStep, ProcTypeStep, FileTypeStep,
       HistoryTypeStep DEF TypeOK, KernelType, PacketType, ProcType, FileType,
       HistoryType, Lists, Cmds
  <2> QED BY <1>1, <2>1, StagesStep, PassedStep, VerdictStep, FixedStep, PathsStep,
          SaidStep, BlocksStep DEF IInv
<1>2. CASE UNCHANGED vars
  <2>1. /\ UNCHANGED <<kernel, stage, pkt, raced, proc, sitesFile, netsFile>>
        /\ UNCHANGED <<unloads, promised, chosen>>
    BY <1>2 DEF vars
  <2>2. TypeOK'
    BY <2>1 DEF IInv, TypeOK
  <2>3. (Stages /\ Passed /\ VerdictRight /\ FixedWhileOn /\ Paths /\ BlocksWhatWasSaid)'
    BY <2>1 DEF IInv, Stages, Passed, VerdictRight, ToBeDropped, FixedWhileOn, ListsOf,
       Paths, BlocksWhatWasSaid, Sysfs
  <2>4. \A p \in Procs : NamesAfter(proc[p])' = NamesAfter(proc[p])
    BY <2>1 DEF NamesAfter
  <2>5. Said'
    BY <2>1, <2>4 DEF IInv, Said, Alone, Filed, Some, Edits, Edit, Sysfs
  <2> QED BY <2>2, <2>3, <2>5 DEF IInv
<1> QED BY <1>1, <1>2

(* The invariant of the commands, the module and the packet together. *)
THEOREM Invariance == Spec => []IInv
BY InitIInv, NextIInv, PTL DEF Spec

(* Every variable keeps the shape that TypeOK gives it; above all, what the *)
(* kernel and domains.conf hold are names as Normalize makes them, no more  *)
(* than MAX_DOMAINS.                                                        *)
THEOREM TypeCorrect == Spec => []TypeOK
<1>1. IInv => TypeOK
  BY DEF IInv
<1> QED BY <1>1, Invariance, PTL

(* netfilter.c: as long as lists and `enabled' stand still while a packet   *)
(* passes, the steps of the hook come to what the lists as a whole demand,  *)
(* whatever the lists, the packets and the interleaving with the commands.  *)
THEOREM VerdictIsRight == Spec => []VerdictRight
<1>1. IInv => VerdictRight
  BY DEF IInv
<1> QED BY <1>1, Invariance, PTL

(* kblocker_exit: when the address lists are freed no hook is about to read *)
(* them, unless a block began behind the exit function's test.              *)
THEOREM ListsStayAlive == Spec => []ListsAlive
<1>1. IInv => ListsAlive
  BY DEF IInv, Stages, ListsAlive
<1> QED BY <1>1, Invariance, PTL

(* "Fixed while enabled": a block keeps the lists that it began with,       *)
(* whatever commands are on their way, and across a loss of power.          *)
THEOREM BlockIsFixed == Spec => []FixedWhileOn
<1>1. IInv => FixedWhileOn
  BY DEF IInv
<1> QED BY <1>1, Invariance, PTL

(* A block has what the commands before it have said, although commands     *)
(* died, power was lost and the module was unloaded in between.             *)
THEOREM BlocksAsSaid == Spec => []BlocksWhatWasSaid
<1>1. IInv => BlocksWhatWasSaid
  BY DEF IInv
<1> QED BY <1>1, Invariance, PTL
=============================================================================
