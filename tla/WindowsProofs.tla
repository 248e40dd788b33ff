---------------------------- MODULE WindowsProofs ----------------------------
(***************************************************************************)
(* Facts about Windows for every valid plan and every instant: where an     *)
(* occurrence lies, that the two days looked at are enough, and that a      *)
(* window does not become active again after another one was.               *)
(***************************************************************************)
EXTENDS Windows, TLAPS

(* Whole numbers of days keep their order. *)
LEMMA DayOrder ==
  ASSUME NEW D \in Nat \ {0}, NEW a \in Int, NEW b \in Int, a * D < b * D
  PROVE  a < b
<1>1. SUFFICES ASSUME a >= b PROVE FALSE
  OBVIOUS
<1>2. (a - b) * D >= 0
  BY <1>1
<1>3. (a - b) * D = a * D - b * D
  OBVIOUS
<1> QED BY <1>2, <1>3

(* A division rounds down. *)
LEMMA DivBounds ==
  ASSUME NEW D \in Nat \ {0}, NEW t \in Int
  PROVE  /\ t \div D \in Int
         /\ (t \div D) * D <= t /\ t < (t \div D + 1) * D
<1>1. t \div D \in Int /\ t % D \in 0..(D - 1)
  OBVIOUS
<1>2. t = D * (t \div D) + (t % D)
  OBVIOUS
<1> QED BY <1>1, <1>2

(* A day has a length. *)
LEMMA DayType == Day \in Nat \ {0} /\ Day = DayLen * Minute
BY WindowsAssumption DEF Day

(* A block with times of a day, as Valid demands. *)
HasTimes(b) ==
  b.start \in 0..(DayLen - 1) /\ b.end \in 0..(DayLen - 1) /\ b.start # b.end

(* The blocks of a valid plan have such times. *)
LEMMA ValidTimes ==
  ASSUME NEW plan, Valid(plan), NEW i \in DOMAIN plan
  PROVE  HasTimes(plan[i])
BY DEF Valid, HasTimes

(* An occurrence begins on its day and ends before the day after the next.  *)
LEMMA OccurrenceBounds ==
  ASSUME NEW b, HasTimes(b), NEW d \in Int
  PROVE  /\ Occurrence(b, d).start \in Int /\ Occurrence(b, d).end \in Int
         /\ Occurrence(b, d).key = <<b.id, Occurrence(b, d).start>>
         /\ d * Day <= Occurrence(b, d).start
         /\ Occurrence(b, d).start < Occurrence(b, d).end
         /\ Occurrence(b, d).end < (d + 2) * Day
         /\ Occurrence(b, d).end = Occurrence(b, d).start + Length(b) * Minute
         /\ Length(b) * Minute \in Int
<1> DEFINE s == b.start
           n == Length(b)
<1>1. s \in Nat /\ n \in Nat /\ n > 0 /\ s + n < 2 * DayLen
  BY WindowsAssumption DEF HasTimes, Length
<1>2. s * Minute \in Nat /\ n * Minute \in Nat /\ n * Minute > 0
  BY <1>1, WindowsAssumption
<1>3. s * Minute + n * Minute < 2 * Day
  <2>1. (2 * DayLen - s - n) * Minute > 0
    BY <1>1, WindowsAssumption
  <2>2. (2 * DayLen - s - n) * Minute = 2 * (DayLen * Minute) - s * Minute - n * Minute
    BY <1>1, WindowsAssumption
  <2> QED BY <1>2, <2>1, <2>2, DayType, WindowsAssumption
<1>4. d * Day \in Int /\ (d + 2) * Day = d * Day + 2 * Day
  BY DayType
<1>5. /\ Occurrence(b, d).start = d * Day + s * Minute
      /\ Occurrence(b, d).end = d * Day + s * Minute + n * Minute
      /\ Occurrence(b, d).key = <<b.id, Occurrence(b, d).start>>
  BY DEF Occurrence
<1> HIDE DEF s, n
<1>6. /\ d * Day <= d * Day + s * Minute
      /\ d * Day + s * Minute < d * Day + s * Minute + n * Minute
      /\ d * Day + s * Minute + n * Minute < (d + 2) * Day
      /\ d * Day + s * Minute \in Int
  BY <1>2, <1>3, <1>4, DayType
<1>7. d * Day + s * Minute + n * Minute \in Int
  BY <1>2, <1>4
<1> QED BY <1>2, <1>5, <1>6, <1>7 DEF s, n

(* What contains an instant began on its day or on the day before. *)
LEMMA LookedFar ==
  ASSUME NEW t \in Int, NEW d \in Int, d * Day <= t, t < (d + 2) * Day
  PROVE  d \in DaysLooked(t)
<1> DEFINE q == t \div Day
<1>1. q \in Int /\ q * Day <= t /\ t < (q + 1) * Day
  BY DayType, DivBounds
<1> HIDE DEF q
<1>2. d < q + 1
  <2>1. d * Day < (q + 1) * Day
    BY <1>1, DayType
  <2> QED BY <1>1, <2>1, DayOrder, DayType
<1>3. q < d + 2
  <2>1. q * Day < (d + 2) * Day
    BY <1>1, DayType
  <2> QED BY <1>1, <2>1, DayOrder, DayType
<1> QED BY <1>1, <1>2, <1>3 DEF DaysLooked, q

-----------------------------------------------------------------------------
(* An occurrence of an enabled block of a plan that contains an instant. *)
Contains(plan, t, i, d) ==
  /\ i \in DOMAIN plan /\ plan[i].enabled
  /\ d \in Int /\ d % Week \in plan[i].days
  /\ Occurrence(plan[i], d).start <= t /\ t < Occurrence(plan[i], d).end

(* The candidates are the occurrences that contain the instant. *)
LEMMA CandidateIs ==
  ASSUME NEW plan, NEW t \in Int, NEW c \in Candidates(plan, t)
  PROVE  \E i, d : Contains(plan, t, i, d) /\ c = <<i, Occurrence(plan[i], d)>>
<1>1. PICK i \in DOMAIN plan :
        plan[i].enabled /\ c \in {<<i, w>> : w \in WindowsAt(plan[i], t)}
  BY DEF Candidates
<1>2. PICK w \in WindowsAt(plan[i], t) : c = <<i, w>>
  BY <1>1
<1>3. PICK d \in DaysLooked(t) : d % Week \in plan[i].days /\ w = Occurrence(plan[i], d)
  BY <1>2 DEF WindowsAt
<1>4. d \in Int
  BY DayType, DivBounds DEF DaysLooked
<1>5. w.start <= t /\ t < w.end
  BY <1>2 DEF WindowsAt
<1> QED BY <1>1, <1>2, <1>3, <1>4, <1>5 DEF Contains

LEMMA ContainingIsCandidate ==
  ASSUME NEW plan, Valid(plan), NEW t \in Int, NEW i, NEW d, Contains(plan, t, i, d)
  PROVE  <<i, Occurrence(plan[i], d)>> \in Candidates(plan, t)
<1> DEFINE w == Occurrence(plan[i], d)
<1>1. i \in DOMAIN plan /\ d \in Int
  BY DEF Contains
<1>2. /\ w.start \in Int /\ w.end \in Int /\ d * Day \in Int /\ (d + 2) * Day \in Int
      /\ d * Day <= w.start /\ w.end < (d + 2) * Day
  BY <1>1, ValidTimes, OccurrenceBounds, DayType
<1>3. w.start <= t /\ t < w.end
  BY DEF Contains
<1>4. d * Day <= t /\ t < (d + 2) * Day
  <2> HIDE DEF w
  <2> QED BY <1>2, <1>3
<1>5. d \in DaysLooked(t)
  BY <1>1, <1>4, LookedFar
<1>6. w \in WindowsAt(plan[i], t)
  BY <1>3, <1>5 DEF WindowsAt, Contains
<1> QED BY <1>6 DEF Candidates, Contains

(* A window of the plan that is open at an instant is a candidate then. *)
LEMMA ScheduledIsCandidate ==
  ASSUME NEW plan, Valid(plan), NEW t \in Int, NEW days, days \subseteq Int,
         NEW w \in Scheduled(plan, days), w.start <= t, t < w.end
  PROVE  \E i : <<i, w>> \in Candidates(plan, t)
<1>1. PICK i \in DOMAIN plan :
        /\ plan[i].enabled
        /\ w \in {Occurrence(plan[i], d) : d \in {d \in days : d % Week \in plan[i].days}}
  BY DEF Scheduled
<1>2. PICK d \in days : d % Week \in plan[i].days /\ w = Occurrence(plan[i], d)
  BY <1>1
<1>3. Contains(plan, t, i, d)
  BY <1>1, <1>2 DEF Contains
<1> QED BY <1>2, <1>3, ContainingIsCandidate

(* Where a candidate's window lies. *)
LEMMA CandidateBounds ==
  ASSUME NEW plan, Valid(plan), NEW t \in Int, NEW c \in Candidates(plan, t)
  PROVE  /\ c = <<c[1], c[2]>> /\ c[1] \in DOMAIN plan
         /\ c[2].start \in Int /\ c[2].end \in Int
         /\ c[2].start <= t /\ t < c[2].end
         /\ c[2].key = <<plan[c[1]].id, c[2].start>>
         /\ c[2].end = c[2].start + Length(plan[c[1]]) * Minute
         /\ Length(plan[c[1]]) * Minute \in Int
<1>1. PICK i, d : Contains(plan, t, i, d) /\ c = <<i, Occurrence(plan[i], d)>>
  BY CandidateIs
<1>2. i \in DOMAIN plan /\ d \in Int
  BY <1>1 DEF Contains
<1>3. /\ Occurrence(plan[i], d).start \in Int /\ Occurrence(plan[i], d).end \in Int
      /\ Occurrence(plan[i], d).key = <<plan[i].id, Occurrence(plan[i], d).start>>
      /\ Occurrence(plan[i], d).end
           = Occurrence(plan[i], d).start + Length(plan[i]) * Minute
      /\ Length(plan[i]) * Minute \in Int
  BY <1>2, ValidTimes, OccurrenceBounds
<1>4. c[1] = i /\ c[2] = Occurrence(plan[i], d)
  BY <1>1
<1> QED BY <1>1, <1>2, <1>3, <1>4 DEF Contains

(* A candidate stays one for as long as its window is open. *)
LEMMA CandidateStays ==
  ASSUME NEW plan, Valid(plan), NEW t \in Int, NEW u \in Int,
         NEW c \in Candidates(plan, t), c[2].start <= u, u < c[2].end
  PROVE  c \in Candidates(plan, u)
<1>1. PICK i, d : Contains(plan, t, i, d) /\ c = <<i, Occurrence(plan[i], d)>>
  BY CandidateIs
<1>2. Contains(plan, u, i, d)
  BY <1>1 DEF Contains
<1> QED BY <1>1, <1>2, ContainingIsCandidate

(* A key names one candidate, whatever the instants. *)
LEMMA KeyNamesWindow ==
  ASSUME NEW plan, Valid(plan), NEW t \in Int, NEW u \in Int,
         NEW c \in Candidates(plan, t), NEW d \in Candidates(plan, u),
         c[2].key = d[2].key
  PROVE  c[1] = d[1] /\ c[2].start = d[2].start /\ c[2].end = d[2].end
<1>1. plan[c[1]].id = plan[d[1]].id /\ c[2].start = d[2].start
  BY CandidateBounds
<1>2. c[1] = d[1]
  BY <1>1, CandidateBounds DEF Valid
<1> QED BY <1>1, <1>2, CandidateBounds

(* The active window ends no sooner than any window that is open, and has a *)
(* key of its own.                                                          *)
LEMMA ActiveIs ==
  ASSUME NEW plan, NEW t, ActiveWindow(plan, t) # NoWindow
  PROVE  \E c \in Last(plan, t) : c[2] = ActiveWindow(plan, t)
BY DEF ActiveWindow, First

LEMMA ActiveBounds ==
  ASSUME NEW plan, Valid(plan), NEW t \in Int, ActiveWindow(plan, t) # NoWindow
  PROVE  /\ ActiveWindow(plan, t).end \in Int /\ t < ActiveWindow(plan, t).end
         /\ ActiveWindow(plan, t).key # NoWindow.key
<1>1. PICK c \in Last(plan, t) : c[2] = ActiveWindow(plan, t)
  BY ActiveIs
<1>2. c \in Candidates(plan, t)
  BY DEF Last
<1>3. c[2].key # <<>>
  BY <1>2, CandidateBounds
<1> QED BY <1>1, <1>2, <1>3, CandidateBounds DEF NoWindow

LEMMA ActiveEndsLast ==
  ASSUME NEW plan, Valid(plan), NEW t \in Int, ActiveWindow(plan, t) # NoWindow,
         NEW days, days \subseteq Int,
         NEW w \in Scheduled(plan, days), w.start <= t, t < w.end
  PROVE  w.end <= ActiveWindow(plan, t).end
<1>1. PICK c \in Last(plan, t) : c[2] = ActiveWindow(plan, t)
  BY ActiveIs
<1>2. PICK i : <<i, w>> \in Candidates(plan, t)
  BY ScheduledIsCandidate
<1>3. EndsLater(c, <<i, w>>) /\ c \in Candidates(plan, t)
  BY <1>2 DEF Last
<1>4. c[2].end > w.end \/ c[2].end = w.end
  BY <1>3 DEF EndsLater
<1>5. c[2].end \in Int /\ w.end \in Int
  BY <1>2, <1>3, CandidateBounds
<1> QED BY <1>1, <1>4, <1>5

-----------------------------------------------------------------------------
(* The key of the active window of an instant is k. *)
Was(plan, k, t) == \E c \in Last(plan, t) : c[2].key = k

(* Once another window was active, the one before it never is again.        *)
LEMMA NotActiveAgain ==
  ASSUME NEW plan, Valid(plan), DOMAIN plan \subseteq Int,
         NEW t0 \in Int, NEW t1 \in Int, NEW t2 \in Int, t0 <= t1, t1 <= t2,
         NEW k, NEW l, Was(plan, k, t0), Was(plan, l, t1), Was(plan, k, t2)
  PROVE  k = l
<1>1. PICK a0 \in Last(plan, t0) : a0[2].key = k
  BY DEF Was
<1>2. PICK b \in Last(plan, t1) : b[2].key = l
  BY DEF Was
<1>3. PICK a \in Last(plan, t2) : a[2].key = k
  BY DEF Was
<1>4. /\ a0 \in Candidates(plan, t0) /\ b \in Candidates(plan, t1)
      /\ a \in Candidates(plan, t2)
  BY DEF Last
<1>5. a0[2].start = a[2].start
  BY <1>1, <1>3, <1>4, KeyNamesWindow
<1>6. /\ {a[1], b[1]} \subseteq Int /\ a[2].start \in Int /\ a[2].end \in Int
      /\ b[2].start \in Int /\ b[2].end \in Int
      /\ a[2].start <= t0 /\ t2 < a[2].end
      /\ b[2].start <= t1 /\ t1 < b[2].end
  BY <1>4, <1>5, CandidateBounds
<1>7. a \in Candidates(plan, t1)
  <2>1. a[2].start <= t1 /\ t1 < a[2].end
    BY <1>6
  <2> QED BY <1>4, <2>1, CandidateStays
<1>8. EndsLater(b, a)
  BY <1>7 DEF Last
<1>9. b \in Candidates(plan, t2)
  <2>1. b[2].start <= t2 /\ t2 < b[2].end
    BY <1>6, <1>8 DEF EndsLater
  <2> QED BY <1>4, <2>1, CandidateStays
<1>10. EndsLater(a, b)
  BY <1>9 DEF Last
<1>11. a[1] = b[1] /\ a[2].end = b[2].end
  BY <1>6, <1>8, <1>10 DEF EndsLater
<1>12. /\ a[2].end = a[2].start + Length(plan[a[1]]) * Minute
       /\ b[2].end = b[2].start + Length(plan[b[1]]) * Minute
       /\ Length(plan[a[1]]) * Minute \in Int
       /\ a[2].key = <<plan[a[1]].id, a[2].start>>
       /\ b[2].key = <<plan[b[1]].id, b[2].start>>
  BY <1>4, CandidateBounds
<1>13. a[2].start = b[2].start
  <2> DEFINE n == Length(plan[a[1]]) * Minute
  <2>1. a[2].end = a[2].start + n /\ b[2].end = b[2].start + n /\ n \in Int
    BY <1>11, <1>12
  <2>2. \A x, y, z \in Int : x + z = y + z => x = y
    OBVIOUS
  <2>3. a[2].start \in Int /\ b[2].start \in Int /\ a[2].start + n = b[2].start + n
    BY <1>6, <1>11, <2>1
  <2> QED BY <2>1, <2>2, <2>3
<1> QED BY <1>2, <1>3, <1>11, <1>12, <1>13
=============================================================================
