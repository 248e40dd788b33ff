------------------------------ MODULE Netfilter ------------------------------
(***************************************************************************)
(* src/netfilter.c and the lists it reads: the verdict on a packet, taken   *)
(* in several steps of which each locks the lists for itself, while blocks  *)
(* begin and end, lists are replaced and the module is unloaded.            *)
(*                                                                          *)
(* IPv4 and IPv6 go through the same steps; the address says which it is.   *)
(***************************************************************************)
EXTENDS Integers, Sequences, FiniteSetsExt, Functions

CONSTANTS
  Chars,         \* characters
  Small,         \* capital letters and their small ones: a function
  DomainChars,   \* what a domain name is made of, in small letters
  MaxDomainLen,  \* MAX_DOMAIN_LEN, which counts the terminating NUL
  MaxDomains,    \* MAX_DOMAINS
  Packets,       \* what packets there are
  Addrs          \* destinations

ASSUME NetfilterAssumption ==
  /\ "." \in DomainChars /\ "*" \notin DomainChars /\ " " \notin DomainChars
  /\ DomainChars \subseteq Chars
  /\ Range(Small) \subseteq DomainChars \ {"."}
  /\ DOMAIN Small \cap DomainChars = {}
  /\ MaxDomainLen \in Nat \ {0} /\ MaxDomains \in Nat
  /\ \A p \in Packets :
       /\ p.dst \in Addrs
       /\ p.l4 \in {"tcp", "quic", "other"}
       /\ p.fragment \in BOOLEAN /\ p.whole \in BOOLEAN
       /\ p.sni \in Seq(Chars)

VARIABLES
  kernel,  \* enabled and the lists
  stage,   \* where the module is between load and unload
  pkt,     \* the packet a hook works on, and how far it has come
  raced    \* history: a block began while the module was being unloaded

kernelVars == <<kernel, stage, pkt, raced>>

-----------------------------------------------------------------------------
(* src/parse.c: names are sequences of characters. *)

ToLower(c) == IF c \in DOMAIN Small THEN Small[c] ELSE c
Lower(s) == [i \in 1..Len(s) |-> ToLower(s[i])]

Without(s, c) == {i \in 1..Len(s) : s[i] # c}
TrimEnd(s, c) == SubSeq(s, 1, Max(Without(s, c) \cup {0}))
Trim(s, c) ==
  SubSeq(s, Min(Without(s, c) \cup {Len(s) + 1}), Max(Without(s, c) \cup {0}))

(* Whatever is not c in s, in its order. *)
Rank(S, i) == Cardinality({j \in S : j <= i})
Others(s, c) ==
  LET rest == Without(s, c) IN
  [k \in 1..Cardinality(rest) |-> s[CHOOSE i \in rest : Rank(rest, i) = k]]

NoName == <<>>

WithoutStar(s) ==
  IF Len(s) >= 2 /\ s[1] = "*" /\ s[2] = "." THEN SubSeq(s, 3, Len(s)) ELSE s

Cleaned(d) ==
  IF /\ Len(d) < MaxDomainLen
     /\ \A i \in 1..Len(d) : ToLower(d[i]) \in DomainChars
    THEN Lower(d) ELSE NoName

(* The dots go before the star: of "*..x" a dot is left. *)
NormalizeDotsFirst(typed) == Cleaned(WithoutStar(Trim(Trim(typed, " "), ".")))

Normalize(typed) == Cleaned(Trim(WithoutStar(Trim(typed, " ")), "."))

(* A suffix is enough: netflix.com would be blocked by x.com. *)
MatchesSuffix(host, blocked) ==
  LET h == Len(host)  b == Len(blocked) IN
  /\ b > 0 /\ h >= b
  /\ \A i \in 1..b : ToLower(host[h - b + i]) = ToLower(blocked[i])

DomainMatches(host, blocked) ==
  LET h == Len(host)  b == Len(blocked) IN
  /\ b > 0 /\ h >= b
  /\ \A i \in 1..b : ToLower(host[h - b + i]) = ToLower(blocked[i])
  /\ h = b \/ host[h - b] = "."

(* The name in the hello, unless it is cut off or does not fit. *)
SniExtract(p) ==
  IF p.whole /\ Len(p.sni) < MaxDomainLen THEN p.sni ELSE NoName

-----------------------------------------------------------------------------
(* The sysfs stores that replace lists, on the lines of what was written. *)

NoLists == [on |-> FALSE, locked |-> FALSE, domains |-> <<>>,
            ips |-> {}, nets |-> {}]

ListsOf(k) == <<k.domains, k.ips, k.nets>>

Sysfs == stage \in {"up", "leaving"}
Refused == ~Sysfs \/ kernel.on

(* Blank lines and comments are not among the lines. *)
Normalized(lines) == [i \in 1..Len(lines) |-> Normalize(lines[i])]
ValidNames(lines) == NoName \notin Range(Normalized(lines))

Valid(lines) ==
  Len(lines) <= MaxDomains /\ NoName \notin Range(Normalized(lines))

(* A write to blocked_domains; the caller sees whether it was taken. *)
StoredDomains(lines) == [kernel EXCEPT !.domains = Normalized(lines)]
StoredIps(ips)       == [kernel EXCEPT !.ips = ips]
StoredNets(nets)     == [kernel EXCEPT !.nets = nets]

(* What the state file brings back: lists that were written as they were.   *)
(* Names are normalized once more, and bad ones left out.                   *)
RestoredLists(k) ==
  [k EXCEPT !.domains = Others(Normalized(k.domains), NoName)]

-----------------------------------------------------------------------------
(* A packet on its way through the hook. *)

Judged  == {"accept", "drop"}
Places  == Judged \cup {"none", "enter", "allowed", "blocked", "domains", "name"}
ToPlace(place) == pkt' = [pkt EXCEPT !.at = place]
NoPacket == [p |-> <<>>, at |-> "none", steady |-> FALSE]
OnlyPacket == UNCHANGED <<kernel, stage, raced>>

(* Whatever changes the lists or `enabled' is noted with the packet. *)
SetKernel(k) ==
  /\ kernel' = k
  /\ pkt' = [pkt EXCEPT !.steady = @ /\ k = kernel]

(* The hooks are registered until CleanupNetfilter. *)
Hooked == stage \in {"up", "leaving", "wait", "unhook"}

Arrive(p) ==
  /\ pkt.at = "none" /\ Hooked
  /\ pkt' = [p |-> p, at |-> "enter", steady |-> TRUE]
  /\ OnlyPacket

Depart == pkt.at \in Judged /\ pkt' = NoPacket /\ OnlyPacket

Enter ==
  /\ pkt.at = "enter"
  /\ ToPlace(IF kernel.on THEN "allowed" ELSE "accept")
  /\ OnlyPacket

CheckAllowed ==
  /\ pkt.at = "allowed"
  /\ ToPlace(IF \E n \in kernel.nets : pkt.p.dst \in n
               THEN "accept" ELSE "blocked")
  /\ OnlyPacket

CheckBlocked ==
  /\ pkt.at = "blocked"
  /\ ToPlace(IF pkt.p.dst \in kernel.ips THEN "drop" ELSE "domains")
  /\ OnlyPacket

(* A later fragment has no ports, so nothing can be read from it. *)
CheckDomains ==
  /\ pkt.at = "domains"
  /\ ToPlace(CASE kernel.domains = <<>> \/ pkt.p.fragment -> "accept"
               [] kernel.domains # <<>> /\ ~pkt.p.fragment ->
                    CASE pkt.p.l4 = "tcp" -> "name"
                      [] pkt.p.l4 = "quic" -> "drop"
                      [] pkt.p.l4 = "other" -> "accept")
  /\ OnlyPacket

ListContains(host) ==
  \E d \in Range(kernel.domains) : DomainMatches(TrimEnd(host, "."), d)

CheckName ==
  /\ pkt.at = "name"
  /\ ToPlace(IF SniExtract(pkt.p) # NoName /\ ListContains(SniExtract(pkt.p))
               THEN "drop" ELSE "accept")
  /\ OnlyPacket

Hook == Depart \/ Enter \/ CheckAllowed \/ CheckBlocked \/ CheckDomains \/ CheckName

-----------------------------------------------------------------------------
(* Loading and unloading.  The hooks run under RCU. *)

Load ==
  /\ stage = "off" /\ stage' = "up"
  /\ SetKernel(NoLists) /\ UNCHANGED raced

(* A block holds a reference on the module; `enabled' is tested again when  *)
(* the exit function is entered, and not after that.                        *)
Leave ==
  /\ stage = "up" /\ ~kernel.on /\ stage' = "leaving"
  /\ UNCHANGED <<kernel, pkt, raced>>

RemoveSysfs ==
  /\ stage = "leaving" /\ stage' = "wait"
  /\ UNCHANGED <<kernel, pkt, raced>>

(* protection_disable waits for a grace period. *)
NoWait ==
  /\ stage = "wait" /\ stage' = "unhook"
  /\ UNCHANGED <<kernel, pkt, raced>>

Wait ==
  /\ stage = "wait" /\ pkt.at = "none" /\ stage' = "unhook"
  /\ UNCHANGED <<kernel, pkt, raced>>

(* Hooks that run are not waited for. *)
CleanupNetfilter ==
  /\ stage = "unhook" /\ stage' = "free"
  /\ UNCHANGED <<kernel, pkt, raced>>

FreeLists ==
  /\ stage = "free" /\ stage' = "freed"
  /\ UNCHANGED <<kernel, pkt, raced>>

Unloaded ==
  /\ stage = "freed" /\ pkt.at = "none" /\ stage' = "off"
  /\ SetKernel(NoLists) /\ raced' = FALSE

Unload == Wait \/ CleanupNetfilter \/ FreeLists \/ Unloaded

-----------------------------------------------------------------------------
NetfilterInit ==
  /\ kernel = NoLists /\ stage = "off" /\ raced = FALSE
  /\ pkt = NoPacket

(* What a name in a hello belongs to, by definition: the domain itself, or  *)
(* something and a dot in front of it, in whatever letters.                 *)
BelongsTo(host, domain) ==
  LET name == Lower(TrimEnd(host, ".")) IN
  \/ name = domain
  \/ \E n \in 0..Len(name) : name = SubSeq(name, 1, n) \o <<".">> \o domain

ToBeDropped(p) ==
  /\ kernel.on
  /\ \A n \in kernel.nets : p.dst \notin n
  /\ \/ p.dst \in kernel.ips
     \/ /\ kernel.domains # <<>> /\ ~p.fragment
        /\ \/ p.l4 = "quic"
           \/ /\ p.l4 = "tcp" /\ SniExtract(p) # NoName
              /\ \E d \in Range(kernel.domains) : BelongsTo(SniExtract(p), d)

(* "x.com blocks www.x.com but not netflix.com" (netfilter.c:106), "allowed *)
(* destinations skip every check, including QUIC" (netfilter.c:195): while  *)
(* lists and `enabled' stand still, the steps together come to the verdict  *)
(* that the lists as a whole demand.                                        *)
VerdictRight ==
  pkt.at \in Judged /\ pkt.steady =>
    (pkt.at = "drop") = ToBeDropped(pkt.p)

(* The address lists are freed right after the hooks were unregistered,     *)
(* which waits for nobody.  No hook reads them then: those that saw a block *)
(* run have left, and no other goes so far, unless a block began between    *)
(* the exit function's test and the removal of sysfs.                       *)
ListsAlive == pkt.at = "blocked" /\ stage = "freed" => raced
=============================================================================
