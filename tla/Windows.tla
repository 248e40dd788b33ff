------------------------------- MODULE Windows -------------------------------
(***************************************************************************)
(* The weekly schedule of cmd/kblockerctl/schedule.go as a function of the  *)
(* time: which occurrences of which blocks contain an instant.  Days count  *)
(* from 0 and have DayLen minutes each; an instant is a number of units.    *)
(***************************************************************************)
EXTENDS Integers, Sequences

CONSTANTS
  DayLen,  \* minutes of a day
  Minute,  \* units of a minute
  Week     \* days of a week

ASSUME WindowsAssumption ==
  DayLen \in Nat \ {0} /\ Minute \in Nat \ {0} /\ Week \in Nat \ {0}

Day == DayLen * Minute

(* validate, with times that parse: those of a day.                         *)
Valid(plan) ==
  /\ \A i, j \in DOMAIN plan : plan[i].id = plan[j].id => i = j
  /\ \A i \in DOMAIN plan :
       /\ plan[i].id # ""
       /\ plan[i].days # {} /\ plan[i].days \subseteq 0..(Week - 1)
       /\ {plan[i].start, plan[i].end} \subseteq 0..(DayLen - 1)
       /\ plan[i].start # plan[i].end

(* An end at or before the start runs past midnight. *)
Length(b) ==
  IF b.end <= b.start THEN b.end - b.start + DayLen ELSE b.end - b.start

Occurrence(b, day) ==
  LET start == day * Day + b.start * Minute IN
  [key |-> <<b.id, start>>, start |-> start, end |-> start + Length(b) * Minute]

(* The occurrences of a plan's enabled blocks that begin on some days. *)
Scheduled(plan, days) ==
  UNION {{Occurrence(plan[i], d) : d \in {d \in days : d % Week \in plan[i].days}} :
           i \in {i \in DOMAIN plan : plan[i].enabled}}

(* windowsAt: of the occurrences that began today or yesterday, those that  *)
(* contain t.                                                               *)
OnlyToday(t) == {t \div Day}
DaysLooked(t) == {t \div Day - 1, t \div Day}

WindowsAt(b, t) ==
  {w \in {Occurrence(b, d) : d \in {d \in DaysLooked(t) : d % Week \in b.days}} :
     w.start <= t /\ t < w.end}

Candidates(plan, t) ==
  UNION {{<<i, w>> : w \in WindowsAt(plan[i], t)} :
           i \in {i \in DOMAIN plan : plan[i].enabled}}

NoWindow == [key |-> <<>>, start |-> 0, end |-> 0]

(* activeWindow: the one that ends last, the first listed of several. *)
EndsLater(c, d) == c[2].end > d[2].end \/ (c[2].end = d[2].end /\ c[1] <= d[1])
EndsSooner(c, d) == c[2].end < d[2].end \/ (c[2].end = d[2].end /\ c[1] <= d[1])
First(cs) == IF cs = {} THEN NoWindow ELSE (CHOOSE c \in cs : TRUE)[2]

Soonest(plan, t) ==
  {c \in Candidates(plan, t) : \A d \in Candidates(plan, t) : EndsSooner(c, d)}
Last(plan, t) ==
  {c \in Candidates(plan, t) : \A d \in Candidates(plan, t) : EndsLater(c, d)}

SoonestActive(plan, t) == First(Soonest(plan, t))
ActiveWindow(plan, t)  == First(Last(plan, t))
=============================================================================
