----------------------------- MODULE MCScheduler -----------------------------
(* Small instances of Scheduler for TLC: days of five minutes, a minute of  *)
(* two units, a week of two days.                                           *)
EXTENDS Scheduler

B(id, days, start, end) ==
  [id |-> id, days |-> days, start |-> start, end |-> end, enabled |-> TRUE]

(* A window that overlaps another and ends later, and one past midnight. *)
Overlapping == <<B("am", {0}, 1, 3), B("late", {0, 1}, 2, 4)>>
Overnight   == <<B("night", {0, 1}, 4, 3),
                 [B("never", {0, 1}, 2, 3) EXCEPT !.enabled = FALSE]>>


(* Two blocks of one name, and times, days and lengths that there are not. *)
Refused == {<<B("am", {0}, 1, 3), B("am", {1}, 2, 4)>>, <<B("", {0}, 1, 3)>>,
            <<B("x", {}, 1, 3)>>, <<B("x", {2}, 1, 3)>>, <<B("x", {0}, 1, 5)>>,
            <<B("x", {0}, 2, 2)>>}

MCDrafts == {Overlapping, Overnight} \cup Refused
=============================================================================
