------------------------------- MODULE MCPages -------------------------------
(* A small instance of Pages for TLC. *)
EXTENDS Pages, TLC

(* add-pgp-web --bind 0.0.0.0 --port 2 *)
MCGiven == {[host |-> "any", port |-> 2]}

(* Commands that run side by side are interchangeable. *)
Symmetry == Permutations(Procs)
=============================================================================
