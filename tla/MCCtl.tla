-------------------------------- MODULE MCCtl --------------------------------
(* Small instances of Ctl for TLC. *)
EXTENDS Ctl, TLC

AllCommands == {"enable", "insecure", "disable", "unblock", "web", "reload",
                "show", "add", "webadd", "remove", "unload", "reset"}

(* What may run beside any command without spoiling what it does. *)
Harmless == {"web", "show"}

(* Whatever leaves the key ring alone, any two at once. *)
Keeping == AllCommands \ {"add", "webadd", "remove", "unload", "reset"}

(* Processes are interchangeable, and so are key holders. *)
Symmetry == Permutations(Procs) \cup Permutations(Holders)
=============================================================================
