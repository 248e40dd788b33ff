---------------------------- MODULE SessionClaims ----------------------------
(* What the documentation says of a session, where the code does otherwise. *)
EXTENDS Session

(* README.md:27, "a locked block survives a reboot": also the one that a    *)
(* reboot has just brought back and that is being written down again.       *)
RestoredLockSurvives ==
  [][state_restored /\ left > 0 /\ losses' # losses =>
       file'.hash = key_hash /\ file'.rem >= left]_vars

(* docs/commands.md:90-91, "Insecure (--insecure) sessions are never        *)
(* persisted and do not survive a reboot": once a boot is over and no block *)
(* runs, none is left in the hosts file.                                    *)
InsecureGoneAfterBoot ==
  mode = "up" /\ pc = "free" /\ ~enabled => hosts = NoLists
=============================================================================
