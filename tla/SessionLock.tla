----------------------------- MODULE SessionLock -----------------------------
(* The session of the kernel module keeps the promise of Lock. *)
EXTENDS Session

L == INSTANCE Lock WITH
       power     <- mode # "off",
       starting  <- mode = "boot",
       block     <- IF ~enabled THEN "none"
                    ELSE IF pgp_active THEN "locked" ELSE "insecure",
       key       <- IF Locked THEN key_hash ELSE NoHash,
       presented <- buf,
       committed <- Locked /\ synced,
       record    <- file,
       synced    <- disk

(* Every step of the handlers, of the clock, of the power and of the        *)
(* module's loading and unloading is a step of Lock, or changes nothing     *)
(* that Lock speaks of.                                                     *)
KeepsPromise == L!Spec
=============================================================================
