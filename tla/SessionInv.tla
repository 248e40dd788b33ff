----------------------------- MODULE SessionInv -----------------------------
(* The inductive invariant behind the safety properties of Session.  Each    *)
(* part names what one mechanism of the code maintains between two steps.    *)
EXTENDS Session

Starting == pc \in {"hosts", "open", "write", "clear_start", "protect"}
Stopping == pc \in {"unprotect", "unhosts", "clear"}

(* Where a handler stands tells what it has done to `enabled'. *)
Phases ==
  /\ pc = "free" => op = "none" /\ buf = NoHash
  /\ Starting => enabled /\ buf = NoHash /\ secs > 0 /\ secs >= left
  /\ Stopping => ~enabled
  /\ pc \in {"open", "write"} => pgp_active
  /\ pc = "clear_start" => ~pgp_active
  /\ op = "disable" => Stopping /\ CanMint

(* What start_session and stop_session set together. *)
Flags ==
  /\ enabled = ref_taken
  /\ enabled => ~allow_unload
  /\ ~enabled => left = 0 /\ ~state_restored
  /\ state_restored => pgp_active
  /\ ~enabled /\ ~Stopping => ~state_filp /\ ~protected
  /\ pc \in {"hosts", "open", "write", "clear_start"} => ~state_filp
  /\ pc \in {"unhosts", "clear"} => ~protected
  /\ enabled /\ ~pgp_active => ~state_filp

(* Where the raw key is, and who has seen it. *)
KeyInv ==
  /\ key_hash # ZeroKey /\ key_hash <= minted
  /\ unload_key <= minted /\ seen \subseteq 0..minted
  /\ enabled => key_hash # NoHash
  /\ Locked => unload_key = ZeroKey
  /\ enabled /\ ~pgp_active => unload_key = key_hash
  /\ pgp_key_consumed => pgp_key = ZeroKey
  /\ ~pgp_key_consumed => Locked /\ pgp_key = key_hash /\ key_hash \notin seen

WellFormed(f) ==
  /\ f.hash # ZeroKey /\ f.hash <= minted
  /\ f = EmptyFile \/ (f.hash # NoHash /\ f.rem > 0)

IsBlock(f) == f.hash = key_hash /\ f.lists = lists /\ f.rem >= left

(* What is written down. *)
DiskInv ==
  /\ WellFormed(file) /\ WellFormed(disk)
  /\ synced => state_filp
  /\ state_filp => synced \/ Faults
  /\ Locked /\ state_filp => IsBlock(file)
  /\ Locked /\ synced => IsBlock(disk)

(* What the life of the module implies for the rest. *)
ModeInv ==
  /\ mode = "off" => Unloaded
  /\ mode = "boot" /\ enabled => pgp_active
  /\ mode \notin {"off", "boot", "up"} => Unloads \/ Faults
  /\ mode = "exit_clear" => pc = "free" /\ ~timer /\ ~work
  /\ TimerLive

IInv == TypeOK /\ Phases /\ Flags /\ KeyInv /\ DiskInv /\ ModeInv
=============================================================================
