---------------------------- MODULE SessionProofs ----------------------------
(***************************************************************************)
(* The invariants of Session hold for every length of session, number of    *)
(* keys and losses of power, and whatever fails.  IInv of SessionInv is     *)
(* inductive: one lemma per action, and in it one step per part of IInv.    *)
(***************************************************************************)
EXTENDS SessionInv, TLAPS

USE SessionAssumption DEF lockVars, sessionVars, keyVars, timerVars, diskVars,
  openVars

-----------------------------------------------------------------------------
(* start_session and disable_blocking, write by write. *)

(* UpdateHosts preserves every part of the invariant. *)
LEMMA UpdateHostsStep ==
  ASSUME IInv, UpdateHosts
  PROVE  IInv'
<1>1. FlagsOK'
  BY Zenon DEF FlagsOK, TypeOK, UpdateHosts, IInv
<1>2. DataOK'
  BY DEF NoHash, Keys, Hashes, Files, Modes, Steps, Ops, DataOK, TypeOK,
     UpdateHosts, IInv
<1>3. Phases'
  BY DEF NoHash, CanMint, UpdateHosts, Starting, Stopping, Phases, IInv
<1>4. Flags'
  BY DEF UpdateHosts, Stopping, Flags, IInv
<1>5. KeyInv'
  BY DEF ZeroKey, NoHash, UpdateHosts, Locked, KeyInv, IInv
<1>6. DiskInv'
  BY DEF ZeroKey, NoHash, EmptyFile, UpdateHosts, Locked, WellFormed, DiskInv,
     IInv, IsBlock
<1>7. ModeInv'
  BY DEF ZeroKey, NoHash, Unloaded, UpdateHosts, TimerLive, ModeInv, IInv
<1> QED BY <1>1, <1>2, <1>3, <1>4, <1>5, <1>6, <1>7 DEF IInv, TypeOK

(* OpenStateFile preserves every part of the invariant. *)
LEMMA OpenStateFileStep ==
  ASSUME IInv, OpenStateFile
  PROVE  IInv'
<1>1. FlagsOK'
  BY Zenon DEF FlagsOK, TypeOK, OpenStateFile, IInv
<1>2. DataOK'
  BY DEF NoHash, Keys, Hashes, Files, EmptyFile, Modes, Steps, Ops, DataOK,
     TypeOK, OpenStateFile, IInv
<1>3. Phases'
  BY DEF NoHash, CanMint, OpenStateFile, Starting, Stopping, Phases, IInv
<1>4. Flags'
  BY DEF OpenStateFile, Stopping, Flags, IInv
<1>5. KeyInv'
  BY DEF ZeroKey, NoHash, OpenStateFile, Locked, KeyInv, IInv
<1>6. DiskInv'
  BY DEF ZeroKey, NoHash, Keys, Hashes, Files, EmptyFile, Modes, Steps, Ops,
     DataOK, TypeOK, Unloaded, CanMint, OpenStateFile, Locked, TimerLive,
     Starting, Stopping, Phases, Flags, KeyInv, WellFormed, DiskInv, ModeInv,
     IInv, IsBlock
<1>7. ModeInv'
  BY DEF ZeroKey, NoHash, EmptyFile, Unloaded, OpenStateFile, TimerLive,
     ModeInv, IInv
<1> QED BY <1>1, <1>2, <1>3, <1>4, <1>5, <1>6, <1>7 DEF IInv, TypeOK

(* WriteStateFile preserves every part of the invariant. *)
LEMMA WriteStateFileStep ==
  ASSUME IInv, WriteStateFile
  PROVE  IInv'
<1>1. FlagsOK'
  BY Zenon DEF FlagsOK, TypeOK, WriteStateFile, IInv
<1>2. DataOK'
  BY DEF NoHash, Keys, Hashes, Files, EmptyFile, Modes, Steps, Ops, DataOK,
     TypeOK, WholeFile, CutFiles, Fsync, WriteStateFile, IInv
<1>3. Phases'
  BY DEF NoHash, CanMint, WholeFile, CutFiles, WriteStateFile, Starting,
     Stopping, Phases, IInv
<1>4. Flags'
  BY DEF ZeroKey, NoHash, EmptyFile, FlagsOK, TypeOK, Unloaded, CanMint,
     WholeFile, CutFiles, Fsync, WriteStateFile, TimerLive, Starting,
     Stopping, Phases, Flags, ModeInv, IInv
<1>5. KeyInv'
  BY DEF ZeroKey, NoHash, WholeFile, CutFiles, WriteStateFile, Locked, KeyInv,
     IInv
<1>6. DiskInv'
  BY DEF ZeroKey, NoHash, Keys, Hashes, Files, EmptyFile, Modes, Steps, Ops,
     DataOK, TypeOK, Unloaded, CanMint, WholeFile, CutFiles, Fsync,
     WriteStateFile, Locked, TimerLive, Starting, Stopping, Phases, Flags,
     KeyInv, WellFormed, DiskInv, ModeInv, IInv, IsBlock
<1>7. ModeInv'
  BY DEF ZeroKey, NoHash, EmptyFile, Unloaded, WholeFile, CutFiles,
     WriteStateFile, TimerLive, ModeInv, IInv
<1> QED BY <1>1, <1>2, <1>3, <1>4, <1>5, <1>6, <1>7 DEF IInv, TypeOK

(* ClearBeforeInsecure preserves every part of the invariant. *)
LEMMA ClearBeforeInsecureStep ==
  ASSUME IInv, ClearBeforeInsecure
  PROVE  IInv'
<1>1. FlagsOK'
  BY Zenon DEF FlagsOK, TypeOK, StateFileClear, ClearBeforeInsecure, IInv
<1>2. DataOK'
  BY DEF NoHash, Keys, Hashes, Files, EmptyFile, Modes, Steps, Ops, DataOK,
     TypeOK, StateFileClear, ClearBeforeInsecure, IInv
<1>3. Phases'
  BY DEF NoHash, CanMint, ClearBeforeInsecure, Starting, Stopping, Phases,
     IInv
<1>4. Flags'
  BY DEF StateFileClear, ClearBeforeInsecure, Stopping, Flags, IInv
<1>5. KeyInv'
  BY DEF ZeroKey, NoHash, ClearBeforeInsecure, Locked, KeyInv, IInv
<1>6. DiskInv'
  BY DEF ZeroKey, NoHash, Keys, Hashes, Files, EmptyFile, Modes, Steps, Ops,
     DataOK, TypeOK, Unloaded, CanMint, StateFileClear, ClearBeforeInsecure,
     Locked, TimerLive, Starting, Stopping, Phases, Flags, KeyInv, WellFormed,
     DiskInv, ModeInv, IInv, IsBlock
<1>7. ModeInv'
  BY DEF ZeroKey, NoHash, EmptyFile, Unloaded, StateFileClear,
     ClearBeforeInsecure, TimerLive, ModeInv, IInv
<1> QED BY <1>1, <1>2, <1>3, <1>4, <1>5, <1>6, <1>7 DEF IInv, TypeOK

(* ProtectAndArm preserves every part of the invariant. *)
LEMMA ProtectAndArmStep ==
  ASSUME IInv, ProtectAndArm
  PROVE  IInv'
<1>1. FlagsOK'
  BY Zenon DEF FlagsOK, TypeOK, ModTimer, ProtectAndArm, IInv
<1>2. DataOK'
  BY DEF NoHash, Keys, Hashes, Files, Modes, Steps, Ops, DataOK, TypeOK,
     ProtectAndArm, IInv
<1>3. Phases'
  BY DEF NoHash, CanMint, ProtectAndArm, Starting, Stopping, Phases, IInv
<1>4. Flags'
  BY DEF ZeroKey, NoHash, FlagsOK, TypeOK, Unloaded, CanMint, ModTimer,
     ProtectAndArm, TimerLive, Starting, Stopping, Phases, Flags, ModeInv,
     IInv
<1>5. KeyInv'
  BY DEF ZeroKey, NoHash, ProtectAndArm, Locked, KeyInv, IInv
<1>6. DiskInv'
  BY DEF ZeroKey, NoHash, EmptyFile, ProtectAndArm, Locked, WellFormed,
     DiskInv, IInv, IsBlock
<1>7. ModeInv'
  BY DEF ZeroKey, NoHash, Unloaded, ModTimer, ProtectAndArm, TimerLive,
     ModeInv, IInv
<1> QED BY <1>1, <1>2, <1>3, <1>4, <1>5, <1>6, <1>7 DEF IInv, TypeOK

(* Unprotect preserves every part of the invariant. *)
LEMMA UnprotectStep ==
  ASSUME IInv, Unprotect
  PROVE  IInv'
<1>1. FlagsOK'
  BY Zenon DEF FlagsOK, TypeOK, Unprotect, IInv
<1>2. DataOK'
  BY DEF NoHash, Keys, Hashes, Files, Modes, Steps, Ops, DataOK, TypeOK,
     Unprotect, IInv
<1>3. Phases'
  BY DEF NoHash, CanMint, Unprotect, Starting, Stopping, Phases, IInv
<1>4. Flags'
  BY DEF Unprotect, Stopping, Flags, IInv
<1>5. KeyInv'
  BY DEF ZeroKey, NoHash, Unprotect, Locked, KeyInv, IInv
<1>6. DiskInv'
  BY DEF ZeroKey, NoHash, EmptyFile, Unprotect, Locked, WellFormed, DiskInv,
     IInv, IsBlock
<1>7. ModeInv'
  BY DEF ZeroKey, NoHash, Unloaded, Unprotect, TimerLive, ModeInv, IInv
<1> QED BY <1>1, <1>2, <1>3, <1>4, <1>5, <1>6, <1>7 DEF IInv, TypeOK

(* Unhosts preserves every part of the invariant. *)
LEMMA UnhostsStep ==
  ASSUME IInv, Unhosts
  PROVE  IInv'
<1>1. FlagsOK'
  BY Zenon DEF FlagsOK, TypeOK, Unhosts, IInv
<1>2. DataOK'
  BY DEF NoHash, Keys, Hashes, Files, Modes, Steps, Ops, DataOK, TypeOK,
     ClearHosts, Unhosts, IInv
<1>3. Phases'
  BY DEF NoHash, CanMint, ClearHosts, Unhosts, Starting, Stopping, Phases,
     IInv
<1>4. Flags'
  BY DEF ClearHosts, Unhosts, Stopping, Flags, IInv
<1>5. KeyInv'
  BY DEF ZeroKey, NoHash, Unhosts, Locked, KeyInv, IInv
<1>6. DiskInv'
  BY DEF ZeroKey, NoHash, EmptyFile, Unhosts, Locked, WellFormed, DiskInv,
     IInv, IsBlock
<1>7. ModeInv'
  BY DEF ZeroKey, NoHash, Unloaded, Unhosts, TimerLive, ModeInv, IInv
<1> QED BY <1>1, <1>2, <1>3, <1>4, <1>5, <1>6, <1>7 DEF IInv, TypeOK

(* ClearAndReturn preserves every part of the invariant. *)
LEMMA ClearAndReturnStep ==
  ASSUME IInv, ClearAndReturn
  PROVE  IInv'
<1>1. FlagsOK'
  BY Zenon DEF FlagsOK, TypeOK, StateFileClear, ClearAndReturn, IInv
<1>2. DataOK'
  <2>1. /\ mode' \in Modes
        /\ pc' \in Steps
        /\ op' \in Ops
        /\ buf' \in Hashes
        /\ secs' \in 0..MaxSecs
    BY DEF ZeroKey, NoHash, Keys, Hashes, Files, EmptyFile, Modes, Steps, Ops,
       DataOK, TypeOK, CanMint, GenerateUnloadKey, StateFileClear,
       ClearAndReturn, Starting, Stopping, Phases, IInv
  <2>2. /\ unload_key' \in Keys
        /\ key_hash' \in Hashes
        /\ pgp_key' \in Keys
    BY DEF ZeroKey, NoHash, Keys, Hashes, Files, EmptyFile, Modes, Steps, Ops,
       DataOK, TypeOK, CanMint, GenerateUnloadKey, StateFileClear,
       ClearAndReturn, Starting, Stopping, Phases, IInv
  <2>3. /\ left' \in 0..MaxSecs
        /\ save_ticks' \in 0..(SaveInterval - 1)
        /\ lists' \in Lists /\ hosts' \in Lists
        /\ file' \in Files
        /\ disk' \in Files
    BY DEF ZeroKey, NoHash, Keys, Hashes, Files, EmptyFile, Modes, Steps, Ops,
       DataOK, TypeOK, CanMint, GenerateUnloadKey, StateFileClear,
       ClearAndReturn, Starting, Stopping, Phases, IInv
  <2>4. /\ minted' \in 0..MaxKeys
        /\ seen' \subseteq Keys
        /\ losses' \in 0..MaxLosses
    BY DEF ZeroKey, NoHash, Keys, Hashes, Files, EmptyFile, Modes, Steps, Ops,
       DataOK, TypeOK, CanMint, GenerateUnloadKey, StateFileClear,
       ClearAndReturn, Starting, Stopping, Phases, IInv
  <2> QED BY <2>1, <2>2, <2>3, <2>4 DEF DataOK
<1>3. Phases'
  BY DEF NoHash, CanMint, GenerateUnloadKey, ClearAndReturn, Starting,
     Stopping, Phases, IInv
<1>4. Flags'
  BY DEF ZeroKey, NoHash, EmptyFile, FlagsOK, TypeOK, Unloaded, CanMint,
     GenerateUnloadKey, StateFileClear, ClearAndReturn, TimerLive, Starting,
     Stopping, Phases, Flags, ModeInv, IInv
<1>5. KeyInv'
  BY DEF ZeroKey, NoHash, Keys, Hashes, Files, EmptyFile, Modes, Steps, Ops,
     DataOK, TypeOK, Unloaded, CanMint, GenerateUnloadKey, StateFileClear,
     ClearAndReturn, Locked, TimerLive, Starting, Stopping, Phases, Flags,
     KeyInv, WellFormed, DiskInv, ModeInv, IInv, IsBlock
<1>6. DiskInv'
  BY DEF ZeroKey, NoHash, Keys, Hashes, Files, EmptyFile, Modes, Steps, Ops,
     DataOK, TypeOK, Unloaded, CanMint, GenerateUnloadKey, StateFileClear,
     ClearAndReturn, Locked, TimerLive, Starting, Stopping, Phases, Flags,
     KeyInv, WellFormed, DiskInv, ModeInv, IInv, IsBlock
<1>7. ModeInv'
  BY DEF ZeroKey, NoHash, Keys, Hashes, Files, EmptyFile, Modes, Steps, Ops,
     FlagsOK, DataOK, TypeOK, Unloaded, CanMint, GenerateUnloadKey,
     StateFileClear, ClearAndReturn, TimerLive, Starting, Stopping, Phases,
     Flags, ModeInv, IInv
<1> QED BY <1>1, <1>2, <1>3, <1>4, <1>5, <1>6, <1>7 DEF IInv, TypeOK

-----------------------------------------------------------------------------
(* The sysfs handlers. *)

(* EnableBlocking preserves every part of the invariant. *)
LEMMA EnableBlockingStep ==
  ASSUME NEW s \in 1..MaxSecs, IInv, EnableBlocking(s)
  PROVE  IInv'
<1>1. FlagsOK'
  BY Zenon DEF FlagsOK, TypeOK, StartSession, KeyForSession, EnableBlocking,
     IInv
<1>2. DataOK'
  BY DEF ZeroKey, NoHash, Keys, Hashes, Files, Modes, Steps, Ops, DataOK,
     TypeOK, Idle, CanMint, StartSession, KeyForSession, EnableBlocking, IInv
<1>3. Phases'
  BY DEF NoHash, Idle, CanMint, StartSession, KeyForSession, EnableBlocking,
     Starting, Stopping, Phases, IInv
<1>4. Flags'
  BY DEF Idle, StartSession, KeyForSession, EnableBlocking, Stopping, Flags,
     IInv
<1>5. KeyInv'
  <2>1. CASE pgp_active
    <3>1. /\ key_hash' # ZeroKey /\ key_hash' <= minted'
          /\ unload_key' <= minted'
      BY <2>1 DEF ZeroKey, NoHash, Keys, Hashes, Files, EmptyFile, Modes,
         Steps, Ops, DataOK, TypeOK, Unloaded, Idle, CanMint, StartSession,
         KeyForSession, EnableBlocking, Locked, TimerLive, Starting, Stopping,
         Phases, Flags, KeyInv, WellFormed, DiskInv, ModeInv, IInv, IsBlock
    <3>2. seen' \subseteq 0..minted'
      BY <2>1 DEF ZeroKey, NoHash, Keys, Hashes, Files, EmptyFile, Modes,
         Steps, Ops, DataOK, TypeOK, Unloaded, Idle, CanMint, StartSession,
         KeyForSession, EnableBlocking, Locked, TimerLive, Starting, Stopping,
         Phases, Flags, KeyInv, WellFormed, DiskInv, ModeInv, IInv, IsBlock
    <3>3. enabled' => key_hash' # NoHash
      BY <2>1 DEF ZeroKey, NoHash, Keys, Hashes, Files, EmptyFile, Modes,
         Steps, Ops, DataOK, TypeOK, Unloaded, Idle, CanMint, StartSession,
         KeyForSession, EnableBlocking, Locked, TimerLive, Starting, Stopping,
         Phases, Flags, KeyInv, WellFormed, DiskInv, ModeInv, IInv, IsBlock
    <3>4. /\ Locked' => unload_key' = ZeroKey
          /\ enabled' /\ ~pgp_active' => unload_key' = key_hash'
      BY <2>1 DEF ZeroKey, NoHash, Keys, Hashes, Files, EmptyFile, Modes,
         Steps, Ops, DataOK, TypeOK, Unloaded, Idle, CanMint, StartSession,
         KeyForSession, EnableBlocking, Locked, TimerLive, Starting, Stopping,
         Phases, Flags, KeyInv, WellFormed, DiskInv, ModeInv, IInv, IsBlock
    <3>5. pgp_key_consumed' => pgp_key' = ZeroKey
      BY <2>1 DEF ZeroKey, NoHash, Keys, Hashes, Files, EmptyFile, Modes,
         Steps, Ops, DataOK, TypeOK, Unloaded, Idle, CanMint, StartSession,
         KeyForSession, EnableBlocking, Locked, TimerLive, Starting, Stopping,
         Phases, Flags, KeyInv, WellFormed, DiskInv, ModeInv, IInv, IsBlock
    <3>6. ~pgp_key_consumed' => Locked' /\ pgp_key' = key_hash' /\ key_hash' \notin seen'
      BY <2>1 DEF ZeroKey, NoHash, Keys, Hashes, Files, EmptyFile, Modes,
         Steps, Ops, DataOK, TypeOK, Unloaded, Idle, CanMint, StartSession,
         KeyForSession, EnableBlocking, Locked, TimerLive, Starting, Stopping,
         Phases, Flags, KeyInv, WellFormed, DiskInv, ModeInv, IInv, IsBlock
    <3> QED BY <3>1, <3>2, <3>3, <3>4, <3>5, <3>6 DEF KeyInv
  <2>2. CASE ~pgp_active
    <3>1. /\ key_hash' # ZeroKey /\ key_hash' <= minted'
          /\ unload_key' <= minted'
      BY <2>2 DEF ZeroKey, NoHash, Keys, Hashes, Files, EmptyFile, Modes,
         Steps, Ops, DataOK, TypeOK, Unloaded, Idle, CanMint, StartSession,
         KeyForSession, EnableBlocking, Locked, TimerLive, Starting, Stopping,
         Phases, Flags, KeyInv, WellFormed, DiskInv, ModeInv, IInv, IsBlock
    <3>2. seen' \subseteq 0..minted'
      BY <2>2 DEF ZeroKey, NoHash, Keys, Hashes, Files, EmptyFile, Modes,
         Steps, Ops, DataOK, TypeOK, Unloaded, Idle, CanMint, StartSession,
         KeyForSession, EnableBlocking, Locked, TimerLive, Starting, Stopping,
         Phases, Flags, KeyInv, WellFormed, DiskInv, ModeInv, IInv, IsBlock
    <3>3. enabled' => key_hash' # NoHash
      BY <2>2 DEF ZeroKey, NoHash, Keys, Hashes, Files, EmptyFile, Modes,
         Steps, Ops, DataOK, TypeOK, Unloaded, Idle, CanMint, StartSession,
         KeyForSession, EnableBlocking, Locked, TimerLive, Starting, Stopping,
         Phases, Flags, KeyInv, WellFormed, DiskInv, ModeInv, IInv, IsBlock
    <3>4. /\ Locked' => unload_key' = ZeroKey
          /\ enabled' /\ ~pgp_active' => unload_key' = key_hash'
      BY <2>2 DEF ZeroKey, NoHash, Keys, Hashes, Files, EmptyFile, Modes,
         Steps, Ops, DataOK, TypeOK, Unloaded, Idle, CanMint, StartSession,
         KeyForSession, EnableBlocking, Locked, TimerLive, Starting, Stopping,
         Phases, Flags, KeyInv, WellFormed, DiskInv, ModeInv, IInv, IsBlock
    <3>5. /\ pgp_key_consumed' => pgp_key' = ZeroKey
          /\ ~pgp_key_consumed' => Locked' /\ pgp_key' = key_hash' /\ key_hash' \notin seen'
      BY <2>2 DEF ZeroKey, NoHash, Keys, Hashes, Files, EmptyFile, Modes,
         Steps, Ops, DataOK, TypeOK, Unloaded, Idle, CanMint, StartSession,
         KeyForSession, EnableBlocking, Locked, TimerLive, Starting, Stopping,
         Phases, Flags, KeyInv, WellFormed, DiskInv, ModeInv, IInv, IsBlock
    <3> QED BY <3>1, <3>2, <3>3, <3>4, <3>5 DEF KeyInv
  <2> QED
    BY <2>1, <2>2 DEF EnableBlocking
<1>6. DiskInv'
  BY DEF ZeroKey, NoHash, Keys, Hashes, Files, EmptyFile, Modes, Steps, Ops,
     DataOK, TypeOK, Unloaded, Idle, CanMint, StartSession, KeyForSession,
     EnableBlocking, Locked, TimerLive, Starting, Stopping, Phases, Flags,
     KeyInv, WellFormed, DiskInv, ModeInv, IInv, IsBlock
<1>7. ModeInv'
  BY DEF ZeroKey, NoHash, Unloaded, Idle, StartSession, KeyForSession,
     EnableBlocking, TimerLive, ModeInv, IInv
<1> QED BY <1>1, <1>2, <1>3, <1>4, <1>5, <1>6, <1>7 DEF IInv, TypeOK

(* EnabledStoreZero preserves every part of the invariant. *)
LEMMA EnabledStoreZeroStep ==
  ASSUME IInv, EnabledStoreZero
  PROVE  IInv'
<1>1. FlagsOK'
  BY Zenon DEF FlagsOK, TypeOK, StopSession, DisableBlocking,
     EnabledStoreZero, IInv
<1>2. DataOK'
  <2>1. CASE pgp_active /\ ~enabled
    BY <2>1 DEF ZeroKey, NoHash, Keys, Hashes, Files, Modes, Steps, Ops,
       DataOK, TypeOK, Idle, StopSession, DisableBlocking, ClearHosts,
       EnabledStoreZero, IInv
  <2>2. CASE ~pgp_active
    <3>1. /\ mode' \in Modes
          /\ pc' \in Steps
          /\ op' \in Ops
          /\ buf' \in Hashes
          /\ secs' \in 0..MaxSecs
      BY <2>2 DEF ZeroKey, NoHash, Keys, Hashes, Files, Modes, Steps, Ops,
         DataOK, TypeOK, Idle, StopSession, DisableBlocking, ClearHosts,
         EnabledStoreZero, IInv
    <3>2. /\ unload_key' \in Keys
          /\ key_hash' \in Hashes
          /\ pgp_key' \in Keys
      BY <2>2 DEF ZeroKey, NoHash, Keys, Hashes, Files, Modes, Steps, Ops,
         DataOK, TypeOK, Idle, StopSession, DisableBlocking, ClearHosts,
         EnabledStoreZero, IInv
    <3>3. /\ left' \in 0..MaxSecs
          /\ save_ticks' \in 0..(SaveInterval - 1)
          /\ lists' \in Lists /\ hosts' \in Lists
          /\ file' \in Files
          /\ disk' \in Files
      BY <2>2 DEF ZeroKey, NoHash, Keys, Hashes, Files, Modes, Steps, Ops,
         DataOK, TypeOK, Idle, StopSession, DisableBlocking, ClearHosts,
         EnabledStoreZero, IInv
    <3>4. /\ minted' \in 0..MaxKeys
          /\ seen' \subseteq Keys
          /\ losses' \in 0..MaxLosses
      BY <2>2 DEF ZeroKey, NoHash, Keys, Hashes, Files, Modes, Steps, Ops,
         DataOK, TypeOK, Idle, StopSession, DisableBlocking, ClearHosts,
         EnabledStoreZero, IInv
    <3> QED BY <3>1, <3>2, <3>3, <3>4 DEF DataOK
  <2> QED
    BY <2>1, <2>2 DEF EnabledStoreZero
<1>3. Phases'
  BY DEF NoHash, Idle, CanMint, StopSession, DisableBlocking, ClearHosts,
     EnabledStoreZero, Starting, Stopping, Phases, IInv
<1>4. Flags'
  <2>1. CASE pgp_active /\ ~enabled
    <3>1. /\ enabled' = ref_taken'
          /\ enabled' => ~allow_unload'
          /\ ~enabled' => left' = 0 /\ ~state_restored'
          /\ state_restored' => pgp_active'
          /\ ~enabled' /\ ~Stopping' => ~state_filp' /\ ~protected'
          /\ pc' \in {"hosts", "open", "write", "clear_start"} => ~state_filp'
          /\ pc' \in {"unhosts", "clear"} => ~protected'
          /\ enabled' /\ ~pgp_active' => ~state_filp'
      BY <2>1 DEF Idle, StopSession, DisableBlocking, ClearHosts,
         EnabledStoreZero, Stopping, Flags, IInv
    <3> QED BY <3>1 DEF Flags
  <2>2. CASE ~pgp_active
    <3>1. /\ enabled' = ref_taken'
          /\ enabled' => ~allow_unload'
          /\ ~enabled' => left' = 0 /\ ~state_restored'
          /\ state_restored' => pgp_active'
          /\ ~enabled' /\ ~Stopping' => ~state_filp' /\ ~protected'
          /\ pc' \in {"hosts", "open", "write", "clear_start"} => ~state_filp'
          /\ pc' \in {"unhosts", "clear"} => ~protected'
          /\ enabled' /\ ~pgp_active' => ~state_filp'
      BY <2>2 DEF Idle, StopSession, DisableBlocking, ClearHosts,
         EnabledStoreZero, Stopping, Flags, IInv
    <3> QED BY <3>1 DEF Flags
  <2> QED
    BY <2>1, <2>2 DEF EnabledStoreZero
<1>5. KeyInv'
  <2>1. CASE pgp_active /\ ~enabled
    <3>1. /\ key_hash' # ZeroKey /\ key_hash' <= minted'
          /\ unload_key' <= minted'
          /\ seen' \subseteq 0..minted'
      BY <2>1 DEF ZeroKey, NoHash, StopSession, DisableBlocking,
         EnabledStoreZero, Locked, KeyInv, IInv
    <3>2. /\ enabled' => key_hash' # NoHash
          /\ Locked' => unload_key' = ZeroKey
          /\ enabled' /\ ~pgp_active' => unload_key' = key_hash'
          /\ pgp_key_consumed' => pgp_key' = ZeroKey
          /\ ~pgp_key_consumed' => Locked' /\ pgp_key' = key_hash' /\ key_hash' \notin seen'
      BY <2>1 DEF ZeroKey, NoHash, StopSession, DisableBlocking,
         EnabledStoreZero, Locked, KeyInv, IInv
    <3> QED BY <3>1, <3>2 DEF KeyInv
  <2>2. CASE ~pgp_active
    <3>1. /\ key_hash' # ZeroKey /\ key_hash' <= minted'
          /\ unload_key' <= minted'
          /\ seen' \subseteq 0..minted'
          /\ enabled' => key_hash' # NoHash
          /\ Locked' => unload_key' = ZeroKey
          /\ enabled' /\ ~pgp_active' => unload_key' = key_hash'
          /\ pgp_key_consumed' => pgp_key' = ZeroKey
          /\ ~pgp_key_consumed' => Locked' /\ pgp_key' = key_hash' /\ key_hash' \notin seen'
      BY <2>2 DEF ZeroKey, NoHash, StopSession, DisableBlocking,
         EnabledStoreZero, Locked, KeyInv, IInv
    <3> QED BY <3>1 DEF KeyInv
  <2> QED
    BY <2>1, <2>2 DEF EnabledStoreZero
<1>6. DiskInv'
  BY DEF ZeroKey, NoHash, EmptyFile, StopSession, DisableBlocking,
     EnabledStoreZero, Locked, WellFormed, DiskInv, IInv, IsBlock
<1>7. ModeInv'
  BY DEF ZeroKey, NoHash, Unloaded, Idle, StopSession, DisableBlocking,
     EnabledStoreZero, TimerLive, ModeInv, IInv
<1> QED BY <1>1, <1>2, <1>3, <1>4, <1>5, <1>6, <1>7 DEF IInv, TypeOK

(* DisableStore preserves every part of the invariant. *)
LEMMA DisableStoreStep ==
  ASSUME NEW k \in Keys, IInv, DisableStore(k)
  PROVE  IInv'
<1>1. FlagsOK'
  BY Zenon DEF FlagsOK, TypeOK, StopSession, DisableBlocking, DisableStore,
     IInv
<1>2. DataOK'
  <2>1. /\ mode' \in Modes
        /\ pc' \in Steps
        /\ op' \in Ops
        /\ buf' \in Hashes
        /\ secs' \in 0..MaxSecs
    BY DEF ZeroKey, NoHash, Keys, Hashes, Files, Modes, Steps, Ops, DataOK,
       TypeOK, Idle, CanMint, StopSession, DisableBlocking, CheckKey,
       DisableStore, IInv
  <2>2. /\ unload_key' \in Keys
        /\ key_hash' \in Hashes
        /\ pgp_key' \in Keys
    BY DEF ZeroKey, NoHash, Keys, Hashes, Files, Modes, Steps, Ops, DataOK,
       TypeOK, Idle, CanMint, StopSession, DisableBlocking, CheckKey,
       DisableStore, IInv
  <2>3. /\ left' \in 0..MaxSecs
        /\ save_ticks' \in 0..(SaveInterval - 1)
        /\ lists' \in Lists /\ hosts' \in Lists
        /\ file' \in Files
        /\ disk' \in Files
    BY DEF ZeroKey, NoHash, Keys, Hashes, Files, Modes, Steps, Ops, DataOK,
       TypeOK, Idle, CanMint, StopSession, DisableBlocking, CheckKey,
       DisableStore, IInv
  <2>4. /\ minted' \in 0..MaxKeys
        /\ seen' \subseteq Keys
        /\ losses' \in 0..MaxLosses
    BY DEF ZeroKey, NoHash, Keys, Hashes, Files, Modes, Steps, Ops, DataOK,
       TypeOK, Idle, CanMint, StopSession, DisableBlocking, CheckKey,
       DisableStore, IInv
  <2> QED BY <2>1, <2>2, <2>3, <2>4 DEF DataOK
<1>3. Phases'
  BY DEF NoHash, Idle, CanMint, StopSession, DisableBlocking, DisableStore,
     Starting, Stopping, Phases, IInv
<1>4. Flags'
  BY DEF Idle, StopSession, DisableBlocking, DisableStore, Stopping, Flags,
     IInv
<1>5. KeyInv'
  BY DEF ZeroKey, NoHash, CanMint, StopSession, DisableBlocking, CheckKey,
     DisableStore, Locked, KeyInv, IInv
<1>6. DiskInv'
  BY DEF ZeroKey, NoHash, EmptyFile, CanMint, StopSession, DisableBlocking,
     CheckKey, DisableStore, Locked, WellFormed, DiskInv, IInv, IsBlock
<1>7. ModeInv'
  BY DEF ZeroKey, NoHash, Unloaded, Idle, StopSession, DisableBlocking,
     CheckKey, DisableStore, TimerLive, ModeInv, IInv
<1> QED BY <1>1, <1>2, <1>3, <1>4, <1>5, <1>6, <1>7 DEF IInv, TypeOK

(* UnblockStore preserves every part of the invariant. *)
LEMMA UnblockStoreStep ==
  ASSUME NEW k \in Keys, IInv, UnblockStore(k)
  PROVE  IInv'
<1>1. FlagsOK'
  BY Zenon DEF FlagsOK, TypeOK, StopSession, DisableBlocking, UnblockStore,
     IInv
<1>2. DataOK'
  BY DEF ZeroKey, NoHash, Keys, Hashes, Files, Modes, Steps, Ops, DataOK,
     TypeOK, Idle, StopSession, DisableBlocking, CheckKey, UnblockStore, IInv
<1>3. Phases'
  BY DEF NoHash, Idle, CanMint, StopSession, DisableBlocking, UnblockStore,
     Starting, Stopping, Phases, IInv
<1>4. Flags'
  BY DEF Idle, StopSession, DisableBlocking, UnblockStore, Stopping, Flags,
     IInv
<1>5. KeyInv'
  BY DEF ZeroKey, NoHash, StopSession, DisableBlocking, CheckKey,
     UnblockStore, Locked, KeyInv, IInv
<1>6. DiskInv'
  BY DEF ZeroKey, NoHash, EmptyFile, StopSession, DisableBlocking, CheckKey,
     UnblockStore, Locked, WellFormed, DiskInv, IInv, IsBlock
<1>7. ModeInv'
  BY DEF ZeroKey, NoHash, Unloaded, Idle, StopSession, DisableBlocking,
     CheckKey, UnblockStore, TimerLive, ModeInv, IInv
<1> QED BY <1>1, <1>2, <1>3, <1>4, <1>5, <1>6, <1>7 DEF IInv, TypeOK

(* KeyShow preserves every part of the invariant. *)
LEMMA KeyShowStep ==
  ASSUME IInv, KeyShow
  PROVE  IInv'
<1>1. FlagsOK'
  BY Zenon DEF FlagsOK, TypeOK, KeyShow, IInv
<1>2. DataOK'
  <2>1. CASE pgp_active
    <3>1. /\ mode' \in Modes
          /\ pc' \in Steps
          /\ op' \in Ops
          /\ buf' \in Hashes
          /\ secs' \in 0..MaxSecs
      BY <2>1 DEF ZeroKey, NoHash, Keys, Hashes, Files, Modes, Steps, Ops,
         DataOK, TypeOK, Idle, KeyShow, IInv
    <3>2. /\ unload_key' \in Keys
          /\ key_hash' \in Hashes
          /\ pgp_key' \in Keys
      BY <2>1 DEF ZeroKey, NoHash, Keys, Hashes, Files, Modes, Steps, Ops,
         DataOK, TypeOK, Idle, KeyShow, IInv
    <3>3. /\ left' \in 0..MaxSecs
          /\ save_ticks' \in 0..(SaveInterval - 1)
          /\ lists' \in Lists /\ hosts' \in Lists
          /\ file' \in Files
          /\ disk' \in Files
      BY <2>1 DEF ZeroKey, NoHash, Keys, Hashes, Files, Modes, Steps, Ops,
         DataOK, TypeOK, Idle, KeyShow, IInv
    <3>4. /\ minted' \in 0..MaxKeys
          /\ seen' \subseteq Keys
          /\ losses' \in 0..MaxLosses
      BY <2>1 DEF ZeroKey, NoHash, Keys, Hashes, Files, Modes, Steps, Ops,
         DataOK, TypeOK, Idle, KeyShow, IInv
    <3> QED BY <3>1, <3>2, <3>3, <3>4 DEF DataOK
  <2>2. CASE ~pgp_active
    <3>1. /\ mode' \in Modes
          /\ pc' \in Steps
          /\ op' \in Ops
          /\ buf' \in Hashes
          /\ secs' \in 0..MaxSecs
      BY <2>2 DEF ZeroKey, NoHash, Keys, Hashes, Files, Modes, Steps, Ops,
         DataOK, TypeOK, Idle, KeyShow, IInv
    <3>2. /\ unload_key' \in Keys
          /\ key_hash' \in Hashes
          /\ pgp_key' \in Keys
      BY <2>2 DEF ZeroKey, NoHash, Keys, Hashes, Files, Modes, Steps, Ops,
         DataOK, TypeOK, Idle, KeyShow, IInv
    <3>3. /\ left' \in 0..MaxSecs
          /\ save_ticks' \in 0..(SaveInterval - 1)
          /\ lists' \in Lists /\ hosts' \in Lists
          /\ file' \in Files
          /\ disk' \in Files
      BY <2>2 DEF ZeroKey, NoHash, Keys, Hashes, Files, Modes, Steps, Ops,
         DataOK, TypeOK, Idle, KeyShow, IInv
    <3>4. /\ minted' \in 0..MaxKeys
          /\ seen' \subseteq Keys
          /\ losses' \in 0..MaxLosses
      BY <2>2 DEF ZeroKey, NoHash, Keys, Hashes, Files, Modes, Steps, Ops,
         DataOK, TypeOK, Idle, KeyShow, IInv
    <3> QED BY <3>1, <3>2, <3>3, <3>4 DEF DataOK
  <2> QED
    BY <2>1, <2>2 DEF KeyShow
<1>3. Phases'
  BY DEF NoHash, Idle, CanMint, KeyShow, Starting, Stopping, Phases, IInv
<1>4. Flags'
  BY DEF Idle, KeyShow, Stopping, Flags, IInv
<1>5. KeyInv'
  <2>1. pgp_key \in 0..minted /\ unload_key \in 0..minted /\ seen \subseteq 0..minted
    <3>1. pgp_key \in Nat /\ unload_key \in Nat /\ key_hash \in Int /\ minted \in Nat
      BY DEF IInv, TypeOK, DataOK, Keys, Hashes, NoHash
    <3>2. pgp_key <= minted
      BY <3>1 DEF IInv, TypeOK, FlagsOK, KeyInv, ZeroKey
    <3> QED BY <3>1, <3>2 DEF IInv, KeyInv
  <2>2. seen' \subseteq 0..minted'
    BY <2>1 DEF KeyShow
  <2>3. CASE pgp_active
    <3>1. /\ key_hash' # ZeroKey /\ key_hash' <= minted'
          /\ unload_key' <= minted'
      BY <2>3 DEF ZeroKey, NoHash, KeyShow, Locked, KeyInv, IInv
    <3>2. /\ enabled' => key_hash' # NoHash
          /\ Locked' => unload_key' = ZeroKey
          /\ enabled' /\ ~pgp_active' => unload_key' = key_hash'
          /\ pgp_key_consumed' => pgp_key' = ZeroKey
      BY <2>3 DEF ZeroKey, NoHash, KeyShow, Locked, KeyInv, IInv
    <3>3. ~pgp_key_consumed' => Locked' /\ pgp_key' = key_hash' /\ key_hash' \notin seen'
      BY <2>3 DEF ZeroKey, NoHash, KeyShow, Locked, KeyInv, IInv
    <3> QED BY <2>2, <3>1, <3>2, <3>3 DEF KeyInv
  <2>4. CASE ~pgp_active
    <3>1. /\ key_hash' # ZeroKey /\ key_hash' <= minted'
          /\ unload_key' <= minted'
      BY <2>4 DEF ZeroKey, NoHash, KeyShow, Locked, KeyInv, IInv
    <3>2. /\ enabled' => key_hash' # NoHash
          /\ Locked' => unload_key' = ZeroKey
          /\ enabled' /\ ~pgp_active' => unload_key' = key_hash'
          /\ pgp_key_consumed' => pgp_key' = ZeroKey
          /\ ~pgp_key_consumed' => Locked' /\ pgp_key' = key_hash' /\ key_hash' \notin seen'
      BY <2>4 DEF ZeroKey, NoHash, KeyShow, Locked, KeyInv, IInv
    <3> QED BY <2>2, <3>1, <3>2 DEF KeyInv
  <2> QED
    BY <2>3, <2>4 DEF KeyShow
<1>6. DiskInv'
  BY DEF ZeroKey, NoHash, EmptyFile, KeyShow, Locked, WellFormed, DiskInv,
     IInv, IsBlock
<1>7. ModeInv'
  BY DEF ZeroKey, NoHash, Unloaded, Idle, KeyShow, TimerLive, ModeInv, IInv
<1> QED BY <1>1, <1>2, <1>3, <1>4, <1>5, <1>6, <1>7 DEF IInv, TypeOK

(* PgpActiveStore preserves every part of the invariant. *)
LEMMA PgpActiveStoreStep ==
  ASSUME NEW val \in BOOLEAN, IInv, PgpActiveStore(val)
  PROVE  IInv'
<1>1. FlagsOK'
  BY Zenon DEF FlagsOK, TypeOK, PgpActiveStore, IInv
<1>2. DataOK'
  BY DEF ZeroKey, NoHash, Keys, Hashes, Files, Modes, Steps, Ops, DataOK,
     TypeOK, Idle, PgpActiveStore, IInv
<1>3. Phases'
  BY DEF NoHash, Idle, CanMint, PgpActiveStore, Starting, Stopping, Phases,
     IInv
<1>4. Flags'
  BY DEF Idle, PgpActiveStore, Stopping, Flags, IInv
<1>5. KeyInv'
  BY DEF ZeroKey, NoHash, Keys, Hashes, Files, EmptyFile, Modes, Steps, Ops,
     DataOK, TypeOK, Unloaded, Idle, CanMint, PgpActiveStore, Locked,
     TimerLive, Starting, Stopping, Phases, Flags, KeyInv, WellFormed,
     DiskInv, ModeInv, IInv, IsBlock
<1>6. DiskInv'
  BY DEF ZeroKey, NoHash, EmptyFile, PgpActiveStore, Locked, WellFormed,
     DiskInv, IInv, IsBlock
<1>7. ModeInv'
  BY DEF ZeroKey, NoHash, Unloaded, Idle, PgpActiveStore, TimerLive, ModeInv,
     IInv
<1> QED BY <1>1, <1>2, <1>3, <1>4, <1>5, <1>6, <1>7 DEF IInv, TypeOK

(* ListStore preserves every part of the invariant. *)
LEMMA ListStoreStep ==
  ASSUME NEW v \in Lists, IInv, ListStore(v)
  PROVE  IInv'
<1>1. FlagsOK'
  BY Zenon DEF FlagsOK, TypeOK, ListStore, IInv
<1>2. DataOK'
  BY DEF NoHash, Keys, Hashes, Files, Modes, Steps, Ops, DataOK, TypeOK, Idle,
     ListStore, IInv
<1>3. Phases'
  BY DEF NoHash, Idle, CanMint, ListStore, Starting, Stopping, Phases, IInv
<1>4. Flags'
  BY DEF Idle, ListStore, Stopping, Flags, IInv
<1>5. KeyInv'
  BY DEF ZeroKey, NoHash, ListStore, Locked, KeyInv, IInv
<1>6. DiskInv'
  BY DEF ZeroKey, NoHash, EmptyFile, ListStore, Locked, WellFormed, DiskInv,
     IInv, IsBlock
<1>7. ModeInv'
  BY DEF ZeroKey, NoHash, Unloaded, Idle, ListStore, TimerLive, ModeInv, IInv
<1> QED BY <1>1, <1>2, <1>3, <1>4, <1>5, <1>6, <1>7 DEF IInv, TypeOK

-----------------------------------------------------------------------------
(* Module init and exit. *)

(* Restore preserves every part of the invariant. *)
LEMMA RestoreStep ==
  ASSUME IInv, Restore
  PROVE  IInv'
<1>1. FlagsOK'
  BY Zenon DEF FlagsOK, TypeOK, StartSession, Restore, IInv, RestoreLists
<1>2. DataOK'
  BY DEF ZeroKey, NoHash, Keys, Hashes, Files, Restorable, Modes, Steps, Ops,
     DataOK, TypeOK, StartSession, Restore, IInv, RestoreLists
<1>3. Phases'
  BY DEF ZeroKey, NoHash, Keys, Hashes, Files, Restorable, Modes, Steps, Ops,
     FlagsOK, DataOK, TypeOK, CanMint, StartSession, Restore, Starting,
     Stopping, Phases, Flags, IInv, RestoreLists
<1>4. Flags'
  BY DEF ZeroKey, NoHash, Restorable, FlagsOK, TypeOK, Unloaded, CanMint,
     StartSession, Restore, TimerLive, Starting, Stopping, Phases, Flags,
     ModeInv, IInv, RestoreLists
<1>5. KeyInv'
  BY DEF ZeroKey, NoHash, Keys, Hashes, Files, EmptyFile, Restorable, Modes,
     Steps, Ops, DataOK, TypeOK, Unloaded, CanMint, StartSession, Restore,
     Locked, TimerLive, Starting, Stopping, Phases, Flags, KeyInv, WellFormed,
     DiskInv, ModeInv, IInv, IsBlock, RestoreLists
<1>6. DiskInv'
  BY DEF ZeroKey, NoHash, Keys, Hashes, Files, EmptyFile, Restorable, Modes,
     Steps, Ops, DataOK, TypeOK, Unloaded, CanMint, StartSession, Restore,
     Locked, TimerLive, Starting, Stopping, Phases, Flags, KeyInv, WellFormed,
     DiskInv, ModeInv, IInv, IsBlock, RestoreLists
<1>7. ModeInv'
  BY DEF ZeroKey, NoHash, Unloaded, StartSession, Restore, TimerLive, ModeInv,
     IInv, RestoreLists
<1> QED BY <1>1, <1>2, <1>3, <1>4, <1>5, <1>6, <1>7 DEF IInv, TypeOK

(* InitFresh preserves every part of the invariant. *)
LEMMA InitFreshStep ==
  ASSUME IInv, InitFresh
  PROVE  IInv'
<1>1. FlagsOK'
  BY Zenon DEF FlagsOK, TypeOK, InitFresh, IInv, RestoreLists
<1>2. DataOK'
  BY DEF NoHash, Keys, Hashes, Files, Restorable, Modes, Steps, Ops, DataOK,
     TypeOK, CanMint, GenerateUnloadKey, InitFresh, IInv, RestoreLists
<1>3. Phases'
  BY DEF NoHash, Unloaded, GenerateUnloadKey, InitFresh, Starting, Stopping,
     Phases, ModeInv, IInv, RestoreLists
<1>4. Flags'
  BY DEF InitFresh, Stopping, Flags, IInv, RestoreLists
<1>5. KeyInv'
  BY DEF ZeroKey, NoHash, Keys, Hashes, Files, EmptyFile, Restorable, Modes,
     Steps, Ops, DataOK, TypeOK, Unloaded, CanMint, GenerateUnloadKey,
     InitFresh, Locked, TimerLive, Starting, Stopping, Phases, Flags, KeyInv,
     WellFormed, DiskInv, ModeInv, IInv, IsBlock, RestoreLists
<1>6. DiskInv'
  BY DEF ZeroKey, NoHash, Keys, Hashes, Files, EmptyFile, Restorable, Modes,
     Steps, Ops, DataOK, TypeOK, Unloaded, CanMint, GenerateUnloadKey,
     InitFresh, Locked, TimerLive, Starting, Stopping, Phases, Flags, KeyInv,
     WellFormed, DiskInv, ModeInv, IInv, IsBlock, RestoreLists
<1>7. ModeInv'
  BY DEF ZeroKey, NoHash, Unloaded, GenerateUnloadKey, InitFresh, TimerLive,
     ModeInv, IInv, RestoreLists
<1> QED BY <1>1, <1>2, <1>3, <1>4, <1>5, <1>6, <1>7 DEF IInv, TypeOK

(* SysfsCreated preserves every part of the invariant. *)
LEMMA SysfsCreatedStep ==
  ASSUME IInv, SysfsCreated
  PROVE  IInv'
<1>1. FlagsOK'
  BY Zenon DEF FlagsOK, TypeOK, SysfsCreated, IInv
<1>2. DataOK'
  BY DEF NoHash, Keys, Hashes, Files, Modes, Steps, Ops, DataOK, TypeOK,
     SysfsCreated, IInv
<1>3. Phases'
  BY DEF NoHash, CanMint, SysfsCreated, Starting, Stopping, Phases, IInv
<1>4. Flags'
  BY DEF SysfsCreated, Stopping, Flags, IInv
<1>5. KeyInv'
  BY DEF ZeroKey, NoHash, SysfsCreated, Locked, KeyInv, IInv
<1>6. DiskInv'
  BY DEF ZeroKey, NoHash, EmptyFile, SysfsCreated, Locked, WellFormed,
     DiskInv, IInv, IsBlock
<1>7. ModeInv'
  BY DEF ZeroKey, NoHash, Unloaded, SysfsCreated, TimerLive, ModeInv, IInv
<1> QED BY <1>1, <1>2, <1>3, <1>4, <1>5, <1>6, <1>7 DEF IInv, TypeOK

(* SysfsFails preserves every part of the invariant. *)
LEMMA SysfsFailsStep ==
  ASSUME IInv, SysfsFails
  PROVE  IInv'
<1>1. FlagsOK'
  BY Zenon DEF FlagsOK, TypeOK, StopSession, DisableBlocking, SysfsFails, IInv
<1>2. DataOK'
  BY DEF ZeroKey, NoHash, Keys, Hashes, Files, Modes, Steps, Ops, DataOK,
     TypeOK, StopSession, DisableBlocking, SysfsFails, IInv
<1>3. Phases'
  BY DEF NoHash, CanMint, StopSession, DisableBlocking, SysfsFails, Starting,
     Stopping, Phases, IInv
<1>4. Flags'
  BY DEF StopSession, DisableBlocking, SysfsFails, Stopping, Flags, IInv
<1>5. KeyInv'
  BY DEF ZeroKey, NoHash, StopSession, DisableBlocking, SysfsFails, Locked,
     KeyInv, IInv
<1>6. DiskInv'
  BY DEF ZeroKey, NoHash, EmptyFile, StopSession, DisableBlocking, SysfsFails,
     Locked, WellFormed, DiskInv, IInv, IsBlock
<1>7. ModeInv'
  BY DEF ZeroKey, NoHash, Unloaded, StopSession, DisableBlocking, SysfsFails,
     TimerLive, ModeInv, IInv
<1> QED BY <1>1, <1>2, <1>3, <1>4, <1>5, <1>6, <1>7 DEF IInv, TypeOK

(* Rmmod preserves every part of the invariant. *)
LEMMA RmmodStep ==
  ASSUME NEW force \in BOOLEAN, IInv, Rmmod(force)
  PROVE  IInv'
<1>1. FlagsOK'
  BY Zenon DEF FlagsOK, TypeOK, Forget, CutPower, Rmmod, IInv
<1>2. DataOK'
  BY DEF ZeroKey, NoHash, Keys, Hashes, Files, EmptyFile, Modes, Steps, Ops,
     DataOK, TypeOK, WholeFile, CutFiles, Forget, CutPower, Rmmod, IInv
<1>3. Phases'
  BY DEF NoHash, CanMint, WholeFile, CutFiles, Forget, CutPower, Rmmod,
     Starting, Stopping, Phases, IInv
<1>4. Flags'
  <2>1. CASE enabled /\ ~allow_unload
    BY <2>1 DEF Forget, CutPower, Rmmod, Stopping, Flags, IInv
  <2>2. CASE ~(enabled /\ ~allow_unload)
    BY <2>2 DEF Forget, CutPower, Rmmod, Stopping, Flags, IInv
  <2> QED
    BY <2>1, <2>2 DEF Rmmod
<1>5. KeyInv'
  BY DEF ZeroKey, NoHash, Keys, Hashes, Files, EmptyFile, Modes, Steps, Ops,
     DataOK, TypeOK, Unloaded, CanMint, WholeFile, CutFiles, Forget, CutPower,
     Rmmod, Locked, TimerLive, Starting, Stopping, Phases, Flags, KeyInv,
     WellFormed, DiskInv, ModeInv, IInv, IsBlock
<1>6. DiskInv'
  BY DEF ZeroKey, NoHash, Keys, Hashes, Files, EmptyFile, Modes, Steps, Ops,
     DataOK, TypeOK, Unloaded, CanMint, WholeFile, CutFiles, Forget, CutPower,
     Rmmod, Locked, TimerLive, Starting, Stopping, Phases, Flags, KeyInv,
     WellFormed, DiskInv, ModeInv, IInv, IsBlock
<1>7. ModeInv'
  BY DEF ZeroKey, NoHash, EmptyFile, Unloaded, WholeFile, CutFiles, Forget,
     CutPower, Rmmod, TimerLive, ModeInv, IInv
<1> QED BY <1>1, <1>2, <1>3, <1>4, <1>5, <1>6, <1>7 DEF IInv, TypeOK

(* ExitRemoveSysfs preserves every part of the invariant. *)
LEMMA ExitRemoveSysfsStep ==
  ASSUME IInv, ExitRemoveSysfs
  PROVE  IInv'
<1>1. FlagsOK'
  BY Zenon DEF FlagsOK, TypeOK, ExitRemoveSysfs, IInv
<1>2. DataOK'
  BY DEF NoHash, Keys, Hashes, Files, Modes, Steps, Ops, DataOK, TypeOK,
     ExitRemoveSysfs, IInv
<1>3. Phases'
  BY DEF NoHash, CanMint, ExitRemoveSysfs, Starting, Stopping, Phases, IInv
<1>4. Flags'
  BY DEF ExitRemoveSysfs, Stopping, Flags, IInv
<1>5. KeyInv'
  BY DEF ZeroKey, NoHash, ExitRemoveSysfs, Locked, KeyInv, IInv
<1>6. DiskInv'
  BY DEF ZeroKey, NoHash, EmptyFile, ExitRemoveSysfs, Locked, WellFormed,
     DiskInv, IInv, IsBlock
<1>7. ModeInv'
  BY DEF ZeroKey, NoHash, Unloaded, ExitRemoveSysfs, TimerLive, ModeInv, IInv
<1> QED BY <1>1, <1>2, <1>3, <1>4, <1>5, <1>6, <1>7 DEF IInv, TypeOK

(* ExitStopTimers preserves every part of the invariant. *)
LEMMA ExitStopTimersStep ==
  ASSUME IInv, ExitStopTimers
  PROVE  IInv'
<1>1. FlagsOK'
  BY Zenon DEF FlagsOK, TypeOK, ExitStopTimers, IInv
<1>2. DataOK'
  BY DEF NoHash, Keys, Hashes, Files, Modes, Steps, Ops, DataOK, TypeOK,
     ExitStopTimers, IInv
<1>3. Phases'
  BY DEF NoHash, CanMint, ExitStopTimers, Starting, Stopping, Phases, IInv
<1>4. Flags'
  BY DEF ExitStopTimers, Stopping, Flags, IInv
<1>5. KeyInv'
  BY DEF ZeroKey, NoHash, ExitStopTimers, Locked, KeyInv, IInv
<1>6. DiskInv'
  BY DEF ZeroKey, NoHash, EmptyFile, ExitStopTimers, Locked, WellFormed,
     DiskInv, IInv, IsBlock
<1>7. ModeInv'
  BY DEF ZeroKey, NoHash, Unloaded, ExitStopTimers, TimerLive, ModeInv, IInv
<1> QED BY <1>1, <1>2, <1>3, <1>4, <1>5, <1>6, <1>7 DEF IInv, TypeOK

(* ExitClear preserves every part of the invariant. *)
LEMMA ExitClearStep ==
  ASSUME IInv, ExitClear
  PROVE  IInv'
<1>1. FlagsOK'
  BY Zenon DEF FlagsOK, TypeOK, Forget, ExitClear, IInv
<1>2. DataOK'
  BY DEF ZeroKey, NoHash, Keys, Hashes, Files, EmptyFile, Modes, Steps, Ops,
     DataOK, TypeOK, Forget, ExitClear, IInv
<1>3. Phases'
  BY DEF NoHash, CanMint, Forget, ExitClear, Starting, Stopping, Phases, IInv
<1>4. Flags'
  BY DEF Forget, ExitClear, Stopping, Flags, IInv
<1>5. KeyInv'
  BY DEF ZeroKey, NoHash, Keys, Hashes, Files, EmptyFile, Modes, Steps, Ops,
     DataOK, TypeOK, Unloaded, CanMint, Forget, ExitClear, Locked, TimerLive,
     Starting, Stopping, Phases, Flags, KeyInv, WellFormed, DiskInv, ModeInv,
     IInv, IsBlock
<1>6. DiskInv'
  BY DEF ZeroKey, NoHash, Keys, Hashes, Files, EmptyFile, Modes, Steps, Ops,
     DataOK, TypeOK, Unloaded, CanMint, Forget, ExitClear, Locked, TimerLive,
     Starting, Stopping, Phases, Flags, KeyInv, WellFormed, DiskInv, ModeInv,
     IInv, IsBlock
<1>7. ModeInv'
  BY DEF ZeroKey, NoHash, EmptyFile, Unloaded, Forget, ExitClear, TimerLive,
     ModeInv, IInv
<1> QED BY <1>1, <1>2, <1>3, <1>4, <1>5, <1>6, <1>7 DEF IInv, TypeOK

-----------------------------------------------------------------------------
(* The clock, the timer, its work, and the power. *)

(* Tick preserves every part of the invariant. *)
LEMMA TickStep ==
  ASSUME IInv, Tick
  PROVE  IInv'
<1>1. FlagsOK'
  BY Zenon DEF FlagsOK, TypeOK, Tick, IInv
<1>2. DataOK'
  BY DEF NoHash, Keys, Hashes, Files, Modes, Steps, Ops, DataOK, TypeOK, Tick,
     IInv
<1>3. Phases'
  BY DEF NoHash, Keys, Hashes, Files, Modes, Steps, Ops, FlagsOK, DataOK,
     TypeOK, CanMint, Tick, Starting, Stopping, Phases, Flags, IInv
<1>4. Flags'
  BY DEF Tick, Stopping, Flags, IInv
<1>5. KeyInv'
  BY DEF ZeroKey, NoHash, Tick, Locked, KeyInv, IInv
<1>6. DiskInv'
  BY DEF ZeroKey, NoHash, Keys, Hashes, Files, EmptyFile, Modes, Steps, Ops,
     DataOK, TypeOK, Unloaded, CanMint, Tick, Locked, TimerLive, Starting,
     Stopping, Phases, Flags, KeyInv, WellFormed, DiskInv, ModeInv, IInv,
     IsBlock
<1>7. ModeInv'
  BY DEF ZeroKey, NoHash, Unloaded, Tick, TimerLive, ModeInv, IInv
<1> QED BY <1>1, <1>2, <1>3, <1>4, <1>5, <1>6, <1>7 DEF IInv, TypeOK

(* EnableTimerCb preserves every part of the invariant. *)
LEMMA EnableTimerCbStep ==
  ASSUME IInv, EnableTimerCb
  PROVE  IInv'
<1>1. FlagsOK'
  BY Zenon DEF FlagsOK, TypeOK, EnableTimerCb, IInv
<1>2. DataOK'
  BY DEF NoHash, Keys, Hashes, Files, Modes, Steps, Ops, DataOK, TypeOK,
     EnableTimerCb, IInv
<1>3. Phases'
  BY DEF NoHash, CanMint, EnableTimerCb, Starting, Stopping, Phases, IInv
<1>4. Flags'
  BY DEF EnableTimerCb, Stopping, Flags, IInv
<1>5. KeyInv'
  BY DEF ZeroKey, NoHash, EnableTimerCb, Locked, KeyInv, IInv
<1>6. DiskInv'
  BY DEF ZeroKey, NoHash, EmptyFile, EnableTimerCb, Locked, WellFormed,
     DiskInv, IInv, IsBlock
<1>7. ModeInv'
  BY DEF ZeroKey, NoHash, Unloaded, EnableTimerCb, TimerLive, ModeInv, IInv
<1> QED BY <1>1, <1>2, <1>3, <1>4, <1>5, <1>6, <1>7 DEF IInv, TypeOK

(* ExpireWork preserves every part of the invariant. *)
LEMMA ExpireWorkStep ==
  ASSUME IInv, ExpireWork
  PROVE  IInv'
<1>1. FlagsOK'
  BY Zenon DEF FlagsOK, TypeOK, ModTimer, StopSession, DisableBlocking,
     SaveRemaining, ExpireWork, IInv
<1>2. DataOK'
  BY DEF ZeroKey, NoHash, Keys, Hashes, Files, Modes, Steps, Ops, DataOK,
     TypeOK, Fsync, StopSession, DisableBlocking, Expired, SaveRemaining,
     ExpireWork, IInv
<1>3. Phases'
  BY DEF NoHash, CanMint, StopSession, DisableBlocking, Expired,
     SaveRemaining, ExpireWork, Starting, Stopping, Phases, IInv
<1>4. Flags'
  <2>1. CASE enabled /\ Expired
    BY <2>1 DEF ExpireWork, DisableBlocking, StopSession, Expired, Stopping,
       IInv, Flags, Phases
  <2>2. CASE ~(enabled /\ Expired)
    <3>1. UNCHANGED <<lockVars, sessionVars, left, state_filp, protected>>
      BY <2>2 DEF ExpireWork
    <3> QED BY Zenon, <3>1 DEF IInv, Flags, Stopping
  <2> QED BY <2>1, <2>2
<1>5. KeyInv'
  BY DEF ZeroKey, NoHash, Keys, Hashes, Files, EmptyFile, Modes, Steps, Ops,
     DataOK, TypeOK, Unloaded, CanMint, Fsync, ModTimer, StopSession,
     DisableBlocking, Expired, SaveRemaining, ExpireWork, Locked, TimerLive,
     Starting, Stopping, Phases, Flags, KeyInv, WellFormed, DiskInv, ModeInv,
     IInv, IsBlock
<1>6. DiskInv'
  BY DEF ZeroKey, NoHash, Keys, Hashes, Files, EmptyFile, Modes, Steps, Ops,
     DataOK, TypeOK, Unloaded, CanMint, Fsync, ModTimer, StopSession,
     DisableBlocking, Expired, SaveRemaining, ExpireWork, Locked, TimerLive,
     Starting, Stopping, Phases, Flags, KeyInv, WellFormed, DiskInv, ModeInv,
     IInv, IsBlock
<1>7. ModeInv'
  BY DEF ZeroKey, NoHash, Unloaded, ModTimer, StopSession, DisableBlocking,
     Expired, SaveRemaining, ExpireWork, TimerLive, ModeInv, IInv
<1> QED BY <1>1, <1>2, <1>3, <1>4, <1>5, <1>6, <1>7 DEF IInv, TypeOK

(* Writeback preserves every part of the invariant. *)
LEMMA WritebackStep ==
  ASSUME IInv, Writeback
  PROVE  IInv'
<1>1. FlagsOK'
  BY Zenon DEF FlagsOK, TypeOK, Writeback, IInv
<1>2. DataOK'
  BY DEF NoHash, Keys, Hashes, Files, Modes, Steps, Ops, DataOK, TypeOK,
     Writeback, IInv
<1>3. Phases'
  BY DEF NoHash, CanMint, Writeback, Starting, Stopping, Phases, IInv
<1>4. Flags'
  BY DEF Writeback, Stopping, Flags, IInv
<1>5. KeyInv'
  BY DEF ZeroKey, NoHash, Writeback, Locked, KeyInv, IInv
<1>6. DiskInv'
  BY DEF ZeroKey, NoHash, EmptyFile, Writeback, Locked, WellFormed, DiskInv,
     IInv, IsBlock
<1>7. ModeInv'
  BY DEF ZeroKey, NoHash, Unloaded, Writeback, TimerLive, ModeInv, IInv
<1> QED BY <1>1, <1>2, <1>3, <1>4, <1>5, <1>6, <1>7 DEF IInv, TypeOK

(* PowerLoss preserves every part of the invariant. *)
LEMMA PowerLossStep ==
  ASSUME IInv, PowerLoss
  PROVE  IInv'
<1>1. FlagsOK'
  BY Zenon DEF FlagsOK, TypeOK, Forget, CutPower, PowerLoss, IInv
<1>2. DataOK'
  BY DEF ZeroKey, NoHash, Keys, Hashes, Files, EmptyFile, Modes, Steps, Ops,
     DataOK, TypeOK, WholeFile, CutFiles, Forget, CutPower, PowerLoss, IInv
<1>3. Phases'
  BY DEF NoHash, CanMint, WholeFile, CutFiles, Forget, CutPower, PowerLoss,
     Starting, Stopping, Phases, IInv
<1>4. Flags'
  BY DEF Forget, CutPower, PowerLoss, Stopping, Flags, IInv
<1>5. KeyInv'
  BY DEF ZeroKey, NoHash, Keys, Hashes, Files, EmptyFile, Modes, Steps, Ops,
     DataOK, TypeOK, Unloaded, CanMint, WholeFile, CutFiles, Forget, CutPower,
     PowerLoss, Locked, TimerLive, Starting, Stopping, Phases, Flags, KeyInv,
     WellFormed, DiskInv, ModeInv, IInv, IsBlock
<1>6. DiskInv'
  BY DEF ZeroKey, NoHash, Keys, Hashes, Files, EmptyFile, Modes, Steps, Ops,
     DataOK, TypeOK, Unloaded, CanMint, WholeFile, CutFiles, Forget, CutPower,
     PowerLoss, Locked, TimerLive, Starting, Stopping, Phases, Flags, KeyInv,
     WellFormed, DiskInv, ModeInv, IInv, IsBlock
<1>7. ModeInv'
  BY DEF ZeroKey, NoHash, EmptyFile, Unloaded, WholeFile, CutFiles, Forget,
     CutPower, PowerLoss, TimerLive, ModeInv, IInv
<1> QED BY <1>1, <1>2, <1>3, <1>4, <1>5, <1>6, <1>7 DEF IInv, TypeOK

-----------------------------------------------------------------------------
(* Power-on with nothing written down establishes the invariant. *)
LEMMA InitInv == Init => IInv
<1> SUFFICES ASSUME Init PROVE IInv
  OBVIOUS
<1>1. FlagsOK
  BY Zenon DEF Init, Unloaded, FlagsOK
<1>2. DataOK
  BY DEF Init, Unloaded, DataOK, Modes, Steps, Ops, Keys, Hashes, NoHash,
     ZeroKey, Files, EmptyFile
<1>3. Phases /\ Flags
  BY DEF Init, Unloaded, Phases, Flags, Starting, Stopping
<1>4. KeyInv /\ DiskInv
  BY DEF Init, Unloaded, KeyInv, DiskInv, WellFormed, Locked, EmptyFile,
     NoHash, ZeroKey, IsBlock
<1>5. ModeInv
  BY DEF Init, Unloaded, ModeInv, TimerLive
<1> QED BY <1>1, <1>2, <1>3, <1>4, <1>5 DEF IInv, TypeOK

(* A step that changes nothing keeps it. *)
LEMMA StutterStep ==
  ASSUME IInv, UNCHANGED vars
  PROVE  IInv'
<1>1. TypeOK'
  BY Zenon DEF vars, IInv, TypeOK, FlagsOK, DataOK
<1>2. Phases' /\ Flags' /\ KeyInv'
  BY Zenon DEF vars, IInv, Phases, Flags, KeyInv, Starting, Stopping, CanMint,
     Locked
<1>3. DiskInv' /\ ModeInv'
  BY Zenon DEF vars, IInv, DiskInv, WellFormed, Locked, ModeInv, TimerLive,
     Unloaded, IsBlock
<1> QED BY <1>1, <1>2, <1>3 DEF IInv

(* Every step keeps the invariant: one lemma per action. *)
LEMMA Inductive == IInv /\ [Next]_vars => IInv'
<1> SUFFICES ASSUME IInv, [Next]_vars PROVE IInv'
  OBVIOUS
<1>1. CASE Handler
  BY <1>1, UpdateHostsStep, OpenStateFileStep, WriteStateFileStep,
     ClearBeforeInsecureStep, ProtectAndArmStep, UnprotectStep, UnhostsStep,
     ClearAndReturnStep DEF Handler
<1>2. CASE User
  BY <1>2, EnableBlockingStep, EnabledStoreZeroStep, DisableStoreStep,
     UnblockStoreStep, KeyShowStep, PgpActiveStoreStep, ListStoreStep DEF User
<1>3. CASE Module
  BY <1>3, RestoreStep, InitFreshStep, SysfsCreatedStep, SysfsFailsStep,
     RmmodStep, ExitRemoveSysfsStep, ExitStopTimersStep, ExitClearStep
     DEF Module
<1>4. CASE Tick \/ EnableTimerCb \/ ExpireWork \/ Writeback \/ PowerLoss
  BY <1>4, TickStep, EnableTimerCbStep, ExpireWorkStep, WritebackStep,
     PowerLossStep
<1>5. CASE UNCHANGED vars
  BY <1>5, StutterStep
<1> QED BY <1>1, <1>2, <1>3, <1>4, <1>5 DEF Next

(* The invariant holds of every reachable state of the module, the files    *)
(* and the power, whatever fails and however long the session.              *)
THEOREM Invariance == Spec => []IInv
  BY InitInv, Inductive, PTL DEF Spec

(* Every variable keeps its type: no counter of src/state.c leaves its      *)
(* range, no step is missing a case.                                        *)
THEOREM TypeCorrect == Spec => []TypeOK
<1>1. IInv => TypeOK
  BY DEF IInv
<1> QED BY <1>1, Invariance, PTL

(* Whenever kb_lock is free, what kb_check_invariants asserts holds.        *)
THEOREM DebugInvariantsHold == Spec => []DebugInvariants
<1>1. IInv => DebugInvariants
  BY DEF IInv, DebugInvariants, TypeOK, FlagsOK, Flags, Phases, KeyInv, Locked,
     Starting, Stopping
<1> QED BY <1>1, Invariance, PTL

(* The key of a PGP block is unseen until its only copy is read, and after  *)
(* that read no copy is left in the kernel.                                 *)
THEOREM KeyIsSealed == Spec => []SealedKey
<1>1. IInv => SealedKey
  BY DEF IInv, SealedKey, KeyInv, Locked
<1> QED BY <1>1, Invariance, PTL

(* The key a block without PGP shows is the key that ends it.               *)
THEOREM ShownKeyIsRight == Spec => []ShownKeyWorks
<1>1. IInv => ShownKeyWorks
  BY DEF IInv, ShownKeyWorks, KeyInv
<1> QED BY <1>1, Invariance, PTL

(* Whatever fails, a state file that is held open is its block, with its    *)
(* key, its lists and no less time; and so is what is on the disk, at every *)
(* point of every later save, once the fsync of the block's record had      *)
(* succeeded.                                                               *)
THEOREM BlockIsDurable == Spec => []Durable
<1>1. IInv => Durable
  <2> SUFFICES ASSUME IInv, Locked, state_filp,
                      NEW f \in IF synced THEN {file, disk} ELSE {file}
               PROVE  f.hash = key_hash /\ f.lists = lists
                        /\ f.rem > 0 /\ f.rem >= left
    BY DEF Durable
  <2>1. IsBlock(f) /\ WellFormed(f)
    BY DEF IInv, DiskInv
  <2>2. f.hash # NoHash
    BY <2>1 DEF IsBlock, IInv, KeyInv, Locked
  <2>3. f.rem > 0
    BY <2>1, <2>2 DEF WellFormed, EmptyFile
  <2> QED BY <2>1, <2>3 DEF IsBlock
<1> QED BY <1>1, Invariance, PTL

(* Between two handlers, a running block has its timer or its work.         *)
THEOREM TimerStaysLive == Spec => []TimerLive
<1>1. IInv => TimerLive
  BY DEF IInv, ModeInv
<1> QED BY <1>1, Invariance, PTL

(* The lock itself: of all the steps of all the handlers, only the expiry,  *)
(* an accepted key and the end of the module take a locked block away.      *)
THEOREM LockIsKept == Spec => LockHolds
<1> DEFINE Kept == Locked /\ ~Locked' =>
              left = 0 \/ buf' = key_hash \/ mode' \in {"off", "exit_timers"}
<1>1. IInv /\ [Next]_vars => [Kept]_vars
  <2> SUFFICES ASSUME IInv, Next, Locked, ~Locked'
               PROVE  left = 0 \/ buf' = key_hash
                        \/ mode' \in {"off", "exit_timers"}
    OBVIOUS
  <2>1. CASE Handler
    BY <2>1 DEF Handler, UpdateHosts, OpenStateFile, WriteStateFile,
       ClearBeforeInsecure, ProtectAndArm, Unprotect, Unhosts, ClearAndReturn,
       Locked, sessionVars
  <2>2. CASE User
    BY <2>2 DEF User, EnableBlocking, EnabledStoreZero, DisableStore,
       UnblockStore, KeyShow, PgpActiveStore, ListStore, CheckKey,
       DisableBlocking, Locked, sessionVars
  <2>3. CASE Module
    BY <2>3 DEF Module, Restore, InitFresh, SysfsCreated, SysfsFails, Rmmod,
       ExitRemoveSysfs, ExitStopTimers, ExitClear, CutPower, Forget, Locked,
       IInv, ModeInv, Unloaded, sessionVars, RestoreLists
  <2>4. CASE Tick \/ EnableTimerCb \/ Writeback
    BY <2>4 DEF Tick, EnableTimerCb, Writeback, Locked, sessionVars
  <2>5. CASE ExpireWork
    BY <2>5 DEF ExpireWork, Expired, Locked, sessionVars
  <2>6. CASE PowerLoss
    BY <2>6 DEF PowerLoss, CutPower, Forget
  <2> QED BY <2>1, <2>2, <2>3, <2>4, <2>5, <2>6 DEF Next
<1> QED BY <1>1, Invariance, PTL DEF Spec, LockHolds

-----------------------------------------------------------------------------
(* When nothing fails, each write of start_session leaves what the handler  *)
(* is to find at its end, and a block that ended left an empty file.        *)
Clean ==
  ~Faults =>
    /\ enabled /\ pc # "hosts" => hosts = lists
    /\ enabled /\ pc = "free" => protected
    /\ Locked /\ pc \in {"protect", "free"} => state_filp
    /\ ~enabled /\ pc = "free" /\ mode # "off" => ~Restorable

LEMMA CleanStep ==
  ASSUME IInv, Clean, [Next]_vars
  PROVE  Clean'
<1>1. CASE UpdateHosts \/ OpenStateFile \/ WriteStateFile \/ ProtectAndArm
  BY <1>1 DEF UpdateHosts, OpenStateFile, WriteStateFile, ProtectAndArm, Clean,
     Locked, IInv, Phases, Starting
<1>2. CASE ClearBeforeInsecure
  BY <1>2 DEF ClearBeforeInsecure, Clean, Locked, IInv, Phases, Starting
<1>3. CASE Unprotect \/ Unhosts
  BY <1>3 DEF Unprotect, Unhosts, Clean, Locked, IInv, Phases, Stopping
<1>4. CASE ClearAndReturn
  BY <1>4 DEF ClearAndReturn, StateFileClear, EmptyFile, Restorable, Clean,
     Locked, IInv, Phases, Stopping
<1>5. CASE \/ (\E s \in 1..MaxSecs : EnableBlocking(s)) \/ Restore
  BY <1>5 DEF EnableBlocking, Restore, StartSession, Clean, Locked,
     RestoreLists
<1>6. CASE \/ EnabledStoreZero \/ (\E k \in Keys : DisableStore(k))
           \/ (\E k \in Keys : UnblockStore(k)) \/ SysfsFails \/ ExpireWork
  <2>1. CASE \E who \in Ops, k \in Hashes : DisableBlocking(who, k)
    BY <2>1 DEF DisableBlocking, StopSession, Clean, Locked
  <2>2. CASE EnabledStoreZero /\ ~enabled /\ UNCHANGED <<lockVars, sessionVars>>
    BY <2>2 DEF EnabledStoreZero, DisableBlocking, Clean, Locked, Restorable,
       Idle
  <2>3. CASE ExpireWork /\ UNCHANGED <<lockVars, sessionVars, lists, protected,
                                        state_filp, hosts>>
    BY <2>3 DEF ExpireWork, DisableBlocking, Clean, Locked, Restorable
  <2> QED BY <1>6, <2>1, <2>2, <2>3
          DEF EnabledStoreZero, DisableStore, UnblockStore, SysfsFails,
              ExpireWork, Ops, Hashes
<1>7. CASE KeyShow \/ Tick \/ EnableTimerCb \/ Writeback
  BY <1>7 DEF KeyShow, Tick, EnableTimerCb, Writeback, Clean, Locked, Restorable
<1>8. CASE \/ (\E val \in BOOLEAN : PgpActiveStore(val))
           \/ (\E v \in Lists : ListStore(v))
  BY <1>8 DEF PgpActiveStore, ListStore, Clean, Locked, Restorable
<1>9. CASE InitFresh
  BY <1>9 DEF InitFresh, Clean, Locked, Restorable, IInv, ModeInv, Unloaded,
     RestoreLists
<1>10. CASE ExitClear \/ PowerLoss \/ \E force \in BOOLEAN : Rmmod(force)
  BY <1>10 DEF ExitClear, PowerLoss, Rmmod, CutPower, Forget, Clean, Locked,
     Restorable
<1>11. CASE SysfsCreated \/ ExitRemoveSysfs \/ ExitStopTimers
  BY <1>11 DEF SysfsCreated, ExitRemoveSysfs, ExitStopTimers, Clean, Locked,
     Restorable
<1>12. CASE UNCHANGED vars
  BY <1>12 DEF vars, Clean, Locked, Restorable
<1> QED BY <1>1, <1>2, <1>3, <1>4, <1>5, <1>6, <1>7, <1>8, <1>9, <1>10,
     <1>11, <1>12 DEF Next, Handler, User, Module

(* When no file operation fails, a block that ended leaves nothing that the *)
(* module would restore, and a running one stands in the hosts file.        *)
THEOREM EndsClean == Spec => []CleanEnd
<1>1. Init => Clean
  BY DEF Init, Unloaded, Clean, Locked
<1>2. IInv /\ Clean /\ [Next]_vars => Clean'
  BY CleanStep
<1>3. Clean => CleanEnd
  BY DEF Clean, CleanEnd
<1> QED BY <1>1, <1>2, <1>3, Invariance, PTL DEF Spec
=============================================================================
