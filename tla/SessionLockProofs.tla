-------------------------- MODULE SessionLockProofs --------------------------
(***************************************************************************)
(* Session implements Lock: under the mapping of SessionLock its initial    *)
(* state is one of Lock, and each of its steps is one of Lock or changes    *)
(* nothing Lock speaks of.  Each lemma names the action of Lock to which    *)
(* an action of Session maps; the invariant of SessionInv supplies what the *)
(* step itself does not say.                                                *)
(***************************************************************************)
EXTENDS SessionLock, SessionProofs

USE SessionAssumption DEF lockVars, sessionVars, keyVars, timerVars, diskVars,
  openVars

-----------------------------------------------------------------------------
(* A loss of power is PowerOff: what a cut write leaves is a draft of the
   block that was being written down. *)
LEMMA CutPowerMaps ==
  ASSUME IInv, CutPower
  PROVE  L!PowerOff /\ buf' \in L!Keys \cup {L!NoKey}
<1>1. L!Down
  BY DEF L!Down, CutPower, Forget, L!NoKey, NoHash, Locked
<1>2. file' \in {file, disk} \cup L!Drafts
  <2>1. CASE file' \in {file, disk}
    BY <2>1
  <2>2. CASE pc = "write" /\ file' \in CutFiles
    <3>1. Locked /\ ~synced /\ secs \in left..MaxSecs /\ secs > 0
      BY <2>2 DEF IInv, Phases, Flags, DiskInv, Starting, Locked, TypeOK,
         DataOK, FlagsOK
    <3>2. key_hash # NoHash
      BY <3>1 DEF IInv, KeyInv, Locked
    <3>3. WholeFile = [hash |-> key_hash, rem |-> secs, lists |-> lists]
      BY DEF WholeFile
    <3>4. [WholeFile EXCEPT !.lists = NoLists]
            = [hash |-> key_hash, rem |-> secs, lists |-> NoLists]
      BY <3>3
    <3>5. L!Drafts = {r \in [hash : {key_hash}, rem : left..MaxSecs,
                             lists : {lists, NoLists}] : r.rem > 0}
                       \cup {EmptyFile}
      BY <3>1 DEF L!Drafts, L!NoRecord, EmptyFile, L!NoKey, NoHash, Locked
    <3> QED BY <2>2, <3>1, <3>3, <3>4, <3>5 DEF CutFiles
  <2> QED BY <2>1, <2>2 DEF CutPower
<1>3. disk' = file' /\ buf' = NoHash
  BY DEF CutPower, Forget
<1> QED BY <1>1, <1>2, <1>3 DEF L!PowerOff, L!Keys, L!NoKey, NoHash

(* PowerLoss is PowerOff. *)
LEMMA PowerLossMaps ==
  ASSUME IInv, PowerLoss
  PROVE  L!Next
  BY CutPowerMaps DEF PowerLoss, L!Next

(* Rmmod is not seen by Lock, unless it panics: then it is PowerOff. *)
LEMMA RmmodMaps ==
  ASSUME NEW force \in BOOLEAN, IInv, IInv', Rmmod(force)
  PROVE  L!Next
<1>1. CASE CutPower
  BY <1>1, CutPowerMaps DEF L!Next
<1>2. CASE ~CutPower
  BY <1>2 DEF Rmmod, L!Next, L!Refused, L!Keys, L!NoKey, Keys, Hashes, NoHash,
     IInv, TypeOK, DataOK, Locked
<1> QED BY <1>1, <1>2 DEF Rmmod

(* UpdateHosts is not seen by Lock. *)
LEMMA UpdateHostsMaps ==
  ASSUME IInv, IInv', UpdateHosts
  PROVE  L!Next
  BY DEF L!Next, L!Refused, L!Keys, L!NoKey, NoHash, Keys, Hashes, DataOK,
     TypeOK, UpdateHosts, Locked, IInv

(* OpenStateFile is Scribble: the file is empty while it is written again. *)
LEMMA OpenStateFileMaps ==
  ASSUME IInv, IInv', OpenStateFile
  PROVE  L!Next
  BY DEF L!Next, L!Scribble, L!Refused, L!Keys, L!NoKey, L!NoRecord, ZeroKey,
     NoHash, Keys, Hashes, Files, EmptyFile, Modes, Steps, Ops, FlagsOK,
     DataOK, TypeOK, Unloaded, CanMint, OpenStateFile, Locked, TimerLive,
     Starting, Stopping, Phases, Flags, KeyInv, WellFormed, DiskInv, ModeInv,
     IInv, IsBlock

(* WriteStateFile is Commit, or Scribble when the write is cut short or its
   fsync fails. *)
LEMMA WriteStateFileMaps ==
  ASSUME IInv, IInv', WriteStateFile
  PROVE  L!Next
  BY DEF L!Next, L!Commit, L!Scribble, L!Drafts, L!Keys, L!NoKey, L!NoRecord,
     ZeroKey, NoHash, Keys, Hashes, Files, EmptyFile, Modes, Steps, Ops,
     FlagsOK, DataOK, TypeOK, Unloaded, CanMint, WholeFile, CutFiles, Fsync,
     WriteStateFile, Locked, TimerLive, Starting, Stopping, Phases, Flags,
     KeyInv, WellFormed, DiskInv, ModeInv, IInv, IsBlock

(* ClearBeforeInsecure is Scribble: an insecure block is never committed. *)
LEMMA ClearBeforeInsecureMaps ==
  ASSUME IInv, IInv', ClearBeforeInsecure
  PROVE  L!Next
  BY DEF L!Next, L!Scribble, L!Refused, L!Keys, L!NoKey, L!NoRecord, ZeroKey,
     NoHash, Keys, Hashes, Files, EmptyFile, Modes, Steps, Ops, FlagsOK,
     DataOK, TypeOK, Unloaded, CanMint, StateFileClear, ClearBeforeInsecure,
     Locked, TimerLive, Starting, Stopping, Phases, Flags, KeyInv, WellFormed,
     DiskInv, ModeInv, IInv, IsBlock

(* ProtectAndArm is not seen by Lock. *)
LEMMA ProtectAndArmMaps ==
  ASSUME IInv, IInv', ProtectAndArm
  PROVE  L!Next
  BY DEF L!Next, L!Refused, L!Keys, L!NoKey, NoHash, Keys, Hashes, DataOK,
     TypeOK, ModTimer, ProtectAndArm, Locked, IInv

(* Unprotect is not seen by Lock. *)
LEMMA UnprotectMaps ==
  ASSUME IInv, IInv', Unprotect
  PROVE  L!Next
  BY DEF L!Next, L!Refused, L!Keys, L!NoKey, NoHash, Keys, Hashes, DataOK,
     TypeOK, Unprotect, Locked, IInv

(* Unhosts is not seen by Lock. *)
LEMMA UnhostsMaps ==
  ASSUME IInv, IInv', Unhosts
  PROVE  L!Next
  BY DEF L!Next, L!Refused, L!Keys, L!NoKey, NoHash, Keys, Hashes, DataOK,
     TypeOK, ClearHosts, Unhosts, Locked, IInv

(* ClearAndReturn is Scribble: the block it belonged to has ended. *)
LEMMA ClearAndReturnMaps ==
  ASSUME IInv, IInv', ClearAndReturn
  PROVE  L!Next
  BY DEF L!Next, L!Scribble, L!Refused, L!Keys, L!NoKey, L!NoRecord, ZeroKey,
     NoHash, Keys, Hashes, Files, EmptyFile, Modes, Steps, Ops, FlagsOK,
     DataOK, TypeOK, Unloaded, CanMint, GenerateUnloadKey, StateFileClear,
     ClearAndReturn, Locked, TimerLive, Starting, Stopping, Phases, Flags,
     KeyInv, WellFormed, DiskInv, ModeInv, IInv, IsBlock

(* EnableBlocking is Begin. *)
LEMMA EnableBlockingMaps ==
  ASSUME NEW s \in 1..MaxSecs, IInv, IInv', EnableBlocking(s)
  PROVE  L!Next
  BY DEF L!Next, L!Begin, L!Keys, L!NoKey, ZeroKey, NoHash, Keys, Hashes,
     Files, EmptyFile, Modes, Steps, Ops, FlagsOK, DataOK, TypeOK, Unloaded,
     Idle, CanMint, StartSession, KeyForSession, EnableBlocking, Locked,
     TimerLive, Starting, Stopping, Phases, Flags, KeyInv, WellFormed,
     DiskInv, ModeInv, IInv, IsBlock

(* EnabledStoreZero is End of an insecure block, or nothing. *)
LEMMA EnabledStoreZeroMaps ==
  ASSUME IInv, IInv', EnabledStoreZero
  PROVE  L!Next
  BY DEF L!Next, L!End, L!Refused, L!Keys, L!NoKey, ZeroKey, NoHash, Keys,
     Hashes, Files, EmptyFile, Modes, Steps, Ops, FlagsOK, DataOK, TypeOK,
     Unloaded, Idle, CanMint, StopSession, DisableBlocking, ClearHosts,
     EnabledStoreZero, Locked, TimerLive, Starting, Stopping, Phases, Flags,
     KeyInv, WellFormed, DiskInv, ModeInv, IInv, IsBlock

(* DisableStore is End, with the key when the block is locked. *)
LEMMA DisableStoreMaps ==
  ASSUME NEW k \in Keys, IInv, IInv', DisableStore(k)
  PROVE  L!Next
  BY DEF L!Next, L!End, L!Refused, L!Keys, L!NoKey, ZeroKey, NoHash, Keys,
     Hashes, Files, EmptyFile, Modes, Steps, Ops, FlagsOK, DataOK, TypeOK,
     Unloaded, Idle, CanMint, StopSession, DisableBlocking, CheckKey,
     DisableStore, Locked, TimerLive, Starting, Stopping, Phases, Flags,
     KeyInv, WellFormed, DiskInv, ModeInv, IInv, IsBlock

(* UnblockStore is End with the key. *)
LEMMA UnblockStoreMaps ==
  ASSUME NEW k \in Keys, IInv, IInv', UnblockStore(k)
  PROVE  L!Next
  BY DEF L!Next, L!End, L!Refused, L!Keys, L!NoKey, ZeroKey, NoHash, Keys,
     Hashes, Files, EmptyFile, Modes, Steps, Ops, FlagsOK, DataOK, TypeOK,
     Unloaded, Idle, CanMint, StopSession, DisableBlocking, CheckKey,
     UnblockStore, Locked, TimerLive, Starting, Stopping, Phases, Flags,
     KeyInv, WellFormed, DiskInv, ModeInv, IInv, IsBlock

(* KeyShow is not seen by Lock. *)
LEMMA KeyShowMaps ==
  ASSUME IInv, IInv', KeyShow
  PROVE  L!Next
  BY DEF L!Next, L!Refused, L!Keys, L!NoKey, ZeroKey, NoHash, Keys, Hashes,
     DataOK, TypeOK, Idle, KeyShow, Locked, IInv

(* PgpActiveStore is not seen by Lock: no block runs. *)
LEMMA PgpActiveStoreMaps ==
  ASSUME NEW val \in BOOLEAN, IInv, IInv', PgpActiveStore(val)
  PROVE  L!Next
  BY DEF L!Next, L!Refused, L!Keys, L!NoKey, ZeroKey, NoHash, Keys, Hashes,
     DataOK, TypeOK, Idle, PgpActiveStore, Locked, IInv

(* ListStore is SetLists. *)
LEMMA ListStoreMaps ==
  ASSUME NEW v \in Lists, IInv, IInv', ListStore(v)
  PROVE  L!Next
  BY DEF L!Next, L!SetLists, L!Keys, L!NoKey, NoHash, Keys, Hashes, DataOK,
     TypeOK, Idle, ListStore, Locked, IInv

(* Restore is PowerOn with a valid record. *)
LEMMA RestoreMaps ==
  ASSUME IInv, IInv', Restore
  PROVE  L!Next
  BY DEF L!Next, L!PowerOn, L!Valid, L!Keys, L!NoKey, ZeroKey, NoHash, Keys,
     Hashes, Files, EmptyFile, Restorable, Modes, Steps, Ops, FlagsOK, DataOK,
     TypeOK, Unloaded, CanMint, StartSession, Restore, Locked, TimerLive,
     Starting, Stopping, Phases, Flags, KeyInv, WellFormed, DiskInv, ModeInv,
     IInv, IsBlock, RestoreLists

(* InitFresh is PowerOn without a valid record, or with one it cannot read. *)
LEMMA InitFreshMaps ==
  ASSUME IInv, IInv', InitFresh
  PROVE  L!Next
  BY DEF L!Next, L!PowerOn, L!Valid, L!Keys, L!NoKey, ZeroKey, NoHash, Keys,
     Hashes, Files, EmptyFile, Restorable, Modes, Steps, Ops, FlagsOK, DataOK,
     TypeOK, Unloaded, CanMint, GenerateUnloadKey, InitFresh, Locked,
     TimerLive, Starting, Stopping, Phases, Flags, KeyInv, WellFormed,
     DiskInv, ModeInv, IInv, IsBlock, RestoreLists

(* SysfsCreated is Started. *)
LEMMA SysfsCreatedMaps ==
  ASSUME IInv, IInv', SysfsCreated
  PROVE  L!Next
  BY DEF L!Next, L!Started, L!Keys, L!NoKey, NoHash, Keys, Hashes, DataOK,
     TypeOK, SysfsCreated, Locked, IInv

(* SysfsFails is GiveUp. *)
LEMMA SysfsFailsMaps ==
  ASSUME IInv, IInv', SysfsFails
  PROVE  L!Next
  BY DEF L!Next, L!GiveUp, L!Keys, L!NoKey, ZeroKey, NoHash, Keys, Hashes,
     Files, EmptyFile, Modes, Steps, Ops, FlagsOK, DataOK, TypeOK, Unloaded,
     CanMint, StopSession, DisableBlocking, SysfsFails, Locked, TimerLive,
     Starting, Stopping, Phases, Flags, KeyInv, WellFormed, DiskInv, ModeInv,
     IInv, IsBlock

(* ExitRemoveSysfs is not seen by Lock. *)
LEMMA ExitRemoveSysfsMaps ==
  ASSUME IInv, IInv', ExitRemoveSysfs
  PROVE  L!Next
  BY DEF L!Next, L!Refused, L!Keys, L!NoKey, NoHash, Keys, Hashes, DataOK,
     TypeOK, ExitRemoveSysfs, Locked, IInv

(* ExitStopTimers is not seen by Lock. *)
LEMMA ExitStopTimersMaps ==
  ASSUME IInv, IInv', ExitStopTimers
  PROVE  L!Next
  BY DEF L!Next, L!Refused, L!Keys, L!NoKey, NoHash, Keys, Hashes, DataOK,
     TypeOK, ExitStopTimers, Locked, IInv

(* ExitClear is Unload. *)
LEMMA ExitClearMaps ==
  ASSUME IInv, IInv', ExitClear
  PROVE  L!Next
  BY DEF L!Next, L!Unload, L!Down, L!Keys, L!NoKey, L!NoRecord, ZeroKey,
     NoHash, Keys, Hashes, Files, EmptyFile, Modes, Steps, Ops, FlagsOK,
     DataOK, TypeOK, Unloaded, CanMint, Forget, ExitClear, Locked, TimerLive,
     Starting, Stopping, Phases, Flags, KeyInv, WellFormed, DiskInv, ModeInv,
     IInv, IsBlock

(* Tick is Elapse. *)
LEMMA TickMaps ==
  ASSUME IInv, IInv', Tick
  PROVE  L!Next
  BY DEF L!Next, L!Elapse, L!Keys, L!NoKey, NoHash, Keys, Hashes, DataOK,
     TypeOK, Tick, Locked, IInv

(* EnableTimerCb is not seen by Lock. *)
LEMMA EnableTimerCbMaps ==
  ASSUME IInv, IInv', EnableTimerCb
  PROVE  L!Next
  BY DEF L!Next, L!Refused, L!Keys, L!NoKey, NoHash, Keys, Hashes, DataOK,
     TypeOK, EnableTimerCb, Locked, IInv

(* ExpireWork is End when the time is up, Commit when it saves the remaining
   time (Scribble when the block was never committed), and not seen by Lock otherwise. *)
LEMMA ExpireWorkMaps ==
  ASSUME IInv, IInv', ExpireWork
  PROVE  L!Next
<1>1. CASE ~enabled
  BY <1>1 DEF L!Next, L!Refused, L!Keys, L!NoKey, NoHash, Keys, Hashes,
     DataOK, TypeOK, ExpireWork, Locked, IInv
<1>2. CASE enabled /\ Expired
  BY <1>2 DEF L!Next, L!End, L!Keys, L!NoKey, NoHash, StopSession,
     DisableBlocking, Expired, ExpireWork, Locked, ModeInv, Unloaded, IInv
<1>3. CASE enabled /\ ~Expired
  <2>1. /\ UNCHANGED <<mode, lockVars, sessionVars, keyVars, left, openVars,
                       lists>>
        /\ SaveRemaining \/ UNCHANGED <<file, disk>>
    BY <1>3 DEF ExpireWork
  <2>2. CASE UNCHANGED <<file, disk>>
    BY <2>1, <2>2 DEF L!Next, L!Refused, L!Keys, L!NoKey, NoHash, Keys,
       Hashes, DataOK, TypeOK, Locked, IInv
  <2>3. CASE /\ state_filp /\ file' = [file EXCEPT !.rem = left]
             /\ Fsync \/ (Faults /\ UNCHANGED disk)
    <3>1. Locked /\ mode # "off" /\ left \in 1..MaxSecs /\ left \in Int
      BY <1>3, <2>3 DEF Expired, Locked, IInv, TypeOK, FlagsOK, DataOK, Flags,
         ModeInv, Unloaded
    <3>2. file' = [hash |-> key_hash, rem |-> left, lists |-> lists]
      BY <2>3, <3>1 DEF IInv, DiskInv, IsBlock, TypeOK, DataOK, Files
    <3>3. buf' \in L!Keys \cup {L!NoKey}
      BY <2>1 DEF L!Keys, L!NoKey, NoHash, Keys, Hashes, DataOK, TypeOK, IInv
    <3>4. CASE synced
      <4>1. Locked' /\ synced' /\ (disk' = file' \/ (Faults /\ disk' = disk))
        BY <2>1, <2>3, <3>1, <3>4 DEF Fsync, Locked
      <4>2. \E r \in left..MaxSecs :
              r > 0 /\ file' = [hash |-> key_hash, rem |-> r, lists |-> lists]
        BY <3>1, <3>2
      <4>3. L!Commit
        BY <2>1, <3>1, <3>4, <4>1, <4>2 DEF L!Commit, Locked
      <4> QED BY <3>3, <4>3 DEF L!Next
    <3>5. CASE ~synced /\ Faults
      <4>1. file' \in L!Drafts
        BY <3>1, <3>2, <3>5 DEF L!Drafts, Locked
      <4>2. disk' \in {disk} \cup L!Drafts
        BY <2>3, <4>1 DEF Fsync
      <4>3. L!Scribble
        BY <2>1, <3>1, <3>5, <4>1, <4>2 DEF L!Scribble, Locked
      <4> QED BY <3>3, <4>3 DEF L!Next
    <3> QED BY <2>3, <3>4, <3>5 DEF IInv, DiskInv
  <2> QED BY <2>1, <2>2, <2>3 DEF SaveRemaining
<1> QED BY <1>1, <1>2, <1>3

(* Writeback is Sync. *)
LEMMA WritebackMaps ==
  ASSUME IInv, IInv', Writeback
  PROVE  L!Next
  BY DEF L!Next, L!Sync, L!Keys, L!NoKey, ZeroKey, NoHash, Keys, Hashes,
     Files, EmptyFile, Modes, Steps, Ops, FlagsOK, DataOK, TypeOK, Unloaded,
     CanMint, Writeback, Locked, TimerLive, Starting, Stopping, Phases, Flags,
     KeyInv, WellFormed, DiskInv, ModeInv, IInv, IsBlock

(* The initial states of Session are initial states of Lock. *)
LEMMA InitMaps == Init => L!Init
  BY DEF Init, L!Init, Unloaded, EmptyFile, L!NoRecord, NoHash, L!NoKey, Locked

(* A step that changes nothing changes nothing Lock speaks of. *)
LEMMA StutterMaps == UNCHANGED vars => UNCHANGED L!lockVars
  BY DEF vars, L!lockVars, Locked

(* Every step, by its action. *)
LEMMA StepMaps ==
  ASSUME IInv, IInv', [Next]_vars
  PROVE  [L!Next]_(L!lockVars)
<1>1. CASE Handler
  BY <1>1, UpdateHostsMaps, OpenStateFileMaps, WriteStateFileMaps,
     ClearBeforeInsecureMaps, ProtectAndArmMaps, UnprotectMaps, UnhostsMaps,
     ClearAndReturnMaps DEF Handler
<1>2. CASE User
  BY <1>2, EnableBlockingMaps, EnabledStoreZeroMaps, DisableStoreMaps,
     UnblockStoreMaps, KeyShowMaps, PgpActiveStoreMaps, ListStoreMaps DEF User
<1>3. CASE Module
  BY <1>3, RestoreMaps, InitFreshMaps, SysfsCreatedMaps, SysfsFailsMaps,
     RmmodMaps, ExitRemoveSysfsMaps, ExitStopTimersMaps, ExitClearMaps
     DEF Module
<1>4. CASE Tick \/ EnableTimerCb \/ ExpireWork \/ Writeback \/ PowerLoss
  BY <1>4, TickMaps, EnableTimerCbMaps, ExpireWorkMaps, WritebackMaps,
     PowerLossMaps
<1>5. CASE UNCHANGED vars
  BY <1>5, StutterMaps
<1> QED BY <1>1, <1>2, <1>3, <1>4, <1>5 DEF Next

(* The session code keeps the promise of a lock: what its handlers, timers, *)
(* files and restarts do to a block, Lock allows.                           *)
THEOREM SessionKeepsPromise == Spec => KeepsPromise
<1>1. Spec => L!Init
  BY InitMaps DEF Spec
<1>2. IInv /\ IInv' /\ [Next]_vars => [L!Next]_(L!lockVars)
  BY StepMaps
<1> QED BY <1>1, <1>2, Invariance, PTL DEF Spec, KeepsPromise, L!Spec
=============================================================================
