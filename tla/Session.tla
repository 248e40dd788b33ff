------------------------------- MODULE Session -------------------------------
(***************************************************************************)
(* The kernel side of a block: src/state.c, src/key.c and the handlers of   *)
(* src/main.c that start and end a session, with the two files a session    *)
(* leaves behind (the state file and the hosts block).                      *)
(*                                                                          *)
(* Every handler runs under the mutex kb_lock.  What interleaves with a     *)
(* handler is what does not take it: the clock, the timer callback, module  *)
(* unload's first test of `enabled', and the power.  A handler is therefore *)
(* one step for what it does in memory, and one step for each write that    *)
(* survives a loss of power.                                                *)
(***************************************************************************)
EXTENDS Integers

CONSTANTS
  MaxSecs,       \* MAX_SESSION_SECONDS, the longest session
  SaveInterval,  \* STATE_SAVE_INTERVAL_S, runs of the work between two saves
  MaxKeys,       \* bound: keys drawn by generate_unload_key
  MaxLosses,     \* bound: losses of power
  Faults,        \* may a file operation or the creation of sysfs fail?
  Unloads,       \* may the module be unloaded?
  Lists,         \* what the block lists can hold
  NoLists        \* nothing blocked and nothing allowed

ASSUME SessionAssumption ==
  /\ MaxSecs \in Nat \ {0}
  /\ SaveInterval \in Nat \ {0}
  /\ MaxKeys \in Nat
  /\ MaxLosses \in Nat
  /\ Faults \in BOOLEAN
  /\ Unloads \in BOOLEAN
  /\ NoLists \in Lists

ZeroKey == 0       \* sixteen zero bytes, left by memzero_explicit
NoHash  == -1      \* thirty-two zero bytes: the hash of no key
Keys    == 0..MaxKeys
Hashes  == Keys \cup {NoHash}

VARIABLES
  mode,              \* where the module is between power-on and unload
  pc,                \* the next write of the handler holding kb_lock, or "free"
  op,                \* the handler holding kb_lock
  buf,               \* the key that handler was given
  secs,              \* the seconds start_session was given
  enabled, pgp_active, state_restored, allow_unload, ref_taken,
  unload_key, key_hash, pgp_key, pgp_key_consumed,
  left,              \* expiry_boot - now_boot(), 0 when past or unset
  save_ticks,
  timer,             \* enable_timer is armed
  work,              \* kb_expire_work is queued
  state_filp,        \* the state file is held open
  synced,            \* history: the fsync of what it was opened with succeeded
  lists,             \* blocked domains and addresses, allowed networks
  protected,         \* protection_enable is in force
  file,              \* the state file, as the running system reads it
  disk,              \* the state file, as last written to the disk
  hosts,             \* the block at the end of the hosts file
  minted,            \* history: how many keys were drawn
  seen,              \* history: the keys that /sys/kernel/kblocker/key printed
  losses             \* history: how many times power was lost

lockVars    == <<pc, op, buf, secs>>
sessionVars == <<enabled, pgp_active, state_restored, allow_unload, ref_taken>>
keyVars     == <<unload_key, key_hash, pgp_key, pgp_key_consumed, minted, seen>>
timerVars   == <<save_ticks, timer, work>>
diskVars    == <<file, disk, hosts>>
openVars    == <<state_filp, synced>>
vars == <<mode, lockVars, sessionVars, keyVars, left, timerVars, openVars,
          lists, protected, diskVars, losses>>

Files     == [hash : Hashes, rem : 0..MaxSecs, lists : Lists]
EmptyFile == [hash |-> NoHash, rem |-> 0, lists |-> NoLists]

(* key_hash is the SHA-256 of a key, and is represented by that key.  The   *)
(* file restores a session when it holds both a hash and a remaining: line. *)
Restorable == file.hash # NoHash /\ file.rem > 0

Modes == {"off", "boot", "up", "exit_sysfs", "exit_timers", "exit_clear"}
Steps == {"free", "hosts", "open", "write", "clear_start", "protect",
          "unprotect", "unhosts", "clear"}
Ops   == {"none", "boot", "store", "expire", "disable", "unblock"}

(* Each variable has its type, whatever handler is running. *)
FlagsOK ==
  /\ enabled \in BOOLEAN /\ pgp_active \in BOOLEAN
  /\ state_restored \in BOOLEAN /\ allow_unload \in BOOLEAN
  /\ ref_taken \in BOOLEAN /\ pgp_key_consumed \in BOOLEAN
  /\ timer \in BOOLEAN /\ work \in BOOLEAN
  /\ state_filp \in BOOLEAN /\ synced \in BOOLEAN /\ protected \in BOOLEAN

DataOK ==
  /\ mode \in Modes /\ pc \in Steps /\ op \in Ops
  /\ buf \in Hashes /\ secs \in 0..MaxSecs
  /\ unload_key \in Keys /\ key_hash \in Hashes /\ pgp_key \in Keys
  /\ left \in 0..MaxSecs
  /\ save_ticks \in 0..(SaveInterval - 1)
  /\ lists \in Lists /\ hosts \in Lists
  /\ file \in Files /\ disk \in Files
  /\ minted \in 0..MaxKeys /\ seen \subseteq Keys
  /\ losses \in 0..MaxLosses

TypeOK == FlagsOK /\ DataOK

-----------------------------------------------------------------------------
(* The module is not loaded; what is in the machine's memory is gone. *)
Unloaded ==
  /\ mode = "off"
  /\ pc = "free" /\ op = "none" /\ buf = NoHash /\ secs = 0
  /\ enabled = FALSE /\ pgp_active = FALSE /\ state_restored = FALSE
  /\ allow_unload = FALSE /\ ref_taken = FALSE
  /\ unload_key = ZeroKey /\ key_hash = NoHash
  /\ pgp_key = ZeroKey /\ pgp_key_consumed = TRUE
  /\ left = 0 /\ save_ticks = 0 /\ timer = FALSE /\ work = FALSE
  /\ state_filp = FALSE /\ synced = FALSE /\ lists = NoLists /\ protected = FALSE

Init ==
  /\ Unloaded
  /\ file = EmptyFile /\ disk = EmptyFile /\ hosts = NoLists
  /\ minted = 0 /\ seen = {} /\ losses = 0

(* kb_lock is free and the sysfs files are there, so a handler may start. *)
Idle == pc = "free" /\ mode \in {"up", "exit_sysfs"}

CanMint == minted < MaxKeys

GenerateUnloadKey ==
  /\ minted' = minted + 1
  /\ unload_key' = minted + 1
  /\ key_hash' = minted + 1

-----------------------------------------------------------------------------
(* start_session: the part in memory, then one step per write. *)

StartSession(s, who) ==
  /\ left' = s /\ secs' = s
  /\ allow_unload' = FALSE /\ enabled' = TRUE /\ ref_taken' = TRUE
  /\ pc' = "hosts" /\ op' = who /\ buf' = NoHash

(* A block is asked for through `enabled': with PGP pre-armed the key goes  *)
(* to the one-shot buffer and leaves unload_key.                            *)
KeyReused ==
  /\ UNCHANGED <<key_hash, minted>>
  /\ pgp_key_consumed' = ~pgp_active
  /\ pgp_key' = IF pgp_active THEN key_hash ELSE ZeroKey
  /\ unload_key' = IF pgp_active THEN ZeroKey ELSE unload_key

KeyForSession ==
  /\ key_hash' = minted + 1 /\ minted' = minted + 1
  /\ pgp_key_consumed' = ~pgp_active
  /\ pgp_key' = IF pgp_active THEN minted + 1 ELSE ZeroKey
  /\ unload_key' = IF pgp_active THEN ZeroKey ELSE minted + 1

EnableBlocking(s) ==
  /\ Idle /\ CanMint
  /\ ~enabled
  /\ KeyForSession
  /\ state_restored' = FALSE
  /\ StartSession(s, "store")
  /\ UNCHANGED <<mode, pgp_active, seen, timerVars, openVars, lists,
                 protected, diskVars, losses>>

(* update_hosts_file rewrites the block from the list; an error is logged   *)
(* and ignored.  Only a PGP session is then persisted.                      *)
UpdateHosts ==
  /\ pc = "hosts"
  /\ hosts' = lists \/ (Faults /\ hosts' = hosts)
  /\ pc' = IF pgp_active THEN "open" ELSE "clear_start"
  /\ UNCHANGED <<mode, op, buf, secs, sessionVars, keyVars, left, timerVars,
                 openVars, lists, protected, file, disk, losses>>

(* state_file_write_session up to filp_open(O_TRUNC).  An allocation or the *)
(* open may fail: nothing is persisted, and the caller goes on.             *)
OpenStateFile ==
  /\ pc = "open"
  /\ state_filp' = FALSE /\ synced' = FALSE
  /\ \/ file' = EmptyFile /\ pc' = "write"
     \/ Faults /\ UNCHANGED file /\ pc' = "protect"
  /\ UNCHANGED <<mode, op, buf, secs, sessionVars, keyVars, left, timerVars,
                 lists, protected, disk, hosts, losses>>

(* The write and its fsync.  The text is remaining:, key_hash:, pgp_active: *)
(* and then the lists, so what a cut leaves is a prefix of these.           *)
WholeFile == [hash |-> key_hash, rem |-> secs, lists |-> lists]
CutFiles  == {EmptyFile, [WholeFile EXCEPT !.lists = NoLists], WholeFile}

NoFsync == UNCHANGED disk
Fsync   == disk' = file'

(* Nobody looks at the result of vfs_fsync: where it fails the file is held *)
(* open all the same, and the disk has any part of what was written.        *)
WriteStateFile ==
  /\ pc = "write"
  /\ \/ file' = WholeFile /\ Fsync /\ state_filp' = TRUE /\ synced' = TRUE
     \/ /\ Faults
        /\ file' = WholeFile /\ disk' \in CutFiles \cup {disk}
        /\ state_filp' = TRUE /\ UNCHANGED synced
     \/ Faults /\ file' \in CutFiles /\ UNCHANGED <<disk, openVars>>
  /\ pc' = "protect"
  /\ UNCHANGED <<mode, op, buf, secs, sessionVars, keyVars, left, timerVars,
                 lists, protected, hosts, losses>>

(* Truncated, without an fsync: the disk follows when it does. *)
StateFileClosed == state_filp' = FALSE /\ synced' = FALSE /\ UNCHANGED file

StateFileClear ==
  /\ state_filp' = FALSE /\ synced' = FALSE
  /\ file' = EmptyFile \/ (Faults /\ file' = file)

ClearBeforeInsecure ==
  /\ pc = "clear_start"
  /\ StateFileClear
  /\ pc' = "protect"
  /\ UNCHANGED <<mode, op, buf, secs, sessionVars, keyVars, left, timerVars,
                 lists, protected, disk, hosts, losses>>

(* mod_timer: one second from now. *)
TimerNotArmed == UNCHANGED timer
ModTimer == timer' = TRUE

(* protection_enable, and the timer that will count the session down. *)
ProtectAndArm ==
  /\ pc = "protect"
  /\ protected' = TRUE /\ save_ticks' = 0 /\ ModTimer
  /\ pc' = "free" /\ op' = "none" /\ secs' = 0
  /\ UNCHANGED <<mode, buf, sessionVars, keyVars, left, work, openVars,
                 lists, diskVars, losses>>

-----------------------------------------------------------------------------
(* disable_blocking: stop_session in memory, then one step per write.       *)

StopKeepsKey ==
  /\ enabled' = FALSE /\ left' = 0 /\ state_restored' = FALSE
  /\ pgp_active' = FALSE /\ ref_taken' = FALSE /\ timer' = FALSE
  /\ UNCHANGED <<pgp_key, pgp_key_consumed>>

StopSession ==
  /\ enabled' = FALSE /\ left' = 0 /\ state_restored' = FALSE
  /\ pgp_active' = FALSE /\ ref_taken' = FALSE
  /\ pgp_key' = ZeroKey /\ pgp_key_consumed' = TRUE
  /\ timer' = FALSE

DisableBlocking(who, k) ==
  /\ StopSession
  /\ pc' = "unprotect" /\ op' = who /\ buf' = k
  /\ UNCHANGED <<secs, allow_unload, unload_key, key_hash, minted, seen,
                 save_ticks, openVars, lists, protected, diskVars, losses>>

Unprotect ==
  /\ pc = "unprotect"
  /\ protected' = FALSE
  /\ pc' = "unhosts"
  /\ UNCHANGED <<mode, op, buf, secs, sessionVars, keyVars, left, timerVars,
                 openVars, lists, diskVars, losses>>

ClearHosts == hosts' = NoLists \/ (Faults /\ hosts' = hosts)

Unhosts ==
  /\ pc = "unhosts"
  /\ ClearHosts
  /\ pc' = "clear"
  /\ UNCHANGED <<mode, op, buf, secs, sessionVars, keyVars, left, timerVars,
                 openVars, lists, protected, file, disk, losses>>

(* The last write of disable_blocking and what its caller does after it:    *)
(* unblock allows unloading and wipes the keys, an authorised disable draws *)
(* a new key, the others just return.                                       *)
ClearAndReturn ==
  /\ pc = "clear"
  /\ StateFileClear
  /\ \/ /\ op = "unblock"
        /\ allow_unload' = TRUE
        /\ unload_key' = ZeroKey /\ key_hash' = NoHash /\ minted' = minted
     \/ /\ op = "disable"
        /\ GenerateUnloadKey /\ UNCHANGED allow_unload
     \/ /\ op \notin {"unblock", "disable"}
        /\ UNCHANGED <<allow_unload, unload_key, key_hash, minted>>
  /\ pc' = "free" /\ op' = "none" /\ buf' = NoHash
  /\ UNCHANGED <<mode, secs, enabled, pgp_active, state_restored, ref_taken,
                 pgp_key, pgp_key_consumed, seen, left, timerVars, lists,
                 protected, disk, hosts, losses>>

-----------------------------------------------------------------------------
(* The sysfs handlers.  A refused request changes nothing, so it is no step. *)

(* `echo 0 > enabled': refused under a PGP lock, a cleanup of the hosts file *)
(* when PGP is only pre-armed, the end of the session otherwise.            *)
EnabledStoreZero ==
  /\ Idle
  /\ \/ /\ pgp_active /\ ~enabled
        /\ ClearHosts
        /\ UNCHANGED <<lockVars, sessionVars, keyVars, left, timerVars,
                       openVars, lists, protected, file, disk, losses>>
     \/ /\ ~pgp_active
        /\ DisableBlocking("store", NoHash)
        /\ UNCHANGED work
  /\ UNCHANGED mode

(* check_key, once the key was parsed. *)
AnyKey(k)   == TRUE
CheckKey(k) == k = key_hash

(* `disable' without PGP needs no key; with it the key must match. *)
DisableStore(k) ==
  /\ Idle
  /\ \/ /\ ~pgp_active
        /\ DisableBlocking("store", NoHash)
     \/ /\ pgp_active /\ CheckKey(k) /\ CanMint
        /\ DisableBlocking("disable", k)
  /\ UNCHANGED <<mode, work>>

UnblockStore(k) ==
  /\ Idle
  /\ CheckKey(k)
  /\ DisableBlocking("unblock", k)
  /\ UNCHANGED <<mode, work>>

(* `cat key': prints the raw key outside PGP, and once only inside it.  A   *)
(* restored session, and a second read, print a word instead.               *)
KeyShow ==
  /\ Idle
  /\ ~state_restored
  /\ \/ /\ pgp_active /\ ~pgp_key_consumed
        /\ seen' = seen \cup {pgp_key}
        /\ pgp_key' = ZeroKey /\ pgp_key_consumed' = TRUE
     \/ /\ ~pgp_active
        /\ seen' = seen \cup {unload_key}
        /\ UNCHANGED <<pgp_key, pgp_key_consumed>>
  /\ UNCHANGED <<mode, lockVars, sessionVars, unload_key, key_hash, minted,
                 left, timerVars, openVars, lists, protected, diskVars,
                 losses>>

(* Pre-arming wipes the raw key; cancelling does not bring it back. *)
PgpActiveStore(val) ==
  /\ Idle /\ ~enabled
  /\ val # pgp_active
  /\ pgp_active' = val
  /\ unload_key' = IF val THEN ZeroKey ELSE unload_key
  /\ pgp_key' = ZeroKey /\ pgp_key_consumed' = TRUE
  /\ state_restored' = IF val THEN FALSE ELSE state_restored
  /\ UNCHANGED <<mode, lockVars, enabled, allow_unload, ref_taken, key_hash,
                 minted, seen, left, timerVars, openVars, lists, protected,
                 diskVars, losses>>

(* blocked_domains, blocked_ips and allowed_ips: replaced as a whole, after *)
(* the new value was parsed, and never while a block runs.                  *)
ListStore(v) ==
  /\ Idle /\ ~enabled
  /\ lists' = v
  /\ UNCHANGED <<mode, lockVars, sessionVars, keyVars, left, timerVars,
                 openVars, protected, diskVars, losses>>

-----------------------------------------------------------------------------
(* Time.  now_boot() runs on its own, the timer only queues the work, and   *)
(* the work takes kb_lock like any other handler.                           *)

TickUnclamped ==
  /\ enabled
  /\ left' = left - 1
  /\ UNCHANGED <<mode, lockVars, sessionVars, keyVars, timerVars, openVars,
                 lists, protected, diskVars, losses>>

Tick ==
  /\ left > 0
  /\ left' = left - 1
  /\ UNCHANGED <<mode, lockVars, sessionVars, keyVars, timerVars, openVars,
                 lists, protected, diskVars, losses>>

EnableTimerCb ==
  /\ timer
  /\ timer' = FALSE /\ work' = TRUE
  /\ UNCHANGED <<mode, lockVars, sessionVars, keyVars, left, save_ticks,
                 openVars, lists, protected, diskVars, losses>>

ExpiredEarly == left <= 1
Expired == left = 0

(* Every SaveInterval-th run appends a remaining: line.  A line cut short   *)
(* is skipped by the reader, so an append either counts or does not.  A     *)
(* failed fsync changes nothing here either, and one that succeeds need not *)
(* write what an earlier one could not: `synced' is not set again.          *)
SaveRemaining ==
  \/ /\ state_filp
     /\ file' = [file EXCEPT !.rem = left]
     /\ Fsync \/ (Faults /\ UNCHANGED disk)
  \/ (~state_filp \/ Faults) /\ UNCHANGED <<file, disk>>

ExpireWork ==
  /\ work /\ pc = "free"
  /\ work' = FALSE
  /\ UNCHANGED mode
  /\ \/ /\ ~enabled
        /\ UNCHANGED <<lockVars, sessionVars, keyVars, left, save_ticks,
                       timer, openVars, lists, protected, diskVars, losses>>
     \/ /\ enabled /\ Expired
        /\ DisableBlocking("expire", NoHash)
     \/ /\ enabled /\ ~Expired
        /\ ModTimer
        /\ IF save_ticks + 1 >= SaveInterval
             THEN save_ticks' = 0 /\ SaveRemaining
             ELSE save_ticks' = save_ticks + 1 /\ UNCHANGED <<file, disk>>
        /\ UNCHANGED <<lockVars, sessionVars, keyVars, left, openVars,
                       lists, protected, hosts, losses>>

-----------------------------------------------------------------------------
(* Power, module init and module exit. *)

(* Every variable that lives in memory goes back to Unloaded. *)
Forget ==
  /\ mode' = "off"
  /\ pc' = "free" /\ op' = "none" /\ buf' = NoHash /\ secs' = 0
  /\ enabled' = FALSE /\ pgp_active' = FALSE /\ state_restored' = FALSE
  /\ allow_unload' = FALSE /\ ref_taken' = FALSE
  /\ unload_key' = ZeroKey /\ key_hash' = NoHash
  /\ pgp_key' = ZeroKey /\ pgp_key_consumed' = TRUE
  /\ left' = 0 /\ save_ticks' = 0 /\ timer' = FALSE /\ work' = FALSE
  /\ state_filp' = FALSE /\ synced' = FALSE /\ lists' = NoLists /\ protected' = FALSE

(* What was not yet on the disk may or may not have reached it; a write     *)
(* that was going on leaves some prefix.                                    *)
CutPower ==
  /\ losses < MaxLosses
  /\ losses' = losses + 1
  /\ Forget
  /\ file' \in {file, disk} \cup (IF pc = "write" THEN CutFiles ELSE {})
  /\ disk' = file'
  /\ UNCHANGED <<hosts, minted, seen>>

PowerLoss == (mode # "off" \/ disk # file) /\ CutPower

(* The filesystem writes back what was not synced. *)
Writeback ==
  /\ disk # file
  /\ disk' = file
  /\ UNCHANGED <<mode, lockVars, sessionVars, keyVars, left, timerVars,
                 openVars, lists, protected, file, hosts, losses>>

(* restore_domains, restore_ips, restore_allowed: a list that cannot be     *)
(* allocated is left out (here: all of them), and nothing reports it.       *)
RestoreLists == lists' = file.lists \/ (Faults /\ lists' = NoLists)

(* try_restore_state_from_disk as called by kblocker_init. *)
Restore ==
  /\ mode = "off" /\ Restorable
  /\ mode' = "boot"
  /\ RestoreLists
  /\ key_hash' = file.hash
  /\ unload_key' = ZeroKey /\ pgp_key' = ZeroKey /\ pgp_key_consumed' = TRUE
  /\ pgp_active' = TRUE /\ state_restored' = TRUE
  /\ StartSession(file.rem, "boot")
  /\ UNCHANGED <<minted, seen, timerVars, openVars, protected, diskVars,
                 losses>>

(* Nothing to restore, or the file cannot be opened, read into memory that  *)
(* was allocated, or read at all: init only draws a key, and what the file  *)
(* holds stays there.                                                       *)
InitFresh ==
  /\ mode = "off" /\ CanMint
  /\ mode' = "boot"
  /\ \/ ~Restorable /\ RestoreLists
     \/ Faults /\ UNCHANGED lists
  /\ GenerateUnloadKey
  /\ UNCHANGED <<lockVars, sessionVars, pgp_key, pgp_key_consumed, seen, left,
                 timerVars, openVars, protected, diskVars, losses>>

SysfsCreated ==
  /\ mode = "boot" /\ pc = "free"
  /\ mode' = "up"
  /\ UNCHANGED <<lockVars, sessionVars, keyVars, left, timerVars, openVars,
                 lists, protected, diskVars, losses>>

(* sysfs could not be created: init ends what it restored, and unwinds. *)
SysfsFails ==
  /\ Faults /\ mode = "boot" /\ pc = "free"
  /\ mode' = "exit_timers"
  /\ DisableBlocking("boot", NoHash)
  /\ UNCHANGED work

(* rmmod, refused while a session holds its reference unless forced.  The   *)
(* exit function reads `enabled' without kb_lock; a forced unload of a      *)
(* running block panics, which is a loss of power.                          *)
Rmmod(force) ==
  /\ Unloads /\ mode = "up"
  /\ force \/ ~ref_taken
  /\ \/ enabled /\ ~allow_unload /\ CutPower
     \/ /\ ~(enabled /\ ~allow_unload)
        /\ mode' = "exit_sysfs"
        /\ UNCHANGED <<lockVars, sessionVars, keyVars, left, timerVars,
                       openVars, lists, protected, diskVars, losses>>

(* sysfs_remove_group waits for the handlers it serves, not for the work. *)
ExitRemoveSysfs ==
  /\ mode = "exit_sysfs"
  /\ pc = "free" \/ op = "expire"
  /\ mode' = "exit_timers"
  /\ UNCHANGED <<lockVars, sessionVars, keyVars, left, timerVars, openVars,
                 lists, protected, diskVars, losses>>

(* session_exit: the timer, the work (waiting for a running one), and the   *)
(* timer again, which a running work may have armed.                        *)
ExitStopTimers ==
  /\ mode = "exit_timers" /\ pc = "free"
  /\ timer' = FALSE /\ work' = FALSE
  /\ mode' = "exit_clear"
  /\ UNCHANGED <<lockVars, sessionVars, keyVars, left, save_ticks, openVars,
                 lists, protected, diskVars, losses>>

ExitClear ==
  /\ mode = "exit_clear"
  /\ file' = EmptyFile \/ (Faults /\ file' = file)
  /\ Forget
  /\ UNCHANGED <<disk, hosts, minted, seen, losses>>

-----------------------------------------------------------------------------
Handler ==
  \/ UpdateHosts \/ OpenStateFile \/ WriteStateFile \/ ClearBeforeInsecure
  \/ ProtectAndArm
  \/ Unprotect \/ Unhosts \/ ClearAndReturn

User ==
  \/ \E s \in 1..MaxSecs : EnableBlocking(s)
  \/ EnabledStoreZero
  \/ \E k \in Keys : DisableStore(k)
  \/ \E k \in Keys : UnblockStore(k)
  \/ KeyShow
  \/ \E val \in BOOLEAN : PgpActiveStore(val)
  \/ \E v \in Lists : ListStore(v)

Module ==
  \/ Restore \/ InitFresh \/ SysfsCreated \/ SysfsFails
  \/ \E force \in BOOLEAN : Rmmod(force)
  \/ ExitRemoveSysfs \/ ExitStopTimers \/ ExitClear

Next ==
  \/ Handler \/ User \/ Module
  \/ Tick \/ EnableTimerCb \/ ExpireWork
  \/ Writeback \/ PowerLoss

Spec == Init /\ [][Next]_vars

(* The kernel runs its timers and work items, a handler that holds kb_lock  *)
(* goes on, and a machine that was switched off is switched on again.       *)
Fairness ==
  /\ WF_vars(Handler)
  /\ WF_vars(Tick) /\ WF_vars(EnableTimerCb) /\ WF_vars(ExpireWork)
  /\ WF_vars(Restore \/ InitFresh \/ SysfsCreated)
  /\ WF_vars(ExitRemoveSysfs \/ ExitStopTimers \/ ExitClear)

FairSpec == Spec /\ Fairness
-----------------------------------------------------------------------------
Locked == enabled /\ pgp_active

(* What kb_check_invariants of a debug build asserts whenever kb_lock is     *)
(* released: the module reference follows `enabled', a running block cannot *)
(* be unloaded, a PGP session keeps no raw key, a restored session is PGP-  *)
(* locked, the one-shot key exists only in a PGP session, and nothing of a  *)
(* session survives its end.                                                *)
DebugInvariants ==
  pc = "free" =>
    /\ enabled = ref_taken
    /\ ~(allow_unload /\ enabled)
    /\ Locked => unload_key = ZeroKey
    /\ state_restored => Locked
    /\ ~pgp_key_consumed => Locked
    /\ ~enabled => left = 0 /\ ~state_filp /\ ~protected

(* A PGP block ends in three ways only: its time is up, the key that its    *)
(* hash was made from was presented, or the machine (or the module) is      *)
(* going down.  In particular no stale timer or work of an earlier session, *)
(* no cancelled pre-arm and no write to `enabled' ends it.                  *)
LockHolds ==
  [][Locked /\ ~Locked' =>
       left = 0 \/ buf' = key_hash \/ mode' \in {"off", "exit_timers"}]_vars

(* Until the one-shot key of a PGP block is read, nobody has seen that key; *)
(* once read, no copy of it is left in the kernel.                          *)
SealedKey ==
  Locked =>
    IF pgp_key_consumed
      THEN key_hash \notin {unload_key, pgp_key}
      ELSE key_hash \notin seen /\ pgp_key = key_hash

(* The key a block without PGP shows is the one that ends it. *)
ShownKeyWorks == enabled /\ ~pgp_active => unload_key = key_hash

(* While the state file is held open it is this block: its hash, its lists  *)
(* and no less than its time.  Once the fsync of its record has succeeded   *)
(* the same is on the disk, whatever save of the remaining time fails after *)
(* that: a loss of power then leaves a file that restores the block.        *)
Durable ==
  Locked /\ state_filp =>
    \A f \in IF synced THEN {file, disk} ELSE {file} :
      f.hash = key_hash /\ f.lists = lists /\ f.rem > 0 /\ f.rem >= left

(* A running block is never left without the timer or the work that will    *)
(* end it, whatever work of an earlier session is still queued.             *)
TimerLive ==
  enabled /\ pc = "free" /\ mode \notin {"off", "exit_clear"} => timer \/ work

(* When every file operation succeeds, a block that ended leaves nothing a  *)
(* reload of the module would restore, and a running block stands in the    *)
(* hosts file with its files protected.                                     *)
CleanEnd ==
  ~Faults /\ pc = "free" /\ mode \in {"up", "exit_sysfs"} =>
    IF enabled THEN hosts = lists /\ protected /\ (Locked => state_filp)
               ELSE ~Restorable

(* However power is lost, a block that runs, or that a boot would bring     *)
(* back, is over one day.                                                   *)
Owed == enabled \/ (mode = "off" /\ Restorable)
BlockEnds == Owed ~> ~Owed
=============================================================================
