---------------------------- MODULE FileProtection ----------------------------
(***************************************************************************)
(* src/file_protection.c: while a session runs, each protected path gets    *)
(* its inode flagged and its inode_operations replaced by a copy with       *)
(* hooks; when it ends, both are put back, and the copies are freed once no *)
(* hook call can use them.                                                  *)
(*                                                                          *)
(* One caller (it holds kb_lock) turns the protection on and off; beside it *)
(* run the periodic work, which resolves the paths again, and any number of *)
(* file operations of other processes, the walkers.                         *)
(***************************************************************************)
EXTENDS Integers

CONSTANTS
  NumTargets,   \* num_targets: the protected paths are 1..NumTargets
  MaxInstalls,  \* MAX_INSTALLS, the slots for hooked inodes
  Inodes,       \* the inodes a protected path can resolve to
  Walkers,      \* processes that open, write, truncate or chattr those files
  None,         \* no inode: a free slot, or a path that does not resolve
  MaxMoves,     \* bound: remounts and resets by somebody else
  Faults,       \* may an allocation fail?
  Preempt       \* is this a kernel that preempts its own code?

ASSUME ProtectionAssumption ==
  /\ NumTargets \in Nat /\ MaxInstalls \in Nat /\ MaxMoves \in Nat
  /\ Faults \in BOOLEAN /\ Preempt \in BOOLEAN
  /\ None \notin Inodes \cup 1..MaxInstalls

Targets == 1..NumTargets
Slots   == 1..MaxInstalls
Orig    == 0     \* the operations the file system gave the inode

VARIABLES
  pc,        \* where the caller is
  next,      \* its index into targets or installs
  active,    \* protect_active
  holder,    \* who holds protect_lock
  timer,     \* protect_timer is armed
  work,      \* protect_work: "idle", "queued", "waiting" for protect_lock
             \* or "running" under it
  workNext,  \* its index into targets
  gp,        \* the walkers a synchronize_rcu is waiting for
  holds,     \* installs[s].inode
  we_set,    \* installs[s].we_set_flag
  iop,       \* inode->i_op: Orig, or the custom table of a slot
  flagged,   \* the inode's flag is set
  at,        \* what each path resolves to
  walk,      \* where each walker is
  own,       \* history: the flag as its owner last set it
  raced,     \* history: inodes whose owner set the flag over ours
  moves      \* history: remounts and resets

caller == <<pc, next, gp>>
worker == <<timer, work, workNext>>
table  == <<holds, we_set>>
inode  == <<iop, flagged>>
ghost  == <<own, raced>>
vars == <<caller, active, holder, worker, table, inode, at, walk, ghost, moves>>

Stages   == {"off", "enabling", "on", "d_timer", "d_work", "d_rearm",
             "d_restore", "d_rcu", "d_hooks", "d_rcu2", "d_free"}
Outside  == [at |-> "out", inode |-> None, table |-> Orig, kind |-> "none",
             rcu |-> FALSE, ins |-> None]
WalkerStates ==
  [at : {"out", "loaded", "hook", "leaving"}, inode : Inodes \cup {None},
   table : Slots \cup {Orig}, kind : {"none", "perm", "attr"}, rcu : BOOLEAN,
   ins : Slots \cup {None}]

TypeOK ==
  /\ pc \in Stages /\ next \in Nat
  /\ active \in BOOLEAN /\ holder \in {"none", "caller", "work"}
  /\ timer \in BOOLEAN /\ work \in {"idle", "queued", "waiting", "running"}
  /\ workNext \in Nat /\ gp \subseteq Walkers
  /\ holds \in [Slots -> Inodes \cup {None}] /\ we_set \in [Slots -> BOOLEAN]
  /\ iop \in [Inodes -> Slots \cup {Orig}] /\ flagged \in [Inodes -> BOOLEAN]
  /\ at \in [Targets -> Inodes \cup {None}]
  /\ walk \in [Walkers -> WalkerStates]
  /\ own \in [Inodes -> BOOLEAN] /\ raced \subseteq Inodes
  /\ moves \in 0..MaxMoves

Init ==
  /\ pc = "off" /\ next = 1 /\ active = FALSE /\ holder = "none"
  /\ timer = FALSE /\ work = "idle" /\ workNext = 1 /\ gp = {}
  /\ holds = [s \in Slots |-> None] /\ we_set = [s \in Slots |-> FALSE]
  /\ iop = [i \in Inodes |-> Orig]
  /\ own \in [Inodes -> BOOLEAN] /\ flagged = own
  /\ at \in [Targets -> Inodes \cup {None}]
  /\ walk = [w \in Walkers |-> Outside]
  /\ raced = {} /\ moves = 0

(* Somebody in a set-attribute call holds the inode's lock. *)
InodeLocked(i) ==
  \E w \in Walkers : /\ walk[w].kind = "attr" /\ walk[w].inode = i
                     /\ walk[w].at # "out"

FindInstall(i) == {s \in Slots : holds[s] = i}

(* Where the search for a free slot stops, one past the last slot when none *)
(* is free.                                                                 *)
FreeSlot ==
  CHOOSE s \in 1..(MaxInstalls + 1) :
    /\ s \in Slots => holds[s] = None
    /\ \A t \in 1..(s - 1) : holds[t] # None

TooManyMissed == FALSE
TooMany == FreeSlot = MaxInstalls + 1

-----------------------------------------------------------------------------
(* The flag is taken for ours also when its owner had set it before. *)
InstallClaimsFlag(s, i) ==
  /\ holds' = [holds EXCEPT ![s] = i]
  /\ we_set' = [we_set EXCEPT ![s] = TRUE]
  /\ iop' = [iop EXCEPT ![i] = s]
  /\ flagged' = [flagged EXCEPT ![i] = TRUE]

(* protect_inode, under the inode's lock: reuse the inode's slot or take    *)
(* the first free one, point i_op at the custom table, set the flag.        *)
InstallIn(s, i) ==
  /\ holds' = [holds EXCEPT ![s] = i]
  /\ we_set' = [we_set EXCEPT ![s] = \/ s \in FindInstall(i) /\ we_set[s]
                                   \/ ~flagged[i]]
  /\ iop' = [iop EXCEPT ![i] = s]
  /\ flagged' = [flagged EXCEPT ![i] = TRUE]

ProtectInode(i) ==
  /\ ~InodeLocked(i)
  /\ \/ \E s \in FindInstall(i) : InstallIn(s, i)
     \/ /\ FindInstall(i) = {} /\ ~TooMany
        /\ InstallIn(FreeSlot, i)
     \/ /\ FindInstall(i) = {} /\ (TooMany \/ Faults)
        /\ UNCHANGED <<table, inode>>

(* One target: a path that does not resolve to a file is skipped. *)
ProtectTarget(t) ==
  IF at[t] = None THEN UNCHANGED <<table, inode>> ELSE ProtectInode(at[t])

-----------------------------------------------------------------------------
(* protection_enable *)

Enable ==
  /\ pc = "off" /\ holder = "none"
  /\ holder' = "caller" /\ active' = TRUE
  /\ pc' = "enabling" /\ next' = 1
  /\ UNCHANGED <<gp, worker, table, inode, at, walk, ghost, moves>>

EnableTarget ==
  /\ pc = "enabling" /\ next \in Targets
  /\ ProtectTarget(next)
  /\ next' = next + 1
  /\ UNCHANGED <<pc, gp, active, holder, worker, at, walk, ghost, moves>>

EnableDone ==
  /\ pc = "enabling" /\ next \notin Targets
  /\ timer' = TRUE /\ holder' = "none" /\ pc' = "on" /\ next' = 1
  /\ UNCHANGED <<gp, active, work, workNext, table, inode, at, walk, ghost,
                 moves>>

-----------------------------------------------------------------------------
(* The timer and do_protect_work *)

ProtectCallback ==
  /\ timer /\ timer' = FALSE
  /\ work' = IF work = "idle" THEN "queued" ELSE work
  /\ UNCHANGED <<caller, active, holder, workNext, table, inode, at, walk,
                 ghost, moves>>

WorkStart ==
  /\ work = "queued" /\ work' = "waiting"
  /\ UNCHANGED <<caller, active, holder, timer, workNext, table, inode, at,
                 walk, ghost, moves>>

WorkLock ==
  /\ work = "waiting" /\ holder = "none"
  /\ work' = "running" /\ holder' = "work" /\ workNext' = 1
  /\ UNCHANGED <<caller, active, timer, table, inode, at, walk, ghost, moves>>

WorkTarget ==
  /\ work = "running" /\ active /\ workNext \in Targets
  /\ ProtectTarget(workNext)
  /\ workNext' = workNext + 1
  /\ UNCHANGED <<caller, active, holder, timer, work, at, walk, ghost, moves>>

(* The timer is armed again only while the protection is on. *)
RearmAlways == timer' = TRUE
RearmNever  == UNCHANGED timer
Rearm       == timer' = (timer \/ active)

WorkDone ==
  /\ work = "running" /\ (~active \/ workNext \notin Targets)
  /\ Rearm
  /\ work' = "idle" /\ holder' = "none"
  /\ UNCHANGED <<caller, active, workNext, table, inode, at, walk, ghost,
                 moves>>

-----------------------------------------------------------------------------
(* protection_disable *)

(* Called when a session ends, and also when none is running. *)
DisableKeepsLock ==
  /\ pc \in {"on", "off"} /\ holder = "none" /\ holder' = "caller"
  /\ active' = FALSE /\ pc' = "d_timer"
  /\ UNCHANGED <<next, gp, worker, table, inode, at, walk, ghost, moves>>

Disable ==
  /\ pc \in {"on", "off"} /\ holder = "none"
  /\ active' = FALSE /\ pc' = "d_timer"
  /\ UNCHANGED <<next, gp, holder, worker, table, inode, at, walk, ghost,
                 moves>>

DeleteTimer ==
  /\ pc \in {"d_timer", "d_rearm"}
  /\ timer' = FALSE
  /\ pc' = IF pc = "d_timer" THEN "d_work" ELSE "d_restore"
  /\ next' = 1
  /\ UNCHANGED <<gp, active, holder, work, workNext, table, inode, at, walk,
                 ghost, moves>>

(* cancel_work_sync dequeues the work, and waits for it when it runs. *)
CancelWork ==
  /\ pc = "d_work" /\ work \in {"idle", "queued"}
  /\ work' = "idle" /\ pc' = "d_rearm"
  /\ UNCHANGED <<next, gp, active, holder, timer, workNext, table, inode, at,
                 walk, ghost, moves>>

(* Flag and i_op of one slot, under the inode's lock: only what is still     *)
(* ours is put back.                                                        *)
PutBackFlag(s) ==
  LET i == holds[s] IN
  IF i = None THEN UNCHANGED inode
  ELSE /\ ~InodeLocked(i)
       /\ flagged' = [flagged EXCEPT ![i] = @ /\ ~we_set[s]]
       /\ UNCHANGED iop

PutBack(s) ==
  LET i == holds[s] IN
  IF i = None THEN UNCHANGED inode
  ELSE /\ ~InodeLocked(i)
       /\ flagged' = [flagged EXCEPT ![i] = @ /\ ~we_set[s]]
       /\ iop' = [iop EXCEPT ![i] = IF @ = s THEN Orig ELSE @]

Restore ==
  /\ pc = "d_restore" /\ next \in Slots
  /\ holder = (IF next = 1 THEN "none" ELSE "caller")
  /\ holder' = "caller"
  /\ PutBack(next)
  /\ next' = next + 1
  /\ UNCHANGED <<pc, gp, active, worker, table, at, walk, ghost, moves>>

(* synchronize_rcu waits for the walkers that were on their way when it was *)
(* called, as far as they are read-side critical sections.                  *)
Readers == {w \in Walkers : walk[w].at \in {"loaded", "leaving"} /\ walk[w].rcu}

RestoreDone ==
  /\ pc = "d_restore" /\ next \notin Slots
  /\ gp' = Readers /\ pc' = "d_rcu"
  /\ UNCHANGED <<next, active, holder, worker, table, inode, at, walk, ghost,
                 moves>>

NoGracePeriod == TRUE
GracePeriod   == gp = {}

RcuDone ==
  /\ pc = "d_rcu" /\ GracePeriod
  /\ pc' = "d_hooks"
  /\ UNCHANGED <<next, gp, active, holder, worker, table, inode, at, walk,
                 ghost, moves>>

(* hook_inflight counts the calls between their entry and their return. *)
HooksDone ==
  /\ pc = "d_hooks"
  /\ \A w \in Walkers : walk[w].at # "hook"
  /\ gp' = Readers /\ pc' = "d_rcu2"
  /\ UNCHANGED <<next, active, holder, worker, table, inode, at, walk, ghost,
                 moves>>

SecondRcuDone ==
  /\ pc = "d_rcu2" /\ GracePeriod
  /\ pc' = "d_free"
  /\ UNCHANGED <<next, gp, active, holder, worker, table, inode, at, walk,
                 ghost, moves>>

FreeTables ==
  /\ pc = "d_free"
  /\ holds' = [s \in Slots |-> None] /\ we_set' = [s \in Slots |-> FALSE]
  /\ holder' = "none" /\ pc' = "off" /\ next' = 1
  /\ UNCHANGED <<gp, active, worker, inode, at, walk, ghost, moves>>

-----------------------------------------------------------------------------
(* The walkers.  One reads i_op and calls what it finds there; the file     *)
(* system's own operations are no concern of this module, so only calls     *)
(* that go through a custom table are followed.  A set-attribute call holds *)
(* the inode's lock from before the read of i_op until it returns.  A       *)
(* permission check is made within rcu_read_lock or, when the walk has left *)
(* it, outside.  A grace period waits for the first, and for the others     *)
(* only on a kernel that cannot preempt them between the read and the hook. *)
Load(w, i, kind) ==
  /\ walk[w].at = "out" /\ iop[i] # Orig
  /\ kind = "attr" => ~InodeLocked(i)
  /\ \E rcu \in BOOLEAN :
       /\ rcu \/ Preempt
       /\ kind = "attr" => rcu = ~Preempt
       /\ walk' = [walk EXCEPT ![w] = [at |-> "loaded", inode |-> i,
                    table |-> iop[i], kind |-> kind, rcu |-> rcu,
                    ins |-> None]]
  /\ UNCHANGED <<caller, active, holder, worker, table, inode, at, ghost,
                 moves>>

(* kb_permission, kb_setattr, kb_fileattr_set: count the call, look for the *)
(* slot of the inode.                                                       *)
EnterHook(w) ==
  /\ walk[w].at = "loaded"
  /\ \E s \in IF FindInstall(walk[w].inode) = {} THEN {None}
              ELSE FindInstall(walk[w].inode) :
       walk' = [walk EXCEPT ![w].at = "hook", ![w].ins = s]
  /\ gp' = gp \ {w}
  /\ UNCHANGED <<pc, next, active, holder, worker, table, inode, at, ghost,
                 moves>>

(* The call decides, and gives its count back.  A chattr let through to the *)
(* file system sets the flag.                                               *)
LeaveHook(w) ==
  /\ walk[w].at = "hook"
  /\ walk' = [walk EXCEPT ![w].at = "leaving"]
  /\ \/ UNCHANGED <<inode, ghost>>
     \/ /\ walk[w].kind = "attr" /\ walk[w].ins # None /\ ~active
        /\ \E v \in BOOLEAN :
             /\ flagged' = [flagged EXCEPT ![walk[w].inode] = v]
             /\ own' = [own EXCEPT ![walk[w].inode] = v]
        /\ raced' = raced \cup {walk[w].inode}
        /\ UNCHANGED iop
  /\ UNCHANGED <<caller, active, holder, worker, table, at, moves>>

Return(w) ==
  /\ walk[w].at = "leaving"
  /\ walk' = [walk EXCEPT ![w] = Outside]
  /\ gp' = gp \ {w}
  /\ UNCHANGED <<pc, next, active, holder, worker, table, inode, at, ghost,
                 moves>>

-----------------------------------------------------------------------------
(* What others do: a chattr that reaches the file system directly, a path   *)
(* that comes to name another inode (a bind mount, a rename higher up), and *)
(* a file system that sets up an inode's operations and flags again.        *)
Chattr(i, v) ==
  /\ iop[i] = Orig /\ ~InodeLocked(i)
  /\ flagged' = [flagged EXCEPT ![i] = v] /\ own' = [own EXCEPT ![i] = v]
  /\ raced' = IF FindInstall(i) = {} THEN raced \ {i} ELSE raced \cup {i}
  /\ UNCHANGED <<caller, active, holder, worker, table, iop, at, walk, moves>>

Remount(t, i) ==
  /\ moves < MaxMoves /\ moves' = moves + 1
  /\ at[t] # i /\ at' = [at EXCEPT ![t] = i]
  /\ UNCHANGED <<caller, active, holder, worker, table, inode, walk, ghost>>

FsReset(i) ==
  /\ moves < MaxMoves /\ moves' = moves + 1
  /\ iop[i] # Orig /\ ~InodeLocked(i)
  /\ iop' = [iop EXCEPT ![i] = Orig]
  /\ flagged' = [flagged EXCEPT ![i] = own[i]]
  /\ UNCHANGED <<caller, active, holder, worker, table, at, walk, ghost>>

-----------------------------------------------------------------------------
Protecting == EnableTarget \/ EnableDone
Disabling ==
  \/ DeleteTimer \/ CancelWork \/ Restore \/ RestoreDone \/ RcuDone
  \/ HooksDone \/ SecondRcuDone \/ FreeTables
Working == WorkStart \/ WorkLock \/ WorkTarget \/ WorkDone
Walking(w) == EnterHook(w) \/ LeaveHook(w) \/ Return(w)

Next ==
  \/ Enable \/ Disable \/ Protecting \/ Disabling
  \/ ProtectCallback \/ Working
  \/ \E w \in Walkers : Walking(w)
  \/ \E w \in Walkers, i \in Inodes, kind \in {"perm", "attr"} :
       Load(w, i, kind)
  \/ \E i \in Inodes, v \in BOOLEAN : Chattr(i, v)
  \/ \E t \in Targets, i \in Inodes \cup {None} : Remount(t, i)
  \/ \E i \in Inodes : FsReset(i)

Spec == Init /\ [][Next]_vars

(* A handler that began goes on, timers fire, queued work runs, and a file  *)
(* operation that began returns.                                            *)
Fairness ==
  /\ WF_vars(Protecting) /\ SF_vars(Disabling)
  /\ WF_vars(ProtectCallback) /\ SF_vars(Working)
  /\ \A w \in Walkers : WF_vars(Walking(w))

FairSpec == Spec /\ Fairness
-----------------------------------------------------------------------------
(* A permission check that was preempted outside rcu_read_lock: nothing     *)
(* waits for it until it has counted itself.                                *)
Overtakable(w) == walk[w].kind = "perm" /\ ~walk[w].rcu

(* Every other hook call finds the table it read still there and works with *)
(* a slot that stays its inode's: a check within rcu_read_lock is waited    *)
(* for, and a set-attribute call, which no grace period waits for, by the   *)
(* inode's lock, so the EBUSY of "raced with protection_disable()" cannot   *)
(* come up.                                                                 *)
HookedSafely ==
  \A w \in Walkers : ~Overtakable(w) =>
    /\ walk[w].at = "loaded" => holds[walk[w].table] = walk[w].inode
    /\ walk[w].at = "hook" => walk[w].ins \in FindInstall(walk[w].inode)

(* file_protection.c:26 and 391, "waits for in-flight hook calls before the *)
(* replacement tables are freed", "Wait out path walks that loaded a custom *)
(* table before we restored the original": no walk has a freed table.       *)
TablesOutliveWalks ==
  \A w \in Walkers :
    walk[w].at \in {"loaded", "hook"} => holds[walk[w].table] = walk[w].inode

(* No inode points at a table that was freed, or at another inode's table.  *)
TablesAlive == \A i \in Inodes : iop[i] # Orig => holds[iop[i]] = i

(* Once protection_disable has returned nothing of the protection is left:  *)
(* no slot, no hook, no timer, no work, and nobody inside a hook or on the  *)
(* way to one, but for the checks that nothing waits for.                   *)
OffMeansOff ==
  pc = "off" =>
    /\ ~active /\ ~timer /\ work = "idle" /\ holder = "none"
    /\ \A s \in Slots : holds[s] = None
    /\ \A i \in Inodes : iop[i] = Orig
    /\ \A w \in Walkers :
         Overtakable(w) \/ walk[w].at \in {"out", "leaving"}

(* When the protection is off every file carries the flag its owner gave    *)
(* it, however often it was protected again, replaced or reset in between:  *)
(* none is left behind, and only one that was set while its inode still     *)
(* had a slot may be lost.                                                  *)
FlagsRestored ==
  pc = "off" =>
    \A i \in Inodes : /\ flagged[i] => own[i]
                      /\ own[i] => flagged[i] \/ i \in raced

(* protection_disable returns: waiting for the work, for the inode locks    *)
(* and for the hook calls never waits for the disabler itself.              *)
DisableReturns == pc = "d_timer" ~> pc = "off"

(* While the protection stays on, a file that a protected path names is     *)
(* hooked and flagged within a round of the timer, unless the slots ran out.*)
Guarded(i) == \E s \in Slots : holds[s] = i /\ iop[i] = s /\ flagged[i]
Reprotects ==
  \A t \in Targets, i \in Inodes :
    pc = "on" /\ at[t] = i ~>
      \/ Guarded(i) \/ pc # "on" \/ at[t] # i
      \/ TooMany /\ FindInstall(i) = {}
=============================================================================
