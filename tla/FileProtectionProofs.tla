------------------------ MODULE FileProtectionProofs ------------------------
(***************************************************************************)
(* The safety of FileProtection for any number of paths, slots, inodes,     *)
(* walkers and moves, whether or not the kernel preempts its own code.      *)
(***************************************************************************)
EXTENDS FileProtection, WellFoundedInduction, TLAPS

(* From here on nothing points at a custom table. *)
Unhooked == {"d_rcu", "d_hooks", "d_rcu2", "d_free", "off"}

(* Who has protect_lock.  While the work runs or waits, the caller is not   *)
(* past cancel_work_sync, and no timer survives the first del_timer_sync.   *)
Locking ==
  /\ active <=> pc \in {"enabling", "on"}
  /\ holder = "work" <=> work = "running"
  /\ pc = "enabling" => holder = "caller"
  /\ pc = "off" => holder = "none"
  /\ pc \in {"d_work", "d_rearm", "d_restore"} \cup Unhooked => ~timer
  /\ pc \in {"d_rearm", "d_restore"} \cup Unhooked => work = "idle"

(* A slot is one inode's and an inode has one slot.  The slots that were    *)
(* put back are pointed at by nothing.                                      *)
Table ==
  /\ TablesAlive
  /\ \A s, t \in Slots : holds[s] = holds[t] /\ holds[s] # None => s = t
  /\ pc = "d_restore" =>
       next >= 1 /\ \A i \in Inodes : iop[i] # Orig => iop[i] >= next
  /\ pc \in Unhooked => \A i \in Inodes : iop[i] = Orig
  /\ pc = "off" => \A s \in Slots : holds[s] = None

(* A walker that is waited for: on its way to the hook by the first grace   *)
(* period, and then, inside, by the count.                                  *)
Awaited(w) ==
  /\ walk[w].at = "loaded" /\ pc = "d_rcu" => w \in gp
  /\ pc \in {"d_hooks", "d_rcu2", "d_free", "off"} => walk[w].at # "loaded"
  /\ pc \in {"d_rcu2", "d_free", "off"} => walk[w].at # "hook"

(* A set-attribute call keeps its inode's slot from being put back.         *)
KeepsSlot(w) ==
  walk[w].at # "out" =>
    /\ pc \notin Unhooked
    /\ \E s \in FindInstall(walk[w].inode) : pc = "d_restore" => s >= next

Walks ==
  /\ HookedSafely
  /\ \A w \in Walkers :
       /\ walk[w].at # "out" =>
            walk[w].inode \in Inodes /\ walk[w].kind # "none"
       /\ walk[w].at = "loaded" => walk[w].table \in Slots
       /\ Overtakable(w) \/ Awaited(w)
       /\ walk[w].kind = "attr" => KeepsSlot(w)

(* A flag that its owner did not set is that of a slot still to be put      *)
(* back, and a flag that is lost, or will be, was set over ours.            *)
Ours(s) ==
  we_set[s] /\ (pc = "d_restore" => s >= next) /\ pc \notin Unhooked
FlagInv ==
  \A i \in Inodes :
    /\ flagged[i] /\ ~own[i] => \E s \in Slots : holds[s] = i /\ Ours(s)
    /\ own[i] /\ ~flagged[i] => i \in raced
    /\ own[i] => \A s \in Slots : holds[s] = i /\ we_set[s] => i \in raced

IInv == TypeOK /\ Locking /\ Table /\ Walks /\ FlagInv

-----------------------------------------------------------------------------
USE DEF caller, worker, table, inode, ghost, vars

(* Either some slot is free, and then one is the first, or none is.         *)
LEMMA FreeSlotWorks ==
  ASSUME TypeOK
  PROVE  /\ FreeSlot \in 1..(MaxInstalls + 1)
         /\ FreeSlot \in Slots => holds[FreeSlot] = None
<1> DEFINE Free == {s \in Slots : holds[s] = None}
           Stop(s) == /\ s \in Slots => holds[s] = None
                      /\ \A t \in 1..(s - 1) : holds[t] # None
<1>1. MaxInstalls \in Nat
  BY ProtectionAssumption
<1>2. \E s \in 1..(MaxInstalls + 1) : Stop(s)
  <2>1. CASE Free = {}
    <3>1. Stop(MaxInstalls + 1)
      BY <1>1, <2>1 DEF Slots
    <3> QED BY <1>1, <3>1
  <2>2. CASE Free # {}
    <3>1. Free \subseteq Nat
      BY <1>1 DEF Slots
    <3>2. PICK s \in Free : \A t \in Free : ~ (<<t, s>> \in OpToRel(<, Nat))
      BY <2>2, <3>1, NatLessThanWellFounded, WFMin, Zenon
    <3>3. \A t \in Free : ~ (t < s)
      <4>1. ASSUME NEW t \in Free, t < s
            PROVE  <<t, s>> \in OpToRel(<, Nat)
        BY <3>1, <4>1, Zenon DEF OpToRel
      <4> QED BY <3>2, <4>1
    <3>4. Stop(s)
      BY <1>1, <3>3 DEF Slots
    <3> QED BY <1>1, <3>4 DEF Slots
  <2> QED BY <2>1, <2>2
<1>3. FreeSlot = CHOOSE s \in 1..(MaxInstalls + 1) : Stop(s)
  BY Zenon DEF FreeSlot
<1>4. FreeSlot \in 1..(MaxInstalls + 1) /\ Stop(FreeSlot)
  <2> HIDE DEF Stop
  <2> QED BY <1>2, <1>3
<1> QED BY <1>4

(* What protecting a path comes to: nothing, or an inode in its slot, or in *)
(* one that was free if it had none.                                        *)
Installed(s, i) ==
  /\ InstallIn(s, i)
  /\ \/ holds[s] = i
     \/ holds[s] = None /\ FindInstall(i) = {}

LEMMA TargetInstalls ==
  ASSUME TypeOK, NEW t \in Targets, ProtectTarget(t)
  PROVE  \/ UNCHANGED <<table, inode>>
         \/ \E s \in Slots, i \in Inodes : Installed(s, i)
<1>1. CASE at[t] = None
  BY <1>1 DEF ProtectTarget
<1>2. CASE at[t] # None
  <2>1. at[t] \in Inodes /\ ProtectInode(at[t])
    BY <1>2 DEF TypeOK, ProtectTarget
  <2>2. CASE \E s \in FindInstall(at[t]) : InstallIn(s, at[t])
    BY <2>1, <2>2 DEF FindInstall, Installed
  <2>3. CASE FindInstall(at[t]) = {} /\ ~TooMany /\ InstallIn(FreeSlot, at[t])
    <3>1. FreeSlot \in Slots /\ holds[FreeSlot] = None
      BY <2>3, FreeSlotWorks, ProtectionAssumption DEF TooMany, Slots
    <3> QED BY <2>1, <2>3, <3>1 DEF Installed
  <2> QED BY <2>1, <2>2, <2>3 DEF ProtectInode
<1> QED BY <1>1, <1>2

-----------------------------------------------------------------------------
LEMMA Arithmetic ==
  MaxInstalls \in Nat /\ NumTargets \in Nat /\ MaxMoves \in Nat
BY ProtectionAssumption

(* The table and the inodes alone. *)
TableTypes ==
  /\ holds \in [Slots -> Inodes \cup {None}] /\ we_set \in [Slots -> BOOLEAN]
  /\ iop \in [Inodes -> Slots \cup {Orig}] /\ flagged \in [Inodes -> BOOLEAN]

LEMMA InstalledTypes ==
  ASSUME TypeOK, NEW s \in Slots, NEW i \in Inodes, Installed(s, i)
  PROVE  TableTypes'
<1>1. TableTypes
  BY DEF TypeOK, TableTypes
<1>2. we_set' \in [Slots -> BOOLEAN]
  BY <1>1 DEF Installed, InstallIn, TableTypes
<1>3. /\ holds' \in [Slots -> Inodes \cup {None}]
      /\ iop' \in [Inodes -> Slots \cup {Orig}]
      /\ flagged' \in [Inodes -> BOOLEAN]
  BY <1>1 DEF Installed, InstallIn, TableTypes
<1> QED BY <1>2, <1>3 DEF TableTypes

LEMMA PutBackTypes ==
  ASSUME TypeOK, NEW s \in Slots, PutBack(s)
  PROVE  /\ iop' \in [Inodes -> Slots \cup {Orig}]
         /\ flagged' \in [Inodes -> BOOLEAN]
<1>1. CASE holds[s] = None
  BY <1>1 DEF TypeOK, PutBack
<1>2. CASE holds[s] # None
  <2>1. iop' \in [Inodes -> Slots \cup {Orig}]
    BY <1>2 DEF TypeOK, PutBack
  <2>2. flagged' \in [Inodes -> BOOLEAN]
    BY <1>2 DEF TypeOK, PutBack
  <2> QED BY <2>1, <2>2
<1> QED BY <1>1, <1>2

(* TypeOK *)
LEMMA TypeStep ==
  ASSUME IInv, Next
  PROVE  TypeOK'
<1>1. CASE Enable
  BY <1>1, Arithmetic DEF IInv, TypeOK, Stages, Enable
<1>2. CASE EnableTarget
  <2>1. TableTypes'
    BY <1>2, TargetInstalls, InstalledTypes DEF IInv, TypeOK, TableTypes,
       EnableTarget
  <2> QED BY <1>2, <2>1 DEF IInv, TypeOK, Stages, EnableTarget, TableTypes
<1>3. CASE EnableDone
  BY <1>3, Arithmetic DEF IInv, TypeOK, Stages, EnableDone
<1>4. CASE ProtectCallback
  BY <1>4, Arithmetic DEF IInv, TypeOK, Stages, ProtectCallback
<1>5. CASE WorkStart
  BY <1>5, Arithmetic DEF IInv, TypeOK, Stages, WorkStart
<1>6. CASE WorkLock
  BY <1>6, Arithmetic DEF IInv, TypeOK, Stages, WorkLock
<1>7. CASE WorkTarget
  <2>1. TableTypes'
    BY <1>7, TargetInstalls, InstalledTypes DEF IInv, TypeOK, TableTypes,
       WorkTarget
  <2> QED BY <1>7, <2>1 DEF IInv, TypeOK, Stages, WorkTarget, TableTypes
<1>8. CASE WorkDone
  BY <1>8 DEF IInv, TypeOK, WorkDone, Rearm
<1>9. CASE Disable
  BY <1>9, Arithmetic DEF IInv, TypeOK, Stages, Disable
<1>10. CASE DeleteTimer
  BY <1>10, Arithmetic DEF IInv, TypeOK, Stages, DeleteTimer
<1>11. CASE CancelWork
  BY <1>11, Arithmetic DEF IInv, TypeOK, Stages, CancelWork
<1>12. CASE Restore
  <2>1. /\ iop' \in [Inodes -> Slots \cup {Orig}]
        /\ flagged' \in [Inodes -> BOOLEAN]
    BY <1>12, PutBackTypes DEF IInv, Restore
  <2> QED BY <1>12, <2>1, Arithmetic DEF IInv, TypeOK, Slots, Restore
<1>13. CASE RestoreDone
  BY <1>13 DEF IInv, TypeOK, Stages, RestoreDone, Readers
<1>14. CASE RcuDone
  BY <1>14, Arithmetic DEF IInv, TypeOK, Stages, RcuDone
<1>15. CASE HooksDone
  BY <1>15 DEF IInv, TypeOK, Stages, HooksDone, Readers
<1>16. CASE SecondRcuDone
  BY <1>16, Arithmetic DEF IInv, TypeOK, Stages, SecondRcuDone
<1>17. CASE FreeTables
  BY <1>17, Arithmetic DEF IInv, TypeOK, Stages, FreeTables
<1>18. ASSUME NEW w \in Walkers, EnterHook(w)
      PROVE  TypeOK'
  <2>1. PICK s \in Slots \cup {None} :
          walk' = [walk EXCEPT ![w].at = "hook", ![w].ins = s]
    BY <1>18 DEF EnterHook, FindInstall
  <2>2. walk[w] \in WalkerStates
    BY DEF IInv, TypeOK
  <2>3. [walk[w] EXCEPT !.at = "hook", !.ins = s] \in WalkerStates
    BY <2>2 DEF WalkerStates
  <2>4. walk' \in [Walkers -> WalkerStates]
    BY <2>1, <2>3 DEF IInv, TypeOK
  <2> QED BY <1>18, <2>4 DEF IInv, TypeOK, EnterHook
<1>19. ASSUME NEW w \in Walkers, LeaveHook(w)
      PROVE  TypeOK'
  <2>1. walk[w] \in WalkerStates /\ walk[w].inode \in Inodes
    BY <1>19 DEF IInv, TypeOK, LeaveHook, Walks, Awaited, KeepsSlot,
       Overtakable, FindInstall
  <2>2. [walk[w] EXCEPT !.at = "leaving"] \in WalkerStates
    BY <2>1 DEF WalkerStates
  <2>3. walk' \in [Walkers -> WalkerStates]
    BY <1>19, <2>2 DEF IInv, TypeOK, LeaveHook
  <2> QED BY <1>19, <2>1, <2>3 DEF IInv, TypeOK, LeaveHook
<1>20. ASSUME NEW w \in Walkers, Return(w)
      PROVE  TypeOK'
  <2>1. Outside \in WalkerStates
    BY DEF Outside, WalkerStates, Orig
  <2>2. walk' \in [Walkers -> WalkerStates]
    BY <1>20, <2>1 DEF IInv, TypeOK, Return
  <2> QED BY <1>20, <2>2 DEF IInv, TypeOK, Return
<1>21. ASSUME NEW w \in Walkers, NEW i \in Inodes,
             NEW kind \in {"perm", "attr"}, Load(w, i, kind)
      PROVE  TypeOK'
  <2>1. PICK rcu \in BOOLEAN :
          walk' = [walk EXCEPT ![w] = [at |-> "loaded", inode |-> i,
                     table |-> iop[i], kind |-> kind, rcu |-> rcu,
                        ins |-> None]]
    BY <1>21 DEF Load
  <2>2. iop[i] \in Slots \cup {Orig}
    BY DEF IInv, TypeOK
  <2>3. [at |-> "loaded", inode |-> i, table |-> iop[i], kind |-> kind,
         rcu |-> rcu, ins |-> None] \in WalkerStates
    BY <2>2 DEF WalkerStates
  <2>4. walk' \in [Walkers -> WalkerStates]
    BY <2>1, <2>3 DEF IInv, TypeOK
  <2> QED BY <1>21, <2>4 DEF IInv, TypeOK, Load
<1>22. ASSUME NEW i \in Inodes, NEW v \in BOOLEAN, Chattr(i, v)
      PROVE  TypeOK'
  BY <1>22, Arithmetic DEF IInv, TypeOK, Stages, Chattr
<1>23. ASSUME NEW t \in Targets, NEW i \in Inodes \cup {None}, Remount(t, i)
      PROVE  TypeOK'
  BY <1>23, Arithmetic DEF IInv, TypeOK, Stages, Remount
<1>24. ASSUME NEW i \in Inodes, FsReset(i)
      PROVE  TypeOK'
  BY <1>24, Arithmetic DEF IInv, TypeOK, FsReset, Orig
<1> QED BY <1>1, <1>2, <1>3, <1>4, <1>5, <1>6, <1>7, <1>8, <1>9, <1>10,
     <1>11, <1>12, <1>13, <1>14, <1>15, <1>16, <1>17, <1>18, <1>19, <1>20,
     <1>21, <1>22, <1>23, <1>24
  DEF Next, Protecting, Disabling, Working, Walking

(* Locking *)
LEMMA LockingStep ==
  ASSUME IInv, Next
  PROVE  Locking'
<1>1. CASE Enable
  BY <1>1 DEF IInv, TypeOK, Stages, Locking, Unhooked, Enable
<1>2. CASE EnableTarget
  BY <1>2 DEF IInv, TypeOK, Stages, Locking, Unhooked, EnableTarget
<1>3. CASE EnableDone
  BY <1>3 DEF IInv, TypeOK, Stages, Locking, Unhooked, EnableDone
<1>4. CASE ProtectCallback
  BY <1>4 DEF IInv, TypeOK, Stages, Locking, Unhooked, ProtectCallback
<1>5. CASE WorkStart
  BY <1>5 DEF IInv, TypeOK, Stages, Locking, Unhooked, WorkStart
<1>6. CASE WorkLock
  BY <1>6 DEF IInv, TypeOK, Stages, Locking, Unhooked, WorkLock
<1>7. CASE WorkTarget
  BY <1>7 DEF IInv, TypeOK, Stages, Locking, Unhooked, WorkTarget
<1>8. CASE WorkDone
  BY <1>8 DEF IInv, TypeOK, Locking, Unhooked, WorkDone, Rearm
<1>9. CASE Disable
  BY <1>9 DEF IInv, TypeOK, Stages, Locking, Unhooked, Disable
<1>10. CASE DeleteTimer
  BY <1>10 DEF IInv, TypeOK, Stages, Locking, Unhooked, DeleteTimer
<1>11. CASE CancelWork
  BY <1>11 DEF IInv, TypeOK, Stages, Locking, Unhooked, CancelWork
<1>12. CASE Restore
  BY <1>12 DEF IInv, TypeOK, Stages, Locking, Unhooked, Restore
<1>13. CASE RestoreDone
  BY <1>13 DEF IInv, TypeOK, Stages, Locking, Unhooked, RestoreDone
<1>14. CASE RcuDone
  BY <1>14 DEF IInv, TypeOK, Stages, Locking, Unhooked, RcuDone
<1>15. CASE HooksDone
  BY <1>15 DEF IInv, TypeOK, Stages, Locking, Unhooked, HooksDone
<1>16. CASE SecondRcuDone
  BY <1>16 DEF IInv, TypeOK, Stages, Locking, Unhooked, SecondRcuDone
<1>17. CASE FreeTables
  BY <1>17 DEF IInv, TypeOK, Stages, Locking, Unhooked, FreeTables
<1>18. ASSUME NEW w \in Walkers, EnterHook(w)
      PROVE  Locking'
  BY <1>18 DEF IInv, TypeOK, Stages, Locking, Unhooked, EnterHook
<1>19. ASSUME NEW w \in Walkers, LeaveHook(w)
      PROVE  Locking'
  BY <1>19 DEF IInv, TypeOK, Stages, Locking, Unhooked, LeaveHook
<1>20. ASSUME NEW w \in Walkers, Return(w)
      PROVE  Locking'
  BY <1>20 DEF IInv, TypeOK, Stages, Locking, Unhooked, Return
<1>21. ASSUME NEW w \in Walkers, NEW i \in Inodes,
             NEW kind \in {"perm", "attr"}, Load(w, i, kind)
      PROVE  Locking'
  BY <1>21 DEF IInv, TypeOK, Stages, Locking, Unhooked, Load
<1>22. ASSUME NEW i \in Inodes, NEW v \in BOOLEAN, Chattr(i, v)
      PROVE  Locking'
  BY <1>22 DEF IInv, TypeOK, Stages, Locking, Unhooked, Chattr
<1>23. ASSUME NEW t \in Targets, NEW i \in Inodes \cup {None}, Remount(t, i)
      PROVE  Locking'
  BY <1>23 DEF IInv, TypeOK, Stages, Locking, Unhooked, Remount
<1>24. ASSUME NEW i \in Inodes, FsReset(i)
      PROVE  Locking'
  BY <1>24 DEF IInv, TypeOK, Stages, Locking, Unhooked, FsReset
<1> QED BY <1>1, <1>2, <1>3, <1>4, <1>5, <1>6, <1>7, <1>8, <1>9, <1>10,
     <1>11, <1>12, <1>13, <1>14, <1>15, <1>16, <1>17, <1>18, <1>19, <1>20,
     <1>21, <1>22, <1>23, <1>24
  DEF Next, Protecting, Disabling, Working, Walking

(* What holds of the table, of the walkers and of the flags before a path   *)
(* is protected, holds after it: as long as slots are taken, none is        *)
(* emptied, and the caller is not past the end of a block.                  *)
LEMMA InstallKeeps ==
  ASSUME IInv, NEW s \in Slots, NEW i \in Inodes, Installed(s, i),
         active, pc' = pc, UNCHANGED <<walk, ghost>>
  PROVE  Table' /\ Walks' /\ FlagInv'
<1>1. pc \in {"enabling", "on"}
  BY DEF IInv, Locking
<1>2. /\ holds' = [holds EXCEPT ![s] = i]
      /\ iop' = [iop EXCEPT ![i] = s]
      /\ flagged' = [flagged EXCEPT ![i] = TRUE]
      /\ \/ holds[s] = i
         \/ holds[s] = None /\ FindInstall(i) = {}
  BY Zenon DEF Installed, InstallIn
<1>3. None \notin Inodes
  BY ProtectionAssumption
<1>4. /\ holds \in [Slots -> Inodes \cup {None}]
      /\ iop \in [Inodes -> Slots \cup {Orig}]
      /\ flagged \in [Inodes -> BOOLEAN] /\ we_set \in [Slots -> BOOLEAN]
  BY DEF IInv, TypeOK
<1>5. \A r \in Slots : holds[r] # None => holds'[r] = holds[r]
  BY <1>2, <1>4
<1>6. Table'
  <2>1. TablesAlive'
    BY <1>2, <1>4, <1>5, <1>3 DEF IInv, Table, TablesAlive, Orig
  <2>2. \A r, t \in Slots : holds'[r] = holds'[t] /\ holds'[r] # None => r = t
    BY <1>2, <1>4 DEF IInv, Table, FindInstall
  <2> QED BY <1>1, <2>1, <2>2 DEF Table, Unhooked
<1>7. Walks'
  <2>1. HookedSafely'
    BY <1>3, <1>4, <1>5 DEF IInv, TypeOK, WalkerStates, Walks, HookedSafely,
       Awaited, KeepsSlot, Overtakable, FindInstall
  <2>2. \A w \in Walkers : KeepsSlot(w) /\ walk[w].inode \in Inodes
                              => KeepsSlot(w)'
    BY <1>1, <1>3, <1>5 DEF KeepsSlot, FindInstall, Unhooked
  <2>3. \A w \in Walkers : Awaited(w)'
    BY <1>1 DEF Awaited
  <2> QED BY <2>1, <2>2, <2>3 DEF IInv, Walks, KeepsSlot, Unhooked,
     Overtakable
<1>8. FlagInv'
  <2>1. we_set' = [we_set EXCEPT ![s] = \/ s \in FindInstall(i) /\ we_set[s]
                                       \/ ~flagged[i]]
    BY DEF Installed, InstallIn
  <2> SUFFICES ASSUME NEW j \in Inodes
               PROVE  /\ flagged'[j] /\ ~own[j]
                           => \E r \in Slots : holds'[r] = j /\ we_set'[r]
                      /\ own[j] /\ ~flagged'[j] => j \in raced
                      /\ own[j] => \A r \in Slots :
                                     holds'[r] = j /\ we_set'[r] => j \in raced
    BY <1>1 DEF FlagInv, Ours, Unhooked
  <2>2. /\ flagged[j] /\ ~own[j] => \E r \in Slots : holds[r] = j /\ we_set[r]
        /\ own[j] /\ ~flagged[j] => j \in raced
        /\ own[j] => \A r \in Slots : holds[r] = j /\ we_set[r] => j \in raced
    BY DEF IInv, FlagInv, Ours
  <2>3. CASE j # i
    BY <1>2, <1>3, <1>4, <2>1, <2>2, <2>3
  <2>4. CASE j = i
    <3>1. holds'[s] = i /\ \A r \in Slots : holds'[r] = i => r = s
      BY <1>2, <1>3, <1>4, <1>6 DEF Table
    <3>2. holds[s] = i => s \in FindInstall(i)
      BY DEF FindInstall
    <3>3. \A r \in Slots : holds[r] = i => r = s
      BY <1>2, <1>3, <1>4 DEF IInv, Table, FindInstall
    <3>4. we_set'[s] <=> (s \in FindInstall(i) /\ we_set[s]) \/ ~flagged[i]
      BY <1>4, <2>1
    <3>5. s \in FindInstall(i) => holds[s] = i
      BY DEF FindInstall
    <3> QED BY <1>2, <1>4, <2>2, <2>4, <3>1, <3>2, <3>3, <3>4, <3>5
  <2> QED BY <2>3, <2>4
<1> QED BY <1>6, <1>7, <1>8

(* Table *)
LEMMA TableStep ==
  ASSUME IInv, Next
  PROVE  Table'
<1>1. CASE Enable
  BY <1>1 DEF IInv, Table, TablesAlive, Locking, Unhooked, Enable
<1>2. CASE EnableTarget
  <2>1. active /\ pc' = pc /\ UNCHANGED <<walk, ghost>>
    BY <1>2 DEF IInv, Locking, EnableTarget
  <2>2. CASE UNCHANGED <<table, inode>>
    BY <1>2, <2>1, <2>2 DEF IInv, Table, TablesAlive, Locking, Unhooked
  <2> QED BY <1>2, <2>1, <2>2, TargetInstalls, InstallKeeps DEF IInv,
     EnableTarget
<1>3. CASE EnableDone
  BY <1>3 DEF IInv, Table, TablesAlive, Locking, Unhooked, EnableDone
<1>4. CASE ProtectCallback
  BY <1>4 DEF IInv, Table, TablesAlive, Locking, Unhooked, ProtectCallback
<1>5. CASE WorkStart
  BY <1>5 DEF IInv, Table, TablesAlive, Locking, Unhooked, WorkStart
<1>6. CASE WorkLock
  BY <1>6 DEF IInv, Table, TablesAlive, Locking, Unhooked, WorkLock
<1>7. CASE WorkTarget
  <2>1. active /\ pc' = pc /\ UNCHANGED <<walk, ghost>>
    BY <1>7 DEF IInv, Locking, WorkTarget
  <2>2. CASE UNCHANGED <<table, inode>>
    BY <1>7, <2>1, <2>2 DEF IInv, Table, TablesAlive, Locking, Unhooked
  <2> QED BY <1>7, <2>1, <2>2, TargetInstalls, InstallKeeps DEF IInv,
     WorkTarget
<1>8. CASE WorkDone
  BY <1>8 DEF IInv, Table, TablesAlive, Locking, Unhooked, WorkDone
<1>9. CASE Disable
  BY <1>9 DEF IInv, Table, TablesAlive, Locking, Unhooked, Disable
<1>10. CASE DeleteTimer
  <2>1. \A i \in Inodes : iop[i] # Orig => iop[i] >= 1
    BY Arithmetic DEF IInv, TypeOK, Slots
  <2> QED BY <1>10, <2>1 DEF IInv, Table, TablesAlive, Unhooked, DeleteTimer
<1>11. CASE CancelWork
  BY <1>11 DEF IInv, Table, TablesAlive, Locking, Unhooked, CancelWork
<1>12. CASE Restore
  <2>1. next \in Slots /\ next' = next + 1 /\ pc = "d_restore" /\ pc' = pc
        /\ UNCHANGED table /\ PutBack(next)
    BY <1>12 DEF Restore
  <2>2. \A i \in Inodes : \/ iop'[i] = iop[i] /\ iop[i] # next
                          \/ iop'[i] = Orig
    BY <2>1, ProtectionAssumption
    DEF IInv, TypeOK, Table, TablesAlive, PutBack, Orig, Slots
  <2>3. \A i \in Inodes : iop'[i] # Orig => iop'[i] >= next + 1
    BY <2>1, <2>2, Arithmetic DEF IInv, TypeOK, Table, Orig, Slots
  <2> QED BY <2>1, <2>2, <2>3 DEF IInv, TypeOK, Table, TablesAlive, Unhooked
<1>13. CASE RestoreDone
  <2>1. \A i \in Inodes : iop[i] = Orig
    BY <1>13, Arithmetic DEF IInv, TypeOK, Table, Slots, RestoreDone
  <2> QED BY <1>13, <2>1 DEF IInv, Table, TablesAlive, Unhooked, RestoreDone
<1>14. CASE RcuDone
  BY <1>14 DEF IInv, Table, TablesAlive, Locking, Unhooked, RcuDone
<1>15. CASE HooksDone
  BY <1>15 DEF IInv, Table, TablesAlive, Locking, Unhooked, HooksDone
<1>16. CASE SecondRcuDone
  BY <1>16 DEF IInv, Table, TablesAlive, Locking, Unhooked, SecondRcuDone
<1>17. CASE FreeTables
  BY <1>17 DEF IInv, Table, TablesAlive, Locking, Unhooked, FreeTables
<1>18. ASSUME NEW w \in Walkers, EnterHook(w)
      PROVE  Table'
  BY <1>18 DEF IInv, Table, TablesAlive, Locking, Unhooked, EnterHook
<1>19. ASSUME NEW w \in Walkers, LeaveHook(w)
      PROVE  Table'
  BY <1>19 DEF IInv, Table, TablesAlive, Locking, Unhooked, LeaveHook
<1>20. ASSUME NEW w \in Walkers, Return(w)
      PROVE  Table'
  BY <1>20 DEF IInv, Table, TablesAlive, Locking, Unhooked, Return
<1>21. ASSUME NEW w \in Walkers, NEW i \in Inodes,
             NEW kind \in {"perm", "attr"}, Load(w, i, kind)
      PROVE  Table'
  BY <1>21 DEF IInv, Table, TablesAlive, Locking, Unhooked, Load
<1>22. ASSUME NEW i \in Inodes, NEW v \in BOOLEAN, Chattr(i, v)
      PROVE  Table'
  BY <1>22 DEF IInv, Table, TablesAlive, Locking, Unhooked, Chattr
<1>23. ASSUME NEW t \in Targets, NEW i \in Inodes \cup {None}, Remount(t, i)
      PROVE  Table'
  BY <1>23 DEF IInv, Table, TablesAlive, Locking, Unhooked, Remount
<1>24. ASSUME NEW i \in Inodes, FsReset(i)
      PROVE  Table'
  BY <1>24 DEF IInv, Table, TablesAlive, Locking, Unhooked, FsReset
<1> QED BY <1>1, <1>2, <1>3, <1>4, <1>5, <1>6, <1>7, <1>8, <1>9, <1>10,
     <1>11, <1>12, <1>13, <1>14, <1>15, <1>16, <1>17, <1>18, <1>19, <1>20,
     <1>21, <1>22, <1>23, <1>24
  DEF Next, Protecting, Disabling, Working, Walking

(* Walks *)
LEMMA WalksStep ==
  ASSUME IInv, Next
  PROVE  Walks'
<1>1. CASE Enable
  BY <1>1 DEF IInv, Locking, Walks, HookedSafely, Unhooked, Enable, Awaited,
     KeepsSlot, Overtakable, FindInstall
<1>2. CASE EnableTarget
  <2>1. active /\ pc' = pc /\ UNCHANGED <<walk, ghost>>
    BY <1>2 DEF IInv, Locking, EnableTarget
  <2>2. CASE UNCHANGED <<table, inode>>
    BY <1>2, <2>1, <2>2 DEF IInv, Walks, HookedSafely, Locking, Unhooked,
       Awaited, KeepsSlot, Overtakable, FindInstall
  <2> QED BY <1>2, <2>1, <2>2, TargetInstalls, InstallKeeps DEF IInv,
     EnableTarget
<1>3. CASE EnableDone
  BY <1>3 DEF IInv, Locking, Walks, HookedSafely, Unhooked, EnableDone,
     Awaited, KeepsSlot, Overtakable, FindInstall
<1>4. CASE ProtectCallback
  BY <1>4 DEF IInv, Locking, Walks, HookedSafely, Unhooked, ProtectCallback,
     Awaited, KeepsSlot, Overtakable, FindInstall
<1>5. CASE WorkStart
  BY <1>5 DEF IInv, Locking, Walks, HookedSafely, Unhooked, WorkStart,
     Awaited, KeepsSlot, Overtakable, FindInstall
<1>6. CASE WorkLock
  BY <1>6 DEF IInv, Locking, Walks, HookedSafely, Unhooked, WorkLock, Awaited,
     KeepsSlot, Overtakable, FindInstall
<1>7. CASE WorkTarget
  <2>1. active /\ pc' = pc /\ UNCHANGED <<walk, ghost>>
    BY <1>7 DEF IInv, Locking, WorkTarget
  <2>2. CASE UNCHANGED <<table, inode>>
    BY <1>7, <2>1, <2>2 DEF IInv, Walks, HookedSafely, Locking, Unhooked,
       Awaited, KeepsSlot, Overtakable, FindInstall
  <2> QED BY <1>7, <2>1, <2>2, TargetInstalls, InstallKeeps DEF IInv,
     WorkTarget
<1>8. CASE WorkDone
  BY <1>8 DEF IInv, Locking, Walks, HookedSafely, Unhooked, WorkDone, Awaited,
     KeepsSlot, Overtakable, FindInstall
<1>9. CASE Disable
  BY <1>9 DEF IInv, Locking, Walks, HookedSafely, Unhooked, Disable, Awaited,
     KeepsSlot, Overtakable, FindInstall
<1>10. CASE DeleteTimer
  <2>1. \A w \in Walkers : KeepsSlot(w) => KeepsSlot(w)'
    BY <1>10, Arithmetic DEF DeleteTimer, KeepsSlot, FindInstall, Unhooked,
       Slots
  <2> QED BY <1>10, <2>1 DEF IInv, Walks, HookedSafely, DeleteTimer, Awaited,
     Overtakable, FindInstall
<1>11. CASE CancelWork
  BY <1>11 DEF IInv, Locking, Walks, HookedSafely, Unhooked, CancelWork,
     Awaited, KeepsSlot, Overtakable, FindInstall
<1>12. CASE Restore
  <2>1. /\ pc = "d_restore" /\ pc' = pc /\ next \in Slots /\ next' = next + 1
        /\ UNCHANGED <<walk, holds>> /\ PutBack(next)
    BY <1>12 DEF Restore
  <2>2. ASSUME NEW w \in Walkers, walk[w].kind = "attr", walk[w].at # "out"
        PROVE  KeepsSlot(w)'
    <3>1. walk[w].inode \in Inodes /\ walk[w].inode # None
      BY <2>2, ProtectionAssumption DEF IInv, Walks
    <3>2. PICK s \in FindInstall(walk[w].inode) : s >= next
      BY <2>1, <2>2 DEF IInv, Walks, KeepsSlot
    <3>3. holds[next] # walk[w].inode
      BY <2>1, <2>2, <3>1 DEF PutBack, InodeLocked
    <3>4. s \in Slots /\ s # next /\ s >= next + 1
      BY <2>1, <3>2, <3>3, Arithmetic DEF FindInstall, Slots
    <3>5. s \in FindInstall(walk[w].inode)'
      BY <2>1, <3>2 DEF FindInstall
    <3> QED BY <2>1, <3>4, <3>5 DEF KeepsSlot, Unhooked
  <2>3. \A w \in Walkers : KeepsSlot(w)' \/ walk[w].at # "out"
    BY <2>1 DEF KeepsSlot
  <2> QED BY <2>1, <2>2, <2>3 DEF IInv, Walks, HookedSafely, Awaited,
     Overtakable, FindInstall
<1>13. CASE RestoreDone
  <2>1. /\ pc = "d_restore" /\ pc' = "d_rcu" /\ next \notin Slots
        /\ gp' = Readers /\ UNCHANGED <<walk, holds>>
    BY <1>13 DEF RestoreDone
  <2>2. \A s \in Slots : ~ (s >= next)
    BY <2>1, Arithmetic DEF IInv, TypeOK, Table, Slots
  <2>3. \A w \in Walkers : walk[w].kind = "attr" => walk[w].at = "out"
    BY <2>1, <2>2 DEF IInv, Walks, KeepsSlot, FindInstall
  <2>4. \A w \in Walkers : Overtakable(w) \/ Awaited(w)'
    <3>1. ASSUME NEW w \in Walkers, ~Overtakable(w), walk[w].at = "loaded"
          PROVE  w \in gp'
      <4>1. walk[w].kind \in {"none", "perm", "attr"} /\ walk[w].kind # "none"
        BY <3>1 DEF IInv, TypeOK, WalkerStates, Walks
      <4> QED BY <2>1, <2>3, <3>1, <4>1 DEF Overtakable, Readers
    <3> QED BY <2>1, <3>1 DEF Awaited
  <2> QED BY <2>1, <2>3, <2>4 DEF IInv, Walks, HookedSafely, KeepsSlot,
     Overtakable, FindInstall
<1>14. CASE RcuDone
  <2>1. pc = "d_rcu" /\ pc' = "d_hooks" /\ gp = {} /\ UNCHANGED <<walk, holds>>
    BY <1>14 DEF RcuDone, GracePeriod
  <2>2. \A w \in Walkers : Awaited(w) => Awaited(w)'
    BY <2>1 DEF Awaited
  <2>3. \A w \in Walkers : KeepsSlot(w) => KeepsSlot(w)'
    BY <2>1 DEF KeepsSlot, Unhooked
  <2> QED BY <2>1, <2>2, <2>3 DEF IInv, Walks, HookedSafely, Overtakable,
     FindInstall
<1>15. CASE HooksDone
  <2>1. /\ pc = "d_hooks" /\ pc' = "d_rcu2" /\ UNCHANGED <<walk, holds>>
        /\ \A w \in Walkers : walk[w].at # "hook"
    BY <1>15 DEF HooksDone
  <2>2. \A w \in Walkers : Awaited(w) => Awaited(w)'
    BY <2>1 DEF Awaited
  <2>3. \A w \in Walkers : KeepsSlot(w) => KeepsSlot(w)'
    BY <2>1 DEF KeepsSlot, Unhooked
  <2> QED BY <2>1, <2>2, <2>3 DEF IInv, Walks, HookedSafely, Overtakable,
     FindInstall
<1>16. CASE SecondRcuDone
  BY <1>16 DEF IInv, Locking, Walks, HookedSafely, Unhooked, SecondRcuDone,
     Awaited, KeepsSlot, Overtakable, FindInstall
<1>17. CASE FreeTables
  BY <1>17 DEF IInv, Locking, Walks, HookedSafely, Unhooked, FreeTables,
     Awaited, KeepsSlot, Overtakable, FindInstall
<1>18. ASSUME NEW w \in Walkers, EnterHook(w)
      PROVE  Walks'
  <2>1. PICK s \in Slots \cup {None} :
          /\ FindInstall(walk[w].inode) # {} => s \in FindInstall(walk[w].inode)
          /\ walk' = [walk EXCEPT ![w].at = "hook", ![w].ins = s]
    BY <1>18 DEF FindInstall, EnterHook
  <2>2. /\ walk[w].at = "loaded" /\ UNCHANGED <<pc, next, holds>>
        /\ gp' = gp \ {w}
    BY <1>18 DEF EnterHook
  <2>3. /\ walk'[w].at = "hook" /\ walk'[w].ins = s
        /\ walk'[w].kind = walk[w].kind /\ walk'[w].rcu = walk[w].rcu
        /\ walk'[w].inode = walk[w].inode
        /\ \A v \in Walkers : v # w => walk'[v] = walk[v]
    BY <2>1 DEF IInv, TypeOK, WalkerStates
  <2>4. walk[w].inode \in Inodes /\ walk[w].kind # "none"
    BY <2>2 DEF IInv, Walks
  <2>5. ~Overtakable(w) => s \in FindInstall(walk[w].inode) /\ Awaited(w)'
    <3>1. SUFFICES ASSUME ~Overtakable(w)
                   PROVE  s \in FindInstall(walk[w].inode) /\ Awaited(w)'
      OBVIOUS
    <3>2. walk[w].table \in FindInstall(walk[w].inode)
      BY <2>2, <3>1 DEF IInv, Walks, HookedSafely, FindInstall
    <3>3. pc \notin {"d_hooks", "d_rcu2", "d_free", "off"}
      BY <2>2, <3>1 DEF IInv, Walks, Awaited
    <3> QED BY <2>1, <2>2, <2>3, <3>2, <3>3 DEF Awaited
  <2>6. ASSUME NEW v \in Walkers, v # w
        PROVE  /\ Awaited(v) => Awaited(v)'
               /\ KeepsSlot(v) => KeepsSlot(v)'
    BY <2>2, <2>3, <2>6 DEF Awaited, KeepsSlot, FindInstall
  <2>7. KeepsSlot(w) => KeepsSlot(w)'
    BY <2>2, <2>3 DEF KeepsSlot, FindInstall
  <2>8. HookedSafely'
    BY <2>2, <2>3, <2>5 DEF IInv, Walks, HookedSafely, Overtakable, FindInstall
  <2> QED BY <2>2, <2>3, <2>4, <2>5, <2>6, <2>7, <2>8
          DEF IInv, Walks, Overtakable
<1>19. ASSUME NEW w \in Walkers, LeaveHook(w)
      PROVE  Walks'
  <2>1. walk' = [walk EXCEPT ![w].at = "leaving"]
    BY <1>19 DEF LeaveHook
  <2> QED BY <1>19, <2>1 DEF IInv, TypeOK, WalkerStates, Walks, HookedSafely,
     LeaveHook, Awaited, KeepsSlot, Overtakable, FindInstall
<1>20. ASSUME NEW w \in Walkers, Return(w)
      PROVE  Walks'
  BY <1>20 DEF IInv, TypeOK, Walks, HookedSafely, Outside, Return, Awaited,
     KeepsSlot, Overtakable, FindInstall
<1>21. ASSUME NEW w \in Walkers, NEW i \in Inodes,
             NEW kind \in {"perm", "attr"}, Load(w, i, kind)
      PROVE  Walks'
  <2>1. pc \notin Unhooked /\ iop[i] \in Slots /\ holds[iop[i]] = i
    BY <1>21 DEF IInv, TypeOK, Table, TablesAlive, Load
  <2>2. walk' = [walk EXCEPT ![w] =
          [at |-> "loaded", inode |-> i, table |-> iop[i], kind |-> kind,
           rcu |-> walk'[w].rcu, ins |-> None]]
    BY <1>21 DEF Load
  <2>3. /\ walk'[w].at = "loaded" /\ walk'[w].inode = i
        /\ walk'[w].table = iop[i] /\ walk'[w].kind = kind
        /\ \A v \in Walkers : v # w => walk'[v] = walk[v]
        /\ UNCHANGED <<pc, next, gp, holds>>
    BY <1>21, <2>2 DEF IInv, TypeOK, Load
  <2>4. Awaited(w)'
    BY <2>1, <2>3 DEF Awaited, Unhooked
  <2>5. KeepsSlot(w)'
    BY <1>21, <2>1, <2>3 DEF IInv, Table, KeepsSlot, FindInstall, Load, Unhooked
  <2>6. ASSUME NEW v \in Walkers, v # w
        PROVE  /\ Awaited(v) => Awaited(v)'
               /\ KeepsSlot(v) => KeepsSlot(v)'
    BY <2>3, <2>6 DEF Awaited, KeepsSlot, FindInstall
  <2>7. HookedSafely'
    BY <2>1, <2>3 DEF IInv, Walks, HookedSafely, Overtakable, FindInstall
  <2> QED BY <2>1, <2>3, <2>4, <2>5, <2>6, <2>7 DEF IInv, Walks, Overtakable
<1>22. ASSUME NEW i \in Inodes, NEW v \in BOOLEAN, Chattr(i, v)
      PROVE  Walks'
  BY <1>22 DEF IInv, Locking, Walks, HookedSafely, Unhooked, Chattr, Awaited,
     KeepsSlot, Overtakable, FindInstall
<1>23. ASSUME NEW t \in Targets, NEW i \in Inodes \cup {None}, Remount(t, i)
      PROVE  Walks'
  BY <1>23 DEF IInv, Locking, Walks, HookedSafely, Unhooked, Remount, Awaited,
     KeepsSlot, Overtakable, FindInstall
<1>24. ASSUME NEW i \in Inodes, FsReset(i)
      PROVE  Walks'
  BY <1>24 DEF IInv, Locking, Walks, HookedSafely, Unhooked, FsReset, Awaited,
     KeepsSlot, Overtakable, FindInstall
<1> QED BY <1>1, <1>2, <1>3, <1>4, <1>5, <1>6, <1>7, <1>8, <1>9, <1>10,
     <1>11, <1>12, <1>13, <1>14, <1>15, <1>16, <1>17, <1>18, <1>19, <1>20,
     <1>21, <1>22, <1>23, <1>24
  DEF Next, Protecting, Disabling, Working, Walking

(* FlagInv *)
LEMMA FlagStep ==
  ASSUME IInv, Next
  PROVE  FlagInv'
<1>1. CASE Enable
  BY <1>1 DEF IInv, Locking, FlagInv, Ours, Unhooked, Enable
<1>2. CASE EnableTarget
  <2>1. active /\ pc' = pc /\ UNCHANGED <<walk, ghost>>
    BY <1>2 DEF IInv, Locking, EnableTarget
  <2>2. CASE UNCHANGED <<table, inode>>
    BY <1>2, <2>1, <2>2 DEF IInv, FlagInv, Ours, Locking, Unhooked
  <2> QED BY <1>2, <2>1, <2>2, TargetInstalls, InstallKeeps DEF IInv,
     EnableTarget
<1>3. CASE EnableDone
  BY <1>3 DEF IInv, Locking, FlagInv, Ours, Unhooked, EnableDone
<1>4. CASE ProtectCallback
  BY <1>4 DEF IInv, Locking, FlagInv, Ours, Unhooked, ProtectCallback
<1>5. CASE WorkStart
  BY <1>5 DEF IInv, Locking, FlagInv, Ours, Unhooked, WorkStart
<1>6. CASE WorkLock
  BY <1>6 DEF IInv, Locking, FlagInv, Ours, Unhooked, WorkLock
<1>7. CASE WorkTarget
  <2>1. active /\ pc' = pc /\ UNCHANGED <<walk, ghost>>
    BY <1>7 DEF IInv, Locking, WorkTarget
  <2>2. CASE UNCHANGED <<table, inode>>
    BY <1>7, <2>1, <2>2 DEF IInv, FlagInv, Ours, Locking, Unhooked
  <2> QED BY <1>7, <2>1, <2>2, TargetInstalls, InstallKeeps DEF IInv,
     WorkTarget
<1>8. CASE WorkDone
  BY <1>8 DEF IInv, Locking, FlagInv, Ours, Unhooked, WorkDone
<1>9. CASE Disable
  BY <1>9 DEF IInv, Locking, FlagInv, Ours, Unhooked, Disable
<1>10. CASE DeleteTimer
  BY <1>10, Arithmetic DEF IInv, FlagInv, Ours, Unhooked, Slots, DeleteTimer
<1>11. CASE CancelWork
  BY <1>11 DEF IInv, Locking, FlagInv, Ours, Unhooked, CancelWork
<1>12. CASE Restore
  <2>1. next \in Slots /\ next' = next + 1 /\ pc = "d_restore" /\ pc' = pc
        /\ UNCHANGED <<table, ghost>> /\ PutBack(next)
    BY <1>12 DEF Restore
  <2>2. \A i \in Inodes :
          \/ flagged'[i] = flagged[i] /\ ~(holds[next] = i /\ we_set[next])
          \/ ~flagged'[i] /\ holds[next] = i /\ we_set[next]
    BY <2>1, ProtectionAssumption DEF IInv, TypeOK, PutBack
  <2> SUFFICES ASSUME NEW i \in Inodes
               PROVE  /\ flagged'[i] /\ ~own[i]
                           => \E s \in Slots : /\ holds[s] = i /\ we_set[s]
                                              /\ s >= next + 1
                      /\ own[i] /\ ~flagged'[i] => i \in raced
                      /\ own[i] => \A s \in Slots :
                                     holds[s] = i /\ we_set[s] => i \in raced
    BY <2>1 DEF FlagInv, Ours, Unhooked
  <2>3. /\ flagged[i] /\ ~own[i]
             => \E s \in Slots : holds[s] = i /\ we_set[s] /\ s >= next
        /\ own[i] /\ ~flagged[i] => i \in raced
        /\ own[i] => \A s \in Slots : holds[s] = i /\ we_set[s] => i \in raced
    BY <2>1 DEF IInv, FlagInv, Ours
  <2>4. \A s \in Slots : s >= next /\ s # next => s >= next + 1
    BY <2>1, Arithmetic DEF Slots
  <2> QED BY <2>1, <2>2, <2>3, <2>4
<1>13. CASE RestoreDone
  <2>1. /\ pc = "d_restore" /\ next \notin Slots /\ pc' = "d_rcu"
        /\ UNCHANGED <<table, inode, ghost>>
    BY <1>13 DEF RestoreDone
  <2>2. \A s \in Slots : ~ (s >= next)
    BY <2>1, Arithmetic DEF IInv, TypeOK, Table, Slots
  <2>3. \A i \in Inodes : ~ (flagged[i] /\ ~own[i])
    BY <2>1, <2>2 DEF IInv, FlagInv, Ours
  <2> QED BY <2>1, <2>3 DEF IInv, FlagInv
<1>14. CASE RcuDone
  BY <1>14 DEF IInv, Locking, FlagInv, Ours, Unhooked, RcuDone
<1>15. CASE HooksDone
  BY <1>15 DEF IInv, Locking, FlagInv, Ours, Unhooked, HooksDone
<1>16. CASE SecondRcuDone
  BY <1>16 DEF IInv, Locking, FlagInv, Ours, Unhooked, SecondRcuDone
<1>17. CASE FreeTables
  BY <1>17 DEF IInv, Locking, FlagInv, Ours, Unhooked, FreeTables
<1>18. ASSUME NEW w \in Walkers, EnterHook(w)
      PROVE  FlagInv'
  BY <1>18 DEF IInv, Locking, FlagInv, Ours, Unhooked, EnterHook
<1>19. ASSUME NEW w \in Walkers, LeaveHook(w)
      PROVE  FlagInv'
  <2>1. UNCHANGED <<pc, next, table>>
    BY <1>19 DEF LeaveHook
  <2>2. CASE UNCHANGED <<inode, ghost>>
    BY <2>1, <2>2 DEF IInv, FlagInv, Ours
  <2>3. CASE \E v \in BOOLEAN :
               /\ flagged' = [flagged EXCEPT ![walk[w].inode] = v]
               /\ own' = [own EXCEPT ![walk[w].inode] = v]
               /\ raced' = raced \cup {walk[w].inode}
    <3>1. \A j \in Inodes :
            \/ flagged'[j] = flagged[j] /\ own'[j] = own[j]
            \/ flagged'[j] = own'[j] /\ j \in raced'
      BY <2>3 DEF IInv, TypeOK
    <3>2. raced \subseteq raced'
      BY <2>3
    <3> QED BY <2>1, <3>1, <3>2 DEF IInv, FlagInv, Ours
  <2> QED BY <1>19, <2>2, <2>3 DEF LeaveHook
<1>20. ASSUME NEW w \in Walkers, Return(w)
      PROVE  FlagInv'
  BY <1>20 DEF IInv, Locking, FlagInv, Ours, Unhooked, Return
<1>21. ASSUME NEW w \in Walkers, NEW i \in Inodes,
             NEW kind \in {"perm", "attr"}, Load(w, i, kind)
      PROVE  FlagInv'
  BY <1>21 DEF IInv, Locking, FlagInv, Ours, Unhooked, Load
<1>22. ASSUME NEW i \in Inodes, NEW v \in BOOLEAN, Chattr(i, v)
      PROVE  FlagInv'
  <2>1. UNCHANGED <<pc, next, table>>
    BY <1>22 DEF Chattr
  <2>2. \A j \in Inodes :
          \/ /\ flagged'[j] = flagged[j] /\ own'[j] = own[j]
             /\ j \in raced => j \in raced'
          \/ /\ flagged'[j] = own'[j]
             /\ FindInstall(j) # {} => j \in raced'
    BY <1>22 DEF IInv, TypeOK, Chattr
  <2> QED BY <2>1, <2>2 DEF IInv, FlagInv, Ours, FindInstall
<1>23. ASSUME NEW t \in Targets, NEW i \in Inodes \cup {None}, Remount(t, i)
      PROVE  FlagInv'
  BY <1>23 DEF IInv, Locking, FlagInv, Ours, Unhooked, Remount
<1>24. ASSUME NEW i \in Inodes, FsReset(i)
      PROVE  FlagInv'
  BY <1>24 DEF IInv, Locking, FlagInv, Ours, Unhooked, FsReset
<1> QED BY <1>1, <1>2, <1>3, <1>4, <1>5, <1>6, <1>7, <1>8, <1>9, <1>10,
     <1>11, <1>12, <1>13, <1>14, <1>15, <1>16, <1>17, <1>18, <1>19, <1>20,
     <1>21, <1>22, <1>23, <1>24
  DEF Next, Protecting, Disabling, Working, Walking

-----------------------------------------------------------------------------
LEMMA InitIInv == Init => IInv
<1> SUFFICES ASSUME Init PROVE IInv
  OBVIOUS
<1>1. TypeOK
  <2>1. Outside \in WalkerStates
    BY DEF WalkerStates, Outside, Orig
  <2>2. walk \in [Walkers -> WalkerStates]
    BY <2>1 DEF Init
  <2>3. TableTypes
    BY DEF Init, TableTypes, Orig
  <2>4. /\ at \in [Targets -> Inodes \cup {None}] /\ moves \in 0..MaxMoves
        /\ own \in [Inodes -> BOOLEAN] /\ raced \subseteq Inodes
    BY Arithmetic DEF Init
  <2>5. /\ pc \in Stages /\ next \in Nat /\ workNext \in Nat
        /\ gp \subseteq Walkers
        /\ active \in BOOLEAN /\ holder \in {"none", "caller", "work"}
        /\ timer \in BOOLEAN
        /\ work \in {"idle", "queued", "waiting", "running"}
    BY DEF Init, Stages
  <2> QED BY <2>2, <2>3, <2>4, <2>5, Zenon DEF TypeOK, TableTypes
<1>2. Locking /\ Table
  BY DEF Init, Locking, Table, TablesAlive, Unhooked, Orig
<1>3. Walks
  BY DEF Init, Walks, HookedSafely, Outside, Awaited, KeepsSlot, Overtakable,
     FindInstall
<1>4. FlagInv
  BY DEF Init, FlagInv, Ours
<1> QED BY <1>1, <1>2, <1>3, <1>4 DEF IInv

LEMMA NextIInv ==
  ASSUME IInv, [Next]_vars
  PROVE  IInv'
<1>1. CASE Next
  BY <1>1, TypeStep, LockingStep, TableStep, WalksStep, FlagStep DEF IInv
<1>2. CASE UNCHANGED vars
  BY <1>2 DEF IInv, TypeOK, Locking, Table, TablesAlive, Walks, HookedSafely,
     FlagInv, Ours, Awaited, KeepsSlot, Overtakable, FindInstall
<1> QED BY <1>1, <1>2

(* The inductive invariant holds. *)
THEOREM Invariance == Spec => []IInv
<1>1. Init => IInv
  BY InitIInv
<1>2. IInv /\ [Next]_vars => IInv'
  BY NextIInv
<1> QED BY <1>1, <1>2, PTL DEF Spec

(* Every variable keeps its type. *)
THEOREM TypeCorrect == Spec => []TypeOK
<1>1. IInv => TypeOK
  BY DEF IInv
<1> QED BY <1>1, Invariance, PTL

(* Only a permission check that was preempted outside rcu_read_lock can     *)
(* meet a freed table or an emptied slot: every other call finds its own.   *)
THEOREM HooksFindTheirSlot == Spec => []HookedSafely
<1>1. IInv => HookedSafely
  BY DEF IInv, Walks, Awaited, KeepsSlot, Overtakable, FindInstall
<1> QED BY <1>1, Invariance, PTL

(* No inode points at custom operations that were freed, or at another's.   *)
THEOREM NoFreedTable == Spec => []TablesAlive
<1>1. IInv => TablesAlive
  BY DEF IInv, Table
<1> QED BY <1>1, Invariance, PTL

(* When protection_disable has returned, no slot, hook, timer or work of    *)
(* the protection is left, and nobody that is waited for is inside a hook.  *)
THEOREM NothingLeft == Spec => []OffMeansOff
<1>1. ASSUME IInv, pc = "off", NEW w \in Walkers
      PROVE  Overtakable(w) \/ walk[w].at \in {"out", "leaving"}
  <2>1. walk[w].at \in {"out", "loaded", "hook", "leaving"}
    BY <1>1 DEF IInv, TypeOK, WalkerStates
  <2> QED BY <1>1, <2>1 DEF IInv, Walks, Awaited
<1>2. IInv => OffMeansOff
  BY <1>1 DEF IInv, Locking, Table, OffMeansOff, Unhooked
<1> QED BY <1>2, Invariance, PTL

(* When the protection is off every file has the flag its owner gave it,    *)
(* but for those that were set while their inode had a slot.                *)
THEOREM OwnersFlags == Spec => []FlagsRestored
<1>1. IInv => FlagsRestored
  BY DEF IInv, FlagInv, Ours, Unhooked, FlagsRestored
<1> QED BY <1>1, Invariance, PTL
=============================================================================
