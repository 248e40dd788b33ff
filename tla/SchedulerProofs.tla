---------------------------- MODULE SchedulerProofs ----------------------------
(***************************************************************************)
(* The invariants of Scheduler hold for every set of schedules, length of   *)
(* day, minute and week, lag and number of faults.  IInv is inductive: one  *)
(* lemma for each of its parts, and in it one step per action.              *)
(***************************************************************************)
EXTENDS Scheduler, WindowsProofs, WellFoundedInduction

USE DEF kernel, records, kept, files, tracker, seen, starts, delay, ghosts

(* TypeOK in parts that the provers take one at a time.                     *)
Flags ==
  /\ loaded \in BOOLEAN /\ block.on \in BOOLEAN /\ block.pgp \in BOOLEAN
  /\ block.on => loaded

Numbers ==
  now \in 0..Horizon /\ block.left \in Nat /\ lastRem \in Nat /\ lag \in 0..Lag

Plans == plan \in Drafts \cup {<<>>} /\ Valid(plan)

Phases ==
  /\ editing \in {"no", "schedule", "state", "state only", "history"}
  /\ daemon \in {"down", "asleep", "enable", "mark", "observe", "forget"}
  /\ again \subseteq begun

(* The other values: a block has all its fields.                            *)
BlockShape ==
  /\ block = [on |-> block.on, pgp |-> block.pgp, left |-> block.left,
              win |-> block.win, keyed |-> block.keyed, began |-> block.began,
              seen |-> block.seen]
  /\ block.seen \in Int /\ block.seen <= now

ChosenShape ==
  chosen.mins \in Nat /\ chosen.at \in Int /\ chosen.at <= now

RecordShape ==
  /\ log \in Nat \cup {Never} /\ lastSaved \in Nat \cup {Never}
  /\ watched \in Nat \cup {Never}
  /\ open.start \in Nat \cup {Never} /\ open.end \in Int
  /\ openFile.start \in Nat \cup {Never} /\ openFile.end \in Int

Shapes == BlockShape /\ ChosenShape /\ RecordShape

(* What is on the disk is a schedule, a window and records of the past.     *)
DiskShape ==
  disk = [plan |-> disk.plan, last |-> disk.last, open |-> disk.open, log |-> disk.log]

OnDisk ==
  /\ DiskShape
  /\ disk.plan \in Drafts \cup {<<>>} /\ Valid(disk.plan)
  /\ disk.log \in Nat \cup {Never} /\ (disk.log < now \/ disk.log = Never)
  /\ disk.open.start \in Nat \cup {Never} /\ disk.open.end \in Int
  /\ disk.open # NoRecord => disk.open.start \in 0..now

(* InProgressKept: the tracker knows what it has seen, and its file does.   *)
Kept ==
  watched # Never =>
    /\ openFile.start = watched
    /\ daemon # "forget" /\ (daemon # "down" => open.start = watched)

(* RecordedOnce: what is open began after the last record, unless that is   *)
(* still to be forgotten.                                                   *)
Times ==
  /\ log < now \/ log = Never
  /\ open # NoRecord => open.start \in 0..now
  /\ openFile # NoRecord => openFile.start \in 0..now
  /\ daemon \in {"enable", "mark", "observe"} => lag > 0
  /\ daemon = "down" => lastRem = 0
  /\ open # NoRecord /\ lastRem # 0 /\ lag > 0 => open.start < now

Forgotten ==
  ~cut /\ daemon # "forget" =>
    /\ open # NoRecord => open.start \notin {log, disk.log}
    /\ openFile # NoRecord => openFile.start \notin {log, disk.log}

(* CoversWindow: what is chosen, and then runs, is the active window of the *)
(* time it was chosen at, rounded up.                                       *)
Chosen ==
  daemon \in {"enable", "mark"} =>
    /\ chosen.win.key # NoKey
    /\ \/ /\ chosen.win = ActiveWindow(plan, chosen.at) /\ chosen.win # NoWindow
          /\ chosen.win.end \in Int
          /\ chosen.mins * Minute >= chosen.win.end - chosen.at
       \/ begun \subseteq excused /\ chosen.win.key \in excused

Covers ==
  block.on /\ block.win # NoWindow =>
    /\ block.win.key \in begun
    /\ block.win.key \notin excused =>
         /\ block.win = ActiveWindow(plan, block.seen)
         /\ block.win.end \in Int
         /\ now + block.left >= block.win.end

(* StartedOnce: a window that was begun is the one marked last, or another  *)
(* was active after it: the first does not become active again.             *)
Judged == IF daemon \in {"enable", "mark"} THEN chosen.at ELSE now

Displaced(k, t1) == \E m : m # k /\ Was(plan, m, t1)

Marked(k, t0) ==
  \E t1 \in Int : /\ t0 <= t1 /\ t1 <= Judged
                  /\ Was(plan, last, t1) \/ Displaced(k, t1)

Begun ==
  \A k \in begun \ excused :
    \E t0 \in Int :
      /\ t0 <= Judged /\ Was(plan, k, t0)
      /\ Marked(k, t0) \/ (daemon = "mark" /\ k = chosen.win.key)

FirstStart ==
  daemon = "enable" => chosen.win.key \notin begun \ excused

IInv ==
  /\ Flags /\ Numbers /\ Plans /\ Phases /\ Shapes
  /\ Kept /\ Times /\ OnDisk /\ Forgotten
  /\ Chosen /\ Covers
  /\ Begun /\ FirstStart /\ StartedOnce

-----------------------------------------------------------------------------
(* What the actions have in common. *)

Rewrite ==
  \E new, rest :
    /\ new \in Drafts \cup {<<>>} /\ Valid(new)
    /\ rest \in {"no", "state", "state only"}
    /\ WriteSchedule(new, rest)

(* Every command that writes the schedule writes a valid one. *)
LEMMA Rewrites ==
  ASSUME ScheduleSet \/ ScheduleClear \/ ResetSchedule
  PROVE  Rewrite
<1>1. Valid(<<>>)
  BY DEF Valid
<1>2. CASE ScheduleSet
  BY <1>2 DEF ScheduleSet, Rewrite
<1>3. CASE ScheduleClear
  BY <1>1, <1>3 DEF ScheduleClear, Rewrite
<1>4. CASE ResetSchedule
  BY <1>1, <1>4 DEF ResetSchedule, Rewrite
<1> QED BY <1>2, <1>3, <1>4

(* The parts are TypeOK. *)
LEMMA TypeParts == TypeOK <=> Flags /\ Numbers /\ Plans /\ Phases
BY Zenon DEF TypeOK, Flags, Numbers, Plans, Phases

(* A sleep or a loss of power takes no negative time, nor does a block by   *)
(* hand, and lists have numbered entries.                                   *)
LEMMA ConstantTypes ==
  /\ Minute \in Nat \ {0} /\ Lag \in Nat \ {0} /\ Horizon \in Nat
  /\ \A n \in Gaps : n \in Nat
  /\ \A m \in UserBlocks : m * Minute \in Nat
BY WindowsAssumption, SchedulerAssumption

LEMMA NowType ==
  ASSUME Numbers
  PROVE  now \in Nat /\ lag \in Nat /\ block.left \in Nat /\ lastRem \in Nat
BY ConstantTypes DEF Numbers

LEMMA PlanType ==
  ASSUME Plans
  PROVE  DOMAIN plan \subseteq Int
BY SchedulerAssumption DEF Plans

(* What is there when no block runs and when the daemon has seen none. *)
LEMMA NoBlockIs ==
  /\ NoBlock.on = FALSE /\ NoBlock.pgp = FALSE /\ NoBlock.left = 0
  /\ NoBlock.seen = 0 /\ NoBlock.win = NoWindow
BY DEF NoBlock

LEMMA NoRecordIs == NoRecord.start = -1 /\ NoRecord.end = -1 /\ Never = -1
BY DEF NoRecord, Never

LEMMA NoStartIs == NoStart.mins = 0 /\ NoStart.at = 0
BY DEF NoStart

LEMMA LogType ==
  ASSUME RecordShape
  PROVE  log \in Int
BY NoRecordIs DEF RecordShape

(* The minutes that are started cover the window, and no window is over.    *)
LEMMA MinutesCover ==
  ASSUME NEW e \in Int, NEW t \in Int, t < e
  PROVE  /\ (e - t + Minute - 1) \div Minute \in Nat
         /\ ((e - t + Minute - 1) \div Minute) * Minute >= e - t
<1> DEFINE x == e - t + Minute - 1
           q == x \div Minute
<1>1. Minute \in Nat \ {0} /\ x \in Int /\ x >= Minute
  BY ConstantTypes
<1>2. q \in Int /\ q * Minute <= x /\ x < (q + 1) * Minute
  BY <1>1, DivBounds
<1>3. (q + 1) * Minute = q * Minute + Minute /\ q * Minute \in Int
  BY <1>1, <1>2
<1>4. q * Minute >= e - t
  <2> HIDE DEF q
  <2> QED BY <1>1, <1>2, <1>3
<1>5. q >= 0
  <2>1. 0 * Minute < (q + 1) * Minute
    BY <1>1, <1>2, <1>3
  <2>2. 0 < q + 1
    <3> HIDE DEF q
    <3> QED BY <1>1, <1>2, <2>1, DayOrder
  <2> QED BY <1>2, <2>2
<1> QED BY <1>2, <1>4, <1>5

(* What is on the disk is what was there, or what the step wrote, or less.  *)
Reaches ==
  /\ disk'.plan \in {disk.plan, plan', <<>>}
  /\ disk'.last \in {disk.last, last', NoKey}
  /\ disk'.open \in {disk.open, openFile', NoRecord}
  /\ disk'.log \in {disk.log, log'}

LEMMA DiskStep ==
  ASSUME DiskShape, [Next]_vars
  PROVE  DiskShape' /\ Reaches
<1>1. CASE Mark
  BY <1>1 DEF Mark, Written, DiskShape, Reaches
<1>2. CASE Rewrite
  BY <1>2 DEF Rewrite, WriteSchedule, Written, DiskShape, Reaches
<1>3. CASE ResetState
  BY <1>3 DEF ResetState, Written, DiskShape, Reaches
<1>4. CASE ResetHistory
  <2>1. PICK half \in {[disk EXCEPT !.log = Never], [disk EXCEPT !.open = NoRecord]} :
          Written([disk EXCEPT !.log = Never, !.open = NoRecord], half)
    BY <1>4 DEF ResetHistory
  <2> QED BY <1>4, <2>1 DEF ResetHistory, Written, DiskShape, Reaches
<1>5. CASE Forget
  BY <1>5 DEF Forget, ForgetWith, Written, DiskShape, Reaches
<1>6. CASE Observe
  <2>1. CASE ObserveOn(ModuleState)
    <3>1. \/ disk' = disk
          \/ Written([disk EXCEPT !.open = openFile'], [disk EXCEPT !.open = NoRecord])
      BY <2>1 DEF ObserveOn, SaveOpen
    <3> QED BY <1>6, <3>1 DEF Observe, Written, DiskShape, Reaches
  <2>2. CASE Record(ModuleState)
    BY <1>6, <2>2 DEF Observe, Record, Written, DiskShape, Reaches
  <2>3. CASE NothingToRecord(ModuleState)
    BY <1>6, <2>3 DEF Observe, NothingToRecord, DiskShape, Reaches
  <2> QED BY <1>6, <2>1, <2>2, <2>3 DEF Observe
<1>7. CASE \/ (\E m \in UserBlocks, pgp \in BOOLEAN : StartByHand(m, pgp))
           \/ Rmmod \/ EditCheck \/ DaemonKilled \/ \E n \in Gaps : Suspend(n)
  <2>1. Event /\ UNCHANGED <<plan, last, openFile, log>>
    BY <1>7 DEF StartByHand, Rmmod, EditCheck, DaemonKilled, Suspend
  <2> QED BY <2>1 DEF Event, DiskShape, Reaches
<1>8. CASE \/ Wake \/ EnableCmd \/ DaemonStarts \/ EndByHand \/ Modprobe
           \/ Expire \/ Advance \/ (\E n \in Gaps : PowerLoss(n))
           \/ UNCHANGED vars
  <2>1. UNCHANGED disk
    BY <1>8 DEF Wake, EnableCmd, DaemonStarts, EndByHand, Modprobe, Expire,
       Advance, PowerLoss, vars
  <2> QED BY <2>1 DEF DiskShape, Reaches
<1> QED BY <1>1, <1>2, <1>3, <1>4, <1>5, <1>6, <1>7, <1>8, Rewrites
  DEF Next, Daemon

(* Time goes forward. *)
LEMMA NowGrows ==
  ASSUME Numbers, [Next]_vars
  PROVE  now' \in Nat /\ now <= now'
<1>1. CASE \/ Advance \/ \E n \in Gaps : Suspend(n) \/ PowerLoss(n)
  BY <1>1, NowType, ConstantTypes DEF Advance, Suspend, PowerLoss
<1>2. CASE UNCHANGED now
  BY <1>2, NowType
<1>3. CASE \/ Wake \/ EnableCmd \/ Mark \/ Observe \/ Forget \/ DaemonStarts
           \/ DaemonKilled
           \/ (\E m \in UserBlocks, pgp \in BOOLEAN : StartByHand(m, pgp))
           \/ EndByHand \/ Rmmod \/ Modprobe \/ EditCheck \/ Rewrite
           \/ ResetState \/ ResetHistory \/ Expire
  BY <1>2, <1>3 DEF Wake, EnableCmd, Mark, Observe, Forget, ForgetWith,
     DaemonStarts, DaemonKilled, StartByHand, EndByHand, Rmmod, Modprobe,
     EditCheck, Rewrite, WriteSchedule, ResetState, ResetHistory, Expire
<1> QED BY <1>1, <1>2, <1>3, Rewrites DEF Next, Daemon, vars

(* After a loss of power the files are what was on the disk, and a block    *)
(* that was not lost has as much time left as before, or more.              *)
LEMMA AfterLoss ==
  ASSUME Numbers, BlockShape, NEW n \in Gaps, PowerLoss(n)
  PROVE  /\ now \in Nat /\ now' \in Nat /\ now <= now' /\ daemon' = "down"
         /\ plan' = disk.plan /\ last' = disk.last
         /\ openFile' = disk.open /\ log' = disk.log
         /\ open' = NoRecord /\ lastRem' = 0 /\ chosen' = NoStart
         /\ UNCHANGED <<disk, begun, again, lifted>> /\ excused \subseteq excused'
         /\ plan' = plan \/ begun \subseteq excused'
         /\ \/ block' = NoBlock /\ ~block.pgp
            \/ /\ block' = [block EXCEPT !.left = block'.left]
               /\ block'.on = block.on /\ block'.pgp = block.pgp
               /\ block'.win = block.win /\ block'.seen = block.seen
               /\ block'.left \in Nat /\ block.left <= block'.left
<1>1. /\ now \in Nat /\ now' \in Nat /\ now <= now'
  BY NowType, ConstantTypes DEF PowerLoss
<1>2. \/ block' = NoBlock /\ ~block.pgp
      \/ /\ block' = [block EXCEPT !.left = block'.left]
         /\ block'.on = block.on /\ block'.pgp = block.pgp
         /\ block'.win = block.win /\ block'.seen = block.seen
         /\ block'.left \in Nat /\ block.left <= block'.left
  <2>1. CASE block.pgp
    <3>1. PICK unsaved \in 0..Minute :
            block' = [block EXCEPT !.left = block.left + unsaved]
      BY <2>1 DEF PowerLoss
    <3>2. block.left \in Nat /\ unsaved \in Nat
      BY NowType, ConstantTypes
    <3> QED BY <3>1, <3>2 DEF BlockShape
  <2>2. CASE ~block.pgp
    BY <2>2 DEF PowerLoss
  <2> QED BY <2>1, <2>2
<1>3. /\ plan' = disk.plan /\ last' = disk.last
      /\ openFile' = disk.open /\ log' = disk.log
      /\ UNCHANGED <<disk, begun, again, lifted>>
  BY DEF PowerLoss
<1>4. /\ daemon' = "down" /\ open' = NoRecord /\ lastRem' = 0 /\ chosen' = NoStart
      /\ excused \cup MarksLost \subseteq excused'
  BY DEF PowerLoss, Lose
<1>5. plan' = plan \/ begun \subseteq excused'
  BY <1>3, <1>4 DEF MarksLost
<1> QED BY <1>1, <1>2, <1>3, <1>4, <1>5

-----------------------------------------------------------------------------
(* A block runs only while the module is there.                             *)
LEMMA FlagsStep ==
  ASSUME Flags, Numbers, Shapes, [Next]_vars
  PROVE  Flags'
<1>1. CASE EnableCmd
  <2>1. CASE UNCHANGED block
    BY <1>1, <2>1 DEF EnableCmd, Flags
  <2>2. CASE block' # block
    <3>1. /\ loaded /\ loaded' = loaded
          /\ block'.on = TRUE /\ block'.pgp = TRUE
      BY <1>1, <2>2 DEF EnableCmd
    <3> QED BY Zenon, <3>1 DEF Flags
  <2> QED BY <2>1, <2>2
<1>2. CASE \E m \in UserBlocks, pgp \in BOOLEAN : StartByHand(m, pgp)
  <2>1. PICK m \in UserBlocks, pgp \in BOOLEAN : StartByHand(m, pgp)
    BY <1>2
  <2>2. loaded /\ loaded' = loaded /\ block'.on = TRUE /\ block'.pgp = pgp
    BY <2>1 DEF StartByHand
  <2> QED BY Zenon, <2>2 DEF Flags
<1>3. CASE \/ Rmmod \/ Modprobe
  <2>1. loaded' \in BOOLEAN /\ ~block.on /\ UNCHANGED block
    BY <1>3 DEF Rmmod, Modprobe, Flags
  <2> QED BY Zenon, <2>1 DEF Flags
<1>4. CASE \/ EndByHand \/ Expire
  <2>1. UNCHANGED loaded /\ block' = NoBlock
    BY <1>4 DEF EndByHand, Expire
  <2> QED BY Zenon, <2>1, NoBlockIs DEF Flags
<1>5. CASE \/ Advance \/ \E n \in Gaps : Suspend(n)
  <2>1. block'.on = block.on /\ block'.pgp = block.pgp /\ loaded' = loaded
    BY <1>5 DEF Advance, Suspend, Shapes, BlockShape
  <2> QED BY Zenon, <2>1 DEF Flags
<1>6. CASE \E n \in Gaps : PowerLoss(n)
  <2>1. loaded' = TRUE
    BY <1>6 DEF PowerLoss
  <2>2. block' = NoBlock \/ (block'.on = block.on /\ block'.pgp = block.pgp)
    BY <1>6, AfterLoss DEF Shapes
  <2> QED BY Zenon, <2>1, <2>2, NoBlockIs DEF Flags
<1>7. CASE \/ Wake \/ Mark \/ Observe \/ Forget \/ DaemonStarts
           \/ DaemonKilled \/ EditCheck \/ Rewrite \/ ResetState
           \/ ResetHistory \/ UNCHANGED vars
  <2>1. UNCHANGED kernel
    BY <1>7 DEF Wake, Mark, Observe, ObserveOn, Record, NothingToRecord,
       SaveOpen, ModuleState, Forget, ForgetWith, DaemonStarts, DaemonKilled,
       Lose, EditCheck, Rewrite, WriteSchedule, ResetState, ResetHistory, vars
  <2> QED BY <2>1 DEF Flags
<1> QED BY <1>1, <1>2, <1>3, <1>4, <1>5, <1>6, <1>7, Rewrites DEF Next, Daemon

(* The numbers keep their types.                                            *)
LEMMA NumbersStep ==
  ASSUME Numbers, Shapes, [Next]_vars
  PROVE  Numbers'
<1>1. CASE EnableCmd
  <2>1. chosen.mins * Minute \in Nat
    BY <1>1, ConstantTypes DEF EnableCmd, Shapes, ChosenShape
  <2> QED BY <1>1, <2>1 DEF EnableCmd, Numbers
<1>2. CASE \E m \in UserBlocks, pgp \in BOOLEAN : StartByHand(m, pgp)
  <2>1. PICK m \in UserBlocks, pgp \in BOOLEAN : StartByHand(m, pgp)
    BY <1>2
  <2> QED BY <2>1, ConstantTypes DEF StartByHand, Numbers
<1>3. CASE Observe
  <2>1. lag' = 0 /\ UNCHANGED <<now, block>>
    BY <1>3 DEF Observe
  <2>2. lastRem' \in {lastRem, block.left}
    BY <1>3 DEF Observe, ObserveOn, Record, NothingToRecord, ModuleState
  <2> QED BY <2>1, <2>2, ConstantTypes DEF Numbers
<1>4. CASE \/ Forget \/ DaemonStarts \/ DaemonKilled
  BY <1>4, ConstantTypes DEF Forget, ForgetWith, DaemonStarts, DaemonKilled,
     Lose, Numbers
<1>5. CASE \/ EndByHand \/ Expire
  <2>1. UNCHANGED <<now, lastRem, lag>> /\ block' = NoBlock
    BY <1>5 DEF EndByHand, Expire
  <2> QED BY <2>1, NoBlockIs DEF Numbers
<1>6. CASE Advance
  <2>1. CountDown(1) \in Nat
    BY DEF CountDown, Numbers
  <2>2. block'.left = CountDown(1)
    BY <1>6 DEF Advance, Shapes, BlockShape
  <2> QED BY <1>6, <2>1, <2>2, ConstantTypes DEF Advance, Numbers
<1>7. CASE \E n \in Gaps : Suspend(n)
  <2>1. PICK n \in Gaps : Suspend(n)
    BY <1>7
  <2>2. n \in Nat /\ CountDown(n) \in Nat
    BY ConstantTypes DEF CountDown, Numbers
  <2>3. block'.left = CountDown(n)
    BY <2>1 DEF Suspend, Shapes, BlockShape
  <2> QED BY <2>1, <2>2, <2>3, ConstantTypes DEF Suspend, Numbers
<1>8. CASE \E n \in Gaps : PowerLoss(n)
  <2>1. PICK n \in Gaps : PowerLoss(n)
    BY <1>8
  <2>2. block'.left \in Nat /\ lastRem' = 0
    BY <2>1, AfterLoss, NoBlockIs DEF Shapes
  <2> QED BY <2>1, <2>2, ConstantTypes DEF PowerLoss, Numbers
<1>9. CASE \/ Wake \/ Mark \/ Rmmod \/ Modprobe \/ EditCheck \/ Rewrite
           \/ ResetState \/ ResetHistory \/ UNCHANGED vars
  <2>1. UNCHANGED <<now, block, lastRem, lag>>
    BY <1>9 DEF Wake, Mark, Rmmod, Modprobe, EditCheck, Rewrite,
       WriteSchedule, ResetState, ResetHistory, vars
  <2> QED BY <2>1 DEF Numbers
<1> QED BY <1>1, <1>2, <1>3, <1>4, <1>5, <1>6, <1>7, <1>8, <1>9,
   Rewrites DEF Next, Daemon

(* The schedule on disk is a valid one.                                     *)
LEMMA PlansStep ==
  ASSUME Plans, OnDisk, [Next]_vars
  PROVE  Plans'
<1>1. CASE Rewrite
  BY <1>1 DEF Rewrite, WriteSchedule, Plans
<1>2. CASE \/ Wake \/ EnableCmd \/ Mark \/ Observe \/ Forget \/ DaemonStarts
           \/ DaemonKilled
           \/ (\E m \in UserBlocks, pgp \in BOOLEAN : StartByHand(m, pgp))
           \/ EndByHand \/ Rmmod \/ Modprobe \/ EditCheck \/ ResetState
           \/ ResetHistory \/ Expire \/ Advance
           \/ (\E n \in Gaps : Suspend(n)) \/ UNCHANGED vars
  <2>1. UNCHANGED plan
    BY <1>2 DEF Wake, EnableCmd, Mark, Observe, ObserveOn, Record,
       NothingToRecord, SaveOpen, ModuleState, Forget, ForgetWith,
       DaemonStarts, DaemonKilled, Lose, StartByHand, EndByHand, Rmmod,
       Modprobe, EditCheck, ResetState, ResetHistory, Expire, Advance,
       Suspend, vars
  <2> QED BY <2>1 DEF Plans
<1>3. CASE \E n \in Gaps : PowerLoss(n)
  BY <1>3 DEF PowerLoss, OnDisk, Plans
<1> QED BY <1>1, <1>2, <1>3, Rewrites DEF Next, Daemon

(* The commands and the daemon go from one phase to another.                *)
LEMMA PhasesStep ==
  ASSUME Phases, [Next]_vars
  PROVE  Phases'
<1>1. CASE EnableCmd
  BY <1>1 DEF EnableCmd, Phases
<1>2. CASE Rewrite
  BY <1>2 DEF Rewrite, WriteSchedule, Rewrite, Phases
<1>3. CASE \/ Wake \/ Mark \/ Observe \/ Forget \/ DaemonStarts
           \/ DaemonKilled
           \/ (\E m \in UserBlocks, pgp \in BOOLEAN : StartByHand(m, pgp))
           \/ EndByHand \/ Rmmod \/ Modprobe \/ EditCheck \/ ResetState
           \/ ResetHistory \/ Expire \/ Advance
           \/ (\E n \in Gaps : Suspend(n)) \/ (\E n \in Gaps : PowerLoss(n))
           \/ UNCHANGED vars
  <2>1. UNCHANGED <<begun, again>>
    BY <1>3 DEF Wake, Mark, Observe, ObserveOn, Record, NothingToRecord,
       SaveOpen, ModuleState, Forget, ForgetWith, DaemonStarts, DaemonKilled,
       Lose, StartByHand, EndByHand, Rmmod, Modprobe, EditCheck, ResetState,
       ResetHistory, Expire, Advance, Suspend, PowerLoss, vars
  <2> QED BY <1>3, <2>1 DEF Wake, Mark, Observe, ObserveOn, Record,
     NothingToRecord, SaveOpen, ModuleState, Forget, ForgetWith, DaemonStarts,
     DaemonKilled, Lose, StartByHand, EndByHand, Rmmod, Modprobe, EditCheck,
     ResetState, ResetHistory, Expire, Advance, Suspend, PowerLoss, vars,
     Phases
<1> QED BY <1>1, <1>2, <1>3, Rewrites DEF Next, Daemon

(* A block keeps its fields, and was chosen in the past.                    *)
LEMMA BlockShapeStep ==
  ASSUME Numbers, BlockShape, ChosenShape, [Next]_vars
  PROVE  BlockShape'
<1>1. CASE EnableCmd
  <2>1. now \in Nat /\ now' = now
    BY <1>1, NowType DEF EnableCmd
  <2>2. CASE UNCHANGED block
    BY <2>1, <2>2 DEF BlockShape
  <2>3. CASE block' # block
    <3>1. PICK sealed \in BOOLEAN :
            block' = [on |-> TRUE, pgp |-> TRUE, left |-> chosen.mins * Minute,
                      win |-> chosen.win, keyed |-> sealed, began |-> now,
                      seen |-> chosen.at]
      BY <1>1, <2>3 DEF EnableCmd
    <3> QED BY <2>1, <3>1 DEF BlockShape, ChosenShape
  <2> QED BY <2>2, <2>3
<1>2. CASE \E m \in UserBlocks, pgp \in BOOLEAN : StartByHand(m, pgp)
  BY <1>2, NowType DEF StartByHand, BlockShape
<1>3. CASE \/ EndByHand \/ Expire
  <2>1. now \in Nat /\ now' = now /\ block' = NoBlock
    BY <1>3, NowType DEF EndByHand, Expire
  <2> QED BY <2>1 DEF NoBlock, BlockShape
<1>4. CASE Advance
  BY <1>4, NowType DEF Advance, BlockShape
<1>5. CASE \E n \in Gaps : Suspend(n)
  BY <1>5, NowType, ConstantTypes DEF Suspend, BlockShape
<1>6. CASE \E n \in Gaps : PowerLoss(n)
  <2>1. /\ now \in Nat /\ now' \in Nat /\ now <= now'
        /\ \/ block' = NoBlock
           \/ block' = [block EXCEPT !.left = block'.left]
    BY <1>6, AfterLoss
  <2>2. CASE block' = [block EXCEPT !.left = block'.left]
    BY <2>1, <2>2 DEF BlockShape
  <2>3. CASE block' = NoBlock
    BY <2>1, <2>3 DEF NoBlock, BlockShape
  <2> QED BY <2>1, <2>2, <2>3
<1>7. CASE \/ Wake \/ Mark \/ Observe \/ Forget \/ DaemonStarts
           \/ DaemonKilled \/ Rmmod \/ Modprobe \/ EditCheck \/ Rewrite
           \/ ResetState \/ ResetHistory \/ UNCHANGED vars
  <2>1. UNCHANGED <<now, block>>
    BY <1>7 DEF Wake, Mark, Observe, ObserveOn, Record, NothingToRecord,
       SaveOpen, ModuleState, Forget, ForgetWith, DaemonStarts, DaemonKilled,
       Lose, Rmmod, Modprobe, EditCheck, Rewrite, WriteSchedule, ResetState,
       ResetHistory, vars
  <2> QED BY <2>1 DEF BlockShape
<1> QED BY <1>1, <1>2, <1>3, <1>4, <1>5, <1>6, <1>7, Rewrites DEF Next, Daemon

(* A window was chosen in the past, for some minutes.                       *)
LEMMA ChosenShapeStep ==
  ASSUME Numbers, Plans, ChosenShape, [Next]_vars
  PROVE  ChosenShape'
<1>1. CASE Wake
  <2>1. now \in Nat /\ now' = now
    BY <1>1, NowType DEF Wake
  <2>2. CASE Waiting
    <3>1. chosen' = [win |-> Active, mins |-> Minutes(Active), at |-> now]
      BY <1>1, <2>2 DEF Wake
    <3>2. Active.end \in Int /\ now < Active.end
      BY <2>1, <2>2, ActiveBounds DEF Waiting, Active, Plans
    <3>3. Minutes(Active) \in Nat
      BY <2>1, <3>2, MinutesCover DEF Minutes
    <3> QED BY <2>1, <3>1, <3>3 DEF ChosenShape
  <2>3. CASE ~Waiting
    BY <1>1, <2>1, <2>3, NoStartIs DEF Wake, ChosenShape
  <2> QED BY <2>2, <2>3
<1>2. CASE \/ Observe \/ DaemonKilled
  BY <1>2, NowType, NoStartIs DEF Observe, ObserveOn, Record, NothingToRecord,
     SaveOpen, ModuleState, DaemonKilled, Lose, ChosenShape
<1>3. CASE \E n \in Gaps : PowerLoss(n)
  BY <1>3, NowType, NoStartIs, ConstantTypes DEF PowerLoss, Lose, ChosenShape
<1>4. CASE \/ Advance \/ \E n \in Gaps : Suspend(n)
  BY <1>4, NowType, ConstantTypes DEF Advance, Suspend, ChosenShape
<1>5. CASE \/ EnableCmd \/ Mark \/ Forget \/ DaemonStarts
           \/ (\E m \in UserBlocks, pgp \in BOOLEAN : StartByHand(m, pgp))
           \/ EndByHand \/ Rmmod \/ Modprobe \/ EditCheck \/ Rewrite
           \/ ResetState \/ ResetHistory \/ Expire \/ UNCHANGED vars
  <2>1. UNCHANGED <<now, chosen>>
    BY <1>5 DEF EnableCmd, Mark, Forget, ForgetWith, DaemonStarts,
       StartByHand, EndByHand, Rmmod, Modprobe, EditCheck, Rewrite,
       WriteSchedule, ResetState, ResetHistory, Expire, vars
  <2> QED BY <2>1 DEF ChosenShape
<1> QED BY <1>1, <1>2, <1>3, <1>4, <1>5, Rewrites DEF Next, Daemon

(* Records are of times.                                                    *)
LEMMA RecordShapeStep ==
  ASSUME Numbers, RecordShape, OnDisk, [Next]_vars
  PROVE  RecordShape'
<1>1. CASE Observe
  <2> DEFINE st == ModuleState
  <2>1. now \in Nat /\ st.remaining \in Nat
    BY NowType DEF ModuleState
  <2>2. CASE ObserveOn(st)
    BY <1>1, <2>1, <2>2 DEF ObserveOn, SaveOpen, RecordShape
  <2>3. CASE Record(st)
    BY <1>1, <2>3, NoRecordIs DEF Record, RecordShape
  <2>4. CASE NothingToRecord(st)
    BY <1>1, <2>4 DEF NothingToRecord, RecordShape
  <2> QED BY <1>1, <2>2, <2>3, <2>4 DEF Observe
<1>2. CASE \/ Forget \/ DaemonStarts \/ DaemonKilled \/ ResetHistory
           \/ \E n \in Gaps : PowerLoss(n)
  BY <1>2, NoRecordIs DEF Forget, ForgetWith, DaemonStarts, DaemonKilled,
     Lose, ResetHistory, PowerLoss, OnDisk, RecordShape
<1>3. CASE \/ Wake \/ EnableCmd \/ Mark
           \/ (\E m \in UserBlocks, pgp \in BOOLEAN : StartByHand(m, pgp))
           \/ EndByHand \/ Rmmod \/ Modprobe \/ EditCheck \/ Rewrite
           \/ ResetState \/ Expire \/ Advance \/ (\E n \in Gaps : Suspend(n))
           \/ UNCHANGED vars
  <2>1. UNCHANGED <<log, lastSaved, watched, open, openFile>>
    BY <1>3 DEF Wake, EnableCmd, Mark, StartByHand, EndByHand, Rmmod,
       Modprobe, EditCheck, Rewrite, WriteSchedule, ResetState, Expire,
       Advance, Suspend, vars
  <2> QED BY <2>1 DEF RecordShape
<1> QED BY <1>1, <1>2, <1>3, Rewrites DEF Next, Daemon

(* What the daemon has seen stays in its file.                              *)
LEMMA KeptStep ==
  ASSUME Numbers, RecordShape, Kept, [Next]_vars
  PROVE  Kept'
<1>1. CASE Observe
  <2> DEFINE st == ModuleState
  <2>1. now \in Nat
    BY NowType
  <2>2. CASE ObserveOn(st)
    <3>1. open'.start = IF open = NoRecord THEN now ELSE open.start
      BY <2>2 DEF ObserveOn
    <3>2. IF ToBeSaved THEN openFile' = open' ELSE UNCHANGED openFile
      BY <2>2 DEF ObserveOn, SaveOpen
    <3>3. watched' = IF watched = Never /\ open = NoRecord THEN now ELSE watched
      BY <2>2 DEF ObserveOn
    <3>4. CASE open = NoRecord
      <4>1. watched = Never \/ daemon \in {"down", "forget"}
        BY <3>4, NoRecordIs DEF Kept
      <4>2. watched = Never
        BY <1>1, <4>1 DEF Observe
      <4> QED BY <1>1, <2>2, <3>1, <3>2, <3>3, <3>4, <4>2 DEF ObserveOn,
         ToBeSaved, Kept
    <3>5. CASE open # NoRecord
      BY <1>1, <2>2, <3>1, <3>2, <3>3, <3>5 DEF Observe, ObserveOn, Kept
    <3> QED BY <3>4, <3>5
  <2>3. CASE Record(st)
    BY <1>1, <2>3 DEF Record, Kept
  <2>4. CASE NothingToRecord(st)
    BY <1>1, <2>4 DEF Observe, NothingToRecord, Kept
  <2> QED BY <1>1, <2>2, <2>3, <2>4 DEF Observe
<1>2. CASE \/ Wake \/ EnableCmd \/ Mark \/ Forget \/ DaemonStarts
           \/ DaemonKilled \/ (\E n \in Gaps : PowerLoss(n)) \/ ResetHistory
  BY <1>2 DEF Wake, EnableCmd, Mark, Forget, ForgetWith, DaemonStarts,
     DaemonKilled, Lose, PowerLoss, ResetHistory, Kept
<1>3. CASE \/ (\E m \in UserBlocks, pgp \in BOOLEAN : StartByHand(m, pgp))
           \/ EndByHand \/ Rmmod \/ Modprobe \/ EditCheck \/ Rewrite
           \/ ResetState \/ Expire \/ Advance \/ (\E n \in Gaps : Suspend(n))
           \/ UNCHANGED vars
  <2>1. UNCHANGED <<watched, openFile, open, daemon>>
    BY <1>3 DEF StartByHand, EndByHand, Rmmod, Modprobe, EditCheck, Rewrite,
       WriteSchedule, ResetState, Expire, Advance, Suspend, vars
  <2> QED BY <2>1 DEF Kept
<1> QED BY <1>1, <1>2, <1>3, Rewrites DEF Next, Daemon

(* Records begin before they are written, and before the next round.        *)
LEMMA TimesStep ==
  ASSUME Numbers, BlockShape, RecordShape, Times, OnDisk, [Next]_vars
  PROVE  Times'
<1>1. CASE Observe
  <2> DEFINE st == ModuleState
  <2>1. now \in Nat /\ now' = now /\ lag' = 0 /\ lag > 0
    BY <1>1, NowType DEF Observe, Times
  <2>2. CASE ObserveOn(st)
    <3>1. open'.start = IF open = NoRecord THEN now ELSE open.start
      BY <2>2 DEF ObserveOn
    <3>2. open'.start \in 0..now'
      BY <2>1, <3>1 DEF Times
    <3>3. openFile' \in {open', openFile}
      BY <2>2 DEF ObserveOn, SaveOpen
    <3> QED BY <2>1, <2>2, <3>2, <3>3 DEF ObserveOn, Times
  <2>3. CASE Record(st)
    <3>1. open # NoRecord /\ open.start \in 0..now
      BY <2>3 DEF Record, Times
    <3>2. EndOf(open) > open.start => open.start < now
      <4>1. CASE lastRem # 0
        BY <2>1, <3>1, <4>1 DEF Times
      <4>2. CASE lastRem = 0
        <5>1. EndOf(open) = IF now >= open.end THEN open.end ELSE now
          BY <4>2 DEF EndOf, Outcome
        <5> QED BY <2>1, <3>1, <5>1 DEF RecordShape
      <4> QED BY <4>1, <4>2
    <3> QED BY <2>1, <2>3, <3>1, <3>2 DEF Record, Times
  <2>4. CASE NothingToRecord(st)
    BY <1>1, <2>1, <2>4 DEF NothingToRecord, Times
  <2> QED BY <1>1, <2>2, <2>3, <2>4 DEF Observe
<1>2. CASE Advance
  <2>1. /\ now \in Nat /\ now' = now + 1 /\ lag \in Nat /\ lag' \in {lag, lag + 1}
        /\ UNCHANGED <<log, openFile, open, lastRem, daemon>>
    BY <1>2, NowType DEF Advance
  <2> QED BY <2>1, LogType DEF Times
<1>3. CASE \E n \in Gaps : Suspend(n)
  <2>1. /\ now \in Nat /\ now' \in Nat /\ now <= now'
        /\ UNCHANGED <<log, openFile, open, lastRem, lag, daemon>>
    BY <1>3, NowType, ConstantTypes DEF Suspend
  <2> QED BY <2>1, LogType DEF Times
<1>4. CASE \E n \in Gaps : PowerLoss(n)
  <2>1. /\ now \in Nat /\ now' \in Nat /\ now <= now'
        /\ open' = NoRecord /\ lastRem' = 0 /\ daemon' = "down"
        /\ log' = disk.log /\ openFile' = disk.open
    BY <1>4, AfterLoss
  <2>2. disk.log \in Int
    BY NoRecordIs DEF OnDisk
  <2> QED BY <2>1, <2>2 DEF OnDisk, Times
<1>5. CASE \/ Wake \/ EnableCmd \/ Mark \/ Forget \/ DaemonStarts
           \/ DaemonKilled \/ ResetHistory
  BY <1>5 DEF Wake, EnableCmd, Mark, Forget, ForgetWith, DaemonStarts,
     DaemonKilled, Lose, ResetHistory, Times
<1>6. CASE \/ (\E m \in UserBlocks, pgp \in BOOLEAN : StartByHand(m, pgp))
           \/ EndByHand \/ Rmmod \/ Modprobe \/ EditCheck \/ Rewrite
           \/ ResetState \/ Expire \/ UNCHANGED vars
  <2>1. UNCHANGED <<now, log, openFile, open, lastRem, lag, daemon>>
    BY <1>6 DEF StartByHand, EndByHand, Rmmod, Modprobe, EditCheck, Rewrite,
       WriteSchedule, ResetState, Expire, vars
  <2> QED BY <2>1 DEF Times
<1> QED BY <1>1, <1>2, <1>3, <1>4, <1>5, <1>6, Rewrites DEF Next, Daemon

(* The disk has records of the past.                                        *)
LEMMA OnDiskStep ==
  ASSUME Numbers, OnDisk, Plans', RecordShape', Times', [Next]_vars
  PROVE  OnDisk'
<1>1. DiskShape' /\ Reaches
  BY DiskStep DEF OnDisk
<1>2. /\ now \in Nat /\ now' \in Nat /\ now <= now' /\ disk.log \in Int
  BY NowType, NowGrows, NoRecordIs DEF OnDisk
<1>6. Valid(<<>>)
  BY DEF Valid
<1>3. disk'.plan \in Drafts \cup {<<>>} /\ Valid(disk'.plan)
  BY <1>1, <1>6 DEF Reaches, OnDisk, Plans
<1>4. disk'.log \in Nat \cup {Never} /\ (disk'.log < now' \/ disk'.log = Never)
  BY <1>1, <1>2 DEF Reaches, OnDisk, RecordShape, Times
<1>5. /\ disk'.open.start \in Nat \cup {Never} /\ disk'.open.end \in Int
      /\ disk'.open # NoRecord => disk'.open.start \in 0..now'
  BY <1>1, <1>2, NoRecordIs DEF Reaches, OnDisk, RecordShape, Times
<1> QED BY <1>1, <1>3, <1>4, <1>5 DEF OnDisk

(* What is open has not been recorded.                                      *)
LEMMA ForgottenStep ==
  ASSUME Numbers, RecordShape, Times, OnDisk, Forgotten, [Next]_vars
  PROVE  Forgotten'
<1> USE DEF Reaches
<1>0. Reaches /\ DiskShape'
  BY DiskStep DEF OnDisk
<1>1. CASE Observe
  <2> DEFINE st == ModuleState
  <2>1. CASE ObserveOn(st)
    <3>1. /\ open'.start = IF open = NoRecord THEN now ELSE open.start
          /\ openFile' \in {open', openFile} /\ cut' = cut /\ log' = log
      BY <2>1 DEF ObserveOn, SaveOpen
    <3>2. now # log /\ now # disk.log
      BY NowType, NoRecordIs DEF Times, RecordShape, OnDisk
    <3> QED BY <1>0, <1>1, <3>1, <3>2 DEF Observe, Forgotten
  <2>2. CASE Record(st)
    BY <2>2 DEF Record, Forgotten
  <2>3. CASE NothingToRecord(st)
    BY <1>0, <1>1, <2>3 DEF Observe, NothingToRecord, Forgotten
  <2> QED BY <1>1, <2>1, <2>2, <2>3 DEF Observe
<1>2. CASE ResetHistory
  <2>1. open # NoRecord => open.start # Never
    BY NoRecordIs DEF Times
  <2> QED BY <1>0, <1>2, <2>1 DEF ResetHistory, Forgotten
<1>3. CASE DaemonKilled
  <2>1. /\ open' = NoRecord /\ UNCHANGED <<log, openFile>>
        /\ cut' = (cut \/ daemon = "forget" \/ FALSE)
    BY <1>3 DEF DaemonKilled, Lose
  <2>2. ~cut' => ~cut /\ daemon # "forget"
    BY Zenon, <2>1
  <2> QED BY <1>0, <2>1, <2>2 DEF Forgotten
<1>6. CASE \E n \in Gaps : PowerLoss(n)
  <2>1. /\ open' = NoRecord /\ log' = disk.log /\ openFile' = disk.open
        /\ UNCHANGED disk
        /\ cut' = (cut \/ daemon = "forget" \/ disk.open \notin {openFile, NoRecord})
    BY <1>6 DEF Lose, PowerLoss
  <2>2. ~cut' => ~cut /\ daemon # "forget" /\ disk.open \in {openFile, NoRecord}
    BY Zenon, <2>1
  <2> QED BY <2>1, <2>2 DEF Forgotten
<1>4. CASE \/ Wake \/ EnableCmd \/ Mark \/ DaemonStarts
  BY <1>0, <1>4 DEF Wake, EnableCmd, Mark, DaemonStarts, Forgotten
<1>7. CASE Forget
  <2>1. open' = NoRecord /\ openFile' = NoRecord
    BY <1>7 DEF Forget, ForgetWith
  <2> QED BY <2>1 DEF Forgotten
<1>5. CASE \/ (\E m \in UserBlocks, pgp \in BOOLEAN : StartByHand(m, pgp))
           \/ EndByHand \/ Rmmod \/ Modprobe \/ EditCheck \/ Rewrite
           \/ ResetState \/ Expire \/ Advance \/ (\E n \in Gaps : Suspend(n))
           \/ UNCHANGED vars
  <2>1. UNCHANGED <<log, openFile, open, cut, daemon>>
    BY <1>5 DEF StartByHand, EndByHand, Rmmod, Modprobe, EditCheck, Rewrite,
       WriteSchedule, ResetState, Expire, Advance, Suspend, vars
  <2> QED BY <1>0, <2>1 DEF Forgotten
<1> QED BY <1>1, <1>2, <1>3, <1>4, <1>5, <1>6, <1>7, Rewrites DEF Next, Daemon

(* The window that is chosen was the active one, unless the schedule changed. *)
LEMMA ChosenStep ==
  ASSUME Numbers, Plans, Chosen, [Next]_vars
  PROVE  Chosen'
<1>1. CASE Wake
  <2>1. CASE Waiting
    <3>1. /\ chosen' = [win |-> Active, mins |-> Minutes(Active), at |-> now]
          /\ plan' = plan /\ now \in Int
      BY <1>1, <2>1, NowType DEF Wake
    <3>2. Active # NoWindow /\ Active = ActiveWindow(plan, now)
      BY <2>1 DEF Waiting, Active
    <3>3. Active.end \in Int /\ now < Active.end /\ Active.key # NoKey
      BY <3>1, <3>2, ActiveBounds DEF Plans, NoKey
    <3>4. Minutes(Active) * Minute >= Active.end - now
      BY <3>1, <3>3, MinutesCover DEF Minutes
    <3> QED BY <3>1, <3>2, <3>3, <3>4 DEF Chosen
  <2>2. CASE ~Waiting
    BY <1>1, <2>2 DEF Wake, Chosen
  <2> QED BY <2>1, <2>2
<1>2. CASE EnableCmd
  <2>1. CASE daemon' = "mark"
    <3>1. /\ UNCHANGED <<plan, chosen, excused>>
          /\ daemon = "enable" /\ begun' = begun \cup {chosen.win.key}
      BY <1>2, <2>1 DEF EnableCmd
    <3> QED BY <3>1 DEF Chosen
  <2>2. CASE daemon' # "mark"
    BY <1>2, <2>2 DEF EnableCmd, Chosen
  <2> QED BY <2>1, <2>2
<1>3. CASE Rewrite
  <2>1. /\ UNCHANGED <<chosen, daemon, begun>>
        /\ excused' = excused \cup begun \cup ({chosen.win.key} \ {NoKey})
    BY <1>3 DEF Rewrite, WriteSchedule
  <2> QED BY <2>1 DEF Chosen
<1>4. CASE ResetState
  <2>1. UNCHANGED <<plan, chosen, daemon, begun>> /\ excused \subseteq excused'
    BY <1>4 DEF ResetState
  <2> QED BY <2>1 DEF Chosen
<1>5. CASE \/ Mark \/ Observe \/ Forget \/ DaemonStarts \/ DaemonKilled
           \/ \E n \in Gaps : PowerLoss(n)
  <2>1. daemon' \notin {"enable", "mark"}
    BY <1>5 DEF Mark, Observe, ObserveOn, Record, NothingToRecord, SaveOpen,
       ModuleState, Forget, ForgetWith, DaemonStarts, DaemonKilled, Lose,
       PowerLoss
  <2> QED BY <2>1 DEF Chosen
<1>6. CASE \/ (\E m \in UserBlocks, pgp \in BOOLEAN : StartByHand(m, pgp))
           \/ EndByHand \/ Rmmod \/ Modprobe \/ EditCheck \/ ResetHistory
           \/ Expire \/ Advance \/ (\E n \in Gaps : Suspend(n))
           \/ UNCHANGED vars
  <2>1. UNCHANGED <<plan, chosen, daemon, begun, excused>>
    BY <1>6 DEF StartByHand, EndByHand, Rmmod, Modprobe, EditCheck,
       ResetHistory, Expire, Advance, Suspend, vars
  <2> QED BY <2>1 DEF Chosen
<1> QED BY <1>1, <1>2, <1>3, <1>4, <1>5, <1>6, Rewrites DEF Next, Daemon

(* A block that was scheduled lasts as long as its window.                  *)
LEMMA CoversStep ==
  ASSUME Numbers, BlockShape, ChosenShape, Chosen, Covers, [Next]_vars
  PROVE  Covers'
<1>1. CASE EnableCmd
  <2>1. CASE UNCHANGED block
    <3>1. begun \subseteq begun' /\ excused \subseteq excused' /\ UNCHANGED <<now, plan>>
      BY <1>1 DEF EnableCmd
    <3> QED BY <2>1, <3>1 DEF Covers
  <2>2. CASE block' # block
    <3>1. /\ daemon = "enable" /\ UNCHANGED <<now, plan>>
          /\ block'.win = chosen.win /\ block'.seen = chosen.at
          /\ block'.left = chosen.mins * Minute
          /\ chosen.win.key \in begun' /\ excused \subseteq excused'
      BY <1>1, <2>2 DEF EnableCmd
    <3>2. CASE chosen.win.key \in excused
      BY <3>1, <3>2 DEF Covers
    <3>3. CASE chosen.win.key \notin excused
      <4>1. /\ chosen.win = ActiveWindow(plan, chosen.at) /\ chosen.win.end \in Int
            /\ chosen.mins * Minute >= chosen.win.end - chosen.at
        BY <3>1, <3>3 DEF Chosen
      <4>2. /\ now \in Int /\ chosen.at \in Int /\ chosen.at <= now
            /\ chosen.mins * Minute \in Int
        BY NowType, ConstantTypes DEF ChosenShape
      <4>3. now + chosen.mins * Minute >= chosen.win.end
        BY <4>1, <4>2
      <4> QED BY <3>1, <4>1, <4>3 DEF Covers
    <3> QED BY <3>2, <3>3
  <2> QED BY <2>1, <2>2
<1>2. CASE \E m \in UserBlocks, pgp \in BOOLEAN : StartByHand(m, pgp)
  <2>1. block'.win = NoWindow
    BY <1>2 DEF StartByHand
  <2> QED BY <2>1 DEF Covers
<1>3. CASE \/ EndByHand \/ Expire
  <2>1. block' = NoBlock
    BY <1>3 DEF EndByHand, Expire
  <2> QED BY <2>1, NoBlockIs DEF Covers
<1>4. CASE \/ Rewrite \/ ResetState
  <2>1. UNCHANGED <<block, begun>> /\ begun \subseteq excused'
    BY <1>4 DEF Rewrite, WriteSchedule, ResetState
  <2> QED BY <2>1 DEF Covers
<1>5. CASE \/ Advance \/ \E n \in Gaps : Suspend(n)
  <2>1. PICK n \in Nat :
          now' = now + n /\ block' = [block EXCEPT !.left = CountDown(n)]
    BY <1>5, ConstantTypes DEF Advance, Suspend
  <2>2. UNCHANGED <<plan, begun, excused>>
    BY <1>5 DEF Advance, Suspend
  <2>3. /\ block'.on = block.on /\ block'.win = block.win /\ block'.seen = block.seen
        /\ block'.left = CountDown(n)
    BY <2>1 DEF BlockShape
  <2>4. now' + block'.left >= now + block.left
    BY <2>1, <2>3, NowType DEF CountDown
  <2>5. /\ now \in Int /\ now' \in Int /\ block.left \in Int /\ block'.left \in Int
    BY <2>1, <2>3, NowType DEF CountDown
  <2> QED BY <2>2, <2>3, <2>4, <2>5 DEF Covers
<1>6. CASE \E n \in Gaps : PowerLoss(n)
  <2>1. /\ now \in Int /\ now' \in Int /\ now <= now' /\ block.left \in Int
        /\ excused \subseteq excused' /\ UNCHANGED begun
        /\ plan' = plan \/ begun \subseteq excused'
    BY <1>6, AfterLoss, NowType
  <2>2. CASE /\ block'.on = block.on /\ block'.win = block.win
             /\ block'.seen = block.seen
             /\ block'.left \in Nat /\ block.left <= block'.left
    BY <2>1, <2>2 DEF Covers
  <2>3. CASE block' = NoBlock
    BY <2>3, NoBlockIs DEF Covers
  <2> QED BY <1>6, <2>2, <2>3, AfterLoss
<1>7. CASE \/ Wake \/ Mark \/ Observe \/ Forget \/ DaemonStarts
           \/ DaemonKilled \/ Rmmod \/ Modprobe \/ EditCheck \/ ResetHistory
           \/ UNCHANGED vars
  <2>1. UNCHANGED <<now, plan, block, begun>> /\ excused \subseteq excused'
    BY <1>7 DEF Wake, Mark, Observe, ObserveOn, Record, NothingToRecord,
       SaveOpen, ModuleState, Forget, ForgetWith, DaemonStarts, DaemonKilled,
       Lose, Rmmod, Modprobe, EditCheck, ResetHistory, vars
  <2> QED BY <2>1 DEF Covers
<1> QED BY <1>1, <1>2, <1>3, <1>4, <1>5, <1>6, <1>7, Rewrites DEF Next, Daemon

(* What was begun and marked stays so, as time and the marks go on. *)
LEMMA BegunGrows ==
  ASSUME Begun, UNCHANGED <<plan, last>>,
         Judged \in Int, Judged' \in Int, Judged <= Judged',
         begun' \ excused' \subseteq begun \ excused,
         \A k \in begun' \ excused' :
           daemon = "mark" /\ k = chosen.win.key
             => daemon' = "mark" /\ k = chosen'.win.key
  PROVE  Begun'
<1> SUFFICES ASSUME NEW k \in begun' \ excused'
             PROVE  \E t0 \in Int :
                      /\ t0 <= Judged' /\ Was(plan', k, t0)
                      /\ Marked(k, t0)' \/ (daemon' = "mark" /\ k = chosen'.win.key)
  BY DEF Begun
<1>1. PICK t0 \in Int :
        /\ t0 <= Judged /\ Was(plan, k, t0)
        /\ Marked(k, t0) \/ (daemon = "mark" /\ k = chosen.win.key)
  BY DEF Begun
<1>2. t0 <= Judged'
  BY <1>1
<1>3. ASSUME Marked(k, t0) PROVE Marked(k, t0)'
  <2>1. PICK t1 \in Int : /\ t0 <= t1 /\ t1 <= Judged
                          /\ Was(plan, last, t1) \/ Displaced(k, t1)
    BY <1>3 DEF Marked
  <2>2. t1 <= Judged'
    BY <2>1
  <2> QED BY <2>1, <2>2 DEF Marked, Displaced
<1> QED BY <1>1, <1>2, <1>3

(* The times of Judged are numbers that do not come before the choice.      *)
LEMMA JudgedType ==
  ASSUME Numbers, ChosenShape
  PROVE  Judged \in Int /\ Judged <= now /\ chosen.at \in Int /\ chosen.at <= now
BY NowType DEF ChosenShape, Judged

(* The key of the active window was that of an instant. *)
LEMMA ActiveWas ==
  ASSUME NEW t, ActiveWindow(plan, t) # NoWindow
  PROVE  Was(plan, ActiveWindow(plan, t).key, t)
BY ActiveIs DEF Was

(* Of the windows that were begun, the one marked last was active last.     *)
LEMMA BegunStep ==
  ASSUME Numbers, Phases, BlockShape, ChosenShape, Chosen, Begun, [Next]_vars
  PROVE  Begun'
<1>1. CASE EnableCmd
  <2>1. /\ daemon = "enable" /\ UNCHANGED <<now, plan, last, chosen>>
        /\ daemon' \in {"mark", "observe"} /\ excused \subseteq excused'
        /\ begun' \subseteq begun \cup {chosen.win.key}
        /\ daemon' = "observe" => begun' \ excused' \subseteq begun \ excused
    BY <1>1 DEF EnableCmd
  <2>2. Judged = chosen.at /\ Judged' \in Int /\ Judged <= Judged'
    BY <2>1, JudgedType, NowType DEF Judged
  <2>3. CASE begun' \ excused' \subseteq begun \ excused
    BY <2>1, <2>2, <2>3, JudgedType, BegunGrows
  <2>4. CASE ~(begun' \ excused' \subseteq begun \ excused)
    <3>1. daemon' = "mark" /\ chosen.win.key \notin excused
      BY <2>1, <2>4
    <3>2. Was(plan, chosen.win.key, chosen.at)
      BY <2>1, <3>1, ActiveWas DEF Chosen
    <3> SUFFICES ASSUME NEW k \in begun' \ excused'
                 PROVE  \E t0 \in Int :
                          /\ t0 <= Judged' /\ Was(plan', k, t0)
                          /\ Marked(k, t0)' \/ (daemon' = "mark" /\ k = chosen'.win.key)
      BY DEF Begun
    <3>3. Judged' = chosen.at /\ Judged = chosen.at
      BY <2>1, <3>1 DEF Judged
    <3>4. CASE k = chosen.win.key
      BY <2>1, <3>1, <3>2, <3>3, <3>4, JudgedType
    <3>5. CASE k # chosen.win.key
      <4>1. PICK t0 \in Int :
              t0 <= Judged /\ Was(plan, k, t0) /\ Marked(k, t0)
        BY <2>1, <3>5 DEF Begun
      <4>2. Marked(k, t0)'
        BY <2>1, <3>3, <4>1 DEF Marked, Displaced
      <4> QED BY <2>1, <3>3, <4>1, <4>2
    <3> QED BY <3>4, <3>5
  <2> QED BY <2>3, <2>4
<1>2. CASE Mark
  <2>1. /\ daemon = "mark" /\ daemon' = "observe" /\ last' = chosen.win.key
        /\ UNCHANGED <<now, plan, chosen, begun, excused>>
    BY <1>2 DEF Mark
  <2>2. Judged = chosen.at /\ Judged' = now
    BY <2>1 DEF Judged
  <2> SUFFICES ASSUME NEW k \in begun' \ excused'
               PROVE  \E t0 \in Int :
                        t0 <= Judged' /\ Was(plan', k, t0) /\ Marked(k, t0)'
    BY DEF Begun
  <2>3. PICK t0 \in Int : t0 <= Judged /\ Was(plan, k, t0)
    BY <2>1 DEF Begun
  <2>4. Was(plan, chosen.win.key, chosen.at)
    <3>1. chosen.win = ActiveWindow(plan, chosen.at) /\ chosen.win # NoWindow
      BY <2>1 DEF Chosen
    <3> QED BY <3>1, ActiveWas
  <2>5. Marked(k, t0)'
    BY <2>1, <2>2, <2>3, <2>4, JudgedType DEF Marked
  <2> QED BY <2>1, <2>2, <2>3, <2>5, JudgedType, NowType
<1>3. CASE \/ Rewrite \/ ResetState
  <2>1. UNCHANGED begun /\ begun \subseteq excused'
    BY <1>3 DEF Rewrite, WriteSchedule, ResetState
  <2> QED BY <2>1 DEF Begun
<1>4. CASE DaemonKilled
  <2>1. /\ now \in Int /\ now' = now /\ daemon' = "down"
        /\ excused \subseteq excused'
        /\ daemon = "mark" => chosen.win.key \in excused'
        /\ UNCHANGED <<plan, last, begun>>
    BY <1>4, NowType DEF DaemonKilled, Lose
  <2>2. Judged' = now' /\ Judged \in Int /\ Judged <= Judged'
    BY <2>1, JudgedType DEF Judged
  <2> QED BY <2>1, <2>2, BegunGrows
<1>8. CASE \E n \in Gaps : PowerLoss(n)
  <2>1. /\ now \in Int /\ now' \in Int /\ now <= now' /\ daemon' = "down"
        /\ last' = disk.last /\ begun' = begun /\ excused \subseteq excused'
        /\ plan' = plan \/ begun \subseteq excused'
    BY <1>8, AfterLoss
  <2>2. /\ daemon = "mark" => chosen.win.key \in excused'
        /\ disk.last = last \/ last \in excused'
    BY <1>8 DEF PowerLoss, Lose, MarksLost
  <2>3. Judged' = now' /\ Judged \in Int /\ Judged <= Judged'
    BY <2>1, JudgedType DEF Judged
  <2> SUFFICES ASSUME NEW k \in begun' \ excused'
               PROVE  \E t0 \in Int :
                        t0 <= Judged' /\ Was(plan', k, t0) /\ Marked(k, t0)'
    BY DEF Begun
  <2>4. PICK t0 \in Int : t0 <= Judged /\ Was(plan, k, t0) /\ Marked(k, t0)
    BY <2>1, <2>2 DEF Begun
  <2>5. PICK t1 \in Int : /\ t0 <= t1 /\ t1 <= Judged
                          /\ Was(plan, last, t1) \/ Displaced(k, t1)
    BY <2>4 DEF Marked
  <2>6. plan' = plan /\ t0 <= Judged' /\ t1 <= Judged'
    BY <2>1, <2>3, <2>4, <2>5
  <2>7. Was(plan, last', t1) \/ Displaced(k, t1)
    BY <2>1, <2>2, <2>5 DEF Displaced
  <2> QED BY <2>4, <2>5, <2>6, <2>7 DEF Marked, Displaced
<1>5. CASE \/ Advance \/ \E n \in Gaps : Suspend(n)
  <2>1. /\ now \in Int /\ now' \in Int /\ now <= now'
        /\ UNCHANGED <<plan, last, daemon, chosen, begun, excused>>
    BY <1>5, NowType, ConstantTypes DEF Advance, Suspend
  <2>2. Judged \in Int /\ Judged' \in Int /\ Judged <= Judged'
    BY <2>1, JudgedType DEF Judged
  <2> QED BY <2>1, <2>2, BegunGrows
<1>6. CASE \/ Wake \/ Observe \/ Forget \/ DaemonStarts
  <2>1. /\ daemon \notin {"enable", "mark"} /\ now \in Int
        /\ UNCHANGED <<now, plan, last, begun, excused>>
        /\ daemon' \notin {"enable", "mark"} \/ chosen'.at = now
    BY <1>6, NowType DEF Wake, Observe, ObserveOn, Record, NothingToRecord,
       SaveOpen, ModuleState, Forget, ForgetWith, DaemonStarts
  <2>2. Judged = now /\ Judged' = now
    BY <2>1 DEF Judged
  <2> QED BY <2>1, <2>2, BegunGrows
<1>7. CASE \/ (\E m \in UserBlocks, pgp \in BOOLEAN : StartByHand(m, pgp))
           \/ EndByHand \/ Rmmod \/ Modprobe \/ EditCheck \/ ResetHistory
           \/ Expire \/ UNCHANGED vars
  <2>1. UNCHANGED <<now, plan, last, daemon, chosen, begun, excused>>
    BY <1>7 DEF StartByHand, EndByHand, Rmmod, Modprobe, EditCheck,
       ResetHistory, Expire, vars
  <2>2. Judged' = Judged /\ Judged \in Int
    BY <2>1, JudgedType DEF Judged
  <2> QED BY <2>1, <2>2, BegunGrows
<1> QED BY <1>1, <1>2, <1>3, <1>4, <1>5, <1>6, <1>7, <1>8, Rewrites
  DEF Next, Daemon

(* No window is chosen that was begun before.                               *)
LEMMA FirstStartStep ==
  ASSUME Numbers, Plans, ChosenShape, Begun, FirstStart, [Next]_vars
  PROVE  FirstStart'
<1>1. CASE Wake
  <2>1. CASE ~Waiting
    BY <1>1, <2>1 DEF Wake, FirstStart
  <2>2. CASE Waiting
    <3>1. /\ daemon = "asleep" /\ chosen'.win = Active /\ UNCHANGED <<begun, excused>>
          /\ now \in Int
      BY <1>1, <2>2, NowType DEF Wake
    <3>2. Was(plan, Active.key, now) /\ Active.key # last
      BY <2>2, ActiveWas DEF Waiting, Active, Started
    <3>3. ASSUME Active.key \in begun \ excused PROVE FALSE
      <4>1. PICK t0 \in Int : Was(plan, Active.key, t0) /\ Marked(Active.key, t0)
        BY <3>1, <3>3 DEF Begun
      <4>2. PICK t1 \in Int : /\ t0 <= t1 /\ t1 <= now
                              /\ \E m : m # Active.key /\ Was(plan, m, t1)
        BY <3>1, <3>2, <4>1 DEF Marked, Displaced, Judged
      <4> QED BY <3>1, <3>2, <4>1, <4>2, NotActiveAgain, PlanType DEF Plans
    <3> QED BY <3>1, <3>3 DEF FirstStart
  <2> QED BY <2>1, <2>2
<1>2. CASE \/ EnableCmd \/ Mark \/ Observe \/ Forget \/ DaemonStarts
           \/ DaemonKilled \/ \E n \in Gaps : PowerLoss(n)
  <2>1. daemon' # "enable"
    BY <1>2 DEF EnableCmd, Mark, Observe, ObserveOn, Record, NothingToRecord,
       SaveOpen, ModuleState, Forget, ForgetWith, DaemonStarts, DaemonKilled,
       Lose, PowerLoss
  <2> QED BY <2>1 DEF FirstStart
<1>3. CASE \/ Rewrite \/ ResetState
  <2>1. UNCHANGED begun /\ begun \subseteq excused'
    BY <1>3 DEF Rewrite, WriteSchedule, ResetState
  <2> QED BY <2>1 DEF FirstStart
<1>4. CASE \/ (\E m \in UserBlocks, pgp \in BOOLEAN : StartByHand(m, pgp))
           \/ EndByHand \/ Rmmod \/ Modprobe \/ EditCheck \/ ResetHistory
           \/ Expire \/ Advance \/ (\E n \in Gaps : Suspend(n))
           \/ UNCHANGED vars
  <2>1. UNCHANGED <<daemon, chosen, begun, excused>>
    BY <1>4 DEF StartByHand, EndByHand, Rmmod, Modprobe, EditCheck,
       ResetHistory, Expire, Advance, Suspend, vars
  <2> QED BY <2>1 DEF FirstStart
<1> QED BY <1>1, <1>2, <1>3, <1>4, Rewrites DEF Next, Daemon

(* What is started again is excused.                                        *)
LEMMA StartedOnceStep ==
  ASSUME FirstStart, StartedOnce, [Next]_vars
  PROVE  StartedOnce'
<1>1. CASE EnableCmd
  BY <1>1 DEF EnableCmd, FirstStart, StartedOnce
<1>2. CASE \/ Wake \/ Mark \/ Observe \/ Forget \/ DaemonStarts
           \/ DaemonKilled
           \/ (\E m \in UserBlocks, pgp \in BOOLEAN : StartByHand(m, pgp))
           \/ EndByHand \/ Rmmod \/ Modprobe \/ EditCheck \/ Rewrite
           \/ ResetState \/ ResetHistory \/ Expire \/ Advance
           \/ (\E n \in Gaps : Suspend(n)) \/ (\E n \in Gaps : PowerLoss(n))
           \/ UNCHANGED vars
  <2>1. UNCHANGED again /\ excused \subseteq excused'
    BY <1>2 DEF Wake, Mark, Observe, ObserveOn, Record, NothingToRecord,
       SaveOpen, ModuleState, Forget, ForgetWith, DaemonStarts, DaemonKilled,
       Lose, StartByHand, EndByHand, Rmmod, Modprobe, EditCheck, Rewrite,
       WriteSchedule, ResetState, ResetHistory, Expire, Advance, Suspend,
       PowerLoss, vars
  <2> QED BY <2>1 DEF StartedOnce
<1> QED BY <1>1, <1>2, Rewrites DEF Next, Daemon

-----------------------------------------------------------------------------
(* The initial states satisfy the invariant. *)
LEMMA InitIInv ==
  ASSUME Init
  PROVE  IInv
<1>1. Flags
  BY NoBlockIs DEF Init, Flags
<1>2. Numbers
  BY ConstantTypes, NoBlockIs DEF Init, Numbers
<1>3. Plans /\ Phases
  BY DEF Init, Plans, Phases
<1>4. BlockShape
  BY DEF Init, NoBlock, BlockShape
<1>5. ChosenShape /\ RecordShape
  BY NoStartIs, NoRecordIs DEF Init, ChosenShape, RecordShape
<1>6. Kept /\ Times /\ OnDisk /\ Forgotten
  <2>1. Kept /\ Times /\ Forgotten
    BY NoRecordIs DEF Init, Kept, Times, Forgotten
  <2>2. OnDisk
    BY NoRecordIs DEF Init, OnDisk, DiskShape
  <2> QED BY <2>1, <2>2
<1>7. Chosen /\ Covers
  BY NoBlockIs DEF Init, Chosen, Covers
<1>8. Begun /\ FirstStart /\ StartedOnce
  BY DEF Init, Begun, FirstStart, StartedOnce
<1> QED BY <1>1, <1>2, <1>3, <1>4, <1>5, <1>6, <1>7, <1>8 DEF IInv, Shapes

(* Every step preserves it. *)
LEMMA NextIInv ==
  ASSUME IInv, [Next]_vars
  PROVE  IInv'
<1> USE DEF IInv, Shapes
<1>1. Flags' /\ Numbers' /\ Plans' /\ Phases'
  BY FlagsStep, NumbersStep, PlansStep, PhasesStep
<1>2. BlockShape' /\ ChosenShape' /\ RecordShape'
  BY BlockShapeStep, ChosenShapeStep, RecordShapeStep
<1>3. Kept' /\ Times' /\ Forgotten'
  BY KeptStep, TimesStep, ForgottenStep
<1>6. OnDisk'
  BY <1>1, <1>2, <1>3, OnDiskStep
<1>4. Chosen' /\ Covers'
  BY ChosenStep, CoversStep
<1>5. Begun' /\ FirstStart' /\ StartedOnce'
  BY BegunStep, FirstStartStep, StartedOnceStep
<1> QED BY <1>1, <1>2, <1>3, <1>4, <1>5, <1>6

(* The inductive invariant of Scheduler holds in every state. *)
THEOREM Invariance == Spec => []IInv
<1>1. Init => IInv
  BY InitIInv
<1>2. IInv /\ [Next]_vars => IInv'
  BY NextIInv
<1> QED BY <1>1, <1>2, PTL DEF Spec

(* Every variable keeps its type. *)
THEOREM TypeCorrect == Spec => []TypeOK
<1>1. IInv => TypeOK
  BY TypeParts DEF IInv
<1> QED BY <1>1, Invariance, PTL

(* A block that the daemon has seen is in historyOpenFile, as it was first  *)
(* seen, until its record is written: newHistoryTracker picks it up after a *)
(* restart, and after a loss of power if a copy had reached the disk.       *)
THEOREM BlockStaysOnDisk == Spec => []InProgressKept
<1>1. IInv => InProgressKept
  BY DEF IInv, Kept, InProgressKept
<1> QED BY <1>1, Invariance, PTL

(* appendHistory gets no block twice, unless the daemon went down between   *)
(* that and dropping the open record.                                       *)
THEOREM WrittenOnce == Spec => RecordedOnce
<1>1. ASSUME IInv, [Next]_vars, daemon = "observe", daemon' = "forget"
      PROVE  open.start # log \/ cut
  <2>1. Observe
    BY <1>1, Rewrites DEF Next, Daemon, Wake, EnableCmd, Mark, Forget, ForgetWith,
       DaemonStarts, DaemonKilled, Lose, StartByHand, EndByHand, Rmmod, Modprobe,
       EditCheck, Rewrite, WriteSchedule, ResetState, ResetHistory, Expire,
       Advance, Suspend, PowerLoss, vars
  <2>2. open # NoRecord
    BY <1>1, <2>1 DEF Observe, ObserveOn, Record, NothingToRecord
  <2> QED BY <1>1, <2>2 DEF IInv, Forgotten
<1>2. IInv /\ [Next]_vars
        => [daemon = "observe" /\ daemon' = "forget" /\ EndOf(open) > open.start
            => open.start # log \/ cut]_vars
  BY <1>1
<1> QED BY <1>2, Invariance, PTL DEF Spec, RecordedOnce

(* A scheduled block, as Minutes rounds it, lasts at least as long as every *)
(* window that was open when the daemon looked.                             *)
THEOREM BlockCovers == Spec => []CoversWindow
<1>1. ASSUME IInv, block.on, block.win # NoWindow, block.win.key \notin excused,
             NEW w \in Scheduled(plan, -1..(now \div Day)),
             w.start <= block.seen, block.seen < w.end
      PROVE  now + block.left >= w.end
  <2>1. /\ block.win = ActiveWindow(plan, block.seen) /\ block.win.end \in Int
        /\ now + block.left >= block.win.end
    BY <1>1 DEF IInv, Covers
  <2>2. /\ block.seen \in Int /\ now \in Nat /\ block.left \in Nat /\ Valid(plan)
    BY <1>1, NowType DEF IInv, Shapes, BlockShape, Plans
  <2>3. w.end <= block.win.end
    <3>1. -1..(now \div Day) \subseteq Int
      OBVIOUS
    <3> QED BY <1>1, <2>1, <2>2, <3>1, ActiveEndsLast
  <2>4. w.end \in Int
    <3>1. PICK i : <<i, w>> \in Candidates(plan, block.seen)
      <4>1. -1..(now \div Day) \subseteq Int
        OBVIOUS
      <4> QED BY <1>1, <2>2, <4>1, ScheduledIsCandidate
    <3> QED BY <2>2, <3>1, CandidateBounds
  <2> QED BY <2>1, <2>2, <2>3, <2>4
<1>2. IInv => CoversWindow
  BY <1>1 DEF CoversWindow
<1> QED BY <1>2, Invariance, PTL

(* scheduleDaemonTick starts no window twice, except after what `excused'   *)
(* holds: a window that is displaced by another never becomes active again. *)
THEOREM WindowStartsOnce == Spec => []StartedOnce
<1>1. IInv => StartedOnce
  BY DEF IInv
<1> QED BY <1>1, Invariance, PTL

-----------------------------------------------------------------------------
(* What rests on how long a round of the daemon takes.  StartsOnTime: no    *)
(* window that is open stays unblocked for longer than two rounds; LagInv   *)
(* extends IInv by what became of the windows that were begun.              *)
(* UnlockedByHand: what is forgotten of a block between two rounds is too   *)
(* little to make it look unlocked.                                         *)

(* A window that is open at t, by its key.                                  *)
IsOpen(k, t) == \E c \in Candidates(plan, t) : c[2].key = k

(* The window marked last was begun, as was the one about to be marked.     *)
Keys ==
  /\ NoKey \notin begun
  /\ {last, disk.last} \subseteq begun \cup {NoKey}
  /\ daemon = "mark" => chosen.win.key \in begun
  /\ block.on /\ block.win.key # NoKey => block.pgp

(* A window that was begun is over or blocked still.                        *)
Served ==
  \A k \in begun \ (excused \cup lifted) :
    \/ block.on /\ block.win.key = k
    \/ ~ IsOpen(k, now)

(* Up to its look at the clock the daemon may be late by the round before,  *)
(* and after it by this round alone, unless `enable' failed.                *)
Late ==
  /\ due \in Nat /\ failed \in BOOLEAN
  /\ daemon = "down" \/ ~loaded \/ block.on => due = 0
  /\ ~failed =>
       /\ due <= 2 * Lag
       /\ Unserved => due <= lag + Lag
       /\ Unserved /\ daemon \in {"mark", "observe"} => due <= lag

LagInv == IInv /\ Keys /\ Served /\ Late

-----------------------------------------------------------------------------
(* A set of numbers that is not empty has a least one. *)
LEMMA LeastNumber ==
  ASSUME NEW S, S \subseteq Nat, S # {}
  PROVE  \E m \in S : \A n \in S : m <= n
<1>1. PICK m \in S : \A n \in S : ~ (<<n, m>> \in OpToRel(<, Nat))
  BY NatLessThanWellFounded, WFMin, Zenon
<1>2. \A n \in S : ~ (n < m)
  <2>1. ASSUME NEW n \in S, n < m
        PROVE  <<n, m>> \in OpToRel(<, Nat)
    BY <2>1, Zenon DEF OpToRel
  <2> QED BY <1>1, <2>1
<1> QED BY <1>2

(* Of the windows that are open one ends last, and of those one is listed   *)
(* first: activeWindow finds one when there is one.                         *)
LEMMA SomeActive ==
  ASSUME NEW draft, Valid(draft), DOMAIN draft \subseteq Nat, NEW t \in Int,
         Candidates(draft, t) # {}
  PROVE  /\ ActiveWindow(draft, t) # NoWindow
         /\ \E c \in Last(draft, t) : c[2] = ActiveWindow(draft, t)
<1> DEFINE cs == Candidates(draft, t)
           bound == (t \div Day + 2) * Day
           times == {bound - c[2].end : c \in cs}
<1>1. t \div Day \in Int /\ bound \in Int
  BY DayType, DivBounds
<1>2. \A c \in cs : c[2].end \in Int /\ c[2].end < bound
  <2> SUFFICES ASSUME NEW c \in cs PROVE c[2].end \in Int /\ c[2].end < bound
    OBVIOUS
  <2>1. PICK i \in DOMAIN draft, d \in DaysLooked(t) :
          c = <<i, Occurrence(draft[i], d)>>
    BY DEF Candidates, WindowsAt
  <2>2. d \in Int /\ d <= t \div Day
    BY <1>1 DEF DaysLooked
  <2>3. /\ Occurrence(draft[i], d).end \in Int
        /\ Occurrence(draft[i], d).end < (d + 2) * Day
    BY <2>2, ValidTimes, OccurrenceBounds
  <2>4. (d + 2) * Day <= bound /\ (d + 2) * Day \in Int
    <3>1. bound - (d + 2) * Day = (t \div Day - d) * Day
      BY <1>1, <2>2, DayType
    <3>2. (t \div Day - d) * Day >= 0
      BY <1>1, <2>2, DayType
    <3> QED BY <1>1, <2>2, <3>1, <3>2, DayType
  <2> QED BY <1>1, <2>1, <2>3, <2>4
<1> HIDE DEF bound
<1>3. PICK latest \in cs : \A c \in cs : c[2].end <= latest[2].end
  <2>1. times \subseteq Nat /\ times # {}
    BY <1>1, <1>2
  <2>2. PICK m \in times : \A n \in times : m <= n
    BY <2>1, LeastNumber
  <2>3. PICK c \in cs : m = bound - c[2].end
    OBVIOUS
  <2>4. \A d \in cs : bound - c[2].end <= bound - d[2].end
    BY <2>2, <2>3
  <2> QED BY <1>1, <1>2, <2>3, <2>4
<1> DEFINE late == {c \in cs : c[2].end = latest[2].end}
           places == {c[1] : c \in late}
<1>4. PICK c \in late : \A d \in late : c[1] <= d[1]
  <2>1. places \subseteq Nat /\ places # {}
    BY <1>3, CandidateBounds
  <2>2. PICK m \in places : \A n \in places : m <= n
    BY <2>1, LeastNumber
  <2> QED BY <2>2
<1>5. c \in Last(draft, t)
  <2> SUFFICES ASSUME NEW d \in cs PROVE EndsLater(c, d)
    BY <1>4 DEF Last
  <2> QED BY <1>2, <1>3, <1>4 DEF EndsLater
<1>6. PICK a \in Last(draft, t) : a[2] = ActiveWindow(draft, t)
  BY <1>5 DEF ActiveWindow, First
<1>7. a[2].key # <<>>
  <2>1. a \in Candidates(draft, t)
    BY DEF Last
  <2>2. a[2].key = <<draft[a[1]].id, a[2].start>>
    BY <2>1, CandidateBounds
  <2> QED BY <2>2
<1> QED BY <1>6, <1>7 DEF NoWindow

-----------------------------------------------------------------------------
(* What is promised to be blocked now, the daemon starts: it has not marked *)
(* it, since then it was begun, and is over or blocked.                     *)
LEMMA UnservedWaits ==
  ASSUME IInv, Keys, Served, Unserved
  PROVE  Waiting
<1>1. /\ now \in Nat /\ now \in Int /\ Valid(plan) /\ DOMAIN plan \subseteq Nat
  <2>1. \A draft \in Drafts : DOMAIN draft \subseteq Nat
    BY SchedulerAssumption
  <2> QED BY <2>1, NowType DEF IInv, Plans
<1>2. now \div Day \in Int /\ now \div Day >= 0
  BY <1>1, DayType
<1>3. Candidates(plan, now) # {}
  <2>1. PICK w \in Scheduled(plan, -1..(now \div Day)) :
          w.start <= now /\ now < w.end
    BY DEF Unserved, OpenNow
  <2>2. -1..(now \div Day) \subseteq Int
    OBVIOUS
  <2> QED BY <1>1, <2>1, <2>2, ScheduledIsCandidate
<1>4. Active # NoWindow
  BY <1>1, <1>3, SomeActive DEF Active
<1>5. PICK c \in Last(plan, now) : c[2] = Active
  BY <1>1, <1>3, SomeActive DEF Active
<1>6. c \in Candidates(plan, now)
  BY DEF Last
<1>7. Active \in OpenNow
  <2>1. PICK i \in DOMAIN plan :
          plan[i].enabled /\ c \in {<<i, w>> : w \in WindowsAt(plan[i], now)}
    BY <1>6 DEF Candidates
  <2>2. PICK w \in WindowsAt(plan[i], now) : c = <<i, w>>
    BY <2>1
  <2>3. PICK d \in DaysLooked(now) :
          d % Week \in plan[i].days /\ w = Occurrence(plan[i], d)
    BY <2>2 DEF WindowsAt
  <2>4. w.start <= now /\ now < w.end
    BY <2>2 DEF WindowsAt
  <2>5. d \in -1..(now \div Day)
    BY <1>2, <2>3 DEF DaysLooked
  <2>6. w \in Scheduled(plan, -1..(now \div Day))
    BY <2>1, <2>3, <2>5 DEF Scheduled
  <2> QED BY <1>5, <2>2, <2>4, <2>6 DEF OpenNow
<1>8. \A v \in OpenNow : v.end <= Active.end
  <2>1. -1..(now \div Day) \subseteq Int
    OBVIOUS
  <2> QED BY <1>1, <1>4, <2>1, ActiveEndsLast DEF OpenNow, Active
<1>9. Active.key \notin lifted \cup excused
  BY <1>7, <1>8 DEF Unserved
<1>10. Active.key # NoKey
  BY <1>1, <1>4, ActiveBounds DEF Active, NoKey
<1>11. ~ Started(Active)
  <2> SUFFICES ASSUME last = Active.key PROVE FALSE
    BY DEF Started
  <2>1. last \in begun \ (excused \cup lifted)
    BY <1>9, <1>10 DEF Keys
  <2>2. ~ IsOpen(last, now)
    BY <2>1 DEF Served, Unserved
  <2> QED BY <1>5, <1>6, <2>2 DEF IsOpen
<1> QED BY <1>4, <1>11 DEF Unserved, Waiting, BlockingEnabled

-----------------------------------------------------------------------------
(* Keys *)
LEMMA KeysStep ==
  ASSUME IInv, Keys, [Next]_vars
  PROVE  Keys'
<1>0. disk'.last \in {disk.last, last', NoKey}
  BY DiskStep DEF IInv, OnDisk, Reaches
<1>1. CASE Wake
  BY <1>0, <1>1 DEF Wake, Keys
<1>2. CASE EnableCmd
  <2>1. /\ chosen.win.key # NoKey /\ UNCHANGED <<last, chosen>>
        /\ daemon' \in {"mark", "observe"}
    BY <1>2 DEF EnableCmd, IInv, Chosen
  <2>2. CASE block' # block
    <3>1. begun' = begun \cup {chosen.win.key} /\ block'.pgp = TRUE
      BY <1>2, <2>2 DEF EnableCmd
    <3> QED BY <1>0, <2>1, <3>1 DEF Keys
  <2>3. CASE block' = block
    <3>1. \/ begun' = begun \cup {chosen.win.key}
          \/ begun' = begun /\ daemon' = "observe"
      BY <1>2 DEF EnableCmd
    <3> QED BY <1>0, <2>1, <2>3, <3>1 DEF Keys
  <2> QED BY <2>2, <2>3
<1>3. CASE Mark
  BY <1>0, <1>3 DEF Mark, Keys
<1>4. CASE \E m \in UserBlocks, pgp \in BOOLEAN : StartByHand(m, pgp)
  <2>1. block'.win.key = NoKey /\ UNCHANGED <<begun, last, daemon, chosen>>
    BY <1>4 DEF StartByHand, NoKey
  <2> QED BY <1>0, <2>1 DEF Keys
<1>5. CASE \/ EndByHand \/ Expire
  <2>1. block'.on = FALSE /\ UNCHANGED <<begun, last, daemon, chosen>>
    BY <1>5, NoBlockIs DEF EndByHand, Expire
  <2> QED BY <1>0, <2>1 DEF Keys
<1>6. CASE \/ Advance \/ \E n \in Gaps : Suspend(n)
  <2>1. /\ block'.on = block.on /\ block'.win = block.win /\ block'.pgp = block.pgp
        /\ UNCHANGED <<begun, last, daemon, chosen>>
    BY <1>6 DEF Advance, Suspend, IInv, Shapes, BlockShape
  <2> QED BY <1>0, <2>1 DEF Keys
<1>7. CASE \E n \in Gaps : PowerLoss(n)
  <2>1. /\ \/ block' = NoBlock
           \/ /\ block'.on = block.on /\ block'.win = block.win
              /\ block'.pgp = block.pgp
        /\ UNCHANGED <<begun, disk>> /\ last' = disk.last /\ daemon' = "down"
    BY <1>7, AfterLoss DEF IInv, Shapes
  <2> QED BY <2>1, NoBlockIs DEF Keys
<1>8. CASE ResetState
  BY <1>0, <1>8 DEF ResetState, Keys
<1>9. CASE \/ Observe \/ Forget \/ DaemonStarts \/ DaemonKilled
  <2>1. UNCHANGED <<begun, last, block>> /\ daemon' # "mark"
    BY <1>9 DEF Observe, ObserveOn, Record, NothingToRecord, SaveOpen,
       ModuleState, Forget, ForgetWith, DaemonStarts, DaemonKilled, Lose
  <2> QED BY <1>0, <2>1 DEF Keys
<1>10. CASE \/ Rmmod \/ Modprobe \/ EditCheck \/ Rewrite \/ ResetHistory
            \/ UNCHANGED vars
  <2>1. UNCHANGED <<begun, last, block, daemon, chosen>>
    BY <1>10 DEF Rmmod, Modprobe, EditCheck, Rewrite, WriteSchedule,
       ResetHistory, vars
  <2> QED BY <1>0, <2>1 DEF Keys
<1> QED BY <1>1, <1>2, <1>3, <1>4, <1>5, <1>6, <1>7, <1>8, <1>9, <1>10,
  Rewrites DEF Next, Daemon

(* A window that was begun was open once, so one that is not open is over,  *)
(* and stays so.                                                            *)
LEMMA OverStays ==
  ASSUME IInv, NEW k \in begun \ excused, ~ IsOpen(k, now),
         NEW u \in Int, now <= u
  PROVE  ~ IsOpen(k, u)
<1>1. /\ now \in Int /\ Valid(plan) /\ Judged \in Int /\ Judged <= now
  BY NowType, JudgedType DEF IInv, Plans, Shapes
<1>2. PICK t \in Int : t <= Judged /\ Was(plan, k, t)
  BY DEF IInv, Begun
<1>3. PICK a \in Candidates(plan, t) : a[2].key = k
  BY <1>2 DEF Was, Last
<1>4. SUFFICES ASSUME NEW c \in Candidates(plan, u), c[2].key = k
               PROVE  FALSE
  BY DEF IsOpen
<1>5. a[2].start = c[2].start
  BY <1>1, <1>3, <1>4, KeyNamesWindow
<1>6. /\ a[2].start <= t /\ a[2].start \in Int
      /\ u < c[2].end /\ c[2].end \in Int
  BY <1>1, <1>3, <1>4, CandidateBounds
<1>7. c[2].start <= now /\ now < c[2].end
  BY <1>1, <1>2, <1>5, <1>6
<1>8. c \in Candidates(plan, now)
  BY <1>1, <1>7, CandidateStays
<1> QED BY <1>4, <1>8 DEF IsOpen

(* A block that ran out has outlasted its window.                           *)
LEMMA ExpiredIsOver ==
  ASSUME IInv, block.on, block.left = 0, block.win # NoWindow,
         block.win.key \notin excused
  PROVE  ~ IsOpen(block.win.key, now)
<1>1. /\ now \in Int /\ Valid(plan) /\ block.seen \in Int
  BY NowType DEF IInv, Plans, Shapes, BlockShape
<1>2. /\ block.win = ActiveWindow(plan, block.seen)
      /\ block.win.end \in Int /\ now >= block.win.end
  BY <1>1 DEF IInv, Covers
<1>3. PICK a \in Last(plan, block.seen) : a[2] = block.win
  BY <1>2, ActiveIs
<1>4. SUFFICES ASSUME NEW c \in Candidates(plan, now), c[2].key = block.win.key
               PROVE  FALSE
  BY DEF IsOpen
<1>5. a \in Candidates(plan, block.seen)
  BY DEF Last
<1>6. a[2].end = c[2].end
  BY <1>1, <1>3, <1>4, <1>5, KeyNamesWindow
<1>7. now < c[2].end /\ c[2].end \in Int
  BY <1>1, CandidateBounds
<1> QED BY <1>1, <1>2, <1>3, <1>6, <1>7

(* Served *)
LEMMA ServedStep ==
  ASSUME IInv, Keys, Served, [Next]_vars
  PROVE  Served'
<1>1. CASE EnableCmd
  <2>1. UNCHANGED <<now, plan, lifted>> /\ excused \subseteq excused'
    BY <1>1 DEF EnableCmd
  <2>2. CASE block' # block
    <3>1. /\ ~block.on /\ begun' = begun \cup {chosen.win.key}
          /\ block'.on = TRUE /\ block'.win = chosen.win
      BY <1>1, <2>2 DEF EnableCmd
    <3> QED BY <2>1, <3>1 DEF Served, IsOpen
  <2>3. CASE block' = block
    <3>1. \/ begun' = begun
          \/ /\ ~block.on /\ begun' = begun \cup {chosen.win.key}
             /\ block'.on = TRUE /\ block'.win = chosen.win
      BY <1>1 DEF EnableCmd
    <3> QED BY <2>1, <2>3, <3>1 DEF Served, IsOpen
  <2> QED BY <2>2, <2>3
<1>2. CASE \E m \in UserBlocks, pgp \in BOOLEAN : StartByHand(m, pgp)
  <2>1. ~block.on /\ UNCHANGED <<now, plan, begun, excused, lifted>>
    BY <1>2 DEF StartByHand
  <2> QED BY <2>1 DEF Served, IsOpen
<1>3. CASE EndByHand
  <2>1. /\ UNCHANGED <<now, plan, begun, excused>>
        /\ lifted' = lifted \cup ({block.win.key} \ {NoKey})
    BY <1>3 DEF EndByHand
  <2> QED BY <2>1 DEF Keys, Served, IsOpen
<1>4. CASE Expire
  <2>1. /\ block.on /\ block.left = 0
        /\ UNCHANGED <<now, plan, begun, excused, lifted>>
    BY <1>4 DEF Expire
  <2>2. ASSUME NEW k \in begun \ (excused \cup lifted), block.win.key = k
        PROVE  ~ IsOpen(k, now)
    <3>1. block.win # NoWindow
      BY <2>2 DEF Keys, NoKey
    <3> QED BY <2>1, <2>2, <3>1, ExpiredIsOver
  <2> QED BY <2>1, <2>2 DEF Served, IsOpen
<1>5. CASE \/ Advance \/ \E n \in Gaps : Suspend(n)
  <2>1. /\ now \in Int /\ now' \in Int /\ now <= now'
        /\ block'.on = block.on /\ block'.win = block.win
        /\ UNCHANGED <<plan, begun, excused, lifted>>
    BY <1>5, NowType, ConstantTypes
    DEF Advance, Suspend, IInv, Shapes, BlockShape
  <2>2. ASSUME NEW k \in begun \ (excused \cup lifted), ~ IsOpen(k, now)
        PROVE  ~ IsOpen(k, now')
    BY <2>1, <2>2, OverStays
  <2> QED BY <2>1, <2>2 DEF Served, IsOpen
<1>6. CASE \E n \in Gaps : PowerLoss(n)
  <2>1. /\ now \in Int /\ now' \in Int /\ now <= now'
        /\ (block'.on = block.on /\ block'.win = block.win) \/ ~block.pgp
        /\ UNCHANGED <<begun, lifted>> /\ excused \subseteq excused'
        /\ plan' = plan \/ begun \subseteq excused'
    BY <1>6, AfterLoss DEF IInv, Shapes
  <2>2. ASSUME NEW k \in begun \ (excused \cup lifted), ~ IsOpen(k, now)
        PROVE  ~ IsOpen(k, now')
    BY <2>1, <2>2, OverStays
  <2>3. ASSUME NEW k \in begun, block.on, block.win.key = k
        PROVE  block'.on /\ block'.win.key = k
    BY <2>1, <2>3 DEF Keys
  <2> QED BY <2>1, <2>2, <2>3 DEF Served, IsOpen
<1>7. CASE \/ Rewrite \/ ResetState
  <2>1. begun' = begun /\ begun \subseteq excused'
    BY <1>7 DEF Rewrite, WriteSchedule, ResetState
  <2> QED BY <2>1 DEF Served
<1>8. CASE \/ Wake \/ Mark \/ Observe \/ Forget \/ DaemonStarts
           \/ DaemonKilled \/ Rmmod \/ Modprobe \/ EditCheck \/ ResetHistory
           \/ UNCHANGED vars
  <2>1. UNCHANGED <<now, plan, block, begun, lifted>> /\ excused \subseteq excused'
    BY <1>8 DEF Wake, Mark, Observe, ObserveOn, Record, NothingToRecord,
       SaveOpen, ModuleState, Forget, ForgetWith, DaemonStarts, DaemonKilled,
       Lose, Rmmod, Modprobe, EditCheck, ResetHistory, vars
  <2> QED BY <2>1 DEF Served, IsOpen
<1> QED BY <1>1, <1>2, <1>3, <1>4, <1>5, <1>6, <1>7, <1>8, Rewrites
  DEF Next, Daemon

(* Late *)
LEMMA LateStep ==
  ASSUME IInv, Keys, Served, Late, [Next]_vars
  PROVE  Late'
<1>1. /\ Lag \in Nat /\ lag \in 0..Lag /\ due \in Nat /\ failed \in BOOLEAN
      /\ Unserved => loaded /\ ~block.on
      /\ daemon = "down" \/ ~loaded \/ block.on => due = 0
      /\ lag' \in 0..Lag
  BY ConstantTypes, NumbersStep DEF Late, IInv, Numbers, Unserved
<1>2. ASSUME ~failed
      PROVE  /\ due <= 2 * Lag
             /\ Unserved => due <= lag + Lag
             /\ Unserved /\ daemon \in {"mark", "observe"} => due <= lag
  BY <1>2 DEF Late
<1>3. CASE due' = 0 /\ failed' \in BOOLEAN
  <2>1. 0 <= 2 * Lag
    BY <1>1
  <2>2. 0 <= lag' /\ lag' \in Nat
    BY <1>1
  <2>3. 0 <= lag' + Lag
    <3>1. \A a, b \in Nat : 0 <= a + b
      OBVIOUS
    <3> QED BY <1>1, <2>2, <3>1
  <2> QED BY <1>3, <2>1, <2>2, <2>3 DEF Late
<1>4. CASE Advance
  <2>1. CASE Unserved /\ daemon # "down"
    <3>1. /\ lag' = lag + 1 /\ due' \in {due, due + 1} /\ UNCHANGED <<loaded, daemon>>
          /\ failed' = failed /\ block'.on = block.on
      BY <1>4, <2>1 DEF Advance, IInv, Shapes, BlockShape
    <3> QED BY <1>1, <1>2, <2>1, <3>1 DEF Late
  <2>2. CASE ~ (Unserved /\ daemon # "down")
    <3>1. due' = 0 /\ failed' = failed
      BY <1>4, <2>2 DEF Advance
    <3> QED BY <1>1, <1>3, <3>1
  <2> QED BY <2>1, <2>2
<1>5. ASSUME UNCHANGED <<now, plan, kernel>>,
             lifted \subseteq lifted', excused \subseteq excused'
      PROVE  Unserved' => Unserved
  BY <1>5 DEF Unserved, OpenNow
<1>6. CASE Wake
  <2>1. /\ Unserved' => Unserved
        /\ UNCHANGED <<lag, kernel>> /\ daemon = "asleep"
    BY <1>5, <1>6 DEF Wake
  <2>2. CASE Waiting
    <3>1. UNCHANGED delay /\ daemon' = "enable"
      BY <1>6, <2>2 DEF Wake
    <3> QED BY <1>1, <1>2, <2>1, <3>1 DEF Late
  <2>3. CASE ~Waiting
    <3>1. ~Unserved
      BY <2>3, UnservedWaits
    <3>2. due' = 0 /\ failed' = FALSE
      BY <1>6, <2>3, <3>1 DEF Wake
    <3> QED BY <1>3, <3>2
  <2> QED BY <2>2, <2>3
<1>7. CASE EnableCmd
  <2>1. CASE CountAnew
    BY <1>3, <2>1 DEF CountAnew
  <2>2. CASE ~CountAnew
    <3>1. /\ failed' = (loaded /\ ~block.on) /\ UNCHANGED <<due, block, loaded>>
          /\ daemon' = "observe"
      BY <1>7, <2>2 DEF EnableCmd
    <3>2. CASE loaded /\ ~block.on
      <4>1. failed' = TRUE
        BY <3>1, <3>2
      <4> QED BY <1>1, <3>1, <3>2, <4>1 DEF Late
    <3>3. CASE ~(loaded /\ ~block.on)
      <4>1. due' = 0 /\ failed' = FALSE
        BY <1>1, <3>1, <3>3
      <4> QED BY <1>3, <4>1
    <3> QED BY <3>2, <3>3
  <2> QED BY <2>1, <2>2
<1>8. CASE \/ Mark \/ Observe \/ Forget
  <2>1. Unserved' => Unserved
    BY <1>5, <1>8 DEF Mark, Observe, Forget, ForgetWith
  <2>2. /\ UNCHANGED <<delay, kernel>>
        /\ \/ daemon = "mark" /\ daemon' = "observe" /\ lag' = lag
           \/ daemon = "observe" /\ daemon' \in {"asleep", "forget"} /\ lag' = 0
           \/ daemon = "forget" /\ daemon' = "asleep" /\ lag' = lag
    BY <1>8 DEF Mark, Observe, ObserveOn, Record, NothingToRecord, Forget, ForgetWith
  <2>3. ~failed => due <= 2 * Lag /\ (Unserved => due <= lag + Lag)
    BY <1>2
  <2>4. ~failed /\ Unserved /\ daemon \in {"mark", "observe"} => due <= lag
    BY <1>2
  <2>5. /\ ~failed' /\ Unserved' => due' <= lag' + Lag
        /\ ~failed' /\ Unserved' /\ daemon' \in {"mark", "observe"} => due' <= lag'
    <3>1. lag \in Nat /\ lag <= Lag /\ 0 + Lag = Lag
      BY <1>1
    <3>2. CASE lag' = lag
      BY <2>1, <2>2, <2>3, <2>4, <3>2
    <3>3. CASE /\ daemon = "observe" /\ daemon' \in {"asleep", "forget"}
               /\ lag' = 0
      <4>1. ~failed /\ Unserved => due <= Lag
        BY <1>1, <2>4, <3>1, <3>3
      <4> QED BY <2>1, <2>2, <3>1, <3>3, <4>1
    <3> QED BY <2>2, <3>2, <3>3
  <2>6. daemon' = "down" \/ ~loaded' \/ block'.on => due' = 0
    BY <1>1, <2>2
  <2> QED BY <1>1, <2>2, <2>3, <2>5, <2>6 DEF Late
<1>9. CASE DaemonStarts \/ Modprobe
  <2>1. due = 0 /\ UNCHANGED delay
    BY <1>1, <1>9 DEF DaemonStarts, Modprobe
  <2> QED BY <1>1, <1>3, <2>1
<1>10. CASE \/ EditCheck \/ ResetState \/ ResetHistory \/ UNCHANGED vars
  <2>1. /\ UNCHANGED <<now, plan, kernel, delay, lag, daemon>>
        /\ lifted' = lifted /\ excused \subseteq excused'
    BY <1>10 DEF EditCheck, ResetState, ResetHistory, vars
  <2> QED BY <1>1, <1>2, <1>5, <2>1 DEF Late
<1>11. CASE \/ DaemonKilled \/ Rewrite
            \/ (\E m \in UserBlocks, pgp \in BOOLEAN : StartByHand(m, pgp))
            \/ EndByHand \/ Rmmod \/ Expire
            \/ (\E n \in Gaps : Suspend(n) \/ PowerLoss(n))
  <2>1. CountAnew
    BY <1>11 DEF DaemonKilled, Rewrite, WriteSchedule, StartByHand, EndByHand,
       Rmmod, Expire, Suspend, PowerLoss, Lose
  <2> QED BY <1>3, <2>1 DEF CountAnew
<1> QED BY <1>4, <1>6, <1>7, <1>8, <1>9, <1>10, <1>11, Rewrites DEF Next, Daemon

-----------------------------------------------------------------------------
(* LagInv holds in every state. *)
THEOREM LagInvariance == Spec => []LagInv
<1>1. Init => LagInv
  <2> SUFFICES ASSUME Init PROVE Keys /\ Served /\ Late
    BY InitIInv DEF LagInv
  <2>1. Keys /\ Served
    BY NoBlockIs DEF Init, Keys, Served
  <2>2. Late
    <3>1. Lag \in Nat /\ 0 <= 2 * Lag /\ 0 <= 0 + Lag
      BY ConstantTypes
    <3> QED BY <3>1, NoBlockIs DEF Init, Late
  <2> QED BY <2>1, <2>2
<1>2. LagInv /\ [Next]_vars => LagInv'
  BY NextIInv, KeysStep, ServedStep, LateStep DEF LagInv
<1> QED BY <1>1, <1>2, PTL DEF Spec

(* The daemon starts a block within two rounds for the window that ends     *)
(* last of those that are open, unless it was lifted or excused, or as long *)
(* as `enable' fails in every round.                                        *)
THEOREM WindowsStartOnTime == Spec => []StartsOnTime
<1>1. LagInv => StartsOnTime
  BY ConstantTypes DEF LagInv, Late, StartsOnTime
<1> QED BY <1>1, LagInvariance, PTL

-----------------------------------------------------------------------------
(* The time a block had left when the daemon saw it last has run down by    *)
(* now or runs down in this round, unless the block was ended by hand or    *)
(* the machine slept.                                                       *)
Remembered ==
  open # NoRecord /\ daemon # "forget" /\ {"by hand", "slept"} \cap ends = {} =>
    lastRem <= Lag \/ (block.on /\ block.left + lag >= lastRem)

LEMMA RememberedStep ==
  ASSUME IInv, Remembered, [Next]_vars
  PROVE  Remembered'
<1>1. /\ Lag \in Nat /\ lag \in Nat /\ lag <= Lag /\ 0 <= Lag
      /\ block.left \in Nat /\ lastRem \in Nat
  BY ConstantTypes DEF IInv, Numbers
<1>2. CASE lastRem' = 0 \/ open' = NoRecord \/ daemon' = "forget"
  BY <1>1, <1>2 DEF Remembered
<1>3. CASE Forget \/ DaemonKilled \/ \E n \in Gaps : PowerLoss(n)
  BY <1>2, <1>3 DEF Forget, ForgetWith, DaemonKilled, PowerLoss, Lose
<1>4. CASE DaemonStarts
  <2>1. lastRem' = 0
    BY <1>4 DEF DaemonStarts, IInv, Times
  <2> QED BY <1>2, <2>1
<1>5. CASE Observe
  <2>1. CASE ObserveOn(ModuleState)
    <3>1. lastRem' = block.left /\ lag' = 0 /\ block' = block /\ block.on
      BY <1>5, <2>1 DEF Observe, ObserveOn, ModuleState
    <3>2. block'.left + lag' >= lastRem'
      BY <1>1, <3>1
    <3> QED BY <3>1, <3>2 DEF Remembered
  <2>2. CASE Record(ModuleState)
    BY <1>2, <2>2 DEF Record
  <2>3. CASE NothingToRecord(ModuleState)
    <3>1. /\ ~block.on /\ UNCHANGED <<open, lastRem, block>>
          /\ (ends' = ends \/ open = NoRecord) /\ daemon = "observe"
      BY <1>5, <2>3 DEF Observe, NothingToRecord, ModuleState, IInv, Flags
    <3> QED BY <1>1, <1>2, <1>5, <3>1 DEF Remembered, Observe
  <2> QED BY <1>5, <2>1, <2>2, <2>3 DEF Observe
<1>6. CASE \/ EnableCmd
           \/ \E m \in UserBlocks, pgp \in BOOLEAN : StartByHand(m, pgp)
  <2>1. /\ UNCHANGED <<open, lastRem, lag, ends>>
        /\ daemon = "forget" => daemon' = "forget"
        /\ ~block.on \/ block' = block
    BY <1>6, <1>2 DEF EnableCmd, StartByHand
  <2> QED BY <1>1, <2>1 DEF Remembered
<1>7. CASE EndByHand
  <2>1. "by hand" \in ends'
    BY <1>7 DEF EndByHand
  <2> QED BY <2>1 DEF Remembered
<1>8. CASE Expire
  <2>1. /\ block.on /\ block.left = 0 /\ ends' = ends \cup {"expired"}
        /\ UNCHANGED <<open, lastRem, lag, daemon>>
    BY <1>8 DEF Expire
  <2>2. block.left + lag >= lastRem => lastRem <= Lag
    BY <1>1, <2>1
  <2> QED BY <2>1, <2>2 DEF Remembered
<1>9. CASE Advance
  <2>1. /\ block'.on = block.on /\ block'.left = CountDown(1)
        /\ ~(block.on /\ block.left = 0)
        /\ UNCHANGED <<open, lastRem, daemon, ends>>
    BY <1>9 DEF Advance, IInv, Shapes, BlockShape
  <2>2. CASE daemon = "down"
    <3>1. lastRem = 0
      BY <2>2 DEF IInv, Times
    <3> QED BY <1>2, <2>1, <3>1
  <2>3. CASE daemon # "down"
    <3>1. lag' = lag + 1
      BY <1>9, <2>3 DEF Advance
    <3>2. block.on => block'.left = block.left - 1
      BY <1>1, <2>1 DEF CountDown
    <3>3. block.on => block'.left + lag' = block.left + lag
      BY <1>1, <3>1, <3>2
    <3> QED BY <2>1, <3>3 DEF Remembered
  <2> QED BY <2>2, <2>3
<1>10. CASE \E n \in Gaps : Suspend(n)
  <2>1. CASE block.on
    <3>1. "slept" \in ends'
      BY <1>10, <2>1 DEF Suspend
    <3> QED BY <3>1 DEF Remembered
  <2>2. CASE ~block.on
    <3>1. UNCHANGED <<open, lastRem, daemon, ends>>
      BY <1>10, <2>2 DEF Suspend
    <3> QED BY <2>2, <3>1 DEF Remembered
  <2> QED BY <2>1, <2>2
<1>11. CASE \/ Wake \/ Mark
  <2>1. UNCHANGED <<open, lastRem, block, lag, ends>> /\ daemon # "forget"
    BY <1>11 DEF Wake, Mark
  <2> QED BY <2>1 DEF Remembered
<1>12. CASE \/ Rmmod \/ Modprobe \/ EditCheck \/ Rewrite \/ ResetState
            \/ ResetHistory \/ UNCHANGED vars
  <2>1. UNCHANGED <<open, lastRem, block, lag, ends, daemon>>
    BY <1>12 DEF Rmmod, Modprobe, EditCheck, Rewrite, WriteSchedule, ResetState,
       ResetHistory, vars
  <2> QED BY <2>1 DEF Remembered
<1> QED BY <1>3, <1>4, <1>5, <1>6, <1>7, <1>8, <1>9, <1>10, <1>11, <1>12,
  Rewrites DEF Next, Daemon

(* A record that says "unlocked" is of a block that somebody ended or that  *)
(* the machine slept through, as long as a round takes no more than the two *)
(* ticks that observe allows for.                                           *)
THEOREM UnlockedMeansByHand ==
  ASSUME Lag <= 2
  PROVE  Spec => UnlockedByHand
<1>1. Init => Remembered
  BY DEF Init, Remembered
<1>2. IInv /\ Remembered /\ [Next]_vars => Remembered'
  BY RememberedStep
<1>3. ASSUME IInv, Remembered, [Next]_vars, daemon = "observe",
             daemon' = "forget", Outcome(open) = "unlocked"
      PROVE  {"by hand", "slept"} \cap ends # {}
  <2>1. Observe
    BY <1>3, Rewrites DEF Next, Daemon, Wake, EnableCmd, Mark, Forget, ForgetWith,
       DaemonStarts, DaemonKilled, Lose, StartByHand, EndByHand, Rmmod, Modprobe,
       EditCheck, Rewrite, WriteSchedule, ResetState, ResetHistory, Expire,
       Advance, Suspend, PowerLoss, vars
  <2>2. open # NoRecord /\ ~block.on
    BY <1>3, <2>1 DEF Observe, ObserveOn, Record, NothingToRecord, ModuleState
  <2>3. lastRem # 0 /\ ~(lastRem <= 2)
    BY <1>3 DEF Outcome
  <2>4. Lag \in Nat /\ lastRem \in Nat
    BY <1>3, ConstantTypes DEF IInv, Numbers
  <2>5. ~(lastRem <= Lag)
    BY <2>3, <2>4
  <2> QED BY <1>3, <2>2, <2>5 DEF Remembered
<1>4. IInv /\ Remembered /\ [Next]_vars
        => [daemon = "observe" /\ daemon' = "forget" /\ Outcome(open) = "unlocked"
            => {"by hand", "slept"} \cap ends # {}]_vars
  BY <1>3
<1> QED BY <1>1, <1>2, <1>4, Invariance, PTL DEF Spec, UnlockedByHand
=============================================================================
