------------------------------ MODULE Scheduler ------------------------------
(***************************************************************************)
(* schedule-daemon (cmd/kblockerctl/schedule.go and history.go): it wakes   *)
(* every scheduleTick, starts a block when a window is open and blocking is *)
(* off, and writes down the blocks it sees.  Beside it users start and end  *)
(* blocks, set, clear and reset the schedule and unload the module, blocks  *)
(* expire, the machine sleeps and loses power, and the daemon itself is     *)
(* killed and started again.                                                *)
(*                                                                          *)
(* The unit of time is one scheduleTick.  The wall clock is `now'; a block  *)
(* counts down while the machine is on or asleep, and not while it is off.  *)
(***************************************************************************)
EXTENDS Windows

CONSTANTS
  Drafts,      \* the schedules that `schedule set' is given
  UserBlocks,  \* minutes of the blocks that users start by hand
  Lag,         \* units from one wake-up of the daemon to the end of the next
  Horizon,     \* bound: when the clock stops
  MaxEvents,   \* bound: blocks started by hand, changes of the schedule,
               \* kills of the daemon, losses of power, unloads and sleeps
  Gaps         \* units for which the machine sleeps, or is without power

ASSUME SchedulerAssumption ==
  /\ Lag \in Nat \ {0} /\ Horizon \in Nat
  /\ MaxEvents \in Nat
  /\ UserBlocks \subseteq Nat /\ Gaps \subseteq Nat
  /\ \A draft \in Drafts : DOMAIN draft \subseteq Nat

VARIABLES
  now,       \* the wall clock
  plan,      \* scheduleFile
  editing,   \* a command on its way: "no", "schedule" when it has found
             \* blocking off, or what is left of a reset: "state",
             \* "state only", "history"
  last,      \* scheduleStateFile: the window that was started last
  loaded,    \* is the module there?
  block,     \* the block the kernel runs
  daemon,    \* "down", "asleep", "enable", "mark", "observe" or "forget"
  chosen,    \* the window the daemon is starting a block for, and its minutes
  open,      \* historyTracker.open
  openFile,  \* historyOpenFile
  log,       \* historyFile: the start of the record written last
  disk,      \* what a loss of power leaves of these files
  lastRem,   \* historyTracker.lastRemaining
  lastSaved, \* historyTracker.lastSaved
  lag,       \* units since the daemon went to sleep
  begun,     \* history: windows the daemon started a block for
  again,     \* history: windows it started a block for a second time
  lifted,    \* history: windows whose block was ended with the key
  excused,   \* history: windows whose start was cut short or rescheduled
  due,       \* history: units a window has been open, unstarted and unblocked,
             \* counted to one more than StartsOnTime allows
  failed,    \* history: in its last round the daemon tried to start one, and
             \* `enable' failed although nothing was in its way
  ends,      \* history: how blocks have ended since the last record
  watched,   \* history: when the daemon first saw the block that it has not
             \* written a record of, but for what a loss of power takes
  cut,       \* history: it went down with a record written and not forgotten,
             \* or a record that it had forgotten came back
  events     \* history: how many of what MaxEvents bounds

kernel  == <<loaded, block>>
records == <<openFile, log>>
kept    == <<plan, last, records>>
files   == <<kept, disk>>
tracker == <<open, lastRem, lastSaved>>
seen    == <<ends, watched, cut>>
starts  == <<begun, again, lifted, excused>>
delay   == <<due, failed>>
ghosts  == <<starts, seen, events>>
vars == <<now, editing, kernel, daemon, chosen, files, tracker, lag, delay, ghosts>>

NoKey    == NoWindow.key
NoStart  == [win |-> NoWindow, mins |-> 0, at |-> 0]
NoRecord == [start |-> -1, end |-> -1]
NoBlock  == [on |-> FALSE, pgp |-> FALSE, left |-> 0, win |-> NoWindow,
             keyed |-> FALSE, began |-> 0, seen |-> 0]
Never    == -1

Active == ActiveWindow(plan, now)
(* What the user is promised: blocking in the windows that are open at this *)
(* moment, whatever day they began on.                                      *)
OpenNow == {w \in Scheduled(plan, -1..(now \div Day)) : w.start <= now /\ now < w.end}

Unserved ==
  /\ loaded /\ ~block.on /\ OpenNow # {}
  /\ \A w \in OpenNow : (\A v \in OpenNow : v.end <= w.end)
                           => w.key \notin lifted \cup excused

(* From here on nothing that is open has been waiting.                       *)
CountAnew == due' = 0 /\ failed' = FALSE

(* No file is written with fsync.  When the power goes, the disk may have    *)
(* what was written, what it had before, or the file without its contents,   *)
(* which reads like none.                                                    *)
Written(new, empty) ==
  disk' \in IF events < MaxEvents THEN {disk, new, empty} ELSE {new}

(* Past the last event the power goes no more, and the disk has everything.  *)
Counted == events < MaxEvents /\ events' = events + 1
Event ==
  /\ Counted
  /\ disk' = IF events' < MaxEvents THEN disk
             ELSE [plan |-> plan, last |-> last, open |-> openFile, log |-> log]

Init ==
  /\ now = 0 /\ plan \in {p \in Drafts : Valid(p)} /\ editing = "no"
  /\ last = NoKey /\ loaded = TRUE /\ block = NoBlock
  /\ daemon = "asleep" /\ chosen = NoStart
  /\ open = NoRecord /\ openFile = NoRecord /\ lastRem = 0 /\ lastSaved = Never
  /\ log = Never /\ watched = Never /\ cut = FALSE
  /\ disk = [plan |-> plan, last |-> NoKey, open |-> NoRecord, log |-> Never]
  /\ lag = 0 /\ due = 0 /\ failed = FALSE
  /\ begun = {} /\ again = {} /\ lifted = {} /\ excused = {} /\ ends = {}
  /\ events = 0

-----------------------------------------------------------------------------
(* scheduleDaemonTick *)

BlockingEnabled == loaded /\ block.on

(* What keeps the daemon from starting a window again. *)
Started(w) == last = w.key

Waiting == Active # NoWindow /\ loaded /\ ~BlockingEnabled /\ ~Started(Active)

(* Whole minutes, so that the block never ends before the window does. *)
RoundedDown(w) == (w.end - now) \div Minute
Minutes(w)     == (w.end - now + Minute - 1) \div Minute

Wake ==
  /\ daemon = "asleep" /\ lag > 0
  /\ IF Waiting
       THEN /\ daemon' = "enable"
            /\ chosen' = [win |-> Active, mins |-> Minutes(Active), at |-> now]
            /\ UNCHANGED delay
       ELSE /\ daemon' = "observe" /\ chosen' = NoStart
            /\ due' = IF Unserved THEN due ELSE 0
            /\ failed' = FALSE
  /\ UNCHANGED <<now, editing, kernel, files, tracker, lag, ghosts>>

(* `kblockerctl enable': it starts the block, or starts it and fails to     *)
(* encrypt its key for anyone, or does nothing at all and is run again in   *)
(* the next round.                                                          *)
EnableCmd ==
  LET w == chosen.win IN
  /\ daemon = "enable"
  /\ \/ /\ loaded /\ ~block.on
        /\ \E sealed \in BOOLEAN :
             /\ block' = [on |-> TRUE, pgp |-> TRUE, left |-> chosen.mins * Minute,
                          win |-> w, keyed |-> sealed, began |-> now,
                          seen |-> chosen.at]
             /\ daemon' = IF sealed THEN "mark" ELSE "observe"
             /\ excused' = IF sealed THEN excused ELSE excused \cup {w.key}
        /\ begun' = begun \cup {w.key}
        /\ again' = again \cup (begun \cap {w.key})
        /\ CountAnew
     \/ /\ daemon' = "observe"
        /\ failed' = (loaded /\ ~block.on)
        /\ UNCHANGED <<block, begun, again, excused, due>>
  /\ UNCHANGED <<now, editing, loaded, chosen, files, tracker, lag, lifted, seen,
                 events>>

MarkMissed ==
  /\ daemon = "mark"
  /\ daemon' = "observe"
  /\ UNCHANGED <<now, editing, kernel, chosen, files, tracker, lag, delay, ghosts>>

Mark ==
  /\ daemon = "mark"
  /\ last' = chosen.win.key /\ daemon' = "observe"
  /\ Written([disk EXCEPT !.last = last'], [disk EXCEPT !.last = NoKey])
  /\ UNCHANGED <<now, editing, kernel, chosen, plan, records, tracker, lag, delay,
                 ghosts>>

-----------------------------------------------------------------------------
(* historyTracker.observe, and the sleep after it.  The open record is      *)
(* saved when it is made and then once a minute.                            *)

(* readModuleState *)
ModuleState ==
  [loaded |-> loaded, enabled |-> loaded /\ block.on, remaining |-> block.left]

Due            == lastSaved = Never \/ now - lastSaved >= Minute
ToBeSavedLater == open # NoRecord /\ Due
ToBeSaved      == open = NoRecord \/ Due

SaveOpen(e) ==
  /\ openFile' = e /\ lastSaved' = now
  /\ Written([disk EXCEPT !.open = e], [disk EXCEPT !.open = NoRecord])

ObserveOn(st) ==
  LET e == [start |-> IF open = NoRecord THEN now ELSE open.start,
            end   |-> now + st.remaining] IN
  /\ st.enabled
  /\ open' = e /\ lastRem' = st.remaining
  /\ IF ToBeSaved THEN SaveOpen(e) ELSE UNCHANGED <<openFile, lastSaved, disk>>
  /\ watched' = IF watched = Never /\ open = NoRecord THEN now ELSE watched
  /\ daemon' = "asleep"
  /\ UNCHANGED <<log, ends, cut>>

(* The record that is written when a block is found to be over. *)
OutcomeOneTick(e) ==
  IF lastRem = 0
    THEN IF now >= e.end THEN "completed" ELSE "interrupted"
    ELSE IF lastRem <= 1 THEN "completed" ELSE "unlocked"

Outcome(e) ==
  IF lastRem = 0
    THEN IF now >= e.end THEN "completed" ELSE "interrupted"
    ELSE IF lastRem <= 2 THEN "completed" ELSE "unlocked"

EndOf(e) == IF Outcome(e) = "completed" THEN e.end ELSE now

(* The block is over: its record is appended, when it has a length.         *)
Record(st) ==
  /\ st.loaded /\ ~st.enabled /\ open # NoRecord
  /\ log' = IF EndOf(open) > open.start THEN open.start ELSE log
  /\ Written([disk EXCEPT !.log = log'], disk)
  /\ watched' = Never
  /\ daemon' = "forget"
  /\ UNCHANGED <<openFile, tracker, ends, cut>>

NothingToRecord(st) ==
  /\ ~st.loaded \/ (~st.enabled /\ open = NoRecord)
  /\ ends' = IF st.loaded THEN {} ELSE ends
  /\ daemon' = "asleep"
  /\ UNCHANGED <<records, disk, tracker, watched, cut>>

Observe ==
  /\ daemon = "observe"
  /\ LET st == ModuleState IN ObserveOn(st) \/ Record(st) \/ NothingToRecord(st)
  /\ chosen' = NoStart /\ lag' = 0
  /\ UNCHANGED <<now, editing, kernel, plan, last, delay, starts, events>>

(* What is left of the block that was recorded goes, in memory and on disk. *)
ForgetWith(left) ==
  /\ daemon = "forget"
  /\ open' = NoRecord /\ lastRem' = 0 /\ lastSaved' = Never
  /\ openFile' = left /\ Written([disk EXCEPT !.open = left], disk)
  /\ ends' = {} /\ cut' = FALSE
  /\ daemon' = "asleep"
  /\ UNCHANGED <<now, editing, kernel, chosen, plan, last, log, lag, delay, starts,
                 watched, events>>

ForgetInMemory == ForgetWith(openFile)
Forget         == ForgetWith(NoRecord)

-----------------------------------------------------------------------------
(* Users *)

StartByHand(m, pgp) ==
  /\ loaded /\ ~block.on /\ Event
  /\ block' = [on |-> TRUE, pgp |-> pgp, left |-> m * Minute, win |-> NoWindow,
               keyed |-> TRUE, began |-> now, seen |-> now]
  /\ CountAnew
  /\ UNCHANGED <<now, editing, loaded, daemon, chosen, kept, tracker, lag, starts,
                 seen>>

(* With the key, or without it when there is no lock. *)
EndByHand ==
  /\ block.on /\ block.keyed
  /\ block' = NoBlock
  /\ lifted' = lifted \cup ({block.win.key} \ {NoKey}) /\ ends' = ends \cup {"by hand"}
  /\ CountAnew
  /\ UNCHANGED <<now, editing, loaded, daemon, chosen, files, tracker, lag, begun,
                 again, excused, watched, cut, events>>

(* No block is running, so the module may go; it is loaded again by hand.   *)
Rmmod ==
  /\ loaded /\ ~block.on /\ Event
  /\ loaded' = FALSE /\ CountAnew
  /\ UNCHANGED <<now, editing, block, daemon, chosen, kept, tracker, lag, starts,
                 seen>>

Modprobe ==
  /\ ~loaded /\ loaded' = TRUE
  /\ UNCHANGED <<now, editing, block, daemon, chosen, files, tracker, lag, delay,
                 ghosts>>

(* schedule set, schedule clear and reset: the check, and then the writes.  *)
EditCheck ==
  /\ editing = "no" /\ ~BlockingEnabled /\ Event
  /\ editing' = "schedule"
  /\ UNCHANGED <<now, kernel, daemon, chosen, kept, tracker, lag, delay, starts, seen>>

WriteSchedule(new, rest) ==
  /\ editing = "schedule" /\ editing' = rest
  /\ plan' = new
  /\ Written([disk EXCEPT !.plan = new], [disk EXCEPT !.plan = <<>>])
  /\ excused' = excused \cup begun \cup ({chosen.win.key} \ {NoKey}) /\ CountAnew
  /\ UNCHANGED <<now, kernel, daemon, chosen, last, records, tracker, lag, begun,
                 again, lifted, seen, events>>

ScheduleSet == \E draft \in Drafts : Valid(draft) /\ WriteSchedule(draft, "no")

ScheduleClear == WriteSchedule(<<>>, "no")

(* A reset that forgets the history as well, and one that keeps it. *)
ResetSchedule == \E rest \in {"state", "state only"} : WriteSchedule(<<>>, rest)

ResetState ==
  /\ editing \in {"state", "state only"}
  /\ editing' = IF editing = "state" THEN "history" ELSE "no"
  /\ last' = NoKey /\ Written([disk EXCEPT !.last = NoKey], disk)
  /\ excused' = excused \cup begun \cup ({chosen.win.key} \ {NoKey})
  /\ UNCHANGED <<now, kernel, daemon, chosen, plan, records, tracker, lag, delay,
                 begun, again, lifted, seen, events>>

ResetHistory ==
  /\ editing = "history" /\ editing' = "no"
  /\ log' = Never /\ openFile' = NoRecord /\ watched' = Never
  /\ \E half \in {[disk EXCEPT !.log = Never], [disk EXCEPT !.open = NoRecord]} :
       Written([disk EXCEPT !.log = Never, !.open = NoRecord], half)
  /\ UNCHANGED <<now, kernel, daemon, chosen, plan, last, tracker, lag, delay, starts,
                 ends, cut, events>>

-----------------------------------------------------------------------------
(* Time *)

(* A block at zero is ended by the kernel's timer within the second. *)
Expire ==
  /\ block.on /\ block.left = 0
  /\ block' = NoBlock /\ ends' = ends \cup {"expired"} /\ CountAnew
  /\ UNCHANGED <<now, editing, loaded, daemon, chosen, files, tracker, lag, starts,
                 watched, cut, events>>

CountDownUnclamped(n) == block.left - n
CountDown(n) == IF block.left > n THEN block.left - n ELSE 0

Advance ==
  /\ now < Horizon /\ now' = now + 1
  /\ ~(block.on /\ block.left = 0)
  /\ IF daemon = "down" THEN UNCHANGED lag ELSE lag < Lag /\ lag' = lag + 1
  /\ block' = [block EXCEPT !.left = CountDown(1)]
  /\ due' = IF Unserved /\ daemon # "down"
               THEN IF due > 2 * Lag THEN due ELSE due + 1
               ELSE 0
  /\ UNCHANGED <<failed, editing, loaded, daemon, chosen, files, tracker, ghosts>>

(* The machine sleeps: the boot-time clock goes on, processes do not. *)
Suspend(n) ==
  /\ Event /\ now + n <= Horizon /\ now' = now + n
  /\ block' = [block EXCEPT !.left = CountDown(n)]
  /\ ends' = IF block.on THEN ends \cup {"slept"} ELSE ends
  /\ CountAnew
  /\ UNCHANGED <<editing, loaded, daemon, chosen, kept, tracker, lag, starts,
                 watched, cut>>

(* The daemon's memory is lost with it; a start whose Mark is outstanding   *)
(* leaves no trace, and with it may go marks, and a record come back.       *)
Lose(marks, back) ==
  /\ daemon' = "down" /\ chosen' = NoStart
  /\ open' = NoRecord /\ lastRem' = 0 /\ lastSaved' = Never
  /\ excused' = excused \cup marks
                   \cup (IF daemon = "mark" THEN {chosen.win.key} ELSE {})
  /\ cut' = (cut \/ daemon = "forget" \/ back)
  /\ CountAnew

DaemonKilled ==
  /\ daemon # "down" /\ Event /\ Lose({}, FALSE)
  /\ UNCHANGED <<now, editing, kernel, kept, lag, begun, again, lifted, ends,
                 watched>>

(* systemd starts it again, and it does not sleep before the first round.   *)
DaemonStarts ==
  /\ daemon = "down" /\ daemon' = "asleep"
  /\ open' = openFile /\ lag' = 1
  /\ UNCHANGED <<now, editing, kernel, chosen, files, lastRem, lastSaved, delay,
                 ghosts>>

(* A reboot, when the disk has everything, or a loss of power.  A locked    *)
(* block comes back with the time the kernel saved last, up to a minute ago *)
(* (STATE_SAVE_INTERVAL_S), another one is lost.  Of the windows, the mark  *)
(* of the last may be gone; the schedule may be an old one.                 *)
MarksLost ==
  (IF disk.last = last THEN {} ELSE {last})
    \cup (IF disk.plan = plan THEN {} ELSE begun)

PowerLoss(n) ==
  /\ Counted /\ Lose(MarksLost, disk.open \notin {openFile, NoRecord})
  /\ now + n <= Horizon /\ now' = now + n
  /\ editing' = "no" /\ loaded' = TRUE
  /\ IF block.pgp
       THEN /\ \E unsaved \in 0..Minute :
                 /\ unsaved <= now - block.began
                 /\ block' = [block EXCEPT !.left = block.left + unsaved]
            /\ UNCHANGED ends
       ELSE /\ block' = NoBlock
            /\ ends' = ends \cup (IF block.on THEN {"lost"} ELSE {})
  /\ plan' = disk.plan /\ last' = disk.last
  /\ openFile' = disk.open /\ log' = disk.log
  /\ watched' = IF disk.open.start = openFile.start THEN watched ELSE Never
  /\ UNCHANGED <<disk, lag, begun, again, lifted>>

-----------------------------------------------------------------------------
Daemon == Wake \/ EnableCmd \/ Mark \/ Observe \/ Forget \/ DaemonStarts

Next ==
  \/ Daemon \/ DaemonKilled
  \/ \E m \in UserBlocks, pgp \in BOOLEAN : StartByHand(m, pgp)
  \/ EndByHand \/ Rmmod \/ Modprobe
  \/ EditCheck \/ ScheduleSet \/ ScheduleClear
  \/ ResetSchedule \/ ResetState \/ ResetHistory
  \/ Expire \/ Advance
  \/ \E n \in Gaps : Suspend(n) \/ PowerLoss(n)

Spec == Init /\ [][Next]_vars
-----------------------------------------------------------------------------
TypeOK ==
  /\ now \in 0..Horizon /\ plan \in Drafts \cup {<<>>} /\ Valid(plan)
  /\ editing \in {"no", "schedule", "state", "state only", "history"}
  /\ loaded \in BOOLEAN /\ (block.on => loaded)
  /\ block.on \in BOOLEAN /\ block.left \in Nat /\ block.pgp \in BOOLEAN
  /\ daemon \in {"down", "asleep", "enable", "mark", "observe", "forget"}
  /\ lastRem \in Nat /\ lag \in 0..Lag
  /\ again \subseteq begun

(* "Each window occurrence is started at most once" (schedule.go:320-323),  *)
(* unless the daemon was cut short between starting it and writing that     *)
(* down, the power went before that was on the disk, `enable' failed after  *)
(* it had started it, or the schedule changed.                              *)
StartedOnce == again \subseteq excused

(* "Round up so the block never ends before the window does" (schedule.go:  *)
(* 380): over restarts and losses of power, a scheduled block has at least  *)
(* as much time left as every window that was open when the daemon looked.  *)
CoversWindow ==
  block.on /\ block.win # NoWindow /\ block.win.key \notin excused =>
    \A w \in Scheduled(plan, -1..(now \div Day)) :
      w.start <= block.seen /\ block.seen < w.end => now + block.left >= w.end

(* "starts a block whenever a scheduled window is open and blocking is off" *)
(* (schedule.go:320-321): of the windows that are open, the one that ends   *)
(* last is not left unblocked for longer than two rounds of a running       *)
(* daemon, unless it was lifted with the key, or in the last round `enable' *)
(* was run for it and failed: it is run again in every round.               *)
StartsOnTime == due > 2 * Lag => failed

(* "unlocked // ended early with the key" (history.go:24-26): a record says *)
(* so only of a block that somebody ended, or that the machine slept        *)
(* through: the last remaining time the daemon saw is then an old one.      *)
UnlockedByHand ==
  [][daemon = "observe" /\ daemon' = "forget" /\ Outcome(open) = "unlocked"
     => {"by hand", "slept"} \cap ends # {}]_vars

(* "The same service records every block" (docs/commands.md:119): what a    *)
(* round of the daemon leaves as the open record began no earlier than the  *)
(* block it saw.                                                            *)
OneRecordPerBlock ==
  [][daemon = "observe" /\ daemon' = "asleep" /\ open' # NoRecord
     => open'.start >= block.began]_vars

(* "so a daemon restart or a reboot picks it back up" (history.go:13-16):   *)
(* from the moment the daemon has seen a block until it has written its     *)
(* record, the record is in its file and says when the block was first      *)
(* seen.  A loss of power takes it if no copy of it had reached the disk.   *)
InProgressKept == watched # Never => openFile.start = watched

(* "Finished blocks are appended to historyFile" (history.go:14): each one  *)
(* once, unless the daemon went down between that and forgetting it, or the *)
(* power went before the disk had forgotten it.                             *)
RecordedOnce ==
  [][daemon = "observe" /\ daemon' = "forget" /\ EndOf(open) > open.start
     => open.start # log \/ cut]_vars
=============================================================================
