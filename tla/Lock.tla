-------------------------------- MODULE Lock --------------------------------
(***************************************************************************)
(* What a block promises, without handlers, timers, flags or files: it is   *)
(* off, insecure (anyone may end it) or locked; a locked block ends when    *)
(* its time is up or its key is presented; and once it is committed to the  *)
(* disk, whoever turns the power off and on again finds it locked with the  *)
(* same key, the same lists and no less time, as long as the record can be  *)
(* read.                                                                    *)
(***************************************************************************)
EXTENDS Integers

CONSTANTS
  MaxSecs,   \* the longest block
  MaxKeys,   \* keys are 1..MaxKeys
  Faults,    \* may a file operation fail, or the module fail to load?
  Unloads,   \* may the module be unloaded?
  Lists, NoLists

VARIABLES
  power,      \* is the blocker running?
  starting,   \* it is, but it is not yet known whether it will stay
  block,      \* "none", "insecure" or "locked"
  left,       \* seconds until it ends
  key,        \* the key that ends a locked block, NoKey without one
  lists,      \* what is blocked
  presented,  \* the key the latest request carried
  committed,  \* is the block safely on the disk?
  record,     \* what is written down, as a reload would read it
  synced      \* what is written down, as a power loss could leave it

lockVars == <<power, starting, block, left, key, lists, presented, committed,
              record, synced>>

NoKey    == -1
Keys     == 0..MaxKeys
NoRecord == [hash |-> NoKey, rem |-> 0, lists |-> NoLists]
Valid(r) == r.hash # NoKey /\ r.rem > 0

Init ==
  /\ power = FALSE /\ starting = FALSE
  /\ block = "none" /\ left = 0 /\ key = NoKey
  /\ lists = NoLists /\ presented = NoKey /\ committed = FALSE
  /\ record = NoRecord /\ synced = NoRecord

Begin ==
  /\ power /\ block = "none"
  /\ block' \in {"insecure", "locked"}
  /\ left' \in 1..MaxSecs
  /\ IF block' = "locked" THEN key' \in Keys ELSE key' = NoKey
  /\ UNCHANGED <<power, starting, lists, committed, record, synced>>

SetLists ==
  /\ power /\ block = "none"
  /\ lists' \in Lists
  /\ UNCHANGED <<power, starting, block, left, key, committed, record, synced>>

Elapse ==
  /\ left > 0 /\ left' = left - 1
  /\ UNCHANGED <<power, starting, block, key, lists, committed, record, synced>>

(* The block is written down, with at least the time it has left.  What was *)
(* committed before stays so when a newer record does not reach the disk.   *)
Commit ==
  /\ power /\ block = "locked"
  /\ \E r \in left..MaxSecs :
       /\ r > 0
       /\ record' = [hash |-> key, rem |-> r, lists |-> lists]
  /\ synced' = record' \/ (Faults /\ committed /\ UNCHANGED synced)
  /\ committed' = TRUE
  /\ UNCHANGED <<power, starting, block, left, key, lists>>

(* What an unfinished write of the block may look like. *)
Drafts ==
  IF block = "locked" /\ ~committed
    THEN {r \in [hash : {key}, rem : left..MaxSecs, lists : {lists, NoLists}] :
            r.rem > 0} \cup {NoRecord}
    ELSE {}

(* As long as it is not committed, what is written down comes and goes. *)
Scribble ==
  /\ power /\ ~committed
  /\ record' \in {NoRecord} \cup (IF Faults THEN Drafts ELSE {})
  /\ synced' \in {synced} \cup (IF Faults THEN Drafts ELSE {})
  /\ UNCHANGED <<power, starting, block, left, key, lists, committed>>

Sync ==
  /\ synced' = record
  /\ UNCHANGED <<power, starting, block, left, key, lists, committed, record>>

End ==
  /\ power /\ block # "none"
  /\ block = "locked" => left = 0 \/ presented' = key
  /\ block' = "none" /\ left' = 0 /\ key' = NoKey /\ committed' = FALSE
  /\ UNCHANGED <<power, starting, lists, record, synced>>

Started ==
  /\ starting /\ starting' = FALSE
  /\ UNCHANGED <<power, block, left, key, lists, committed, record, synced>>

(* Starting up failed half-way: what it had restored is given up. *)
GiveUp ==
  /\ Faults /\ starting /\ starting' = FALSE
  /\ block' = "none" /\ left' = 0 /\ key' = NoKey /\ committed' = FALSE
  /\ UNCHANGED <<power, lists, record, synced>>

Down ==
  /\ power' = FALSE /\ starting' = FALSE
  /\ block' = "none" /\ left' = 0 /\ key' = NoKey
  /\ lists' = NoLists /\ committed' = FALSE

PowerOff ==
  /\ Down
  /\ record' \in {record, synced} \cup Drafts
  /\ synced' = record'

(* Unloading the module, or giving up loading it, wipes the record. *)
Unload ==
  /\ Unloads \/ Faults
  /\ power
  /\ Down
  /\ record' \in {NoRecord, record}
  /\ UNCHANGED synced

(* A valid record brings its block back, unless it cannot be read. *)
PowerOn ==
  /\ ~power /\ power' = TRUE /\ starting' = TRUE
  /\ lists' = record.lists \/ (Faults /\ lists' = NoLists)
  /\ \/ /\ Valid(record)
        /\ block' = "locked" /\ left' = record.rem /\ key' = record.hash
     \/ /\ ~Valid(record) \/ Faults
        /\ block' = "none" /\ left' = 0 /\ key' = NoKey
  /\ UNCHANGED <<committed, record, synced>>

(* A request that changed nothing of the above. *)
Refused ==
  UNCHANGED <<power, starting, block, left, key, lists, committed, record,
              synced>>

Next ==
  /\ presented' \in Keys \cup {NoKey}
  /\ \/ Begin \/ SetLists \/ Elapse \/ Commit \/ Scribble \/ Sync \/ End
     \/ Started \/ GiveUp \/ PowerOff \/ Unload \/ PowerOn \/ Refused

Spec == Init /\ [][Next]_lockVars

(* A committed block is both written down and on the disk, with no less     *)
(* time than it has left, so PowerOff and PowerOn bring it back.            *)
Kept ==
  committed =>
    /\ block = "locked" /\ power
    /\ \A r \in {record, synced} :
         Valid(r) /\ r.hash = key /\ r.lists = lists /\ r.rem >= left
=============================================================================
