# kblocker in TLA+

kblocker blocks web sites with a Linux kernel module.  A *block* runs for a
number of minutes; it is *insecure* (anybody may end it) or *locked* (it ends
when its time is up, or when somebody presents a key that was encrypted for the
registered key holders and then forgotten).  Locked blocks survive a reboot.  A
Go program, `kblockerctl`, is the command line, the daemon that starts scheduled
blocks and writes the history, and the web server for key holders.  A desktop
program runs `kblockerctl`.

What is hard here is not any single handler.  It is that a lock has to hold
against power losses, half-written files, stale timers, a module that is being
unloaded, and a set of commands that share sysfs and a few directories without
a lock among them.  These modules are about that.

## 1. Inventory

### Session (`src/state.c`, `src/key.c`, the stores and `init`/`exit` of `src/main.c`)

- *State*: the flags `enabled`, `pgp_active`, `state_restored`, `allow_unload`;
  the raw key, its hash and the one-shot copy of it (`unload_key`, `key_hash`,
  `pgp_key`); the end of the block on the boot-time clock; a one-second timer
  and the work it queues; the state file, held open while a locked block runs.
- *Operations*: writes to `enabled`, `disable`, `unblock`, `pgp_active` and the
  lists, a read of `key`; the expiry work; module load, with restore, and unload.
- *Interaction*: all handlers take the mutex `kb_lock`.  What does not take it is
  the clock, the timer callback, the first test in the exit function, and the
  power.  A session calls into file protection and writes `/etc/hosts`.
- *Hard*: the order of truncation, write and fsync of the only copy of the
  session; failing writes; work that was queued for an earlier block; a key that
  may be seen exactly once; unload while handlers run.
- *Correct when*: a lock ends only for one of the reasons it may; what is on the
  disk brings the same lock back; a key that was sealed is nowhere else; every
  block ends.

### File protection (`src/file_protection.c`)

- *State*: slots with the hooked inode, its copied `inode_operations` and
  whether the immutable flag is ours; a timer and its work; the counter of hook
  calls in flight.
- *Operations*: enable, disable, the periodic re-arm, and the three hooks that
  other processes run.
- *Interaction*: called under `kb_lock`; the work has a mutex of its own; hooks
  run in whatever process touches a protected file.
- *Hard*: disabling cancels work that re-arms the timer and takes the same
  mutex; tables may be freed only when no one can be inside, or on the way into,
  a hook; paths come to name other inodes; others set the same flag.
- *Correct when*: no freed table is reachable, disabling terminates and leaves
  nothing behind, flags are given back, and a path stays protected.

The same file writes the kblocker section of `/etc/hosts`; that belongs to the
session's story and is modelled there.

### Commands and key ring (`cmd/kblockerctl/main.go`, `reset.go`)

- *State*: registered keys (`/etc/kblocker/pgp`), ciphertexts of the current key
  (`unlock-<fingerprint>.asc`), and what each running command has read so far.
- *Operations*: `enable [--insecure]`, `disable`, `unblock`, `unload`, `reload`,
  `key`, `add-pgp`, `remove-pgp`, `list-pgp`, `pgp-cipher`, `status`, `crash`,
  `reset --key-holders`, the list commands, and the pages that register a key,
  hand out a ciphertext and submit a key.
- *Interaction*: processes that share sysfs and directories, with no lock.  The
  scheduler runs `enable`; the web server runs inside the scheduler.
- *Hard*: every command is check, then act; the key in sysfs is shown once, to
  whoever comes first; a command can die at any point, and the kernel's timer
  ends blocks beneath all of them.
- *Correct when*: everyone a block was sealed for can end it, nobody else can,
  its key was not shown to anybody, and what is printed of all this is true.

### Key holder pages (`cmd/kblockerctl/web.go`, `reset.go`)

- *State*: the address, four times over: in a drop-in of the scheduler's unit, in
  what systemd has loaded of it, in the environment of the running service, and in
  the socket that it listens on; and servers started from a terminal.
- *Operations*: `web-pages`, `reset`, `add-pgp-web`, `unblock-web`, the start of the
  daemon.
- *Interaction*: through systemd (`daemon-reload`, `try-restart`, `show`), and
  through ports that only one of them can have.
- *Hard*: four copies that are brought up to date one after another; a drop-in that
  is truncated and then filled; commands that overlap or die; a stopped service,
  which must be left stopped; a listener that is tried once.
- *Correct when*: they agree once all commands are done, the pages are served
  nowhere but where the user was told, and the port is kept.

### Scheduler and history (`cmd/kblockerctl/schedule.go`, `history.go`)

- *State*: the plan, the key of the window started last, the open record and its
  file, the remaining time the tracker saw last.
- *Operations*: a tick every five seconds (maybe start a block, observe, sleep),
  and `schedule set`, `schedule clear` and `reset [--history]`.
- *Interaction*: starts `kblockerctl enable` as a process; sees blocks end only
  by polling.
- *Hard*: windows that overlap or run past midnight; a restart between starting
  a block and writing that down; sleep and power loss, which the wall clock and
  the block's own clock see differently; deciding after the fact why a block
  ended.
- *Correct when*: each window is started in time, once, and for as long as it
  lasts, and the history says what happened.

### Block lists, their files and the packets (`src/netfilter.c`, `src/parse.c`, list stores of `src/main.c`, list commands of `main.go`, `reset.go`)

- *State*: sites, addresses and allowed networks in the kernel; `domains.conf`
  and `allowed_ips.conf`; the hooks of netfilter and the stages of unloading; a
  packet inside a hook.
- *Operations*: `block`, `add`, `remove`, `block-ip`, `allow-ip`, `reload`,
  `reset` and the part of `enable` that writes the lists; the verdict on a packet;
  load and unload.
- *Interaction*: commands write sysfs first and copy to a file what the kernel
  took; `enable` writes the files to the kernel; packets meet the lists while the
  module is there, without waiting for anybody.
- *Hard*: every command tests once that nothing is blocked and acts later; files
  are truncated and then filled; a packet is judged under several short locks; the
  lists are freed behind hooks that nobody waited for.
- *Correct when*: a block has the lists that the user said and keeps them; a
  packet gets the verdict that the lists demand; no hook reads a freed list.

### Other parts

| part | where | what it keeps and does | what makes it correct |
|---|---|---|---|
| TLS walk | `src/parse.c` | finds the name in a ClientHello | stays inside the packet; agrees with a reference |
| same-origin check | `web.go` | refuses requests whose Host or Origin is foreign | keeps no state |
| desktop program | `gui/` | shows state, runs `kblockerctl` | no state of its own that matters |
| fuzzers, tests, packaging | `cmd/fuzz`, `fuzz`, `tests`, `test.sh`, `debian`, `Makefile` | | not part of the running system |

## 2. Modules

| module | models | checked by |
|---|---|---|
| `Session` | the session with its files, its timer and the power | `session_safety`, `session_liveness` |
| `Lock` | abstract: what a lock promises | through `SessionLock` |
| `SessionLock` | the mapping from `Session` to `Lock` | `session_liveness` |
| `SessionClaims` | sentences of the documentation on sessions | `claim_reboot`, `claim_hosts` |
| `SessionInv` | the inductive invariant | proved, see section 6 |
| `SessionProofs`, `SessionLockProofs` | theorems | the proof system |
| `FileProtection` | file protection | `protection`, `claim_inflight` |
| `FileProtectionProofs` | theorems on `FileProtection` | the proof system |
| `Ctl` | commands, key ring, what the pages do | `ctl_safety`, `claim_sealed` |
| `CtlProofs` | theorems on `Ctl` | the proof system |
| `Pages` | where the pages are served | `pages_safety` |
| `PagesProofs` | theorems on `Pages` | the proof system |
| `Windows` | the plan as a function of time | through `Scheduler` |
| `Scheduler` | the daemon and the history tracker | `scheduler_safety`, `claim_history` |
| `WindowsProofs`, `SchedulerProofs` | lemmas on `Windows`, theorems on `Scheduler` | the proof system |
| `Netfilter` | the lists in the kernel, the verdict on a packet, unloading | through `Sites` |
| `Sites` | the commands that edit lists, the files, `enable` beside them | `sites_safety` |
| `SitesProofs` | theorems on `Netfilter` and `Sites` | the proof system |
| `MC*` | instances for TLC | |

Each definition that stands for code is listed in `PROJECT.json` with its lines.
A definition whose name ends in what a mistake would look like (`NoFsync`,
`KeyReused`, `MatchesSuffix`, `OnlyToday` ...) stands just before the one it
differs from; it is used by nothing, and replacing the right one by it must
break the property that `PROJECT.json` names.

### Session

Variables carry the names of the C globals.  A handler is one step for what it
does in memory and one step for each write that survives a loss of power: `pc`
says which write comes next, and `op` which handler holds `kb_lock`.
`EnableBlocking` is the store to `enabled` up to its first write; `UpdateHosts`,
`OpenStateFile`, `WriteStateFile` (or `ClearBeforeInsecure`) and `ProtectAndArm`
are the rest of `start_session`; `Unprotect`, `Unhosts` and `ClearAndReturn` are
the end of a block, whoever ends it.  `file` is the state file as the running
system reads it, `disk` what the disk holds; `Writeback` may carry the one to the
other at any time, `Fsync` does, and `PowerLoss` leaves either of them.  Writes
may fail or be torn (`CutFiles`).  So may fsync, whose result the module ignores:
`state_filp` is set all the same, and the disk has any part of what was written.
`synced` notes whether the fsync of the record that the open file begins with
succeeded; nothing in the code reads it.  On the way back, a file that cannot be
opened or read starts the module without its session (`InitFresh`), and a list for
which there is no memory is left out of it (`RestoreLists`).

Keys are numbers and the hash of a key is that key; `minted` counts them, so a
key that is drawn is new.  The contents of the lists are one value, `Lists`.
`Tick` lowers `left`, the distance between `expiry_boot` and the boot-time clock,
at any time while the machine is on and independently of the timer, as time does
under a mutex.

Left out: `KBLOCKER_DEBUG` code (its assertion, `kb_check_invariants`, is the
property `DebugInvariants`), and the `expiry:` line that old versions wrote.

### Lock and SessionLock

`Lock` knows nothing of handlers, flags, timers or files.  A block is none,
insecure or locked; it has a key, lists and a time; once *committed*, it is on
the disk as it is.  A locked block ends when its time is up or its key was
presented.  Power comes and goes and what is then found is what was written
down, as far as it can be read.  `SessionLock` maps: a locked block is committed
once the fsync of its record has succeeded, the record is the state file, what was
presented is the buffer of the handler that holds the mutex.  Later saves of the time
that is left may fail, in the write or the fsync; what was committed stays then.

### FileProtection

One caller turns the protection on and off (`Enable`, `EnableTarget`,
`EnableDone`; `Disable` and the stages of waiting and freeing after it); the work
is `WorkStart` to `WorkDone`; each process inside the file system is a *walker*
that reads `i_op` (`Load`), enters the hook found there, leaves it and returns.
A grace period (`synchronize_rcu`) is the set of walkers it still waits for.
Walkers outside RCU are not among them; the constant `Preempt` says whether the kernel
preempts its own code, so that one may be overtaken between its read of `i_op` and its
hook.  It does, in all runs.  A set-attribute call is outside RCU too, but holds the
inode's lock, which `protection_disable` needs; `Overtakable` is what is left, the
permission checks that nothing waits for (section 5).  Remounts and resets by others
are actions with a bound (`MaxMoves`), `chattr` by others has none.

The flag that an inode is given (immutable or append-only) is one per inode, and
failing allocations are a choice at the place that allocates.

### Ctl

A process is a command and the place where it has come to (`proc[p].at`); each
step does one file operation.  The kernel is what sysfs shows of it, a record of
eight fields, and changes by the operations `Prearmed`, `Began`, `Ended`,
`Restored` - the handlers of `Session` from outside, with hosts file, lists and
time abstracted away.  `cipher[h]` is the key inside the ciphertext of holder
`h`; encrypting may fail, and `remove-pgp` is two steps because it removes two
files.  `unload` goes from `Authorize` (the store to `unblock`) over `Rmmod` and the
sweep to `Wipe`; `reset` asks (`ResetAsks`, `ConfirmReset`) and then removes the keys
before the ciphertexts, both from one listing.  `KeyEntry`, `ListPGP`, `Recipients` and
`Cipher` are what the commands that change nothing print.
The loops of the two sweeps are one step each.  `Commands` says which
commands are given and `Rivals` which may run beside any other one.

`key` falls back on decrypting a ciphertext, as `unblock` does; since its user is
then a key holder, this is not counted as the key having been printed.
Handlers in `main.go` that no route leads to (`handleKeyByFP`, `handleAPIKey`,
`handleAPIRefreshEnc`, `handleAPICiphertext`) are not modelled.

### Windows and Scheduler

Time is counted in ticks of the daemon; a day has `DayLen` minutes of `Minute`
ticks and a week `Week` days.  `Windows` is `windowsAt` and `activeWindow`, and
beside them `Scheduled`, the occurrences of a plan by definition, which the
properties use and the code does not.  The daemon goes through `Wake`,
`EnableCmd`, `Mark` and `Observe`; `EnableCmd` may succeed, start a block and
fail afterwards, or do nothing.  A block that is found to be over is appended to the
history (`Record`) in one step, and the open record removed (`Forget`) in the next.
Users start and end blocks, unload the module, and change the plan: `EditCheck` is the
test that nothing is blocked, and `ScheduleSet` (which takes what `Valid` accepts),
`ScheduleClear` or `ResetSchedule` writes; a reset goes on with `ResetState` and, if the
history is to go, `ResetHistory`.  `Advance` cannot pass the moment where a
block is due to end, or leave the daemon without a turn for more than `Lag`
ticks.  `Suspend` moves both clocks at once, `PowerLoss` only the wall clock.

The daemon and `schedule` write their files without fsync.  `disk` is what a loss of
power would leave of them: after each write (`Written`) it is the new contents, what the
disk had before, or a file without its contents.  `PowerLoss` puts the files back to
that, and a locked block comes back with the time the kernel saved last, which is up to a
minute old (`STATE_SAVE_INTERVAL_S`), and so with up to a minute more.  A reboot in good
order is the case that the disk has everything.  Once no more events are left, the power
does not go any more, and `disk` is the files, so that it adds no states.

`due` counts how long a window has been open, unstarted and unblocked, and `failed` notes
that the daemon's last round tried to start one and `enable` failed with nothing in its
way.

The labels of a record (locked, scheduled by) are left out, and so are daylight
saving and changes of the clock.  `log` keeps the start of the last record only.

### Pages

`file`, `loaded`, `service` and `server` are the copies of the address.  An address is a
host and a port; hosts are `localhost`, `any` and those that `custom` may name, which
the machine may have or not (`Bindable`).  `web-pages` is `WebPages` or `WebPagesOff`,
`Truncate`, `Fill`, `DaemonReload` and `TryRestart`; `reset` is `Reset`, `Remove` and the
same last two.  The service is spawned by systemd with what is loaded (`Spawn`) and tries
to listen once (`StartDaemonWeb`).  `said` is what the last command reported, and is
`Unsaid` while one runs and after two that overlapped; `torn` notes that a command died
between its first change and its last, `port` is the port last chosen.  Left out is the
check that refuses a port that is no number (web.go:224): all ports here are.

### Netfilter and Sites

`Netfilter` has the two pure functions of `parse.c` that decide what is blocked,
on sequences of characters: `Normalize` (what is stored for a name as typed) and
`DomainMatches`.  `BelongsTo` and `ToBeDropped` say by definition what they are
for; only the properties use them.  `Chars` are the characters there are, and `Small`
pairs capital letters with their small ones.  `Trim` takes from the first character that
stays to the last one, `Others` is a list without the entries that are dropped, both
written with positions instead of recursion.  A packet goes through `Enter`, `CheckAllowed`,
`CheckBlocked`, `CheckDomains` and `CheckName`, one for each time the C code takes
its lock, and `pkt.steady` notes whether anything has changed meanwhile.  Unloading
is `Leave` (the test in the exit function), `RemoveSysfs`, `Wait` (the grace period
in `protection_disable`), `CleanupNetfilter`, `FreeLists` and `Unloaded`.

`Sites` has a process for each command; `proc[p].at` is its next file operation.
Writing a file is two steps, since `os.WriteFile` truncates first.  `promised` is
what the commands that have succeeded amount to.  It becomes unknown, and stays so, in the
cases where the code gives no answer:

- two commands overlap (two edits lose one of them, and nothing prevents it);
- a command or the machine dies between truncating a file and filling it, or
  before there was anything in the file (an empty file counts as no file);
- the module goes away under a command.

`chosen` is what the lists were when the block began.

Left out: IPv4 and IPv6 are one; a network is the set of its addresses; the TLS
walk is the name it finds (a hello that could not be copied counts as cut off); a hook for FORWARD that could not be registered; the
limit on addresses; reads and writes of more than a page; blocked addresses have
no file in the code either, and are gone after a reboot.  `Reset` covers lists,
addresses and networks; its other parts are in `Scheduler`, `Pages` and `Ctl`.  Commands stand still while the exit function is past the removal of
sysfs (`Settled`): they find no sysfs then, exactly as after it.

## 3. Runs

| run | question | bounds |
|---|---|---|
| `session_safety` | do the invariants of a session and its lock hold when anything may fail? | 2 seconds, a save every 2 runs of the work, 3 keys, 1 power loss, 2 contents of the lists |
| `session_liveness` | does a session implement `Lock`, and does every block end, when files behave? | the same, 2 power losses, no failures |
| `protection` | is a freed table ever reachable, is everything given back, does disabling return, and are paths protected again? | 1 path, 1 slot, 2 inodes, 1 walker, 2 moves, kernel preemption |
| `ctl_safety` | can every holder, and nobody else, end a locked block, whatever dies half-way? | 2 processes, 2 holders, 3 keys |
| `scheduler_safety` | are windows started once, in time and for long enough, and recorded right and once? | 6 minutes of 2 ticks (a day has 5 minutes), 2 plans and 6 that are refused, 1 event |
| `pages_safety` | do drop-in, systemd and service agree, and are the pages where the user was told? | 2 commands, 1 server, 4 hosts, 2 ports, 4 events |
| `sites_safety` | does a block have the sites the user said, do packets meet them, whatever dies half-way? | 2 commands or 1 and a packet (`Width`), of which one is `enable` (`Rivals`), lists of 2, 5 packets, 1 unload or loss of power |
| `claim_*` | see section 5 | |

Why these bounds are enough for what they are asked:

- *Sessions*: two seconds let a block be saved, run down and expire, with a tick
  before, during and after every handler.  Three keys let one block follow
  another and the old key be presented.  One loss of power can come at any
  write; the second one in `session_liveness` strikes a session that has been
  restored.  The theorems of section 6 cover every other value.
- *Protection*: a path that moves gives two inodes that are hooked in turn, by the caller
  or by the work, with one slot, so that it runs out; an allocation that fails has the
  same effect.  The walker goes through every kind of call at every stage of disabling.
  That it is one, and the slot one, is for the size of the instance, in which liveness is
  checked as well; section 6 proves the safety properties for any number of paths,
  slots, inodes and walkers, and for failing allocations.
- *Ctl*: two processes are one command that is being disturbed and one that
  disturbs it; with two holders one can be removed while the other is not.  Three
  keys are one before, one of and one after a locked block.
- *Scheduler*: with two ticks to a minute, rounding matters.  The
  twelve ticks take in a day with two windows that overlap, a window that began the
  evening before, and a midnight inside the one that begins at the end of the day, with
  room for a daemon that is down for a while.  One event (a block by hand, a
  change of the plan, a reset, an unload, a kill, a sleep or a loss of power), beside
  `enable` failing, blocks ended with the key and expiry, which are not bounded.
- *Pages*: two commands at a time are what can overlap.  Two ports tell one that is kept
  from the default one, `off` between two other settings takes three commands, and the
  fourth event is a stop, a crash, a reboot or a server in a terminal.

- *Sites*: the names are `x`, `*..X` (the same site, once normalized) and `nx`
  (ends like it and is another one).  The packets have a name below `x`, the name
  `nx`, a hello that is cut off, QUIC, and a later fragment, so each branch of the hook
  is taken.  Lists have room for two, so a third name is refused.  Of two commands
  at a time one is `enable`: that is the one that a command which has already
  tested `enabled` can lose to.  Once `promised` is unknown no further edit begins
  (`MuddledEdits`); the run then goes on with blocks, packets and unloading, for
  which the other properties still hold.

Deadlock is checked in `ctl_safety` and `sites_safety`, where somebody can always do something.  In
the other runs the system may stop: time ends at a bound (`Scheduler`), power
stays off when the last loss has been used up, an unloaded module does nothing, and
nobody has to give another command once the events are used up (`Pages`).

Symmetry is used where values are interchangeable and no liveness is checked:
processes and holders in `ctl_safety`, processes in
`sites_safety` and `pages_safety`.

## 4. Properties

*Sessions.* `DebugInvariants` is what the debug build asserts when the mutex is
released.  `SealedKey`: the key of a locked block was seen by nobody until its
only copy is read, and afterwards no copy is left.  `ShownKeyWorks`: an insecure
block shows the key that ends it, also after a cancelled pre-arm.  `Durable`: while the
state file is open it is this block, with its lists and no less time; once the fsync of
its record has succeeded so is what is on the disk, whatever fails later.  `TimerLive`: a
block is never left without timer and work, whatever work was queued by an
earlier one.  `LockHolds`: a lock ends by time, key, or the end of machine or
module.  `CleanEnd`: a block that ended leaves nothing to restore in the state file; the
clear is not synced, and a loss of power right after it may still bring the block back.
`KeepsPromise`: the session implements `Lock`.  `BlockEnds`: every block, and every
block that a boot would bring back, is over one day.

*Protection.* `HookedSafely`, `TablesAlive`: no hook works on an emptied slot and
no inode points at a freed table.  The first is about every hook call but that of a
permission check preempted outside RCU, for which `TablesOutliveWalks` (section 5) does
not hold.  `OffMeansOff`: when `protection_disable` has returned, no slot, hook, timer or
work is left, and nobody on the way into a hook but those.  `FlagsRestored`: every file has
the flag its owner gave it.  `DisableReturns`: it does return.  `Reprotects`: a
path that comes to name another inode is protected again.

*Commands.* `KeyHolders`: everyone for whom `enable` said it had encrypted finds a
ciphertext of the right key for as long as the block lasts.  `SealedOnly`: that
key was never printed.  `NoGhost`: no ciphertext of it is there for anybody who is
not registered, except after a reset that was answered when a block had begun.
`ReportsTrue`: whoever is shown as a recipient has the key of this block, whatever
earlier commands left behind, and whoever it was sealed for is shown.  `InsecureSkipsPGP`: a block that `--insecure` started is locked
only if an `enable` had died after asking for the lock; that it then *is* locked,
with the key in nobody's hands, is how the code behaves.

*Schedule.* `StartedOnce`, `StartsOnTime`, `CoversWindow`: each window once, within
two rounds of a running daemon, and a block that outlasts every window the daemon
saw open.  When `enable` fails and starts nothing, the window goes on waiting and its
time is counted on; `StartsOnTime` then asks that the last round tried.  `UnlockedByHand`: only a block that somebody ended is recorded as
unlocked, or one that the machine slept through.  They excuse, by name, the
windows of which a start was cut short before it was written down, whose mark went with
the power before it was on the disk, for which `enable` failed after it had begun, or
whose plan was changed.  `InProgressKept`: from the moment the daemon has seen a block,
what a restart or a reboot picks up is that block; so it is after a loss of power, if a
copy of its record had reached the disk.  `RecordedOnce`: no record is written twice,
unless the daemon went down between writing one and forgetting it, or a loss of power
brought back what it had forgotten; then it is, and the property says so by name (`cut`).

*Pages.* `Settled`: when all commands are done and none died half-way, file, systemd
and service agree, however they overlapped.  `ServedWhereSaid`: after a command has
reported an address, and until the next one begins, the service listens there or
nowhere.  `PortKept`: a command that names no port reports the one chosen last, unless
`off` or a reset has come between.

*Lists.* `VerdictRight`: while nothing changes, the steps of the hook together give
the verdict that the lists as a whole demand; when a list changes under a packet, it may be
judged by parts of both, and nothing is claimed.  `ListsAlive`: no hook reads the address
lists after they were freed.  It rests on two waits that were not put there for
it, and it excuses a block that began between the exit function's test and the
removal of sysfs.  `FixedWhileOn`: a block keeps the lists it began with, also
across a reboot; this is where a name that is stored must be a fixed point of
`Normalize`, and where only the kernel's own test protects against a command that
tested `enabled` too early.  `BlocksWhatWasSaid`: what a block has is what the user's commands,
one after another, amount to, with reboots and killed commands among them.  It takes a
file as on the disk when `os.WriteFile` has returned, which does not fsync.

`TypeOK` is there once in each module.

### Fairness

Liveness assumes of the kernel that a handler that holds the mutex goes on, that
timers fire and queued work runs, that time passes, that loading and unloading
go on once begun, and that a machine that was switched off is switched on again
(`Session`); that a caller and a file operation that has begun go on, and that
work gets its mutex in the end (`FileProtection`; strong fairness where a step
waits for a mutex, an inode lock or a grace period that others take in turn).
Nothing is assumed of users: no one has to start, end or unlock anything, and
power need not fail.  No fairness is needed for `Ctl`, `Scheduler`, `Pages` and
`Sites`, whose properties are all safety; that the daemon gets its turn is the bound `Lag`.

## 5. Where the code and its documentation differ

Each of these is a run with one property that states the sentence quoted, and
TLC's shortest behaviour that breaks it.

| run | sentence | what happens |
|---|---|---|
| `claim_reboot` | "a locked block survives a reboot" (README.md:27) | a restored session is written down again over its only copy; power lost in between drops it |
| `claim_inflight` | `protection_disable()` "waits for in-flight hook calls before the replacement tables are freed" (src/file_protection.c:26) | a permission check outside RCU that was preempted between its read of `i_op` and the increment of `hook_inflight` is waited for by nothing, and its table is freed |
| `claim_hosts` | "Insecure sessions are never persisted and do not survive a reboot" (docs/commands.md:90) | their section of the hosts file does |
| `claim_sealed` | "Any one of them can unlock" (README.md:116) | `reload` that read the key before an `enable` began replaces the ciphertexts of the new key |
| `claim_history` | the daemon "records every block" (docs/commands.md:119) | a block that ends just before a scheduled one begins is merged with it |

Seen while modelling, and without a run:

- "Unloading needs the key even when no block is running" (README.md:176).
  `kblockerctl unload` asks for a key; `rmmod` by itself needs none, since the exit
  function asks only while a block runs (src/main.c:518; `Crash` in `Ctl`).
- `enable` can find the key gone that it is about to encrypt, when another reader was
  first (main.go:629), or fail to encrypt it for everyone (main.go:668): the block is
  then locked, and nobody has its key.  `SealedOnly` and `KeyHolders` are about blocks
  that were sealed.
- When `systemctl` fails in `reset`, a second `reset` finds no drop-in and reports
  "Key holder pages reset" (reset.go:138), while the service keeps its old address.
- "The port is kept unless --port changes it" (web.go:206): not across `off`, which has
  no port to keep (`PortKept` says so).
- "The scheduler service already hosts this page" (web.go:196) is said whoever has the
  port, another `add-pgp-web` for one.
- `reset` tests `enabled` before it asks for confirmation (reset.go:44): a block that the
  scheduler starts meanwhile loses the files of its key holders (`wiped` in `Ctl`).
- When `rmmod` fails in `unload` because a block has begun (main.go:887), the ciphertexts
  of that block and the registered keys are removed all the same.

## 6. Proofs

All of them hold for every value of the constants that the module's named
assumption allows, and but for those stated below they assume nothing else.  `SessionAssumption`: any length of
sessions, any interval of saves, any number of keys and losses of power, with and
without failing operations and unloading, and any set of lists.
`WindowsAssumption` and `SchedulerAssumption`: any length of day, minute and week,
any schedules that are lists, any lag, gaps, horizon and number of events.
`PagesAssumption`: any number of commands and of servers, any addresses and ports.
`ProtectionAssumption`: any number of paths, slots and moves, any inodes and walkers,
with and without failing allocations and preemption.
`NetfilterAssumption` and `SitesAssumption`: any characters, of which some are capital
and some may stand in a name, any names as typed, packets, addresses and networks, any
number of commands, and any of them beside any other.  `CtlAssumption`: any number of
processes and key holders, with and without kills and failing encryptions.
Each of the six has an `IInv` that is inductive, and from `Spec => []IInv` follow
the theorems that `PROJECT.json` lists.

The assumptions that theorems add are on constants:

- `Lag <= 2` for `UnlockedByHand`: the daemon comes round within two units of time.  A
  record says "unlocked" when more than a fixed rest was left at the last look
  (`Outcome`); a daemon that is slower than this rest calls an expired block unlocked.
- On `Rivals`, for four of the theorems on `Ctl`: which commands run beside others.  The
  code lets all of them, and what they promise does not hold then: `claim_sealed` shows
  `KeyHolders` broken by a `reload` beside an `enable`.  The theorems say which orders
  are harmless; below it is said of each what it needs.
- `Suffixes = {"asc"}` for `KeyHolders` and `ReportsTrue`: keys have the names that
  `add-pgp` and the keys page give them.  A key that was copied there as `.gpg` loses its
  ciphertext to the sweep after `enable` (main.go:715).

### Session

`SessionProofs` proves `Spec => []IInv` and from it `TypeOK`, `DebugInvariants`,
`SealedKey`, `ShownKeyWorks`, `Durable`, `TimerLive`, `CleanEnd` and the action property
`LockHolds`.  `SessionLockProofs` proves that `Session` implements `Lock`
(`Spec => KeepsPromise`): the initial states map to initial states, and for each
action there is a lemma that says which step of `Lock` it is.  Writes, fsyncs and reads
may fail in all of these.

None of the properties is inductive by itself.  `IInv` (module `SessionInv`) is
`TypeOK` and five parts:

- `Phases` ties the program counter to `enabled`.  Without it a handler half-way
  through could be ending a block that was never begun.
- `Flags` is what `start_session` and `stop_session` keep together: the module
  reference, `allow_unload`, the time left, the open file.
- `KeyInv` says where the raw key is, and that keys not drawn yet were not seen.
  `SealedKey` needs it when a block begins: its key is above all that were seen.
- `DiskInv` says what the two copies of the file may look like, and what they
  are while it is open and once it is `synced`.  `Durable` needs it across `Tick`, which
  lowers `left` under a file that stands still, across `Writeback`, and across a save
  whose fsync fails.
- `ModeInv` is about loading and unloading: which handler can run where, and
  that a running block keeps its timer.

There is one lemma for each action (`EnableBlockingStep`, `ExpireWorkStep`, ...),
with one step for each part of `IInv` under it, and `Inductive` puts them together
along `Next`.  `CleanEnd` says something of runs without failing operations only, and
what it says of the free lock rests on what each write on the way leaves; that is
`Clean`, inductive beside `IInv`.

### Windows and Scheduler

`SchedulerProofs` proves `TypeOK`, `StartedOnce`, `CoversWindow`, `InProgressKept`
and the action property `RecordedOnce`.  Its `IInv` has one lemma for each part, and
in it one step for each action that touches it; the last step of a lemma takes the
actions that leave its variables alone together.

- `InProgressKept` needs `Kept`: while the daemon is up, what it has in memory began
  when it first saw the block, and while it is down only the file matters.
- What a loss of power puts back is `OnDisk`: a plan that is valid, and records of the
  past.  `Reaches` says what a step can bring to the disk: what was there, what the file
  now has, or nothing.
- `RecordedOnce` needs `Times` and `Forgotten`: what is open did not begin at the time
  of the record written last.  A new record begins `now`, so `Times` must know that the
  record written last began earlier, which holds because a round never follows
  another one at once (`lag > 0`), or because the daemon has just been started and then
  writes only a record with a length.  `Forgotten` speaks of the disk's record as well,
  which a loss of power brings back.
- `CoversWindow` needs `Chosen`, what is true between the look at the clock and the
  start of the block, and `Covers`.  That the active window ends last among all windows
  of the plan that are open is `ActiveEndsLast`, which rests on `LookedFar`: an
  occurrence that contains an instant began on its day or the day before.  That
  `Minutes` rounds up is `MinutesCover`.
- `StartedOnce` rests on `NotActiveAgain`: if k was the active window, then l, and then
  k again, k is l, since l ends no sooner and is still open.  `Begun` says that each
  window that was begun was active at some time and the one marked last at some later
  time; so when the daemon finds a window active that is not the one marked last, it was
  not begun (`FirstStart`).  A loss of power that puts another mark in the place of the
  last one excuses the window it takes; the others had another window active after them
  already (`Displaced`).  Between the choice and the mark, the times are compared with
  the choice and not with the clock (`Judged`).

The second half of `SchedulerProofs` proves what depends on how late the daemon may be.

- `StartsOnTime`: `LagInv` adds to `IInv` which keys can be marked (`Keys`), that a window
  that was begun is over or blocked still (`Served`), and how late the daemon can be at
  each point of its round, when `enable` did not fail (`Late`).  A daemon that looks while
  a window is open and unblocked goes on to start it (`UnservedWaits`): it finds an active window because of finitely
  many that are open one ends last and one of those is listed first (`SomeActive`), and
  that window is not the one marked last, which would be over or blocked still.  That times,
  which are whole numbers, have a least one is taken from the well-founded order of the
  naturals (`LeastNumber`), so there is no induction.
- `UnlockedByHand`: as long as nobody ended a block and nothing slept, what was left at
  the last look is at most `Lag`, or the block still runs with as much less as time has
  passed since (`Remembered`).

### Pages

`PagesProofs` proves `TypeOK`, `Settled`, `ServedWhereSaid` and `PortKept`.  Its `IInv`
says of a command that is alone that what it did is still there (`Single`, `Ready`), and
of the others that a difference between the file and what is loaded, or between that
and what runs, always has a command that is still to `daemon-reload` or to `try-restart`
(`Loads`, `Runs`).  `Said`, `Port` and `KeptPort` then follow what is reported.

### FileProtection

`FileProtectionProofs` proves `TypeOK`, `HookedSafely`, `TablesAlive`, `OffMeansOff` and
`FlagsRestored`.  Its `IInv` has four parts beside the types:

- `Locking`: who has `protect_lock`, and that there is no timer once it was deleted and
  no work once it was cancelled.  What `protection_disable` does from there on, it does
  alone.
- `Table`: an inode has at most one slot, and when `restore` is at slot `next` no inode
  points at a slot below it.  An install keeps it because it takes a slot that is free
  (`FreeSlotWorks`: the first one, which exists when any does) and for an inode that has
  none (`TargetInstalls`, `InstallKeeps`).
- `Walks`: who read a custom `i_op` within RCU, or on a kernel that does not preempt its
  own code, is waited for by the first grace period, and then, inside a hook, by the
  counter (`Awaited`).  A set-attribute call needs neither: it holds the inode's lock, so
  `restore` cannot pass its inode's slot (`KeepsSlot`).  What is left are permission
  checks that were preempted outside RCU (`Overtakable`).  `TablesAlive` does not depend
  on any walker.
- `FlagInv`: a flag that the owner did not give belongs to a slot whose flag is still to
  be taken back (`Ours`), and one that was lost was set while ours was there.

### Ctl

`CtlProofs` proves `TypeOK` and `SealedOnly` whatever commands run at the same time, and
the other four properties under a hypothesis on `Rivals`.

`IInv` holds for any `Rivals`.  Beside the types it says:

- `Drawn`: keys that were not drawn yet are in no file, no command and not in the kernel.
  A block that begins has a key above all of them, so what was true of the block before
  it is nobody's business any more.
- `Kept`: what the flags of the kernel say of each other (the one-shot key is that of the
  block, or gone; a restored session has none).
- `Paths`: which command can be at which place, and `Single`: beside a command that is no
  rival there are rivals only.
- `OneReader`: the one-shot key of a locked block is either with the kernel, and then no
  command encrypts with it and nobody printed it, or it was given to one reader; one that
  printed it did not seal the block.  `SealedOnly` is a part of this.
- `Armed`: a lock that was asked for without a block has an `enable` that is about to start
  one, or one that died there.

A step is looked at twice: what it does to the kernel (`KernelMoves`, `Lockings`) and what
it does to the command (`Begun` for those that begin, `GoesOn`, `Led` and `Turns` for the
others); the lemma for each part of an invariant joins the two.

- `InsecureSkipsPGP`, with neither `enable` nor `enable --insecure` among `Rivals`
  (`Unlocked`): by `Armed` and `Single` a pre-armed kernel that `--insecure` meets was
  left behind by an `enable` that died.
- `NoGhost`, with no rival that encrypts, removes a key or unloads (`Ghosts`).  `disable`,
  `unblock` and `reset` may be rivals, and keys may have any suffixes.  A key leaves the
  ring in three ways (`Leavings`): behind a removal or an unload that has taken the ciphertext
  first, or by a reset, which is then written in `wiped`.
- `KeyHolders` and `ReportsTrue`, with no rivals but the pages that submit a key, `key` and
  `enable --insecure` (one more than in `ctl_safety`).  `Sealed` says that no command at a
  place where it writes or sweeps ciphertexts is left when a block is sealed, and that none
  gets there: the key is gone from the kernel, a submit that succeeds ends the block.
  `Sealing` says how far an `enable` has come, `Untold` that whoever is about to leave the
  ring does not count any more.

### Netfilter and Sites

`SitesProofs` proves `TypeOK`, `VerdictRight`, `ListsAlive`, `FixedWhileOn` and
`BlocksWhatWasSaid`, with any `Rivals`.  It begins with lemmas on what the operators
compute for every string:

- `MatchIsBelonging`: `DomainMatches`, which compares from the right, is `BelongsTo`.
- `Normalize` gives the empty name or a fixed point of itself.  This is where the order of
  its steps matters: what is left after the star and the dots begins with neither.
- what `Trim` and `Others` return: that they find the characters and entries they promise
  is by well-founded order of the naturals (a set of numbers has a least one), so that here,
  too, there is no induction.

`VerdictRight` needs what a packet that has come so far was not stopped by (its place in the
hook stands for the lists it has passed), as long as nothing has changed.  `ListsAlive` needs
in which stage of unloading a packet can be where.  `FixedWhileOn` needs that what is stored
is normalized, so that a restore brings back the same.  For `BlocksWhatWasSaid` the work is
in `Said`: for each place in the middle of a command, what files and kernel have to do with
what was promised before it and what will have been promised after it; as long as `promised`
is known, a command that is in the middle is the only one (`Alone`).

### Checked by TLC only

Everything on liveness (`BlockEnds`, `DisableReturns`, `Reprotects`), since the prover
does not treat fairness.  Every invariant and every other action property of a run is the
statement of a theorem; those of `Ctl` that need a hypothesis on `Rivals` are claimed for
nothing beyond it.

## 7. Plan

The order was: the session first, since everything rests on its lock; what it
promises (`Lock`) and the proofs; then file protection, whose concurrency is the
hardest to test; then commands and schedule, which live in many processes; then
the lists and the packets, which are what all of it is for; then the addresses of the
pages, and the commands that unload, reset and clear.

Next, the rest of the model:

1. Keys registered as `.gpg` and `.pub` (`Suffixes`), whose new ciphertexts the sweep
   after `enable` deletes.
2. `Ctl`'s view of the kernel as a specification that `Session` implements, so that
   the two need not be compared by eye.
3. The TLS walk as a parser with an offset and a length, for its bounds.
4. Lists of more than a page, of which a read shows only the beginning.

And then the proofs: that `Session` implements `Ctl`'s view of the kernel, once that is
written down (2.); which pairs of commands are harmless for `KeyHolders`, one pair at a
time, instead of one command at a time.

Not modelled, and to stay out: OpenPGP itself, the pages' JavaScript, the check of Host
and Origin headers (a function of one request), what is printed for people, the desktop
program (it runs `kblockerctl` for every change), and the fuzzers and tests.
