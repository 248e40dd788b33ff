-------------------------------- MODULE Sites --------------------------------
(***************************************************************************)
(* What the user configures and what a block then enforces: the commands    *)
(* that change the lists (block, add, remove, block-ip, allow-ip, reload,   *)
(* reset), the files under /etc/kblocker that keep them, and `enable', which *)
(* writes the files to the kernel.  Each command is a process; it takes no  *)
(* lock, may be killed, and sees blocks begin and end beneath it.           *)
(***************************************************************************)
EXTENDS Netfilter, FiniteSets

CONSTANTS
  Procs,     \* commands that can run at the same time
  Rivals,    \* the commands that may run beside any other one
  Typed,     \* names as users type them
  Single,    \* those among them that `add' and `remove' are given
  BlockArgs, \* what `block' is given: sequences of them
  IpArgs,    \* what `block-ip' is given: sets of addresses
  NetArgs,   \* what `allow-ip' is given: sets of networks, a network being
             \* the set of its addresses
  Defaults,  \* defaultDomains
  Width,     \* bound: commands and packets under way at the same time
  MuddledEdits, \* bound: are lists edited after `promised' has become unknown?
  MaxUnloads \* bound: how many times the module is unloaded or power is lost

ASSUME SitesAssumption ==
  /\ Typed \subseteq Seq(Chars) /\ Defaults \in Seq(Seq(Chars))
  /\ Single \subseteq Typed /\ BlockArgs \subseteq Seq(Typed) /\ Valid(Defaults)
  /\ Defaults = Normalized(Defaults)
  /\ IpArgs \subseteq SUBSET Addrs /\ NetArgs \subseteq SUBSET (SUBSET Addrs)
  /\ MuddledEdits \in BOOLEAN /\ Width \in Nat /\ MaxUnloads \in Nat

VARIABLES
  proc,       \* the commands that are running
  sitesFile,  \* domains.conf
  netsFile,   \* allowed_ips.conf
  unloads,    \* history: unloads and losses of power so far
  promised,   \* history: the names and networks that the commands which
              \* reported success, one after another, amount to; not known
              \* any more when two overlapped or one died with a file empty
  chosen      \* history: the lists the running block began with

fileVars == <<sitesFile, netsFile>>
history  == <<unloads, promised, chosen>>
vars     == <<kernelVars, proc, fileVars, history>>

Free == [cmd |-> "none", at |-> "idle", typed |-> <<>>, lines |-> <<>>,
         ips |-> {}, nets |-> {}]
Absent == [there |-> FALSE, lines |-> <<>>]
NoNets == [there |-> FALSE, nets |-> {}]
Unknown == [known |-> FALSE, names |-> {}, nets |-> {}]

Names == ({Normalize(t) : t \in Typed} \ {NoName}) \cup Range(Defaults)

Nets == SUBSET Addrs

TypeOK ==
  /\ kernel \in [on : BOOLEAN, locked : BOOLEAN, domains : Seq(Names),
                 ips : SUBSET Addrs, nets : SUBSET Nets]
  /\ Len(kernel.domains) <= MaxDomains
  /\ stage \in {"off", "up", "leaving", "wait", "unhook", "free", "freed"}
  /\ raced \in BOOLEAN
  /\ pkt \in [p : Packets \cup {<<>>}, at : Places, steady : BOOLEAN]
  /\ proc \in [Procs ->
       [cmd : {"none", "block", "add", "remove", "block-ip", "allow-ip", "reload",
               "reset", "enable"},
        at : {"idle", "read", "store", "ips", "sync", "truncate", "fill", "readnets",
              "nets", "truncnets", "fillnets", "rmnets", "start"},
        typed : Seq(Typed), lines : Seq(Typed \cup Names),
        ips : SUBSET Addrs, nets : SUBSET Nets]]
  /\ sitesFile \in [there : BOOLEAN, lines : Seq(Names)]
  /\ Len(sitesFile.lines) <= MaxDomains
  /\ netsFile \in [there : BOOLEAN, nets : SUBSET Nets]
  /\ unloads \in 0..MaxUnloads
  /\ promised \in [known : BOOLEAN, names : SUBSET Names, nets : SUBSET Nets]

Init ==
  /\ NetfilterInit
  /\ proc = [p \in Procs |-> Free]
  /\ sitesFile \in {Absent, [there |-> TRUE, lines |-> Defaults]}
  /\ netsFile = NoNets
  /\ unloads = 0
  /\ promised = [known |-> TRUE, names |-> Range(sitesFile.lines), nets |-> {}]
  /\ chosen = ListsOf(NoLists)

-----------------------------------------------------------------------------
OnlyProc == UNCHANGED <<kernelVars, fileVars, history>>
Still    == UNCHANGED <<stage, raced>>

UnderWay == Cardinality({p \in Procs : proc[p] # Free})
              + IF pkt.at = "none" THEN 0 ELSE 1

MuddledIf(P) == promised' = IF P THEN Unknown ELSE promised
Promise(p) == promised' = IF promised.known THEN p ELSE Unknown

Goto(p, place) == proc' = [proc EXCEPT ![p].at = place]
Exit(p) == proc' = [proc EXCEPT ![p] = Free]

(* A command begins.  Beside another one it makes what comes of the two a   *)
(* matter of luck.                                                          *)
Begin(p, command) ==
  /\ proc[p] = Free /\ UnderWay < Width
  /\ \/ command.cmd \in Rivals
     \/ \A q \in Procs : proc[q].cmd \in Rivals \cup {"none"}
  /\ promised.known \/ MuddledEdits \/ command.cmd = "enable"
  /\ proc' = [proc EXCEPT ![p] = command]
  /\ MuddledIf(\E q \in Procs : proc[q] # Free)
  /\ UNCHANGED <<kernelVars, fileVars, unloads, chosen>>

Command(cmd, place) == [Free EXCEPT !.cmd = cmd, !.at = place]

(* requireModule and requireDisabled *)
MayEdit == Sysfs /\ ~kernel.on

BlockSites(p, typed) ==
  MayEdit /\ Begin(p, [Command("block", "store") EXCEPT !.typed = typed,
                                                        !.lines = typed])
Add(p, d) ==
  MayEdit /\ Begin(p, [Command("add", "read") EXCEPT !.typed = <<d>>])
Remove(p, d) ==
  MayEdit /\ Begin(p, [Command("remove", "read") EXCEPT !.typed = <<d>>])
BlockIp(p, ips) ==
  MayEdit /\ Begin(p, [Command("block-ip", "ips") EXCEPT !.ips = ips])
AllowIp(p, nets) ==
  MayEdit /\ Begin(p, [Command("allow-ip", "nets") EXCEPT !.nets = nets])

Reload(p) ==
  /\ Sysfs /\ sitesFile.lines # <<>>
  /\ Begin(p, [Command("reload", "store") EXCEPT !.lines = sitesFile.lines])

(* Without the module, reset sets the files alone. *)
Reset(p) ==
  /\ ~Sysfs \/ ~kernel.on
  /\ Begin(p, [Command("reset", IF Sysfs THEN "store" ELSE "truncate")
                 EXCEPT !.lines = Defaults])

Enable(p) == Sysfs /\ ~kernel.on /\ Begin(p, Command("enable", "read"))

-----------------------------------------------------------------------------
(* The sites.  currentDomains: the file if there is one, else the kernel,   *)
(* which after a reboot knows of none.                                      *)
KernelOnly == kernel.domains

Current == IF sitesFile.there THEN sitesFile.lines ELSE kernel.domains

Read(p) ==
  LET c == proc[p]  d == c.typed[1] IN
  /\ c.at = "read"
  /\ CASE c.cmd = "add" ->
            IF d \in Range(Current) THEN Exit(p)
            ELSE proc' = [proc EXCEPT ![p].at = "store",
                                      ![p].lines = Append(Current, d)]
       [] c.cmd = "remove" ->
            IF d \notin Range(Current) THEN Exit(p)
            ELSE proc' = [proc EXCEPT ![p].at = "store",
                                      ![p].lines = Others(Current, d)]
       [] c.cmd = "enable" ->
            proc' = [proc EXCEPT
              ![p].at = IF sitesFile.lines = <<>> THEN "readnets" ELSE "store",
              ![p].lines = sitesFile.lines]
  /\ OnlyProc

(* resetAllowed looks again whether the module is there. *)
ResetNets == IF Sysfs THEN "nets" ELSE "rmnets"

(* Where a command goes when the kernel took its list, and when it did not. *)
AfterStore(cmd, taken) ==
  CASE cmd \in {"block", "add", "remove"} -> IF taken THEN "sync" ELSE "idle"
    [] cmd = "reset"  -> IF taken THEN "ips" ELSE ResetNets
    [] cmd = "enable" -> "readnets"
    [] cmd = "reload" -> "idle"

Continue(p, place) == IF place = "idle" THEN Exit(p) ELSE Goto(p, place)

(* A block that has begun since requireDisabled does not keep the list out. *)
StoreAnyTime(p) ==
  LET taken == Sysfs /\ Valid(proc[p].lines) IN
  /\ proc[p].at = "store"
  /\ SetKernel(IF taken THEN StoredDomains(proc[p].lines) ELSE kernel)
  /\ Continue(p, AfterStore(proc[p].cmd, taken))
  /\ Still /\ UNCHANGED <<fileVars, history>>

Store(p) ==
  LET taken == ~Refused /\ Valid(proc[p].lines) IN
  /\ proc[p].at = "store"
  /\ SetKernel(IF taken THEN StoredDomains(proc[p].lines) ELSE kernel)
  /\ Continue(p, AfterStore(proc[p].cmd, taken))
  /\ Still /\ UNCHANGED <<fileVars, history>>

(* syncConfigFromKernel: what the kernel has, written in two steps. *)
Sync(p) ==
  /\ proc[p].at = "sync"
  /\ proc' = [proc EXCEPT ![p].at = "truncate", ![p].lines = kernel.domains]
  /\ OnlyProc

Truncate(p) ==
  /\ proc[p].at = "truncate"
  /\ sitesFile' = [there |-> TRUE, lines |-> <<>>]
  /\ Goto(p, "fill")
  /\ UNCHANGED <<kernelVars, netsFile, history>>

(* What the command that is done has promised. *)
NamesAfter(c) ==
  LET given == Range(Normalized(c.typed)) IN
  CASE c.cmd = "block"  -> given
    [] c.cmd = "add"    -> promised.names \cup given
    [] c.cmd = "remove" -> promised.names \ given
    [] c.cmd = "reset"  -> Range(Defaults)

Fill(p) ==
  /\ proc[p].at = "fill"
  /\ sitesFile' = [there |-> TRUE, lines |-> proc[p].lines]
  /\ Promise([promised EXCEPT !.names = NamesAfter(proc[p])])
  /\ CASE proc[p].cmd # "reset" -> Exit(p)
       [] proc[p].cmd = "reset" -> Goto(p, ResetNets)
  /\ UNCHANGED <<kernelVars, netsFile, unloads, chosen>>

(* The addresses are kept in the kernel alone. *)
StoreIps(p) ==
  /\ proc[p].at = "ips"
  /\ SetKernel(IF Refused THEN kernel ELSE StoredIps(proc[p].ips))
  /\ CASE proc[p].cmd # "reset" -> Exit(p)
       [] proc[p].cmd = "reset" -> Goto(p, IF Refused THEN ResetNets ELSE "truncate")
  /\ Still /\ UNCHANGED <<fileVars, history>>

-----------------------------------------------------------------------------
(* The networks.  A file that is not there is not written to the kernel. *)

ReadNets(p) ==
  /\ proc[p].at = "readnets"
  /\ proc' = [proc EXCEPT ![p].at = IF netsFile.there THEN "nets" ELSE "start",
                          ![p].nets = netsFile.nets]
  /\ OnlyProc

StoreNets(p) ==
  /\ proc[p].at = "nets"
  /\ SetKernel(IF Refused THEN kernel ELSE StoredNets(proc[p].nets))
  /\ CASE proc[p].cmd = "enable" -> Goto(p, "start")
       [] proc[p].cmd # "enable" /\ Refused  -> Exit(p)
       [] proc[p].cmd # "enable" /\ ~Refused ->
            Goto(p, IF proc[p].cmd = "reset" THEN "rmnets" ELSE "truncnets")
  /\ Still /\ UNCHANGED <<fileVars, history>>

TruncateNets(p) ==
  /\ proc[p].at = "truncnets"
  /\ netsFile' = [there |-> TRUE, nets |-> {}]
  /\ Goto(p, "fillnets")
  /\ UNCHANGED <<kernelVars, sitesFile, history>>

FillNets(p) ==
  /\ proc[p].at = "fillnets"
  /\ netsFile' = [there |-> TRUE, nets |-> proc[p].nets]
  /\ Promise([promised EXCEPT !.nets = proc[p].nets])
  /\ Exit(p)
  /\ UNCHANGED <<kernelVars, sitesFile, unloads, chosen>>

RemoveNets(p) ==
  /\ proc[p].at = "rmnets"
  /\ netsFile' = NoNets
  /\ Promise([promised EXCEPT !.nets = {}])
  /\ Exit(p)
  /\ UNCHANGED <<kernelVars, sitesFile, unloads, chosen>>

-----------------------------------------------------------------------------
(* Blocks begin and end; commands and machines die. *)

Start(p) ==
  /\ proc[p].at = "start"
  /\ Exit(p)
  /\ \/ Refused /\ UNCHANGED <<kernelVars, chosen>>
     \/ /\ ~Refused
        /\ \E locked \in BOOLEAN :
             SetKernel([kernel EXCEPT !.on = TRUE, !.locked = locked])
        /\ raced' = (stage = "leaving")
        /\ chosen' = ListsOf(kernel)
        /\ UNCHANGED stage
  /\ UNCHANGED <<fileVars, unloads, promised>>

End ==
  /\ Sysfs /\ kernel.on
  /\ SetKernel([kernel EXCEPT !.on = FALSE, !.locked = FALSE])
  /\ chosen' = ListsOf(NoLists)
  /\ Still /\ UNCHANGED <<proc, fileVars, unloads, promised>>

(* A command that dies has promised nothing; it does no harm either, since  *)
(* `enable' goes by the files, unless a file says nothing.                  *)
Harmed(p) ==
  \/ proc[p].at \in {"sync", "ips", "truncate", "fill"} /\ sitesFile.lines = <<>>
  \/ proc[p].at \in {"truncnets", "fillnets", "rmnets"} /\ netsFile.nets = {}

Kill(p) ==
  /\ proc[p] # Free
  /\ Exit(p)
  /\ MuddledIf(Harmed(p))
  /\ UNCHANGED <<kernelVars, fileVars, unloads, chosen>>

(* A locked block comes back with its lists; all else in memory is gone.    *)
PowerLoss ==
  /\ unloads < MaxUnloads /\ unloads' = unloads + 1
  /\ stage \in {"up", "leaving"} /\ stage' = "up"
  /\ kernel' = IF kernel.locked THEN RestoredLists(kernel) ELSE NoLists
  /\ pkt' = NoPacket
  /\ raced' = FALSE
  /\ proc' = [p \in Procs |-> Free]
  /\ MuddledIf(\E p \in Procs : Harmed(p))
  /\ chosen' = IF kernel.locked THEN chosen ELSE ListsOf(NoLists)
  /\ UNCHANGED fileVars

Rmmod ==
  /\ unloads < MaxUnloads /\ unloads' = unloads + 1
  /\ Leave
  /\ UNCHANGED <<proc, fileVars, promised, chosen>>

(* A command that finds the files of sysfs gone may empty its own, and      *)
(* `enable' does not look whether the kernel took what it wrote.            *)
SysfsGone ==
  /\ RemoveSysfs
  /\ MuddledIf(\E p \in Procs : proc[p] # Free)
  /\ UNCHANGED <<proc, fileVars, unloads, chosen>>

-----------------------------------------------------------------------------
Begins(p) ==
  \/ \E typed \in BlockArgs : BlockSites(p, typed)
  \/ \E d \in Single : Add(p, d) \/ Remove(p, d)
  \/ \E ips \in IpArgs : BlockIp(p, ips)
  \/ \E nets \in NetArgs : AllowIp(p, nets)
  \/ Reload(p) \/ Reset(p) \/ Enable(p)

Runs(p) ==
  \/ Read(p) \/ Store(p) \/ Sync(p) \/ Truncate(p) \/ Fill(p) \/ StoreIps(p)
  \/ ReadNets(p) \/ StoreNets(p) \/ TruncateNets(p) \/ FillNets(p)
  \/ RemoveNets(p) \/ Start(p)

Kernel ==
  \/ Hook \/ Load \/ Unload
  \/ UnderWay < Width /\ \E p \in Packets : Arrive(p)

(* Between the removal of sysfs and the end of the exit function commands   *)
(* find nothing, as they do afterwards: they take their steps then.         *)
Settled == stage \notin {"wait", "unhook", "free", "freed"}

Next ==
  \/ \E p \in Procs : Settled /\ (Begins(p) \/ Runs(p) \/ Kill(p))
  \/ End \/ PowerLoss \/ Rmmod \/ SysfsGone
  \/ Kernel /\ UNCHANGED <<proc, fileVars, history>>

Spec == Init /\ [][Next]_vars
-----------------------------------------------------------------------------
(* "Fixed while enabled" (kblocker.h:42): a block has the lists it began    *)
(* with until it ends, whatever command has passed requireDisabled before,  *)
(* and again after a reboot.                                                *)
FixedWhileOn == kernel.on => ListsOf(kernel) = chosen

(* "`add`: sites can't be changed while blocking is active", "applyDomains  *)
(* replaces the site list in the kernel and, only if the kernel accepted    *)
(* it, in the config file" (main.go:490): a block has the sites and the     *)
(* networks that the commands given one after another have left, although   *)
(* reboots, unloading and killed commands came in between.  A file is taken *)
(* as on the disk when os.WriteFile has returned, although it does not      *)
(* fsync: what a loss of power right after it may take is not looked at.    *)
BlocksWhatWasSaid ==
  kernel.on /\ Sysfs /\ promised.known =>
    Range(kernel.domains) = promised.names /\ kernel.nets = promised.nets
=============================================================================
