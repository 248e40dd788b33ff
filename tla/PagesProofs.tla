----------------------------- MODULE PagesProofs -----------------------------
(***************************************************************************)
(* The invariants of Pages hold for any number of commands and of servers   *)
(* in terminals, and for any addresses and ports.  IInv is inductive: one   *)
(* lemma for each of its parts, and in it one step per action.              *)
(***************************************************************************)
EXTENDS Pages, TLAPS

USE DEF ghost

Hosts == {"localhost", "any"} \cup Customs

(* TypeOK in parts, and that a command at rest is none.                     *)
Cmds == [what : {"none", "keep", "port", "off", "reset"},
         at : {"idle", "write", "fill", "remove", "reload", "restart"},
         to : Setting \cup {Unsaid}, alone : BOOLEAN]

Files    == file \in [there : BOOLEAN, sets : Setting] /\ loaded \in Setting
Daemons  == service \in [at : {"stopped", "spawn", "listen", "up"}, env : Setting,
                         open : BOOLEAN]
Terminals == server \in [Servers -> [at : {"idle", "listen", "up"}, addr : Addr]]
Commands == cmd \in [Procs -> Cmds]
Counts   == /\ said \in Setting \cup {Unsaid} /\ port \in Ports \cup {0}
            /\ torn \in BOOLEAN /\ events \in 0..MaxEvents

Idle == \A p \in Procs : cmd[p].at = "idle" => cmd[p] = NoCmd

(* A command that is alone is the only one there is, and what it is about   *)
(* to do or has done is what is on disk and what systemd has loaded.        *)
Single ==
  \A p, q \in Procs :
    p # q /\ cmd[p].at # "idle" /\ cmd[p].alone => cmd[q].at = "idle"

Kinds ==
  \A p \in Procs :
    /\ cmd[p].what \in {"keep", "port"} => cmd[p].to \in Addr
    /\ cmd[p].what = "off" => cmd[p].to = Off
    /\ cmd[p].what = "reset" => cmd[p].to = Default
    /\ cmd[p].at # "idle" => cmd[p].what # "none"
    /\ cmd[p].at = "remove" => cmd[p].what = "reset"

Ready ==
  \A p \in Procs :
    cmd[p].alone =>
      /\ cmd[p].at = "reload" => file.sets = cmd[p].to
      /\ cmd[p].at = "restart" => loaded = cmd[p].to /\ file.sets = cmd[p].to

Absent == ~file.there => file.sets = Default

(* Whatever is not loaded is about to be, and what does not run will.       *)
Loads ==
  torn \/ loaded = file.sets \/ \E p \in Procs : cmd[p].at \in {"fill", "reload"}

Runs ==
  service.at \in {"listen", "up"} =>
    torn \/ service.env = loaded \/ \E p \in Procs : cmd[p].at = "restart"

Opened == service.open => service.at = "up" /\ service.env # Off

(* What was said last is in force, and so is the port.                      *)
Said ==
  said # Unsaid => ~torn /\ loaded = said /\ \A p \in Procs : cmd[p].at = "idle"

TornPort == torn => port = 0

Port ==
  port # 0 /\ (\A p \in Procs : cmd[p].at \in {"idle", "write", "remove"})
    => SplitPort(loaded) = port

KeptPort ==
  \A p \in Procs :
    cmd[p].at # "idle" /\ cmd[p].alone /\ cmd[p].what = "keep" /\ port # 0
      => cmd[p].to.port = port

IInv ==
  /\ Files /\ Daemons /\ Terminals /\ Commands /\ Counts
  /\ Idle /\ Single /\ Kinds /\ Ready /\ Absent
  /\ Loads /\ Runs /\ Opened
  /\ Said /\ TornPort /\ Port /\ KeptPort

-----------------------------------------------------------------------------
LEMMA TypeParts == TypeOK <=> Files /\ Daemons /\ Terminals /\ Commands /\ Counts
BY Zenon DEF TypeOK, Files, Daemons, Terminals, Commands, Cmds, Counts

(* The settings are apart from each other. *)
LEMMA Settings ==
  /\ Default \in Addr /\ Default \in Setting /\ Off \in Setting
  /\ Off \notin Addr /\ Unsaid \notin Setting /\ Off # Unsaid
  /\ SplitPort(Off) = DefPort /\ SplitPort(Default) = DefPort
  /\ \A a \in Addr : SplitPort(a) = a.port /\ a.port \in Ports /\ a.port # 0
  /\ DefPort \in Ports /\ 0 \notin Ports
<1>1. DefPort \in Ports /\ 0 \notin Ports
  BY PagesAssumption
<1>2. Off \notin Addr /\ Unsaid \notin Addr /\ Off # Unsaid
  BY <1>1 DEF Off, Unsaid, Addr
<1> QED BY <1>1, <1>2 DEF Off, Unsaid, Default, Addr, Setting, SplitPort

LEMMA GivenType == Given \subseteq Addr
BY PagesAssumption DEF Addr

(* A saved setting names an address to listen at. *)
LEMMA SavedType ==
  ASSUME Files
  PROVE  Saved \in Addr
<1>1. CASE loaded = Off
  BY <1>1, PagesAssumption DEF Saved, SplitHost, SplitPort, Addr
<1>2. CASE loaded # Off
  BY <1>2 DEF Files, Setting, Saved, SplitHost, SplitPort, Addr
<1> QED BY <1>1, <1>2

(* The drop-in and what is loaded make settings.                            *)
LEMMA FilesStep ==
  ASSUME Files, Commands, Kinds, [Next]_vars
  PROVE  Files'
<1>1. CASE \/ (\E p \in Procs : Truncate(p)) \/ \E p \in Procs : Remove(p)
  <2>1. loaded' = loaded /\ file' \in {[there |-> TRUE, sets |-> Default], NoFile}
    BY <1>1 DEF Truncate, Goto, Remove, RemoveBy
  <2>2. /\ [there |-> TRUE, sets |-> Default] \in [there : BOOLEAN, sets : Setting]
        /\ NoFile \in [there : BOOLEAN, sets : Setting]
    BY Settings DEF NoFile
  <2> QED BY <2>1, <2>2 DEF Files
<1>2. CASE \E p \in Procs : Fill(p)
  <2>1. PICK p \in Procs : Fill(p)
    BY <1>2
  <2>2. cmd[p].to \in Setting
    BY <2>1, Settings DEF Fill, Kinds, Commands, Cmds, Setting
  <2> QED BY <2>1, <2>2 DEF Fill, Files
<1>3. CASE \/ (\E p \in Procs : DaemonReload(p)) \/ Reboot
  BY <1>3 DEF DaemonReload, Goto, Reboot, Files
<1>4. CASE \/ Spawn \/ StartDaemonWeb \/ ServiceStarts
           \/ ServiceGoes("stopped") \/ ServiceGoes("spawn")
           \/ (\E s \in Servers : Serving(s))
           \/ (\E p \in Procs : WebPagesOff(p))
           \/ (\E p \in Procs : \E host \in Hosts : WebPages(p, host))
           \/ (\E p \in Procs : Reset(p)) \/ (\E p \in Procs : TryRestart(p))
           \/ (\E p \in Procs : Dies(p)) \/ UNCHANGED vars
  <2>1. UNCHANGED <<file, loaded>>
    BY <1>4 DEF Spawn, StartDaemonWeb, ServiceStarts, ServiceGoes, Serving,
       ListenPages, DoWeb, CloseServer, WebPagesOff, Begin, WebPages, Reset,
       TryRestart, Respawned, Leave, Dies, vars
  <2> QED BY <2>1 DEF Files
<1> QED BY <1>1, <1>2, <1>3, <1>4 DEF Next, Service, Command, Hosts

(* The service runs with a setting.                                         *)
LEMMA DaemonsStep ==
  ASSUME Files, Daemons, [Next]_vars
  PROVE  Daemons'
<1>1. CASE Spawn
  BY <1>1 DEF Spawn, Files, Daemons
<1>2. CASE ServiceStarts
  BY <1>2 DEF ServiceStarts, Daemons
<1>3. CASE \/ ServiceGoes("stopped") \/ ServiceGoes("spawn") \/ Reboot
           \/ \E p \in Procs : TryRestart(p)
  <2>1. \/ service' = service
        \/ \E next \in {"stopped", "spawn"} :
             service' = [service EXCEPT !.at = next, !.open = FALSE]
    BY <1>3 DEF ServiceGoes, Reboot, TryRestart, Respawned, Leave
  <2> QED BY <2>1 DEF Daemons
<1>4. CASE StartDaemonWeb
  <2>1. PICK ok : service' = [service EXCEPT !.at = "up", !.open = ok] /\ ok \in BOOLEAN
    BY <1>4 DEF StartDaemonWeb, Bindable
  <2> QED BY <2>1 DEF Daemons
<1>5. CASE \/ (\E s \in Servers : Serving(s))
           \/ (\E p \in Procs : WebPagesOff(p))
           \/ (\E p \in Procs : \E host \in Hosts : WebPages(p, host))
           \/ (\E p \in Procs : Reset(p)) \/ (\E p \in Procs : Truncate(p))
           \/ (\E p \in Procs : Fill(p)) \/ (\E p \in Procs : Remove(p))
           \/ (\E p \in Procs : DaemonReload(p))
           \/ (\E p \in Procs : Dies(p)) \/ UNCHANGED vars
  <2>1. UNCHANGED <<service>>
    BY <1>5 DEF Serving, ListenPages, DoWeb, CloseServer, WebPagesOff, Begin,
       WebPages, Reset, Truncate, Goto, Fill, Remove, RemoveBy, DaemonReload,
       Dies, Leave, vars
  <2> QED BY <2>1 DEF Daemons
<1> QED BY <1>1, <1>2, <1>3, <1>4, <1>5 DEF Next, Service, Command,
   Hosts

(* The servers listen at addresses.                                         *)
LEMMA TerminalsStep ==
  ASSUME Files, Terminals, [Next]_vars
  PROVE  Terminals'
<1>1. CASE \E s \in Servers : Serving(s)
  <2>1. PICK s \in Servers : Serving(s)
    BY <1>1
  <2>2. \A a \in Given \cup {Saved} : a \in Addr
    BY GivenType, SavedType
  <2>3. NoServer \in [at : {"idle", "listen", "up"}, addr : Addr]
    BY Settings DEF NoServer
  <2>4. CASE ListenPages(s)
    <3>1. PICK a \in Addr :
            server' = [server EXCEPT ![s] = [at |-> "listen", addr |-> a]]
      BY <2>2, <2>4 DEF ListenPages
    <3> QED BY <3>1 DEF Terminals
  <2>5. CASE DoWeb(s) \/ CloseServer(s)
    <3>1. \/ server' = [server EXCEPT ![s] = [server[s] EXCEPT !.at = "up"]]
          \/ server' = [server EXCEPT ![s] = NoServer]
      BY <2>5 DEF DoWeb, CloseServer
    <3> QED BY <2>3, <3>1 DEF Terminals
  <2> QED BY <2>1, <2>4, <2>5 DEF Serving
<1>2. CASE Reboot
  <2>1. NoServer \in [at : {"idle", "listen", "up"}, addr : Addr]
    BY Settings DEF NoServer
  <2> QED BY <1>2, <2>1 DEF Reboot, Terminals
<1>3. CASE \/ Spawn \/ StartDaemonWeb \/ ServiceStarts
           \/ ServiceGoes("stopped") \/ ServiceGoes("spawn")
           \/ (\E p \in Procs : WebPagesOff(p))
           \/ (\E p \in Procs : \E host \in Hosts : WebPages(p, host))
           \/ (\E p \in Procs : Reset(p)) \/ (\E p \in Procs : Truncate(p))
           \/ (\E p \in Procs : Fill(p)) \/ (\E p \in Procs : Remove(p))
           \/ (\E p \in Procs : DaemonReload(p))
           \/ (\E p \in Procs : TryRestart(p)) \/ (\E p \in Procs : Dies(p))
           \/ UNCHANGED vars
  <2>1. UNCHANGED <<server>>
    BY <1>3 DEF Spawn, StartDaemonWeb, ServiceStarts, ServiceGoes,
       WebPagesOff, Begin, WebPages, Reset, Truncate, Goto, Fill, Remove,
       RemoveBy, DaemonReload, TryRestart, Respawned, Leave, Dies, vars
  <2> QED BY <2>1 DEF Terminals
<1> QED BY <1>1, <1>2, <1>3 DEF Next, Service, Command, Hosts

(* A command begins, and the others are no longer alone. *)
LEMMA BeginType ==
  ASSUME Commands, NEW p \in Procs, NEW what \in {"keep", "port", "off", "reset"},
         NEW step \in {"write", "remove"}, NEW to \in Setting,
         Begin(p, what, step, to)
  PROVE  /\ cmd' \in [Procs -> Cmds]
         /\ cmd'[p] = [what |-> what, at |-> step, to |-> to, alone |-> Quiet]
         /\ \A q \in Procs \ {p} :
              \/ cmd[q] = NoCmd /\ cmd'[q] = NoCmd
              \/ /\ cmd[q] # NoCmd /\ cmd'[q].alone = FALSE
                 /\ cmd'[q].what = cmd[q].what /\ cmd'[q].at = cmd[q].at
                 /\ cmd'[q].to = cmd[q].to
<1>1. Quiet \in BOOLEAN
  BY DEF Quiet
<1>2. [what |-> what, at |-> step, to |-> to, alone |-> Quiet] \in Cmds
  BY <1>1 DEF Cmds
<1>3. NoCmd \in Cmds
  BY DEF NoCmd, Cmds
<1>4. \A q \in Procs : [cmd[q] EXCEPT !.alone = FALSE] \in Cmds
  BY DEF Commands, Cmds
<1>5. cmd' = [q \in Procs |->
         IF q = p THEN [what |-> what, at |-> step, to |-> to, alone |-> Quiet]
         ELSE IF cmd[q] = NoCmd THEN NoCmd ELSE [cmd[q] EXCEPT !.alone = FALSE]]
  BY DEF Begin
<1>6. cmd' \in [Procs -> Cmds]
  BY <1>2, <1>3, <1>4, <1>5
<1>7. cmd'[p] = [what |-> what, at |-> step, to |-> to, alone |-> Quiet]
  BY <1>5
<1>8. ASSUME NEW q \in Procs \ {p}
      PROVE  \/ cmd[q] = NoCmd /\ cmd'[q] = NoCmd
             \/ /\ cmd[q] # NoCmd /\ cmd'[q].alone = FALSE
                /\ cmd'[q].what = cmd[q].what /\ cmd'[q].at = cmd[q].at
                /\ cmd'[q].to = cmd[q].to
  BY <1>5 DEF Commands, Cmds
<1> QED BY <1>6, <1>7, <1>8

(* A command goes on to its next step, or is done; the others stay. *)
LEMMA GotoType ==
  ASSUME Commands, NEW p \in Procs,
         NEW step \in {"fill", "reload", "restart"}, Goto(p, step)
  PROVE  /\ cmd' \in [Procs -> Cmds]
         /\ cmd'[p].at = step /\ cmd'[p].what = cmd[p].what
         /\ cmd'[p].to = cmd[p].to /\ cmd'[p].alone = cmd[p].alone
         /\ \A q \in Procs \ {p} : cmd'[q] = cmd[q]
BY DEF Goto, Commands, Cmds

LEMMA LeaveType ==
  ASSUME Commands, NEW p \in Procs, Leave(p)
  PROVE  /\ cmd' \in [Procs -> Cmds] /\ cmd'[p] = NoCmd
         /\ \A q \in Procs \ {p} : cmd'[q] = cmd[q]
<1>1. NoCmd \in Cmds
  BY DEF NoCmd, Cmds
<1> QED BY <1>1 DEF Leave, Commands

(* A reset takes the file away under the commands that fill it. *)
LEMMA RemoveType ==
  ASSUME Commands, NEW p \in Procs, Remove(p)
  PROVE  /\ cmd' \in [Procs -> Cmds] /\ cmd'[p].at = "reload"
         /\ \A q \in Procs :
              /\ cmd'[q].what = cmd[q].what /\ cmd'[q].to = cmd[q].to
              /\ cmd'[q].alone = cmd[q].alone
              /\ q # p => cmd'[q].at = IF cmd[q].at = "fill" THEN "reload" ELSE cmd[q].at
              /\ q # p /\ cmd[q].at # "fill" => cmd'[q] = cmd[q]
<1>1. cmd' = [q \in Procs |->
         IF q = p THEN [cmd[q] EXCEPT !.at = "reload"]
         ELSE IF cmd[q].at = "fill" THEN [cmd[q] EXCEPT !.at = "reload"] ELSE cmd[q]]
  BY DEF Remove, RemoveBy
<1>2. cmd' \in [Procs -> Cmds]
  BY <1>1 DEF Commands, Cmds
<1>3. ASSUME NEW q \in Procs
      PROVE  /\ cmd'[q].what = cmd[q].what /\ cmd'[q].to = cmd[q].to
             /\ cmd'[q].alone = cmd[q].alone
             /\ cmd'[p].at = "reload"
             /\ q # p => cmd'[q].at = IF cmd[q].at = "fill" THEN "reload" ELSE cmd[q].at
             /\ q # p /\ cmd[q].at # "fill" => cmd'[q] = cmd[q]
  BY <1>1 DEF Commands, Cmds
<1> QED BY <1>2, <1>3

(* How commands begin: each with its setting, from what is in force.        *)
LEMMA WebPagesBegin ==
  ASSUME Files, NEW p \in Procs, NEW host \in Hosts, WebPages(p, host)
  PROVE  \E what \in {"keep", "port"}, to \in Addr :
           /\ Begin(p, what, "write", to)
           /\ what = "keep" => to.port = SplitPort(loaded)
<1>1. SplitPort(loaded) \in Ports
  BY Settings DEF Files, Setting
<1>2. \A n \in Ports : [host |-> host, port |-> n] \in Addr
  BY DEF Hosts, Addr
<1> QED BY <1>1, <1>2 DEF WebPages

LEMMA ResetBegin ==
  ASSUME NEW p \in Procs, Reset(p)
  PROVE  \/ Begin(p, "reset", "remove", Default) /\ UNCHANGED <<file, loaded>>
         \/ /\ ~file.there /\ UNCHANGED cmd
            /\ said' = IF Quiet /\ ~torn THEN Default ELSE Unsaid
BY DEF Reset

(* A command begins: which ones there are, and the setting of each.         *)
Begins(p) ==
  \E what \in {"keep", "port", "off", "reset"}, step \in {"write", "remove"},
     to \in Setting :
    /\ cmd[p] = NoCmd /\ Begin(p, what, step, to)
    /\ what \in {"keep", "port"} => to \in Addr
    /\ what = "off" => to = Off
    /\ what = "reset" => to = Default
    /\ step = "remove" => what = "reset"
    /\ what = "keep" => to.port = SplitPort(loaded)

LEMMA CommandBegins ==
  ASSUME Files, NEW p \in Procs, cmd[p] = NoCmd,
         \/ WebPagesOff(p) \/ Begin(p, "reset", "remove", Default)
         \/ \E host \in Hosts : WebPages(p, host)
  PROVE  Begins(p)
<1>1. CASE WebPagesOff(p)
  BY <1>1, Settings DEF WebPagesOff, Begins
<1>2. CASE Begin(p, "reset", "remove", Default)
  BY <1>2, Settings DEF Begins
<1>3. CASE \E host \in Hosts : WebPages(p, host)
  <2>1. PICK what \in {"keep", "port"}, to \in Addr :
          /\ Begin(p, what, "write", to)
          /\ what = "keep" => to.port = SplitPort(loaded)
    BY <1>3, WebPagesBegin
  <2>2. to \in Setting
    BY DEF Setting
  <2> QED BY <2>1, <2>2 DEF Begins
<1> QED BY <1>1, <1>2, <1>3

(* What an action that begins a command changes. *)
LEMMA Beginning ==
  ASSUME Files,
         \/ \E p \in Procs : WebPagesOff(p)
         \/ \E p \in Procs : \E host \in Hosts : WebPages(p, host)
         \/ \E p \in Procs : Reset(p)
  PROVE  /\ UNCHANGED <<file, loaded, service, server, port, torn>>
         /\ \/ (\E p \in Procs : Begins(p)) /\ said' = Unsaid
            \/ /\ ~file.there /\ UNCHANGED cmd
               /\ said' = IF Quiet /\ ~torn THEN Default ELSE Unsaid
<1>1. CASE \E p \in Procs : WebPagesOff(p)
  <2>1. PICK p \in Procs : WebPagesOff(p)
    BY <1>1
  <2>2. Begins(p)
    BY <2>1, CommandBegins DEF WebPagesOff
  <2> QED BY <2>1, <2>2 DEF WebPagesOff, Begin
<1>2. CASE \E p \in Procs : \E host \in Hosts : WebPages(p, host)
  <2>1. PICK p \in Procs, host \in Hosts : WebPages(p, host)
    BY <1>2
  <2>2. Begins(p)
    BY <2>1, CommandBegins DEF WebPages
  <2> QED BY <2>1, <2>2 DEF WebPages, Begin
<1>3. CASE \E p \in Procs : Reset(p)
  <2>1. PICK p \in Procs : Reset(p)
    BY <1>3
  <2>2. UNCHANGED <<file, loaded, service, server, port, torn>>
    BY <2>1 DEF Reset
  <2>3. CASE Begin(p, "reset", "remove", Default)
    <3>1. Begins(p)
      BY <2>1, <2>3, CommandBegins DEF Reset
    <3> QED BY <2>2, <2>3, <3>1 DEF Begin
  <2>4. CASE ~Begin(p, "reset", "remove", Default)
    BY <2>1, <2>2, <2>4 DEF Reset
  <2> QED BY <2>3, <2>4
<1> QED BY <1>1, <1>2, <1>3

(* One command begins; it is alone if all others are at rest.               *)
LEMMA BeginEffect ==
  ASSUME Commands, NEW p \in Procs, Begins(p)
  PROVE  /\ cmd[p] = NoCmd /\ cmd' \in [Procs -> Cmds]
         /\ cmd'[p].at \in {"write", "remove"} /\ cmd'[p].alone = Quiet
         /\ cmd'[p].what \in {"keep", "port", "off", "reset"}
         /\ cmd'[p].what \in {"keep", "port"} => cmd'[p].to \in Addr
         /\ cmd'[p].what = "off" => cmd'[p].to = Off
         /\ cmd'[p].what = "reset" => cmd'[p].to = Default
         /\ cmd'[p].at = "remove" => cmd'[p].what = "reset"
         /\ cmd'[p].what = "keep" => cmd'[p].to.port = SplitPort(loaded)
         /\ \A q \in Procs \ {p} :
              \/ cmd[q] = NoCmd /\ cmd'[q] = NoCmd
              \/ /\ cmd[q] # NoCmd /\ cmd'[q].alone = FALSE
                 /\ cmd'[q].what = cmd[q].what /\ cmd'[q].at = cmd[q].at
                 /\ cmd'[q].to = cmd[q].to
<1>1. PICK what \in {"keep", "port", "off", "reset"}, step \in {"write", "remove"},
           to \in Setting :
        /\ cmd[p] = NoCmd /\ Begin(p, what, step, to)
        /\ what \in {"keep", "port"} => to \in Addr
        /\ what = "off" => to = Off
        /\ what = "reset" => to = Default
        /\ step = "remove" => what = "reset"
        /\ what = "keep" => to.port = SplitPort(loaded)
  BY DEF Begins
<1>2. /\ cmd' \in [Procs -> Cmds]
      /\ cmd'[p] = [what |-> what, at |-> step, to |-> to, alone |-> Quiet]
      /\ \A q \in Procs \ {p} :
           \/ cmd[q] = NoCmd /\ cmd'[q] = NoCmd
           \/ /\ cmd[q] # NoCmd /\ cmd'[q].alone = FALSE
              /\ cmd'[q].what = cmd[q].what /\ cmd'[q].at = cmd[q].at
              /\ cmd'[q].to = cmd[q].to
  BY <1>1, BeginType
<1> QED BY <1>1, <1>2

(* A command goes on, with its step done, or ends. *)
Moves(p, step) ==
  \/ step = "fill" /\ Truncate(p)
  \/ step = "reload" /\ Fill(p)
  \/ step = "restart" /\ DaemonReload(p)
Ends(p) == TryRestart(p) \/ Dies(p)

LEMMA MoveEffect ==
  ASSUME Commands, NEW p \in Procs, NEW step, Moves(p, step)
  PROVE  /\ step \in {"fill", "reload", "restart"}
         /\ cmd[p].at = CASE step = "fill" -> "write" [] step = "reload" -> "fill"
                          [] OTHER -> "reload"
         /\ cmd' \in [Procs -> Cmds]
         /\ cmd'[p].at = step /\ cmd'[p].what = cmd[p].what
         /\ cmd'[p].to = cmd[p].to /\ cmd'[p].alone = cmd[p].alone
         /\ \A q \in Procs \ {p} : cmd'[q] = cmd[q]
<1>1. step \in {"fill", "reload", "restart"} /\ Goto(p, step)
  BY DEF Moves, Truncate, Fill, DaemonReload
<1>2. cmd[p].at = CASE step = "fill" -> "write" [] step = "reload" -> "fill"
                    [] OTHER -> "reload"
  BY DEF Moves, Truncate, Fill, DaemonReload
<1> QED BY <1>1, <1>2, GotoType

LEMMA EndEffect ==
  ASSUME Commands, Idle, NEW p \in Procs, Ends(p)
  PROVE  /\ cmd' \in [Procs -> Cmds] /\ cmd'[p] = NoCmd /\ cmd[p].at # "idle"
         /\ \A q \in Procs \ {p} : cmd'[q] = cmd[q]
<1>1. Leave(p) /\ cmd[p].at # "idle"
  BY DEF Ends, TryRestart, Dies, Idle
<1> QED BY <1>1, LeaveType

LEMMA NoCmdIs ==
  /\ NoCmd \in Cmds /\ NoCmd.at = "idle" /\ NoCmd.what = "none"
BY DEF NoCmd, Cmds

(* The commands keep their types.                                           *)
LEMMA CommandsStep ==
  ASSUME Files, Commands, Idle, [Next]_vars
  PROVE  Commands'
<1>1. CASE \/ (\E p \in Procs : WebPagesOff(p))
           \/ (\E p \in Procs : \E host \in Hosts : WebPages(p, host))
           \/ \E p \in Procs : Reset(p)
  <2>1. UNCHANGED cmd \/ \E p \in Procs : Begins(p)
    BY <1>1, Beginning
  <2>2. CASE UNCHANGED cmd
    BY <2>2 DEF Commands
  <2>3. ASSUME NEW p \in Procs, Begins(p) PROVE Commands'
    BY <2>3, BeginEffect, NoCmdIs DEF Commands
  <2> QED BY <2>1, <2>2, <2>3
<1>2. CASE \/ (\E p \in Procs : Truncate(p)) \/ (\E p \in Procs : Fill(p))
           \/ \E p \in Procs : DaemonReload(p)
  <2>1. PICK p \in Procs, step \in {"fill", "reload", "restart"} : Moves(p, step)
    BY <1>2 DEF Moves
  <2> QED BY <2>1, MoveEffect DEF Commands
<1>3. CASE \E p \in Procs : Remove(p)
  <2>1. PICK p \in Procs : Remove(p) /\ cmd[p].at = "remove"
    BY <1>3 DEF Remove, RemoveBy
  <2> QED BY <2>1, RemoveType DEF Commands
<1>4. CASE \/ (\E p \in Procs : TryRestart(p)) \/ \E p \in Procs : Dies(p)
  <2>1. PICK p \in Procs : Ends(p)
    BY <1>4 DEF Ends
  <2> QED BY <2>1, EndEffect, NoCmdIs DEF Commands
<1>5. CASE Reboot
  <2>1. cmd' = [p \in Procs |-> NoCmd]
    BY <1>5 DEF Reboot
  <2> QED BY <2>1, NoCmdIs DEF Commands
<1>6. CASE \/ Spawn \/ StartDaemonWeb \/ ServiceStarts
           \/ ServiceGoes("stopped") \/ ServiceGoes("spawn")
           \/ (\E s \in Servers : Serving(s)) \/ UNCHANGED vars
  <2>1. UNCHANGED cmd
    BY <1>6 DEF Spawn, StartDaemonWeb, ServiceStarts, ServiceGoes, Serving,
       ListenPages, DoWeb, CloseServer, vars
  <2> QED BY <2>1 DEF Commands
<1> QED BY <1>1, <1>2, <1>3, <1>4, <1>5, <1>6 DEF Next, Service,
   Command, Hosts

(* A command at rest is none.                                               *)
LEMMA IdleStep ==
  ASSUME Files, Commands, Idle, [Next]_vars
  PROVE  Idle'
<1>1. CASE \/ (\E p \in Procs : WebPagesOff(p))
           \/ (\E p \in Procs : \E host \in Hosts : WebPages(p, host))
           \/ \E p \in Procs : Reset(p)
  <2>1. UNCHANGED cmd \/ \E p \in Procs : Begins(p)
    BY <1>1, Beginning
  <2>2. CASE UNCHANGED cmd
    BY <2>2 DEF Idle
  <2>3. ASSUME NEW p \in Procs, Begins(p) PROVE Idle'
    BY <2>3, BeginEffect, NoCmdIs DEF Idle
  <2> QED BY <2>1, <2>2, <2>3
<1>2. CASE \/ (\E p \in Procs : Truncate(p)) \/ (\E p \in Procs : Fill(p))
           \/ \E p \in Procs : DaemonReload(p)
  <2>1. PICK p \in Procs, step \in {"fill", "reload", "restart"} : Moves(p, step)
    BY <1>2 DEF Moves
  <2> QED BY <2>1, MoveEffect DEF Idle
<1>3. CASE \E p \in Procs : Remove(p)
  <2>1. PICK p \in Procs : Remove(p) /\ cmd[p].at = "remove"
    BY <1>3 DEF Remove, RemoveBy
  <2> QED BY <2>1, RemoveType DEF Idle
<1>4. CASE \/ (\E p \in Procs : TryRestart(p)) \/ \E p \in Procs : Dies(p)
  <2>1. PICK p \in Procs : Ends(p)
    BY <1>4 DEF Ends
  <2> QED BY <2>1, EndEffect, NoCmdIs DEF Idle
<1>5. CASE Reboot
  <2>1. cmd' = [p \in Procs |-> NoCmd]
    BY <1>5 DEF Reboot
  <2> QED BY <2>1, NoCmdIs DEF Idle
<1>6. CASE \/ Spawn \/ StartDaemonWeb \/ ServiceStarts
           \/ ServiceGoes("stopped") \/ ServiceGoes("spawn")
           \/ (\E s \in Servers : Serving(s)) \/ UNCHANGED vars
  <2>1. UNCHANGED cmd
    BY <1>6 DEF Spawn, StartDaemonWeb, ServiceStarts, ServiceGoes, Serving,
       ListenPages, DoWeb, CloseServer, vars
  <2> QED BY <2>1 DEF Idle
<1> QED BY <1>1, <1>2, <1>3, <1>4, <1>5, <1>6 DEF Next, Service,
   Command, Hosts

(* A command that is alone stays so until another begins.                   *)
LEMMA SingleStep ==
  ASSUME Files, Commands, Idle, Single, [Next]_vars
  PROVE  Single'
<1>1. CASE \/ (\E p \in Procs : WebPagesOff(p))
           \/ (\E p \in Procs : \E host \in Hosts : WebPages(p, host))
           \/ \E p \in Procs : Reset(p)
  <2>1. UNCHANGED cmd \/ \E p \in Procs : Begins(p)
    BY <1>1, Beginning
  <2>2. CASE UNCHANGED cmd
    BY <2>2 DEF Single
  <2>3. ASSUME NEW p \in Procs, Begins(p) PROVE Single'
    BY <2>3, BeginEffect, NoCmdIs DEF Single, Idle, Quiet
  <2> QED BY <2>1, <2>2, <2>3
<1>2. CASE \/ (\E p \in Procs : Truncate(p)) \/ (\E p \in Procs : Fill(p))
           \/ \E p \in Procs : DaemonReload(p)
  <2>1. PICK p \in Procs, step \in {"fill", "reload", "restart"} : Moves(p, step)
    BY <1>2 DEF Moves
  <2> QED BY <2>1, MoveEffect DEF Single, Idle, Quiet
<1>3. CASE \E p \in Procs : Remove(p)
  <2>1. PICK p \in Procs : Remove(p) /\ cmd[p].at = "remove"
    BY <1>3 DEF Remove, RemoveBy
  <2> QED BY <2>1, RemoveType DEF Single, Idle, Quiet
<1>4. CASE \/ (\E p \in Procs : TryRestart(p)) \/ \E p \in Procs : Dies(p)
  <2>1. PICK p \in Procs : Ends(p)
    BY <1>4 DEF Ends
  <2> QED BY <2>1, EndEffect, NoCmdIs DEF Single, Idle, Quiet
<1>5. CASE Reboot
  <2>1. cmd' = [p \in Procs |-> NoCmd]
    BY <1>5 DEF Reboot
  <2> QED BY <2>1, NoCmdIs DEF Single, Idle, Quiet
<1>6. CASE \/ Spawn \/ StartDaemonWeb \/ ServiceStarts
           \/ ServiceGoes("stopped") \/ ServiceGoes("spawn")
           \/ (\E s \in Servers : Serving(s)) \/ UNCHANGED vars
  <2>1. UNCHANGED cmd
    BY <1>6 DEF Spawn, StartDaemonWeb, ServiceStarts, ServiceGoes, Serving,
       ListenPages, DoWeb, CloseServer, vars
  <2> QED BY <2>1 DEF Single
<1> QED BY <1>1, <1>2, <1>3, <1>4, <1>5, <1>6 DEF Next, Service,
   Command, Hosts

(* Each command makes the setting it began with.                            *)
LEMMA KindsStep ==
  ASSUME Files, Commands, Idle, Kinds, [Next]_vars
  PROVE  Kinds'
<1>1. CASE \/ (\E p \in Procs : WebPagesOff(p))
           \/ (\E p \in Procs : \E host \in Hosts : WebPages(p, host))
           \/ \E p \in Procs : Reset(p)
  <2>1. UNCHANGED cmd \/ \E p \in Procs : Begins(p)
    BY <1>1, Beginning
  <2>2. CASE UNCHANGED cmd
    BY <2>2 DEF Kinds
  <2>3. ASSUME NEW p \in Procs, Begins(p) PROVE Kinds'
    <3> SUFFICES ASSUME NEW q \in Procs
                 PROVE  /\ cmd'[q].what \in {"keep", "port"} => cmd'[q].to \in Addr
                        /\ cmd'[q].what = "off" => cmd'[q].to = Off
                        /\ cmd'[q].what = "reset" => cmd'[q].to = Default
                        /\ cmd'[q].at # "idle" => cmd'[q].what # "none"
                        /\ cmd'[q].at = "remove" => cmd'[q].what = "reset"
      BY DEF Kinds
    <3>1. CASE q = p
      BY <2>3, <3>1, BeginEffect
    <3>2. CASE cmd[q] = NoCmd /\ cmd'[q] = NoCmd
      BY <3>2, NoCmdIs
    <3>3. CASE /\ cmd'[q].what = cmd[q].what /\ cmd'[q].at = cmd[q].at
               /\ cmd'[q].to = cmd[q].to
      BY <3>3 DEF Kinds
    <3> QED BY <2>3, <3>1, <3>2, <3>3, BeginEffect
  <2> QED BY <2>1, <2>2, <2>3
<1>2. CASE \/ (\E p \in Procs : Truncate(p)) \/ (\E p \in Procs : Fill(p))
           \/ \E p \in Procs : DaemonReload(p)
  <2>1. PICK p \in Procs, step \in {"fill", "reload", "restart"} : Moves(p, step)
    BY <1>2 DEF Moves
  <2> QED BY <2>1, MoveEffect DEF Kinds
<1>3. CASE \E p \in Procs : Remove(p)
  <2>1. PICK p \in Procs : Remove(p) /\ cmd[p].at = "remove"
    BY <1>3 DEF Remove, RemoveBy
  <2> QED BY <2>1, RemoveType DEF Kinds
<1>4. CASE \/ (\E p \in Procs : TryRestart(p)) \/ \E p \in Procs : Dies(p)
  <2>1. PICK p \in Procs : Ends(p)
    BY <1>4 DEF Ends
  <2> QED BY <2>1, EndEffect, NoCmdIs DEF Kinds
<1>5. CASE Reboot
  <2>1. cmd' = [p \in Procs |-> NoCmd]
    BY <1>5 DEF Reboot
  <2> QED BY <2>1, NoCmdIs DEF Kinds
<1>6. CASE \/ Spawn \/ StartDaemonWeb \/ ServiceStarts
           \/ ServiceGoes("stopped") \/ ServiceGoes("spawn")
           \/ (\E s \in Servers : Serving(s)) \/ UNCHANGED vars
  <2>1. UNCHANGED cmd
    BY <1>6 DEF Spawn, StartDaemonWeb, ServiceStarts, ServiceGoes, Serving,
       ListenPages, DoWeb, CloseServer, vars
  <2> QED BY <2>1 DEF Kinds
<1> QED BY <1>1, <1>2, <1>3, <1>4, <1>5, <1>6 DEF Next, Service,
   Command, Hosts

-----------------------------------------------------------------------------
(* The events stay within their bound.                                      *)
LEMMA EventsStep ==
  ASSUME events \in 0..MaxEvents, [Next]_vars
  PROVE  (events \in 0..MaxEvents)'
<1>1. CASE \/ Spawn \/ StartDaemonWeb \/ ServiceStarts
           \/ ServiceGoes("stopped") \/ ServiceGoes("spawn") \/ Reboot
           \/ (\E s \in Servers : Serving(s))
           \/ (\E p \in Procs : WebPagesOff(p))
           \/ (\E p \in Procs : \E host \in Hosts : WebPages(p, host))
           \/ (\E p \in Procs : Reset(p)) \/ (\E p \in Procs : Truncate(p))
           \/ (\E p \in Procs : Fill(p)) \/ (\E p \in Procs : Remove(p))
           \/ (\E p \in Procs : DaemonReload(p))
           \/ (\E p \in Procs : TryRestart(p)) \/ (\E p \in Procs : Dies(p))
           \/ UNCHANGED vars
  <2>1. events' = events \/ (events < MaxEvents /\ events' = events + 1)
    BY <1>1 DEF Spawn, StartDaemonWeb, ServiceStarts, ServiceGoes, Reboot,
       Serving, ListenPages, DoWeb, CloseServer, WebPagesOff, Begin, WebPages,
       Reset, Truncate, Goto, Fill, Remove, RemoveBy, DaemonReload,
       TryRestart, Respawned, Leave, Dies, vars, RemoveBy, Event
  <2> QED BY <2>1, PagesAssumption
<1> QED BY <1>1 DEF Next, Service, Command, Hosts

(* What was said and chosen are a setting and a port.                       *)
LEMMA CountsStep ==
  ASSUME Files, Commands, Kinds, Idle, Counts, [Next]_vars
  PROVE  Counts'
<1>1. CASE \/ (\E p \in Procs : WebPagesOff(p))
           \/ (\E p \in Procs : \E host \in Hosts : WebPages(p, host))
           \/ \E p \in Procs : Reset(p)
  <2>1. UNCHANGED <<port, torn>> /\ said' \in {Default, Unsaid}
    BY <1>1, Beginning
  <2> QED BY <2>1, EventsStep, Settings DEF Counts
<1>2. CASE \E p \in Procs : TryRestart(p)
  <2>1. PICK p \in Procs : TryRestart(p)
    BY <1>2
  <2>2. cmd[p] \in Cmds
    BY DEF Commands
  <2>3. cmd[p].what \in {"keep", "port", "off", "reset"}
    BY <2>1, <2>2 DEF TryRestart, Kinds, Cmds
  <2>4. said' \in Setting \cup {Unsaid}
    BY <2>1, <2>2 DEF TryRestart, Cmds
  <2>5. port' \in Ports \cup {0}
    <3>1. cmd[p].what \in {"keep", "port"} => cmd[p].to.port \in Ports
      BY Settings DEF Kinds
    <3>2. \/ port' \in {0, DefPort, port}
          \/ cmd[p].what \in {"keep", "port"} /\ port' = cmd[p].to.port
      BY <2>1, <2>3 DEF TryRestart
    <3> QED BY <3>1, <3>2, Settings DEF Counts
  <2>6. torn' \in BOOLEAN
    BY Zenon, <2>1 DEF TryRestart
  <2> QED BY <2>4, <2>5, <2>6, EventsStep DEF Counts
<1>3. CASE \/ (\E p \in Procs : Dies(p)) \/ Reboot
  <2>1. /\ said' = said /\ port' \in {port, 0} /\ torn' \in {torn, TRUE, FALSE}
    BY <1>3 DEF Dies, Leave, Reboot
  <2>2. torn' \in BOOLEAN
    BY Zenon, <2>1 DEF Counts
  <2> QED BY <2>1, <2>2, EventsStep DEF Counts
<1>4. CASE \/ Spawn \/ StartDaemonWeb \/ ServiceStarts
           \/ ServiceGoes("stopped") \/ ServiceGoes("spawn")
           \/ (\E s \in Servers : Serving(s))
           \/ (\E p \in Procs : Truncate(p)) \/ (\E p \in Procs : Fill(p))
           \/ (\E p \in Procs : Remove(p))
           \/ (\E p \in Procs : DaemonReload(p)) \/ UNCHANGED vars
  <2>1. UNCHANGED <<said, port, torn>>
    BY <1>4 DEF Spawn, StartDaemonWeb, ServiceStarts, ServiceGoes, Serving,
       ListenPages, DoWeb, CloseServer, Truncate, Goto, Fill, Remove,
       RemoveBy, DaemonReload, vars, RemoveBy
  <2> QED BY <2>1, EventsStep DEF Counts
<1> QED BY <1>1, <1>2, <1>3, <1>4 DEF Next, Service, Command, Hosts

(* A command that is alone finds what it did.                               *)
LEMMA ReadyStep ==
  ASSUME Files, Commands, Idle, Single, Kinds, Ready, [Next]_vars
  PROVE  Ready'
<1>1. CASE \/ (\E p \in Procs : WebPagesOff(p))
           \/ (\E p \in Procs : \E host \in Hosts : WebPages(p, host))
           \/ \E p \in Procs : Reset(p)
  <2>1. UNCHANGED <<file, loaded, service, server, port, torn>>
    BY <1>1, Beginning
  <2>2. UNCHANGED cmd \/ \E p \in Procs : Begins(p)
    BY <1>1, Beginning
  <2>3. CASE UNCHANGED cmd
    BY <2>1, <2>3 DEF Ready
  <2>4. ASSUME NEW p \in Procs, Begins(p) PROVE Ready'
    BY <2>1, <2>4, BeginEffect, NoCmdIs DEF Ready
  <2> QED BY <2>2, <2>3, <2>4
<1>2. CASE \E p \in Procs : Truncate(p)
  <2>1. PICK p \in Procs : Truncate(p)
    BY <1>2
  <2>2. Moves(p, "fill")
    BY <2>1 DEF Moves
  <2> QED BY <2>1, <2>2, MoveEffect DEF Truncate, Single, Ready
<1>3. CASE \E p \in Procs : Fill(p)
  <2>1. PICK p \in Procs : Fill(p)
    BY <1>3
  <2>2. Moves(p, "reload")
    BY <2>1 DEF Moves
  <2>3. file'.sets = cmd[p].to /\ loaded' = loaded
    BY <2>1 DEF Fill
  <2> QED BY <2>2, <2>3, MoveEffect DEF Single, Ready
<1>4. CASE \E p \in Procs : DaemonReload(p)
  <2>1. PICK p \in Procs : DaemonReload(p)
    BY <1>4
  <2>2. Moves(p, "restart")
    BY <2>1 DEF Moves
  <2>3. loaded' = file.sets /\ file' = file
    BY <2>1 DEF DaemonReload
  <2> QED BY <2>2, <2>3, MoveEffect DEF Single, Ready
<1>5. CASE \E p \in Procs : Remove(p)
  <2>1. PICK p \in Procs : Remove(p)
    BY <1>5
  <2>2. file'.sets = Default /\ loaded' = loaded /\ cmd[p].at = "remove"
    BY <2>1 DEF Remove, RemoveBy, NoFile
  <2>3. cmd[p].to = Default
    BY <2>2 DEF Kinds
  <2> SUFFICES ASSUME NEW q \in Procs, cmd'[q].alone
               PROVE  /\ cmd'[q].at = "reload" => file'.sets = cmd'[q].to
                      /\ cmd'[q].at = "restart"
                           => loaded' = cmd'[q].to /\ file'.sets = cmd'[q].to
    BY DEF Ready
  <2>4. CASE q = p
    BY <2>1, <2>2, <2>3, <2>4, RemoveType
  <2>5. CASE q # p
    <3>1. cmd[q].alone /\ cmd'[q].at = IF cmd[q].at = "fill" THEN "reload" ELSE cmd[q].at
      BY <2>1, <2>5, RemoveType
    <3>2. cmd[q].at = "idle"
      BY <2>2, <2>5, <3>1 DEF Single
    <3> QED BY <3>1, <3>2
  <2> QED BY <2>4, <2>5
<1>6. CASE \/ (\E p \in Procs : TryRestart(p)) \/ \E p \in Procs : Dies(p)
  <2>1. PICK p \in Procs : Ends(p)
    BY <1>6 DEF Ends
  <2>2. UNCHANGED <<file, loaded>>
    BY <1>6 DEF TryRestart, Dies
  <2> QED BY <2>1, <2>2, EndEffect, NoCmdIs DEF Ready
<1>7. CASE Reboot
  <2>1. cmd' = [p \in Procs |-> NoCmd]
    BY <1>7 DEF Reboot
  <2> QED BY <2>1, NoCmdIs DEF Ready
<1>8. CASE \/ Spawn \/ StartDaemonWeb \/ ServiceStarts
           \/ ServiceGoes("stopped") \/ ServiceGoes("spawn")
           \/ (\E s \in Servers : Serving(s)) \/ UNCHANGED vars
  <2>1. UNCHANGED <<cmd, file, loaded>>
    BY <1>8 DEF Spawn, StartDaemonWeb, ServiceStarts, ServiceGoes, Serving,
       ListenPages, DoWeb, CloseServer, vars
  <2> QED BY <2>1 DEF Ready
<1> QED BY <1>1, <1>2, <1>3, <1>4, <1>5, <1>6, <1>7, <1>8 DEF Next,
   Service, Command, Hosts

(* Without a drop-in the setting is the default.                            *)
LEMMA AbsentStep ==
  ASSUME Absent, [Next]_vars
  PROVE  Absent'
<1>1. CASE \/ (\E p \in Procs : Truncate(p)) \/ (\E p \in Procs : Fill(p))
           \/ \E p \in Procs : Remove(p)
  BY <1>1 DEF Truncate, Goto, Fill, Remove, RemoveBy, RemoveBy, NoFile, Absent
<1>2. CASE \/ Spawn \/ StartDaemonWeb \/ ServiceStarts
           \/ ServiceGoes("stopped") \/ ServiceGoes("spawn") \/ Reboot
           \/ (\E s \in Servers : Serving(s))
           \/ (\E p \in Procs : WebPagesOff(p))
           \/ (\E p \in Procs : \E host \in Hosts : WebPages(p, host))
           \/ (\E p \in Procs : Reset(p))
           \/ (\E p \in Procs : DaemonReload(p))
           \/ (\E p \in Procs : TryRestart(p)) \/ (\E p \in Procs : Dies(p))
           \/ UNCHANGED vars
  <2>1. UNCHANGED <<file>>
    BY <1>2 DEF Spawn, StartDaemonWeb, ServiceStarts, ServiceGoes, Reboot,
       Serving, ListenPages, DoWeb, CloseServer, WebPagesOff, Begin, WebPages,
       Reset, DaemonReload, Goto, TryRestart, Respawned, Leave, Dies, vars
  <2> QED BY <2>1 DEF Absent
<1> QED BY <1>1, <1>2 DEF Next, Service, Command, Hosts

(* What is in the drop-in is loaded, or a command is about to.              *)
LEMMA LoadsStep ==
  ASSUME Files, Commands, Idle, Ready, Loads, [Next]_vars
  PROVE  Loads'
<1>1. CASE \/ (\E p \in Procs : WebPagesOff(p))
           \/ (\E p \in Procs : \E host \in Hosts : WebPages(p, host))
           \/ \E p \in Procs : Reset(p)
  <2>1. UNCHANGED <<file, loaded, service, server, port, torn>>
    BY <1>1, Beginning
  <2>2. UNCHANGED cmd \/ \E p \in Procs : Begins(p)
    BY <1>1, Beginning
  <2>3. CASE UNCHANGED cmd
    BY <2>1, <2>3 DEF Loads
  <2>4. ASSUME NEW p \in Procs, Begins(p) PROVE Loads'
    BY <2>1, <2>4, BeginEffect, NoCmdIs DEF Loads
  <2> QED BY <2>2, <2>3, <2>4
<1>2. CASE \E p \in Procs : Truncate(p)
  <2>1. PICK p \in Procs : Truncate(p)
    BY <1>2
  <2>2. Moves(p, "fill")
    BY <2>1 DEF Moves
  <2> QED BY <2>2, MoveEffect DEF Loads
<1>3. CASE \E p \in Procs : Fill(p)
  <2>1. PICK p \in Procs : Fill(p)
    BY <1>3
  <2>2. Moves(p, "reload")
    BY <2>1 DEF Moves
  <2> QED BY <2>2, MoveEffect DEF Loads
<1>4. CASE \E p \in Procs : Remove(p)
  <2>1. PICK p \in Procs : Remove(p)
    BY <1>4
  <2> QED BY <2>1, RemoveType DEF Loads
<1>5. CASE \/ (\E p \in Procs : DaemonReload(p)) \/ Reboot
  BY <1>5 DEF DaemonReload, Goto, Reboot, Loads
<1>6. CASE \E p \in Procs : TryRestart(p)
  <2>1. PICK p \in Procs : TryRestart(p)
    BY <1>6
  <2>2. Ends(p)
    BY <2>1 DEF Ends
  <2>3. /\ cmd[p].at = "restart" /\ UNCHANGED <<file, loaded>>
        /\ torn' = (torn /\ ~cmd[p].alone)
    BY <2>1 DEF TryRestart
  <2>4. CASE cmd[p].alone
    BY <2>3, <2>4 DEF Ready, Loads
  <2>5. CASE ~cmd[p].alone
    <3>1. torn => torn'
      BY Zenon, <2>3, <2>5
    <3> QED BY <2>2, <2>3, <3>1, EndEffect DEF Loads
  <2> QED BY <2>4, <2>5
<1>7. CASE \E p \in Procs : Dies(p)
  <2>1. PICK p \in Procs : Dies(p)
    BY <1>7
  <2>2. Ends(p)
    BY <2>1 DEF Ends
  <2>3. /\ UNCHANGED <<file, loaded>>
        /\ \/ cmd[p].at \in {"write", "remove"} /\ torn' = torn
           \/ torn'
    BY <2>1 DEF Dies
  <2> QED BY <2>2, <2>3, EndEffect DEF Loads
<1>8. CASE \/ Spawn \/ StartDaemonWeb \/ ServiceStarts
           \/ ServiceGoes("stopped") \/ ServiceGoes("spawn")
           \/ (\E s \in Servers : Serving(s)) \/ UNCHANGED vars
  <2>1. UNCHANGED <<cmd, file, loaded, torn>>
    BY <1>8 DEF Spawn, StartDaemonWeb, ServiceStarts, ServiceGoes, Serving,
       ListenPages, DoWeb, CloseServer, vars
  <2> QED BY <2>1 DEF Loads
<1> QED BY <1>1, <1>2, <1>3, <1>4, <1>5, <1>6, <1>7, <1>8 DEF Next,
   Service, Command, Hosts

(* The service runs with what is loaded, or a command will restart it.      *)
LEMMA RunsStep ==
  ASSUME Files, Daemons, Commands, Idle, Runs, [Next]_vars
  PROVE  Runs'
<1>1. CASE \/ (\E p \in Procs : WebPagesOff(p))
           \/ (\E p \in Procs : \E host \in Hosts : WebPages(p, host))
           \/ \E p \in Procs : Reset(p)
  <2>1. UNCHANGED <<file, loaded, service, server, port, torn>>
    BY <1>1, Beginning
  <2>2. UNCHANGED cmd \/ \E p \in Procs : Begins(p)
    BY <1>1, Beginning
  <2>3. CASE UNCHANGED cmd
    BY <2>1, <2>3 DEF Runs
  <2>4. ASSUME NEW p \in Procs, Begins(p) PROVE Runs'
    BY <2>1, <2>4, BeginEffect, NoCmdIs DEF Runs
  <2> QED BY <2>2, <2>3, <2>4
<1>2. CASE Spawn
  BY <1>2 DEF Spawn, Runs
<1>3. CASE StartDaemonWeb
  <2>1. service.at = "listen" /\ service'.env = service.env
    BY <1>3 DEF StartDaemonWeb, Daemons
  <2>2. UNCHANGED <<cmd, loaded, torn>>
    BY <1>3 DEF StartDaemonWeb
  <2> QED BY <2>1, <2>2 DEF Runs
<1>4. CASE \/ ServiceStarts \/ ServiceGoes("stopped") \/ ServiceGoes("spawn")
           \/ Reboot
  <2>1. service'.at \in {"spawn", "stopped"}
    BY <1>4 DEF ServiceStarts, ServiceGoes, Reboot, Daemons
  <2> QED BY <2>1 DEF Runs
<1>5. CASE \E p \in Procs : Truncate(p)
  <2>1. PICK p \in Procs : Truncate(p)
    BY <1>5
  <2>2. Moves(p, "fill")
    BY <2>1 DEF Moves
  <2> QED BY <2>1, <2>2, MoveEffect DEF Truncate, Runs
<1>6. CASE \E p \in Procs : Fill(p)
  <2>1. PICK p \in Procs : Fill(p)
    BY <1>6
  <2>2. Moves(p, "reload")
    BY <2>1 DEF Moves
  <2> QED BY <2>1, <2>2, MoveEffect DEF Fill, Runs
<1>7. CASE \E p \in Procs : DaemonReload(p)
  <2>1. PICK p \in Procs : DaemonReload(p)
    BY <1>7
  <2>2. Moves(p, "restart")
    BY <2>1 DEF Moves
  <2> QED BY <2>2, MoveEffect DEF Runs
<1>8. CASE \E p \in Procs : Remove(p)
  <2>1. PICK p \in Procs : Remove(p)
    BY <1>8
  <2>2. UNCHANGED <<service, loaded, torn>> /\ cmd[p].at = "remove"
    BY <2>1 DEF Remove, RemoveBy
  <2> QED BY <2>1, <2>2, RemoveType DEF Runs
<1>9. CASE \E p \in Procs : TryRestart(p)
  <2>1. PICK p \in Procs : TryRestart(p)
    BY <1>9
  <2>2. service'.at \notin {"listen", "up"}
    BY <2>1 DEF TryRestart, Respawned, Daemons
  <2> QED BY <2>2 DEF Runs
<1>10. CASE \E p \in Procs : Dies(p)
  <2>1. PICK p \in Procs : Dies(p)
    BY <1>10
  <2>2. Ends(p)
    BY <2>1 DEF Ends
  <2>3. /\ UNCHANGED <<service, loaded>>
        /\ \/ cmd[p].at \in {"write", "remove"} /\ torn' = torn
           \/ torn'
    BY <2>1 DEF Dies
  <2> QED BY <2>2, <2>3, EndEffect DEF Runs
<1>11. CASE \/ (\E s \in Servers : Serving(s)) \/ UNCHANGED vars
  <2>1. UNCHANGED <<cmd, service, loaded, torn>>
    BY <1>11 DEF Serving, ListenPages, DoWeb, CloseServer, vars
  <2> QED BY <2>1 DEF Runs
<1> QED BY <1>1, <1>2, <1>3, <1>4, <1>5, <1>6, <1>7, <1>8, <1>9, <1>10, <1>11,
   Zenon DEF Next, Service, Command, Hosts

(* The service listens when it is up and has an address.                    *)
LEMMA OpenedStep ==
  ASSUME Daemons, Opened, [Next]_vars
  PROVE  Opened'
<1>1. CASE Spawn
  BY <1>1 DEF Spawn, Opened
<1>2. CASE StartDaemonWeb
  <2>1. PICK ok :
          /\ service' = [service EXCEPT !.at = "up", !.open = ok]
          /\ service.env = Off => ok = FALSE
    BY <1>2 DEF StartDaemonWeb
  <2> QED BY <2>1 DEF Daemons, Opened
<1>3. CASE ServiceStarts
  BY <1>3 DEF ServiceStarts, Daemons, Opened
<1>4. CASE \/ ServiceGoes("stopped") \/ ServiceGoes("spawn") \/ Reboot
           \/ \E p \in Procs : TryRestart(p)
  <2>1. service' = service \/ service'.open = FALSE
    BY <1>4 DEF ServiceGoes, Reboot, TryRestart, Respawned, Leave, Daemons
  <2> QED BY <2>1 DEF Opened
<1>5. CASE \/ (\E s \in Servers : Serving(s))
           \/ (\E p \in Procs : WebPagesOff(p))
           \/ (\E p \in Procs : \E host \in Hosts : WebPages(p, host))
           \/ (\E p \in Procs : Reset(p)) \/ (\E p \in Procs : Truncate(p))
           \/ (\E p \in Procs : Fill(p)) \/ (\E p \in Procs : Remove(p))
           \/ (\E p \in Procs : DaemonReload(p))
           \/ (\E p \in Procs : Dies(p)) \/ UNCHANGED vars
  <2>1. UNCHANGED <<service>>
    BY <1>5 DEF Serving, ListenPages, DoWeb, CloseServer, WebPagesOff, Begin,
       WebPages, Reset, Truncate, Goto, Fill, Remove, RemoveBy, DaemonReload,
       Dies, Leave, vars
  <2> QED BY <2>1 DEF Opened
<1> QED BY <1>1, <1>2, <1>3, <1>4, <1>5 DEF Next, Service, Command,
   Hosts

-----------------------------------------------------------------------------
(* A command that is alone when it ends leaves its setting in force.        *)
LEMMA AloneEnds ==
  ASSUME Commands, Idle, Single, Ready, NEW p \in Procs, TryRestart(p), cmd[p].alone
  PROVE  /\ loaded = cmd[p].to /\ file.sets = cmd[p].to
         /\ \A q \in Procs : cmd'[q].at = "idle"
<1>1. cmd[p].at = "restart" /\ Ends(p)
  BY DEF TryRestart, Ends
<1>2. \A q \in Procs \ {p} : cmd[q].at = "idle"
  BY <1>1 DEF Single
<1> QED BY <1>1, <1>2, EndEffect, NoCmdIs DEF Ready

(* What was said stays true until another command begins.                   *)
LEMMA SaidStep ==
  ASSUME Files, Commands, Idle, Single, Ready, Absent, Loads, Said, [Next]_vars
  PROVE  Said'
<1>1. CASE \/ (\E p \in Procs : WebPagesOff(p))
           \/ (\E p \in Procs : \E host \in Hosts : WebPages(p, host))
           \/ \E p \in Procs : Reset(p)
  <2>1. UNCHANGED <<file, loaded, torn>>
    BY <1>1, Beginning
  <2>2. CASE said' = Unsaid
    BY <2>2 DEF Said
  <2>3. CASE /\ ~file.there /\ UNCHANGED cmd
             /\ said' = IF Quiet /\ ~torn THEN Default ELSE Unsaid
    <3>1. CASE Quiet /\ ~torn
      <4>1. \A p \in Procs : cmd[p].at = "idle"
        BY <3>1, NoCmdIs DEF Quiet
      <4>2. loaded = Default
        BY <2>3, <3>1, <4>1 DEF Loads, Absent
      <4> QED BY <2>1, <2>3, <3>1, <4>1, <4>2 DEF Said
    <3>2. CASE ~(Quiet /\ ~torn)
      BY <2>3, <3>2 DEF Said
    <3> QED BY <3>1, <3>2
  <2> QED BY <1>1, <2>2, <2>3, Beginning
<1>2. CASE \/ (\E p \in Procs : Truncate(p)) \/ (\E p \in Procs : Fill(p))
           \/ (\E p \in Procs : DaemonReload(p))
           \/ (\E p \in Procs : Remove(p)) \/ \E p \in Procs : Dies(p)
  <2>1. said' = said /\ \E p \in Procs : cmd[p].at # "idle"
    BY <1>2 DEF Truncate, Goto, Fill, DaemonReload, Remove, RemoveBy, Dies,
       Leave, RemoveBy, Idle
  <2> QED BY <2>1 DEF Said
<1>3. CASE \E p \in Procs : TryRestart(p)
  <2>1. PICK p \in Procs : TryRestart(p)
    BY <1>3
  <2>2. CASE cmd[p].alone
    <3>1. said' = cmd[p].to /\ ~torn' /\ loaded' = loaded
      BY <2>1, <2>2 DEF TryRestart
    <3> QED BY <2>1, <2>2, <3>1, AloneEnds DEF Said
  <2>3. CASE ~cmd[p].alone
    BY <2>1, <2>3 DEF TryRestart, Said
  <2> QED BY <2>2, <2>3
<1>4. CASE Reboot
  <2>1. /\ loaded' = file.sets /\ ~torn' /\ said' = said
        /\ cmd' = [p \in Procs |-> NoCmd]
    BY <1>4 DEF Reboot
  <2> QED BY <2>1, NoCmdIs DEF Loads, Said
<1>5. CASE \/ Spawn \/ StartDaemonWeb \/ ServiceStarts
           \/ ServiceGoes("stopped") \/ ServiceGoes("spawn")
           \/ (\E s \in Servers : Serving(s)) \/ UNCHANGED vars
  <2>1. UNCHANGED <<cmd, said, loaded, torn>>
    BY <1>5 DEF Spawn, StartDaemonWeb, ServiceStarts, ServiceGoes, Serving,
       ListenPages, DoWeb, CloseServer, vars
  <2> QED BY <2>1 DEF Said
<1> QED BY <1>1, <1>2, <1>3, <1>4, <1>5 DEF Next, Service, Command,
   Hosts

(* No port is known while a command that died has not been made good.       *)
LEMMA TornPortStep ==
  ASSUME Files, TornPort, [Next]_vars
  PROVE  TornPort'
<1>1. CASE \/ (\E p \in Procs : WebPagesOff(p))
           \/ (\E p \in Procs : \E host \in Hosts : WebPages(p, host))
           \/ \E p \in Procs : Reset(p)
  <2>1. UNCHANGED <<port, torn>>
    BY <1>1, Beginning
  <2> QED BY <2>1 DEF TornPort
<1>2. CASE \E p \in Procs : TryRestart(p)
  <2>1. PICK p \in Procs : TryRestart(p)
    BY <1>2
  <2>2. torn' = (torn /\ ~cmd[p].alone) /\ (~cmd[p].alone => port' = 0)
    BY <2>1 DEF TryRestart
  <2>3. torn' => ~cmd[p].alone
    BY Zenon, <2>2
  <2> QED BY <2>2, <2>3 DEF TornPort
<1>3. CASE \/ (\E p \in Procs : Dies(p)) \/ Reboot
  BY <1>3 DEF Dies, Leave, Reboot, TornPort
<1>4. CASE \/ Spawn \/ StartDaemonWeb \/ ServiceStarts
           \/ ServiceGoes("stopped") \/ ServiceGoes("spawn")
           \/ (\E s \in Servers : Serving(s))
           \/ (\E p \in Procs : Truncate(p)) \/ (\E p \in Procs : Fill(p))
           \/ (\E p \in Procs : Remove(p))
           \/ (\E p \in Procs : DaemonReload(p)) \/ UNCHANGED vars
  <2>1. UNCHANGED <<port, torn>>
    BY <1>4 DEF Spawn, StartDaemonWeb, ServiceStarts, ServiceGoes, Serving,
       ListenPages, DoWeb, CloseServer, Truncate, Goto, Fill, Remove,
       RemoveBy, DaemonReload, vars
  <2> QED BY <2>1 DEF TornPort
<1> QED BY <1>1, <1>2, <1>3, <1>4 DEF Next, Service, Command, Hosts

(* The port in force is the one that was chosen last.                       *)
LEMMA PortStep ==
  ASSUME Files, Commands, Idle, Single, Kinds, Ready, Loads, TornPort, Port,
         KeptPort, [Next]_vars
  PROVE  Port'
<1>1. CASE \/ (\E p \in Procs : WebPagesOff(p))
           \/ (\E p \in Procs : \E host \in Hosts : WebPages(p, host))
           \/ \E p \in Procs : Reset(p)
  <2>1. UNCHANGED <<file, loaded, service, server, port, torn>>
    BY <1>1, Beginning
  <2>2. UNCHANGED cmd \/ \E p \in Procs : Begins(p)
    BY <1>1, Beginning
  <2>3. CASE UNCHANGED cmd
    BY <2>1, <2>3 DEF Port
  <2>4. ASSUME NEW p \in Procs, Begins(p) PROVE Port'
    BY <2>1, <2>4, BeginEffect, NoCmdIs DEF Port
  <2> QED BY <2>2, <2>3, <2>4
<1>2. CASE \E p \in Procs : Truncate(p)
  <2>1. PICK p \in Procs : Truncate(p)
    BY <1>2
  <2>2. Moves(p, "fill")
    BY <2>1 DEF Moves
  <2> QED BY <2>2, MoveEffect DEF Port
<1>3. CASE \E p \in Procs : Fill(p)
  <2>1. PICK p \in Procs : Fill(p)
    BY <1>3
  <2>2. Moves(p, "reload")
    BY <2>1 DEF Moves
  <2> QED BY <2>2, MoveEffect DEF Port
<1>4. CASE \E p \in Procs : DaemonReload(p)
  <2>1. PICK p \in Procs : DaemonReload(p)
    BY <1>4
  <2>2. Moves(p, "restart")
    BY <2>1 DEF Moves
  <2> QED BY <2>2, MoveEffect DEF Port
<1>5. CASE \E p \in Procs : Remove(p)
  <2>1. PICK p \in Procs : Remove(p)
    BY <1>5
  <2> QED BY <2>1, RemoveType DEF Port
<1>6. CASE \E p \in Procs : TryRestart(p)
  <2>1. PICK p \in Procs : TryRestart(p)
    BY <1>6
  <2>2. loaded' = loaded /\ cmd[p].at = "restart"
    BY <2>1 DEF TryRestart
  <2>3. CASE ~cmd[p].alone
    BY <2>1, <2>3 DEF TryRestart, Port
  <2>4. CASE cmd[p].alone
    <3>1. loaded = cmd[p].to
      BY <2>1, <2>4, AloneEnds
    <3>2. CASE cmd[p].what \in {"off", "reset"}
      BY <2>1, <2>2, <2>4, <3>1, <3>2, Settings DEF TryRestart, Kinds, Port
    <3>3. CASE cmd[p].what \in {"keep", "port"}
      <4>1. SplitPort(loaded) = cmd[p].to.port
        BY <3>1, <3>3, Settings DEF Kinds
      <4>2. port' = cmd[p].to.port
        BY <2>1, <2>2, <2>4, <3>3 DEF TryRestart, KeptPort
      <4> QED BY <2>2, <4>1, <4>2 DEF Port
    <3> QED BY <2>2, <3>2, <3>3 DEF Commands, Cmds, Kinds
  <2> QED BY <2>3, <2>4
<1>7. CASE \E p \in Procs : Dies(p)
  <2>1. PICK p \in Procs : Dies(p)
    BY <1>7
  <2>2. Ends(p)
    BY <2>1 DEF Ends
  <2>3. /\ loaded' = loaded
        /\ \/ cmd[p].at \in {"write", "remove"} /\ port' = port
           \/ port' = 0
    BY <2>1 DEF Dies
  <2> QED BY <2>2, <2>3, EndEffect DEF Port
<1>8. CASE Reboot
  <2>1. /\ loaded' = file.sets
        /\ port' = IF \E p \in Procs : cmd[p].at \notin {"idle", "write", "remove"}
                     THEN 0 ELSE port
    BY <1>8 DEF Reboot
  <2> QED BY <2>1 DEF Loads, TornPort, Port
<1>9. CASE \/ Spawn \/ StartDaemonWeb \/ ServiceStarts
           \/ ServiceGoes("stopped") \/ ServiceGoes("spawn")
           \/ (\E s \in Servers : Serving(s)) \/ UNCHANGED vars
  <2>1. UNCHANGED <<cmd, port, loaded>>
    BY <1>9 DEF Spawn, StartDaemonWeb, ServiceStarts, ServiceGoes, Serving,
       ListenPages, DoWeb, CloseServer, vars
  <2> QED BY <2>1 DEF Port
<1> QED BY <1>1, <1>2, <1>3, <1>4, <1>5, <1>6, <1>7, <1>8, <1>9,
   Zenon DEF Next, Service, Command, Hosts

(* A command that keeps the port, and is alone, has the one chosen last.    *)
LEMMA KeptPortStep ==
  ASSUME Files, Commands, Idle, Single, Port, KeptPort, [Next]_vars
  PROVE  KeptPort'
<1>1. CASE \/ (\E p \in Procs : WebPagesOff(p))
           \/ (\E p \in Procs : \E host \in Hosts : WebPages(p, host))
           \/ \E p \in Procs : Reset(p)
  <2>1. UNCHANGED <<file, loaded, service, server, port, torn>>
    BY <1>1, Beginning
  <2>2. UNCHANGED cmd \/ \E p \in Procs : Begins(p)
    BY <1>1, Beginning
  <2>3. CASE UNCHANGED cmd
    BY <2>1, <2>3 DEF KeptPort
  <2>4. ASSUME NEW p \in Procs, Begins(p) PROVE KeptPort'
    <3>1. ASSUME Quiet, port # 0 PROVE SplitPort(loaded) = port
      BY <3>1, NoCmdIs DEF Quiet, Port
    <3>2. cmd'[p].alone /\ cmd'[p].what = "keep" /\ port' # 0
            => cmd'[p].to.port = port'
      BY <2>1, <2>4, <3>1, BeginEffect
    <3>3. ASSUME NEW q \in Procs \ {p}, cmd'[q].alone PROVE cmd'[q].at = "idle"
      BY <2>4, <3>3, BeginEffect, NoCmdIs
    <3> QED BY <3>2, <3>3 DEF KeptPort
  <2> QED BY <2>2, <2>3, <2>4
<1>2. CASE \E p \in Procs : Truncate(p)
  <2>1. PICK p \in Procs : Truncate(p)
    BY <1>2
  <2>2. Moves(p, "fill")
    BY <2>1 DEF Moves
  <2> QED BY <2>1, <2>2, MoveEffect DEF Truncate, KeptPort
<1>3. CASE \E p \in Procs : Fill(p)
  <2>1. PICK p \in Procs : Fill(p)
    BY <1>3
  <2>2. Moves(p, "reload")
    BY <2>1 DEF Moves
  <2> QED BY <2>1, <2>2, MoveEffect DEF Fill, KeptPort
<1>4. CASE \E p \in Procs : DaemonReload(p)
  <2>1. PICK p \in Procs : DaemonReload(p)
    BY <1>4
  <2>2. Moves(p, "restart")
    BY <2>1 DEF Moves
  <2> QED BY <2>1, <2>2, MoveEffect DEF DaemonReload, KeptPort
<1>5. CASE \E p \in Procs : Remove(p)
  <2>1. PICK p \in Procs : Remove(p)
    BY <1>5
  <2>2. port' = port /\ cmd[p].at = "remove"
    BY <2>1 DEF Remove, RemoveBy
  <2> QED BY <2>1, <2>2, RemoveType DEF KeptPort
<1>6. CASE \/ (\E p \in Procs : TryRestart(p)) \/ \E p \in Procs : Dies(p)
  <2>1. PICK p \in Procs : Ends(p)
    BY <1>6 DEF Ends
  <2> QED BY <2>1, EndEffect, NoCmdIs DEF Single, KeptPort
<1>7. CASE Reboot
  <2>1. cmd' = [p \in Procs |-> NoCmd]
    BY <1>7 DEF Reboot
  <2> QED BY <2>1, NoCmdIs DEF KeptPort
<1>8. CASE \/ Spawn \/ StartDaemonWeb \/ ServiceStarts
           \/ ServiceGoes("stopped") \/ ServiceGoes("spawn")
           \/ (\E s \in Servers : Serving(s)) \/ UNCHANGED vars
  <2>1. UNCHANGED <<cmd, port>>
    BY <1>8 DEF Spawn, StartDaemonWeb, ServiceStarts, ServiceGoes, Serving,
       ListenPages, DoWeb, CloseServer, vars
  <2> QED BY <2>1 DEF KeptPort
<1> QED BY <1>1, <1>2, <1>3, <1>4, <1>5, <1>6, <1>7, <1>8 DEF Next,
   Service, Command, Hosts

-----------------------------------------------------------------------------
(* The initial states satisfy the invariant. *)
LEMMA InitIInv ==
  ASSUME Init
  PROVE  IInv
<1>1. /\ \A p \in Procs : cmd[p] = NoCmd
      /\ cmd \in [Procs -> Cmds]
  BY NoCmdIs DEF Init
<1>2. Files /\ Daemons /\ Absent /\ Runs /\ Opened
  BY Settings DEF Init, NoFile, Files, Daemons, Absent, Runs, Opened
<1>3. NoServer \in [at : {"idle", "listen", "up"}, addr : Addr]
  BY Settings DEF NoServer
<1>4. Terminals
  BY <1>3 DEF Init, Terminals
<1>5. Counts
  <2>1. 0 \in 0..MaxEvents
    BY PagesAssumption
  <2>2. torn \in BOOLEAN /\ events \in 0..MaxEvents
    BY Zenon, <2>1 DEF Init
  <2> QED BY <2>2, Settings DEF Init, Counts
<1>6. Commands /\ Idle /\ Single /\ Kinds /\ Ready /\ KeptPort
  BY <1>1, NoCmdIs DEF Commands, Idle, Single, Kinds, Ready, KeptPort
<1>7. Loads /\ Said /\ TornPort
  BY DEF Init, NoFile, Loads, Said, TornPort
<1>8. Port
  BY Settings DEF Init, Port
<1> QED BY <1>2, <1>4, <1>5, <1>6, <1>7, <1>8 DEF IInv

(* Every step preserves it. *)
LEMMA NextIInv ==
  ASSUME IInv, [Next]_vars
  PROVE  IInv'
<1> USE DEF IInv
<1>1. Files' /\ Daemons' /\ Terminals' /\ Commands' /\ Counts'
  BY FilesStep, DaemonsStep, TerminalsStep, CommandsStep, CountsStep
<1>2. Idle' /\ Single' /\ Kinds' /\ Ready' /\ Absent'
  BY IdleStep, SingleStep, KindsStep, ReadyStep, AbsentStep
<1>3. Loads' /\ Runs' /\ Opened'
  BY LoadsStep, RunsStep, OpenedStep
<1>4. Said' /\ TornPort' /\ Port' /\ KeptPort'
  BY SaidStep, TornPortStep, PortStep, KeptPortStep
<1> QED BY <1>1, <1>2, <1>3, <1>4

(* The inductive invariant of Pages holds in every state. *)
THEOREM Invariance == Spec => []IInv
<1>1. Init => IInv
  BY InitIInv
<1>2. IInv /\ [Next]_vars => IInv'
  BY NextIInv
<1> QED BY <1>1, <1>2, PTL DEF Spec

(* Every variable keeps its type. *)
THEOREM TypeCorrect == Spec => []TypeOK
<1>1. IInv => TypeOK
  BY TypeParts DEF IInv
<1> QED BY <1>1, Invariance, PTL

(* However many runs of doWebPages and resetWebPages overlap, the service   *)
(* ends up with the setting of the drop-in, unless one of them died.        *)
THEOREM CommandsSettle == Spec => []Settled
<1>1. ASSUME IInv, Quiet, ~torn
      PROVE  /\ loaded = file.sets
             /\ service.at \in {"listen", "up"} => service.env = loaded
  <2>1. \A p \in Procs : cmd[p].at = "idle"
    BY <1>1, NoCmdIs DEF Quiet
  <2> QED BY <1>1, <2>1 DEF IInv, Loads, Runs
<1>2. IInv => Settled
  BY <1>1 DEF Settled
<1> QED BY <1>2, Invariance, PTL

(* What doWebPages and resetWebPages print is so, and stays so.             *)
THEOREM PagesAreWhereSaid == Spec => []ServedWhereSaid
<1>1. ASSUME IInv, said # Unsaid, service.open
      PROVE  said # Off /\ service.env = said
  <2>1. ~torn /\ loaded = said /\ \A p \in Procs : cmd[p].at = "idle"
    BY <1>1 DEF IInv, Said
  <2>2. service.at = "up" /\ service.env # Off
    BY <1>1 DEF IInv, Opened
  <2> QED BY <1>1, <2>1, <2>2 DEF IInv, Runs
<1>2. IInv => ServedWhereSaid
  BY <1>1 DEF ServedWhereSaid
<1> QED BY <1>2, Invariance, PTL

(* A run of doWebPages without --port keeps the port.                       *)
THEOREM PortIsKept == Spec => []PortKept
<1>1. ASSUME IInv, said \notin {Unsaid, Off}, port # 0
      PROVE  said.port = port
  <2>1. loaded = said /\ \A p \in Procs : cmd[p].at = "idle"
    BY <1>1 DEF IInv, Said
  <2>2. SplitPort(said) = port
    BY <1>1, <2>1 DEF IInv, Port
  <2> QED BY <1>1, <2>2 DEF SplitPort
<1>2. IInv => PortKept
  BY <1>1 DEF PortKept
<1> QED BY <1>2, Invariance, PTL
=============================================================================
