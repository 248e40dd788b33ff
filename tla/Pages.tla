-------------------------------- MODULE Pages --------------------------------
(***************************************************************************)
(* Where the pages for key holders are served (cmd/kblockerctl/web.go,      *)
(* doWeb and doUnblockWeb of main.go, resetWebPages of reset.go).           *)
(*                                                                          *)
(* `web-pages' keeps the address in a drop-in of the scheduler's unit, from *)
(* where it reaches the socket by way of what systemd has loaded and of the *)
(* environment the service was spawned with.  `reset' removes the drop-in.  *)
(* add-pgp-web and unblock-web serve the same pages from a terminal.        *)
(***************************************************************************)
EXTENDS Integers, FiniteSets

CONSTANTS
  Procs,    \* processes that run web-pages or reset
  Servers,  \* terminals that run add-pgp-web or unblock-web
  Customs,  \* addresses that `custom' may name; the machine may lack them
  Ports,    \* TCP ports
  DefPort,  \* the one in defaultWebAddr
  Given,    \* addresses given to add-pgp-web with --bind and --port
  MaxEvents \* bound: commands and servers started, stops, crashes and reboots

ASSUME PagesAssumption ==
  /\ DefPort \in Ports /\ 0 \notin Ports
  /\ {"localhost", "any", "off"} \cap Customs = {}
  /\ Given \subseteq [host : {"localhost", "any"} \cup Customs, port : Ports]
  /\ MaxEvents \in Nat

Off     == [host |-> "off", port |-> 0]
Default == [host |-> "localhost", port |-> DefPort]
Addr    == [host : {"localhost", "any"} \cup Customs, port : Ports]
Setting == Addr \cup {Off}
Unsaid  == [host |-> "unsaid", port |-> 0]

VARIABLES
  file,     \* webDropIn: is it there, and the setting it makes
  loaded,   \* what systemd has loaded, and `systemctl show' prints
  service,  \* the scheduler: its state, its KBLOCKER_WEB, does it listen?
  server,   \* the servers in terminals
  cmd,      \* the commands that are running
  said,     \* history: the setting that the last command reported
  port,     \* history: the port last chosen; 0 when a command died choosing
  torn,     \* history: a command died between its first change and its last
  events    \* history: how many of what MaxEvents bounds

ghost == <<said, port, torn>>
vars  == <<file, loaded, service, server, cmd, ghost, events>>

Event == events < MaxEvents /\ events' = events + 1

NoCmd    == [what |-> "none", at |-> "idle", to |-> Unsaid, alone |-> TRUE]
NoServer == [at |-> "idle", addr |-> Default]
NoFile   == [there |-> FALSE, sets |-> Default]
Quiet    == \A p \in Procs : cmd[p] = NoCmd

TypeOK ==
  /\ file \in [there : BOOLEAN, sets : Setting] /\ loaded \in Setting
  /\ service \in [at : {"stopped", "spawn", "listen", "up"}, env : Setting,
                  open : BOOLEAN]
  /\ server \in [Servers -> [at : {"idle", "listen", "up"}, addr : Addr]]
  /\ cmd \in [Procs -> [what : {"none", "keep", "port", "off", "reset"},
                        at : {"idle", "write", "fill", "remove", "reload",
                              "restart"},
                        to : Setting \cup {Unsaid}, alone : BOOLEAN]]
  /\ said \in Setting \cup {Unsaid} /\ port \in Ports \cup {0}
  /\ torn \in BOOLEAN /\ events \in 0..MaxEvents

Init ==
  /\ file = NoFile /\ loaded = Default
  /\ service = [at |-> "spawn", env |-> Default, open |-> FALSE]
  /\ server = [s \in Servers |-> NoServer]
  /\ cmd = [p \in Procs |-> NoCmd]
  /\ said = Unsaid /\ port = DefPort /\ torn = FALSE /\ events = 0

-----------------------------------------------------------------------------
(* Sockets *)

Overlap(a, b) == a.port = b.port /\ (a.host = b.host \/ "any" \in {a.host, b.host})

Taken(a) ==
  \/ service.open /\ Overlap(a, service.env)
  \/ \E s \in Servers : server[s].at = "up" /\ Overlap(a, server[s].addr)

(* net.Listen at an address that is not taken: it succeeds, unless the      *)
(* machine does not have the address now.                                   *)
Bindable(a) == {TRUE} \cup (IF a.host \in Customs THEN {FALSE} ELSE {})

-----------------------------------------------------------------------------
(* The service, and the listener it tries to open once: startDaemonWeb *)

Spawn ==
  /\ service.at = "spawn"
  /\ service' = [at |-> "listen", env |-> loaded, open |-> FALSE]
  /\ UNCHANGED <<file, loaded, server, cmd, ghost, events>>

StartDaemonWeb ==
  /\ service.at = "listen"
  /\ \E ok \in IF service.env = Off \/ Taken(service.env) THEN {FALSE}
               ELSE Bindable(service.env) :
       service' = [service EXCEPT !.at = "up", !.open = ok]
  /\ UNCHANGED <<file, loaded, server, cmd, ghost, events>>

(* It is stopped by hand, or crashes and is spawned again (Restart=always). *)
ServiceGoes(next) ==
  /\ service.at # "stopped" /\ Event
  /\ service' = [service EXCEPT !.at = next, !.open = FALSE]
  /\ UNCHANGED <<file, loaded, server, cmd, ghost>>

ServiceStarts ==
  /\ service.at = "stopped"
  /\ service' = [service EXCEPT !.at = "spawn"]
  /\ UNCHANGED <<file, loaded, server, cmd, ghost, events>>

-----------------------------------------------------------------------------
(* splitWebAddr: the port of a setting; "off" has none *)
PortAsIs(a)  == a.port
SplitPort(a) == IF a = Off THEN DefPort ELSE a.port
SplitHost(a) == IF a = Off THEN "localhost" ELSE a.host

(* listenPages: the address that is given, or else the saved one. *)
Saved == [host |-> SplitHost(loaded), port |-> SplitPort(loaded)]

ListenPages(s) ==
  /\ server[s] = NoServer /\ Event
  /\ \E a \in Given \cup {Saved} :
       server' = [server EXCEPT ![s] = [at |-> "listen", addr |-> a]]
  /\ UNCHANGED <<file, loaded, service, cmd, ghost>>

(* "already hosts this page", or the failure to listen, ends it. *)
DoWeb(s) ==
  /\ server[s].at = "listen"
  /\ \E ok \in IF Taken(server[s].addr) THEN {FALSE} ELSE Bindable(server[s].addr) :
       server' = [server EXCEPT ![s] = IF ok THEN [@ EXCEPT !.at = "up"] ELSE NoServer]
  /\ UNCHANGED <<file, loaded, service, cmd, ghost, events>>

CloseServer(s) ==
  /\ server[s].at = "up"
  /\ server' = [server EXCEPT ![s] = NoServer]
  /\ UNCHANGED <<file, loaded, service, cmd, ghost, events>>

-----------------------------------------------------------------------------
(* Commands.  One is alone when no other one runs while it does. *)

Begin(p, what, step, to) ==
  /\ cmd' = [q \in Procs |->
       IF q = p THEN [what |-> what, at |-> step, to |-> to, alone |-> Quiet]
       ELSE IF cmd[q] = NoCmd THEN NoCmd ELSE [cmd[q] EXCEPT !.alone = FALSE]]
  /\ said' = Unsaid

Goto(p, step) == cmd' = [cmd EXCEPT ![p].at = step]
Leave(p)      == cmd' = [cmd EXCEPT ![p] = NoCmd]

(* doWebPages: the port is the one in force, unless --port names another.   *)
WebPagesOff(p) ==
  /\ cmd[p] = NoCmd /\ Event
  /\ Begin(p, "off", "write", Off)
  /\ UNCHANGED <<file, loaded, service, server, port, torn>>

WebPages(p, host) ==
  /\ cmd[p] = NoCmd /\ Event
  /\ \/ Begin(p, "keep", "write", [host |-> host, port |-> SplitPort(loaded)])
     \/ \E n \in Ports : Begin(p, "port", "write", [host |-> host, port |-> n])
  /\ UNCHANGED <<file, loaded, service, server, port, torn>>

(* os.WriteFile truncates the drop-in, and fills it. *)
Truncate(p) ==
  /\ cmd[p].at = "write"
  /\ file' = [there |-> TRUE, sets |-> Default] /\ Goto(p, "fill")
  /\ UNCHANGED <<loaded, service, server, ghost, events>>

Fill(p) ==
  /\ cmd[p].at = "fill"
  /\ file' = [there |-> TRUE, sets |-> cmd[p].to] /\ Goto(p, "reload")
  /\ UNCHANGED <<loaded, service, server, ghost, events>>

(* resetWebPages: when there is no drop-in there is nothing to do, and that *)
(* is reported at once, whatever systemd has loaded.                        *)
Reset(p) ==
  /\ cmd[p] = NoCmd /\ Event
  /\ \/ file.there /\ Begin(p, "reset", "remove", Default)
     \/ /\ ~file.there /\ UNCHANGED cmd
        /\ said' = IF Quiet /\ ~torn THEN Default ELSE Unsaid
  /\ UNCHANGED <<file, loaded, service, server, port, torn>>

(* What another command is about to write goes into a file without a name.  *)
RemoveBy(p, step) ==
  /\ cmd[p].at = "remove"
  /\ file' = NoFile
  /\ cmd' = [q \in Procs |->
       IF q = p THEN [cmd[q] EXCEPT !.at = step]
       ELSE IF cmd[q].at = "fill" THEN [cmd[q] EXCEPT !.at = "reload"] ELSE cmd[q]]
  /\ UNCHANGED <<loaded, service, server, ghost, events>>

RemoveNoReload(p) == RemoveBy(p, "restart")
Remove(p)         == RemoveBy(p, "reload")

DaemonReload(p) ==
  /\ cmd[p].at = "reload"
  /\ loaded' = file.sets /\ Goto(p, "restart")
  /\ UNCHANGED <<file, service, server, ghost, events>>

(* try-restart: a stopped service stays stopped, any other is spawned anew. *)
IfServing == IF service.at = "up"
               THEN [service EXCEPT !.at = "spawn", !.open = FALSE] ELSE service
Respawned == IF service.at # "stopped"
               THEN [service EXCEPT !.at = "spawn", !.open = FALSE] ELSE service

TryRestart(p) ==
  LET c == cmd[p] IN
  /\ cmd[p].at = "restart"
  /\ service' = Respawned /\ Leave(p)
  /\ said' = IF c.alone THEN c.to ELSE Unsaid
  /\ port' = IF ~c.alone THEN 0
             ELSE IF c.what \in {"off", "reset"} THEN DefPort
             ELSE IF c.what = "port" \/ port = 0 THEN c.to.port ELSE port
  /\ torn' = (torn /\ ~c.alone)
  /\ UNCHANGED <<file, loaded, server, events>>

(* A command is killed, or gives up when systemctl fails. *)
Dies(p) ==
  /\ cmd[p] # NoCmd /\ Leave(p)
  /\ IF cmd[p].at \in {"write", "remove"} THEN UNCHANGED <<port, torn>>
     ELSE port' = 0 /\ torn' = TRUE
  /\ UNCHANGED <<file, loaded, service, server, said, events>>

Reboot ==
  /\ Event
  /\ loaded' = file.sets
  /\ service' = [service EXCEPT !.at = "spawn", !.open = FALSE]
  /\ server' = [s \in Servers |-> NoServer] /\ cmd' = [p \in Procs |-> NoCmd]
  /\ torn' = FALSE
  /\ port' = IF \E p \in Procs : cmd[p].at \notin {"idle", "write", "remove"}
               THEN 0 ELSE port
  /\ UNCHANGED <<file, said>>

-----------------------------------------------------------------------------
Service ==
  \/ Spawn \/ StartDaemonWeb \/ ServiceStarts
  \/ ServiceGoes("stopped") \/ ServiceGoes("spawn")

Serving(s) == ListenPages(s) \/ DoWeb(s) \/ CloseServer(s)

Command(p) ==
  \/ WebPagesOff(p) \/ Reset(p)
  \/ \E host \in {"localhost", "any"} \cup Customs : WebPages(p, host)
  \/ Truncate(p) \/ Fill(p) \/ Remove(p) \/ DaemonReload(p) \/ TryRestart(p)
  \/ Dies(p)

Next ==
  \/ Service \/ Reboot
  \/ \E s \in Servers : Serving(s)
  \/ \E p \in Procs : Command(p)

Spec == Init /\ [][Next]_vars
-----------------------------------------------------------------------------
(* However commands overlap: when all are done and none died half-way, the  *)
(* service runs with the setting of the drop-in, or will when it starts.    *)
Settled ==
  Quiet /\ ~torn =>
    loaded = file.sets /\ (service.at \in {"listen", "up"} => service.env = loaded)

(* "Key holder pages turned off.", "on http://..." (web.go:264-273),        *)
(* "Key holder pages reset": once a command has said so, and until the next *)
(* one begins, the service listens nowhere else, over restarts and reboots. *)
ServedWhereSaid ==
  said # Unsaid /\ service.open => said # Off /\ service.env = said

(* "The port is kept unless --port changes it" (web.go:206): a command      *)
(* reports the port that was chosen last, with a server in a terminal,      *)
(* restarts and reboots between; only `off' and `reset' forget it.          *)
PortKept == said \notin {Unsaid, Off} /\ port # 0 => said.port = port
=============================================================================
