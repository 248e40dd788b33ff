------------------------------ MODULE CtlProofs ------------------------------
(***************************************************************************)
(* What Ctl promises, for any number of processes, of key holders and of    *)
(* keys drawn.  IInv is inductive whatever commands run beside each other;  *)
(* one lemma brings each of its parts over a step, and the lemmas before    *)
(* them say how a command begins (Begun), goes on (GoesOn, Led, Turns) and  *)
(* how the kernel moves (KernelMoves, Lockings).                            *)
(*                                                                          *)
(* What needs more says so in its hypothesis on Rivals, the commands that   *)
(* run beside any other: no lock keeps two commands apart in the program,   *)
(* and some pairs do spoil each other's work.                               *)
(***************************************************************************)
EXTENDS Ctl, TLAPS

(* TypeOK in parts. *)

Kernels == [loaded : BOOLEAN, on : BOOLEAN, pgp : BOOLEAN, restored : BOOLEAN,
            hash : Keys \cup {NoHash}, raw : Keys, shot : Keys \cup {None},
            state : BOOLEAN]
Cmds == [cmd : Commands \cup {"none"},
         at : {"idle", "arm", "start", "read", "encrypt", "gpg", "submit",
               "rmstate", "sweep", "unregister", "authorize", "rmmod", "wipe",
               "confirm", "rmkeys", "rmenc"},
         key : Keys \cup {None}, entry : Ring \cup {NoEntry},
         todo : SUBSET Ring, done : SUBSET Holders]

ProcType    == proc \in [Procs -> Cmds]
FileType    == keyring \subseteq Ring /\ cipher \in [Holders -> Keys \cup {None}]
HistoryType ==
  /\ minted \in 0..MaxKeys /\ printed \in Keys \cup {None}
  /\ sealed \in Keys \cup {None} /\ told \subseteq Holders
  /\ cut \in BOOLEAN /\ wiped \in BOOLEAN

(* A key that is not drawn yet is nowhere. *)
Drawn ==
  /\ kernel.hash <= minted /\ kernel.raw <= minted /\ kernel.shot <= minted
  /\ printed <= minted /\ sealed <= minted
  /\ \A h \in Holders : cipher[h] <= minted
  /\ \A p \in Procs : proc[p].key <= minted

Kept ==
  /\ kernel.on \/ kernel.pgp => kernel.loaded
  /\ kernel.state => kernel.on /\ kernel.pgp
  /\ kernel.restored => kernel.shot = None
  /\ Locked => kernel.shot \in {None, kernel.hash}

(* Which command goes where. *)
Path(c) ==
  \/ c = Free
  \/ c.cmd = "enable" /\ c.at \in {"arm", "start", "read", "encrypt", "gpg"}
  \/ c.cmd = "insecure" /\ c.at \in {"start", "read"}
  \/ c.cmd \in {"disable", "unblock"} /\ c.at \in {"submit", "rmstate", "sweep"}
  \/ c.cmd = "web" /\ c.at = "submit"
  \/ c.cmd = "unload" /\ c.at \in {"authorize", "rmmod", "rmstate", "sweep", "wipe"}
  \/ c.cmd = "reload" /\ c.at \in {"read", "encrypt", "gpg"}
  \/ c.cmd = "show" /\ c.at = "read"
  \/ c.cmd \in {"add", "webadd"} /\ c.at \in {"read", "encrypt", "gpg"} /\ c.entry \in Ring
  \/ c.cmd = "remove" /\ c.at = "unregister" /\ c.entry \in Ring
  \/ c.cmd = "reset" /\ c.at \in {"confirm", "rmkeys", "rmenc"}
Paths == \A p \in Procs : Path(proc[p]) /\ (proc[p].at = "gpg" => proc[p].entry \in Ring)

(* Beside a command that is no rival there are rivals only. *)
Busy(p) == proc[p].cmd \notin Rivals \cup {"none"} /\ proc[p].at # "confirm"
Single  == \A p, q \in Procs : Busy(p) /\ Busy(q) => p = q

(* The one-shot key of a block is with the kernel, or was given to one      *)
(* reader: to one that encrypts it, or to one that prints it.               *)
Encrypting(p) == proc[p].at \in {"encrypt", "gpg"}
OneReader ==
  Locked =>
    /\ kernel.shot # None =>
         /\ kernel.hash # printed /\ kernel.hash # sealed
         /\ \A p \in Procs : Encrypting(p) => proc[p].key # kernel.hash
    /\ kernel.hash = printed =>
         /\ kernel.hash # sealed
         /\ \A p \in Procs :
              Encrypting(p) /\ proc[p].cmd = "enable" => proc[p].key # kernel.hash

(* The lock is asked for by an `enable' that is about to start the block. *)
Armed ==
  kernel.pgp /\ ~kernel.on =>
    cut \/ \E p \in Procs : proc[p].cmd = "enable" /\ proc[p].at = "start"

IInv == /\ TypeOK /\ Drawn /\ Kept /\ Paths /\ Single /\ OneReader /\ Armed

-----------------------------------------------------------------------------
(* What else holds if some commands do not run beside others. *)

(* Without a second `enable': `enable --insecure' finds no lock asked for.  *)
Unlocked == \A p \in Procs : proc[p].cmd = "insecure" /\ kernel.pgp => cut

(* Without a second command that encrypts or removes. *)
Ghosts ==
  /\ NoGhost
  /\ \A p \in Procs : proc[p].at = "unregister" => cipher[proc[p].entry[1]] = None
  /\ \A p \in Procs : proc[p].at = "wipe" => \A h \in Holders : cipher[h] = None

(* With the pages, `key' and `enable --insecure' alone beside any other:    *)
(* nobody works on the ciphertexts of a block that is sealed, *)
Sealed ==
  Locked /\ kernel.hash = sealed =>
    /\ kernel.shot = None
    /\ \A h \in Holders : cipher[h] \in {None, sealed}
    /\ \A h \in told : cipher[h] = sealed /\ <<h, "asc">> \in keyring
    /\ \A p \in Procs :
         /\ proc[p].cmd # "enable" /\ ~Encrypting(p)
         /\ proc[p].at \notin {"rmmod", "rmstate", "sweep", "wipe"}

(* and an `enable' that encrypts has come so far. *)
Sealing ==
  \A p \in Procs : proc[p].cmd = "enable" /\ Encrypting(p) =>
    /\ \A h \in proc[p].done : cipher[h] = proc[p].key /\ <<h, "asc">> \in keyring
    /\ \A e \in proc[p].todo : e[1] \notin proc[p].done
    /\ \A e \in keyring \ proc[p].todo : cipher[e[1]] \in {None, proc[p].key}
    /\ proc[p].at = "gpg" => proc[p].entry \in proc[p].todo
                             /\ cipher[proc[p].entry[1]] = None

(* and one that does not encrypt yet has done nothing.                      *)
Unsealed ==
  \A p \in Procs :
    proc[p].cmd = "enable" /\ proc[p].at \in {"arm", "start", "read"} => proc[p].done = {}

(* Whose key is about to leave the ring is not among them any more.         *)
Untold ==
  \A p \in Procs :
    /\ proc[p].at = "unregister" => proc[p].entry[1] \notin told
    /\ proc[p].at \in {"rmkeys", "rmenc"} => told = {}

Holding == Sealed /\ Sealing /\ Unsealed /\ Untold

-----------------------------------------------------------------------------
USE DEF user, ghost

LEMMA Parts ==
  TypeOK <=> kernel \in Kernels /\ FileType /\ ProcType /\ HistoryType
BY DEF TypeOK, Kernels, FileType, ProcType, Cmds, HistoryType

LEMMA Constants ==
  /\ MaxKeys \in Nat /\ MaxKeys >= 1 /\ Keys = 0..MaxKeys
  /\ None = -1 /\ NoHash = -2 /\ ZeroKey = 0
  /\ Free \in Cmds /\ Free.cmd = "none" /\ Free.at = "idle" /\ Free.key = None
  /\ \A e \in Ring : e[1] \in Holders /\ e[2] \in Suffixes /\ e = <<e[1], e[2]>>
  /\ \A h \in Holders : <<h, "asc">> \in Ring
BY CtlAssumption DEF Keys, None, NoHash, ZeroKey, Free, Cmds, Ring

(* A command is begun, and what the kernel has is left alone by that. *)
First == {"arm", "start", "submit", "authorize", "confirm", "read", "unregister"}

Enters(p, c) ==
  /\ proc[p] = Free /\ proc' = [proc EXCEPT ![p] = c]
  /\ c \in Cmds /\ Path(c) /\ c.cmd # "none" /\ c.at \in First /\ c.key <= minted /\ c.done = {}
  /\ c.cmd \in Rivals \/ AloneAmong(p)
  /\ c.cmd \in {"enable", "insecure"} => ~kernel.on
  /\ UNCHANGED <<kernel, minted, printed, sealed, cut, wiped>>
  /\ IF c.at = "unregister"
       THEN /\ c.entry \in Ring
            /\ cipher' = [cipher EXCEPT ![c.entry[1]] = None]
            /\ told' = told \ {c.entry[1]}
       ELSE UNCHANGED <<cipher, told>>
  /\ keyring \subseteq keyring' /\ keyring' \subseteq Ring
  /\ c.cmd \in {"add", "webadd"} \/ UNCHANGED keyring

LEMMA Begun ==
  ASSUME IInv, NEW p \in Procs, Starting(p)
  PROVE  \E c : Enters(p, c)
<1>1. kernel \in Kernels /\ FileType /\ ProcType /\ HistoryType /\ Drawn
  BY Parts DEF IInv
<1>2. None <= minted /\ None \in Keys \cup {None} /\ NoEntry \in Ring \cup {NoEntry}
  BY <1>1, Constants DEF HistoryType
<1>3. ASSUME NEW cmd, NEW step \in First,
             NEW key \in Keys \cup {None}, NEW entry \in Ring \cup {NoEntry},
             MayStart(p, cmd), Begin(p, cmd, step, key, entry), key <= minted,
             \A c \in Cmds : c.cmd = cmd /\ c.at = step /\ c.entry = entry => Path(c),
             cmd # "none", cmd \in {"enable", "insecure"} => ~kernel.on,
             UNCHANGED <<kernel, minted, printed, sealed, cut, wiped>>,
             keyring \subseteq keyring', keyring' \subseteq Ring,
             cmd \in {"add", "webadd"} \/ UNCHANGED keyring,
             IF step = "unregister"
               THEN /\ entry \in Ring
                    /\ cipher' = [cipher EXCEPT ![entry[1]] = None]
                    /\ told' = told \ {entry[1]}
               ELSE UNCHANGED <<cipher, told>>
      PROVE  \E c : Enters(p, c)
  <2> DEFINE c == [Free EXCEPT !.cmd = cmd, !.at = step, !.key = key, !.entry = entry]
  <2>1. cmd \in Commands /\ proc[p] = Free /\ (cmd \in Rivals \/ AloneAmong(p))
    BY <1>3 DEF MayStart
  <2>2. c \in Cmds /\ c.cmd = cmd /\ c.at = step /\ c.key = key /\ c.entry = entry
        /\ c.done = {}
    BY <1>3, <2>1, Constants DEF Cmds, Free, First
  <2>3. proc' = [proc EXCEPT ![p] = c]
    BY <1>3 DEF Begin
  <2> HIDE DEF c
  <2>4. Enters(p, c)
    BY <1>3, <2>1, <2>2, <2>3 DEF Enters
  <2> QED BY <2>4
<1>4. keyring \subseteq Ring
  BY <1>1 DEF FileType
<1>5. \A k \in Known : k \in Keys /\ k <= minted
  BY <1>1 DEF Known, Sealings, FileType, HistoryType, Drawn
<1>6. ASSUME NEW cmd \in {"enable", "insecure"}, Enable(p, cmd)
      PROVE  \E c : Enters(p, c)
  <2>1. PICK step \in {"arm", "start"} :
          /\ Begin(p, cmd, step, None, NoEntry)
          /\ step = "arm" <=> cmd = "enable"
    BY <1>6 DEF Enable
  <2> QED BY <1>2, <1>3, <1>4, <1>6, <2>1 DEF Enable, Path, First
<1>7. CASE Disable(p)
  BY <1>2, <1>3, <1>4, <1>7 DEF Disable, Path, First
<1>8. CASE Unblock(p)
  <2>1. PICK k \in Known \cup {None} : Begin(p, "unblock", "submit", k, NoEntry)
    BY <1>8 DEF Unblock
  <2>2. k \in Keys \cup {None} /\ k <= minted
    BY <1>2, <1>5
  <2> QED BY <1>2, <1>3, <1>4, <1>8, <2>1, <2>2 DEF Unblock, Path, First
<1>9. CASE Unload(p)
  <2>1. PICK k \in Known : Begin(p, "unload", "authorize", k, NoEntry)
    BY <1>9 DEF Unload
  <2>2. k \in Keys \cup {None} /\ k <= minted
    BY <1>5
  <2> QED BY <1>2, <1>3, <1>4, <1>9, <2>1, <2>2 DEF Unload, Path, First
<1>10. CASE ResetAsks(p)
  BY <1>2, <1>3, <1>4, <1>10 DEF ResetAsks, Path, First
<1>11. CASE Reload(p)
  BY <1>2, <1>3, <1>4, <1>11 DEF Reload, Path, First
<1>12. CASE ShowKey(p)
  BY <1>2, <1>3, <1>4, <1>12 DEF ShowKey, Path, First
<1>13. ASSUME NEW h \in Holders, CiphertextByKey(p, h)
       PROVE  \E c : Enters(p, c)
  <2>1. cipher[h] \in Keys \cup {None} /\ cipher[h] <= minted
    BY <1>1 DEF FileType, Drawn
  <2> QED BY <1>2, <1>3, <1>4, <1>13, <2>1 DEF CiphertextByKey, Path, First
<1>14. ASSUME NEW h \in Holders, NEW cmd \in {"add", "webadd"}, Register(p, h, cmd)
       PROVE  \E c : Enters(p, c)
  <2>1. <<h, "asc">> \in Ring
    BY Constants
  <2>2. keyring \subseteq keyring' /\ keyring' \subseteq Ring
    BY <1>4, <1>14, <2>1 DEF Register
  <2> QED BY <1>2, <1>3, <1>14, <2>1, <2>2 DEF Register, Path, First
<1>15. ASSUME NEW e \in keyring, RemoveKey(p, e)
       PROVE  \E c : Enters(p, c)
  <2>1. e \in Ring
    BY <1>4
  <2>2. /\ MayStart(p, "remove") /\ Begin(p, "remove", "unregister", None, e)
        /\ UNCHANGED <<kernel, minted, printed, sealed, cut, wiped, keyring>>
        /\ cipher' = [cipher EXCEPT ![e[1]] = None] /\ told' = told \ {e[1]}
    BY <1>15 DEF RemoveKey
  <2>3. \A c \in Cmds : c.cmd = "remove" /\ c.at = "unregister" /\ c.entry = e => Path(c)
    BY <2>1 DEF Path
  <2> DEFINE c == [Free EXCEPT !.cmd = "remove", !.at = "unregister", !.key = None,
                               !.entry = e]
  <2>4. "remove" \in Commands /\ proc[p] = Free /\ ("remove" \in Rivals \/ AloneAmong(p))
    BY <2>2 DEF MayStart
  <2>5. c \in Cmds /\ c.cmd = "remove" /\ c.at = "unregister" /\ c.key = None /\ c.entry = e
        /\ c.done = {}
    BY <1>2, <2>1, <2>4, Constants DEF Cmds, Free
  <2>6. proc' = [proc EXCEPT ![p] = c]
    BY <2>2 DEF Begin
  <2> HIDE DEF c
  <2>7. Path(c) /\ c.key <= minted /\ c.at \in First
    BY <1>2, <2>3, <2>5 DEF First
  <2>8. keyring \subseteq keyring' /\ keyring' \subseteq Ring
    BY <1>4, <2>2
  <2>9. Enters(p, c)
    BY <2>1, <2>2, <2>4, <2>5, <2>6, <2>7, <2>8 DEF Enters
  <2> QED BY <2>9
<1> QED BY <1>6, <1>7, <1>8, <1>9, <1>10, <1>11, <1>12, <1>13, <1>14, <1>15
        DEF Starting, AddKey, AddKeyPage

(* A command goes on: to another place, or out. *)
LEMMA Goes ==
  ASSUME IInv, NEW p \in Procs, NEW place, Goto(p, place)
  PROVE  /\ proc'[p].at = place /\ proc'[p].cmd = proc[p].cmd
         /\ proc'[p].key = proc[p].key /\ proc'[p].entry = proc[p].entry
         /\ proc'[p].todo = proc[p].todo /\ proc'[p].done = proc[p].done
         /\ proc' = [proc EXCEPT ![p] = proc'[p]]
         /\ place \in {"start", "read", "encrypt", "gpg", "rmstate", "sweep", "rmmod",
                       "wipe", "rmkeys", "rmenc"} => proc'[p] \in Cmds
<1>1. proc \in [Procs -> Cmds] /\ proc[p] \in Cmds
  BY Parts DEF IInv, ProcType
<1>2. proc' = [proc EXCEPT ![p] = [proc[p] EXCEPT !.at = place]]
  BY <1>1 DEF Goto
<1> QED BY <1>1, <1>2 DEF Cmds

LEMMA Exits ==
  ASSUME IInv, NEW p \in Procs, Exit(p)
  PROVE  proc'[p] = Free /\ proc' = [proc EXCEPT ![p] = proc'[p]]
BY Parts DEF IInv, ProcType, Exit

(* What a step does to the command of p, in a few words. *)
Onwards(p) ==
  /\ proc' = [proc EXCEPT ![p] = proc'[p]] /\ proc'[p] \in Cmds /\ Path(proc'[p])
  /\ proc'[p].at = "gpg" => proc'[p].entry \in Ring
  /\ proc'[p].cmd \in {proc[p].cmd, "none"}
  /\ proc[p].at = "confirm" => AloneAmong(p) \/ proc'[p] = Free
  /\ proc'[p].at # "confirm"

LEMMA GoesOn ==
  ASSUME IInv, NEW p \in Procs, Running(p) \/ Kill(p)
  PROVE  Onwards(p)
<1> DEFINE c == proc[p]
<1>1. c \in Cmds /\ Path(c) /\ (c.at = "gpg" => c.entry \in Ring)
      /\ proc \in [Procs -> Cmds] /\ FileType /\ kernel \in Kernels
  BY Parts DEF IInv, Paths, ProcType
<1>2. CASE Exit(p)
  BY <1>2, Exits, Constants DEF Onwards, Path
<1>3. ASSUME NEW place, Goto(p, place),
             \/ place = "start" /\ c.at = "arm"
             \/ place = "read" /\ c.at = "start"
             \/ place = "rmstate" /\ c.at = "submit" /\ c.cmd # "web"
             \/ place = "rmstate" /\ c.at = "rmmod"
             \/ place = "sweep" /\ c.at = "rmstate"
             \/ place = "wipe" /\ c.at = "sweep" /\ c.cmd = "unload"
             \/ place = "rmmod" /\ c.at = "authorize"
             \/ place = "rmenc" /\ c.at = "rmkeys"
      PROVE  Onwards(p)
  <2>1. Path(proc'[p])
    BY <1>1, <1>3, Goes, Constants DEF Path
  <2> QED BY <1>1, <1>3, <2>1, Goes DEF Onwards
<1>4. ASSUME NEW d \in Cmds, proc' = [proc EXCEPT ![p] = d], d.cmd = c.cmd,
             d.entry = c.entry \/ d.entry \in Ring,
             d.at = "gpg" => d.entry \in Ring,
             \/ d.at = "encrypt" /\ c.at = "read"
                /\ c.cmd \in {"enable", "reload", "add", "webadd"}
             \/ d.at = "gpg" /\ c.at = "encrypt"
             \/ d.at = "encrypt" /\ c.at = "gpg"
             \/ d.at = "rmkeys" /\ c.at = "confirm" /\ AloneAmong(p)
      PROVE  Onwards(p)
  <2>1. Path(d)
    BY <1>1, <1>4, Constants DEF Path
  <2> QED BY <1>1, <1>4, <2>1 DEF Onwards
<1>5. CASE Arm(p)
  BY <1>2, <1>3, <1>5 DEF Arm
<1>6. CASE StartBlock(p)
  BY <1>2, <1>3, <1>6 DEF StartBlock
<1>7. CASE ReadKey(p)
  <2>1. CASE \E key, todo :
               /\ proc' = [proc EXCEPT ![p] = [c EXCEPT !.at = "encrypt", !.key = key,
                                                        !.todo = todo]]
               /\ c.at = "read" /\ c.cmd \in {"enable", "reload", "add", "webadd"}
               /\ key \in Keys /\ todo \in SUBSET Ring
    <3>1. PICK key \in Keys, todo \in SUBSET Ring :
            /\ proc' = [proc EXCEPT ![p] = [c EXCEPT !.at = "encrypt", !.key = key,
                                                     !.todo = todo]]
            /\ c.at = "read" /\ c.cmd \in {"enable", "reload", "add", "webadd"}
      BY <2>1
    <3> DEFINE d == [c EXCEPT !.at = "encrypt", !.key = key, !.todo = todo]
    <3>2. d \in Cmds /\ d.cmd = c.cmd /\ d.entry = c.entry /\ d.at = "encrypt"
      BY <1>1 DEF Cmds
    <3>3. proc' = [proc EXCEPT ![p] = d]
      BY <3>1
    <3> HIDE DEF d
    <3> QED BY <1>4, <3>1, <3>2, <3>3
  <2>2. c.cmd \in {"add", "webadd"} /\ c.at = "read" => c.entry \in Ring
    BY <1>1, Constants DEF Path
  <2>3. Shown(kernel) \in Keys \cup {None}
    BY <1>1 DEF Shown, Kernels
  <2>4. CASE ~ Exit(p)
    <3>1. /\ c.at = "read" /\ c.cmd \in {"enable", "reload", "add", "webadd"}
          /\ Shown(kernel) # None
          /\ proc' = [proc EXCEPT ![p].at = "encrypt", ![p].key = Shown(kernel),
                        ![p].todo = IF c.cmd \in {"add", "webadd"}
                                      THEN {c.entry} ELSE keyring]
      BY <1>7, <2>4 DEF ReadKey
    <3> DEFINE todo == IF c.cmd \in {"add", "webadd"} THEN {c.entry} ELSE keyring
    <3>2. todo \in SUBSET Ring
      BY <1>1, <2>2, <3>1 DEF FileType
    <3>3. proc' = [proc EXCEPT ![p] = [c EXCEPT !.at = "encrypt", !.key = Shown(kernel),
                                                !.todo = todo]]
      BY <1>1, <3>1
    <3> HIDE DEF todo
    <3> QED BY <2>1, <2>3, <3>1, <3>2, <3>3
  <2> QED BY <1>2, <2>4
<1>8. CASE RemoveOld(p)
  <2>1. PICK e \in c.todo : proc' = [proc EXCEPT ![p].at = "gpg", ![p].entry = e]
    BY <1>8 DEF RemoveOld
  <2> DEFINE d == [c EXCEPT !.at = "gpg", !.entry = e]
  <2>2. e \in Ring
    BY <1>1 DEF Cmds
  <2>3. d \in Cmds /\ d.cmd = c.cmd /\ d.entry = e /\ d.at = "gpg"
    BY <1>1, <2>2 DEF Cmds
  <2>4. proc' = [proc EXCEPT ![p] = d] /\ c.at = "encrypt"
    BY <1>1, <1>8, <2>1 DEF RemoveOld
  <2> HIDE DEF d
  <2> QED BY <1>4, <2>2, <2>3, <2>4
<1>9. CASE Gpg(p)
  <2>1. PICK done \in {c.done, c.done \cup {c.entry[1]}} :
          proc' = [proc EXCEPT ![p] = [c EXCEPT !.at = "encrypt",
                                                !.todo = c.todo \ {c.entry},
                                                !.done = done]]
    <3>1. CASE proc' = [proc EXCEPT ![p].at = "encrypt", ![p].todo = @ \ {c.entry}]
      <4>1. proc' = [proc EXCEPT ![p] = [c EXCEPT !.at = "encrypt",
                                                  !.todo = c.todo \ {c.entry},
                                                  !.done = c.done]]
        BY <1>1, <3>1 DEF Cmds
      <4> QED BY <4>1
    <3>2. CASE proc' = [proc EXCEPT ![p].at = "encrypt", ![p].todo = @ \ {c.entry},
                                    ![p].done = @ \cup {c.entry[1]}]
      <4>1. proc' = [proc EXCEPT ![p] = [c EXCEPT !.at = "encrypt",
                                                  !.todo = c.todo \ {c.entry},
                                                  !.done = c.done \cup {c.entry[1]}]]
        BY <1>1, <3>2 DEF Cmds
      <4> QED BY <4>1
    <3> QED BY <1>9, <3>1, <3>2 DEF Gpg
  <2> DEFINE d == [c EXCEPT !.at = "encrypt", !.todo = c.todo \ {c.entry}, !.done = done]
  <2>2. c.at = "gpg" /\ c.entry \in Ring /\ c.entry[1] \in Holders
    BY <1>1, <1>9, Constants DEF Gpg
  <2>3. d \in Cmds /\ d.cmd = c.cmd /\ d.entry = c.entry /\ d.at = "encrypt"
    BY <1>1, <2>1, <2>2 DEF Cmds
  <2>4. proc' = [proc EXCEPT ![p] = d]
    BY <2>1
  <2> HIDE DEF d
  <2> QED BY <1>4, <2>2, <2>3, <2>4
<1>10. CASE Encrypted(p) \/ SubmitPage(p) \/ Wipe(p) \/ ResetCiphers(p) \/ Unregister(p)
            \/ Kill(p)
  BY <1>2, <1>10 DEF Encrypted, SubmitPage, Wipe, ResetCiphers, Unregister, Kill
<1>11. CASE Submit(p) \/ RemoveState(p) \/ Sweep(p) \/ Authorize(p) \/ Rmmod(p)
            \/ ResetKeys(p)
  BY <1>2, <1>3, <1>11 DEF Submit, RemoveState, Sweep, Authorize, Rmmod, ResetKeys
<1>12. CASE ConfirmReset(p)
  <2>1. CASE Exit(p)
    BY <1>2, <2>1
  <2>2. CASE proc' = [proc EXCEPT ![p].at = "rmkeys", ![p].todo = keyring,
                                  ![p].done = {h \in Holders : cipher[h] # None}]
    <3> DEFINE d == [c EXCEPT !.at = "rmkeys", !.todo = keyring,
                              !.done = {h \in Holders : cipher[h] # None}]
    <3>1. d \in Cmds /\ d.cmd = c.cmd /\ d.entry = c.entry /\ d.at = "rmkeys"
      BY <1>1 DEF Cmds, FileType
    <3>2. proc' = [proc EXCEPT ![p] = d]
      BY <1>1, <2>2
    <3>3. c.at = "confirm" /\ AloneAmong(p)
      BY <1>12 DEF ConfirmReset
    <3> HIDE DEF d
    <3> QED BY <1>4, <3>1, <3>2, <3>3
  <2> QED BY <1>12, <2>1, <2>2 DEF ConfirmReset
<1> QED BY <1>5, <1>6, <1>7, <1>8, <1>9, <1>10, <1>11, <1>12 DEF Running

(* Where a command can get, and by what. *)
Leads(p) ==
  LET at == proc'[p].at IN
  \/ proc'[p] = Free
  \/ at = "start"   /\ Arm(p)
  \/ at = "read"    /\ StartBlock(p)
  \/ at = "encrypt" /\ (ReadKey(p) \/ Gpg(p))
  \/ at = "gpg"     /\ RemoveOld(p)
  \/ at = "rmstate" /\ (Submit(p) \/ Rmmod(p))
  \/ at = "sweep"   /\ RemoveState(p)
  \/ at = "wipe"    /\ Sweep(p)
  \/ at = "rmmod"   /\ Authorize(p)
  \/ at = "rmkeys"  /\ ConfirmReset(p)
  \/ at = "rmenc"   /\ ResetKeys(p)

LEMMA Led ==
  ASSUME IInv, NEW p \in Procs, Running(p) \/ Kill(p)
  PROVE  Leads(p)
<1>1. proc \in [Procs -> Cmds]
  BY Parts DEF IInv, ProcType
<1>2. CASE Exit(p)
  BY <1>2, Exits DEF Leads
<1>3. CASE \/ Encrypted(p) \/ SubmitPage(p) \/ Wipe(p) \/ ResetCiphers(p)
           \/ Unregister(p) \/ Kill(p)
  BY <1>2, <1>3 DEF Encrypted, SubmitPage, Wipe, ResetCiphers, Unregister, Kill
<1>4. CASE \/ Arm(p) \/ StartBlock(p) \/ Submit(p) \/ Rmmod(p) \/ RemoveState(p)
           \/ Sweep(p) \/ Authorize(p) \/ ResetKeys(p)
  <2>1. \A place : Goto(p, place) => proc'[p].at = place
    BY Goes
  <2> QED BY <1>2, <1>4, <2>1 DEF Leads, Arm, StartBlock, Submit, Rmmod, RemoveState,
          Sweep, Authorize, ResetKeys
<1>5. CASE ReadKey(p) \/ RemoveOld(p) \/ Gpg(p)
  BY <1>1, <1>2, <1>5 DEF Leads, ReadKey, RemoveOld, Gpg, Cmds
<1>6. CASE ConfirmReset(p)
  BY <1>1, <1>2, <1>6 DEF Leads, ConfirmReset, Cmds
<1> QED BY <1>3, <1>4, <1>5, <1>6 DEF Running

LEMMA Turns ==
  ASSUME IInv, Next, NEW q \in Procs
  PROVE  \/ proc'[q] = Free
         \/ \E c : Enters(q, c) /\ proc'[q] = c
         \/ Running(q) /\ Leads(q) /\ Onwards(q)
         \/ /\ UNCHANGED proc[q]
            /\ \/ \E p \in Procs \ {q} : Starting(p) \/ Running(p) \/ Kill(p)
               \/ Crash \/ Modprobe \/ Expire
<1>1. proc \in [Procs -> Cmds]
  BY Parts DEF IInv, ProcType
<1>2. ASSUME NEW p \in Procs \ {q}, Starting(p)
      PROVE  UNCHANGED proc[q]
  <2>1. PICK c : Enters(p, c)
    BY <1>2, Begun
  <2> QED BY <1>1, <2>1 DEF Enters
<1>3. CASE Starting(q)
  <2>1. PICK c : Enters(q, c)
    BY <1>3, Begun
  <2> QED BY <1>1, <2>1 DEF Enters
<1>4. ASSUME NEW p \in Procs \ {q}, Running(p) \/ Kill(p)
      PROVE  UNCHANGED proc[q]
  BY <1>1, <1>4, GoesOn DEF Onwards
<1>5. CASE Running(q)
  BY <1>5, Led, GoesOn
<1>6. CASE Kill(q)
  BY <1>6, Exits DEF Kill
<1>7. CASE Crash \/ Modprobe \/ Expire
  BY <1>7 DEF Crash, Modprobe, Expire
<1>8. CASE Reboot
  BY <1>8 DEF Reboot
<1> QED BY <1>2, <1>3, <1>4, <1>5, <1>6, <1>7, <1>8 DEF Next

(* How the kernel moves. *)
LEMMA KernelMoves ==
  ASSUME IInv, Next
  PROVE  /\ minted' \in {minted, minted + 1} /\ minted' \in 0..MaxKeys
         /\ \/ UNCHANGED kernel
            \/ kernel' = Prearmed(kernel) /\ ~kernel.on /\ kernel.loaded
            \/ kernel' = Began(kernel, minted') /\ kernel.loaded /\ ~kernel.on
               /\ minted' = minted + 1
            \/ kernel' = ReadOnce(kernel)
            \/ kernel' = Ended(kernel)
            \/ kernel' = [Ended(kernel) EXCEPT !.hash = minted', !.raw = minted']
            \/ kernel' = [kernel EXCEPT !.state = @ /\ kernel.on]
            \/ kernel' = [Ended(kernel) EXCEPT !.hash = NoHash, !.raw = ZeroKey]
            \/ kernel' = Unloaded
            \/ kernel' = FreshKernel(minted')
            \/ kernel' = Restored(kernel) /\ kernel.state
<1>1. minted \in 0..MaxKeys /\ MaxKeys \in Nat
  BY Parts, Constants DEF IInv, HistoryType
<1>2. ASSUME UNCHANGED <<kernel, minted>>
      PROVE  minted' \in 0..MaxKeys /\ UNCHANGED <<kernel, minted>>
  BY <1>1, <1>2
<1>3. CASE \E p \in Procs : Starting(p)
  BY <1>2, <1>3, Begun DEF Enters
<1>4. CASE \E p \in Procs : \/ RemoveOld(p) \/ Gpg(p) \/ Encrypted(p) \/ Sweep(p)
                            \/ Unregister(p) \/ Wipe(p) \/ ConfirmReset(p) \/ ResetKeys(p)
                            \/ ResetCiphers(p) \/ Kill(p)
  BY <1>2, <1>4 DEF RemoveOld, Gpg, Encrypted, Sweep, Unregister, Wipe, ConfirmReset,
     ResetKeys, ResetCiphers, Kill
<1>5. CASE \E p \in Procs : Arm(p) \/ RemoveState(p) \/ Rmmod(p) \/ Authorize(p) \/ ReadKey(p)
  BY <1>1, <1>5 DEF Arm, RemoveState, Rmmod, Authorize, ReadKey
<1>6. CASE \E p \in Procs : StartBlock(p)
  BY <1>1, <1>6 DEF StartBlock
<1>7. ASSUME NEW key, DisableStore(key)
      PROVE  /\ minted' \in {minted, minted + 1} /\ minted' \in 0..MaxKeys
             /\ \/ UNCHANGED kernel
                \/ kernel' = Ended(kernel)
                \/ kernel' = [Ended(kernel) EXCEPT !.hash = minted', !.raw = minted']
  <2>1. CASE UNCHANGED <<kernel, minted>>
    BY <1>1, <2>1
  <2>2. CASE kernel' = Ended(kernel) /\ UNCHANGED minted
    BY <1>1, <2>2
  <2>3. CASE /\ minted < MaxKeys /\ minted' = minted + 1
             /\ kernel' = [Ended(kernel) EXCEPT !.hash = minted + 1, !.raw = minted + 1]
    <3>1. minted' \in 0..MaxKeys
      BY <1>1, <2>3
    <3>2. kernel' = [Ended(kernel) EXCEPT !.hash = minted', !.raw = minted']
      BY <2>3
    <3> QED BY <2>3, <3>1, <3>2
  <2> QED BY <1>7, <2>1, <2>2, <2>3 DEF DisableStore
<1>8. CASE \E p \in Procs : Submit(p) \/ SubmitPage(p)
  BY <1>7, <1>8 DEF Submit, SubmitPage
<1>9. CASE Crash \/ Modprobe \/ Expire \/ Reboot
  BY <1>1, <1>9 DEF Crash, Modprobe, Expire, Reboot
<1> QED BY <1>3, <1>4, <1>5, <1>6, <1>8, <1>9 DEF Next, Running

LEMMA KernelStep ==
  ASSUME IInv, Next
  PROVE  kernel' \in Kernels /\ Kept'
<1>1. kernel \in Kernels /\ Kept
  BY Parts DEF IInv
<1>2. minted' \in Keys /\ Keys \subseteq Int /\ ZeroKey \in Keys /\ None \notin Keys
  BY KernelMoves, Constants
<1>3. CASE UNCHANGED kernel
  BY <1>1, <1>3 DEF Kept, Locked
<1>4. CASE kernel' = Prearmed(kernel) /\ ~kernel.on /\ kernel.loaded
  BY <1>1, <1>2, <1>4 DEF Prearmed, Kernels, Kept, Locked
<1>5. CASE kernel' = Began(kernel, minted') /\ kernel.loaded /\ ~kernel.on
  BY <1>1, <1>2, <1>5 DEF Began, Kernels, Kept, Locked
<1>6. CASE kernel' = ReadOnce(kernel)
  BY <1>1, <1>2, <1>6 DEF ReadOnce, Kernels, Kept, Locked
<1>7. CASE kernel' = Ended(kernel)
  BY <1>1, <1>2, <1>7 DEF Ended, Kernels, Kept, Locked
<1>8. CASE kernel' = [Ended(kernel) EXCEPT !.hash = minted', !.raw = minted']
  BY <1>1, <1>2, <1>8 DEF Ended, Kernels, Kept, Locked
<1>9. CASE kernel' = [kernel EXCEPT !.state = @ /\ kernel.on]
  BY <1>1, <1>2, <1>9 DEF Kernels, Kept, Locked
<1>10. CASE kernel' = [Ended(kernel) EXCEPT !.hash = NoHash, !.raw = ZeroKey]
  BY <1>1, <1>2, <1>10 DEF Ended, Kernels, Kept, Locked
<1>11. CASE kernel' = Unloaded
  BY <1>1, <1>2, <1>11 DEF Unloaded, FreshKernel, Kernels, Kept, Locked
<1>12. CASE kernel' = FreshKernel(minted')
  BY <1>1, <1>2, <1>12 DEF FreshKernel, Kernels, Kept, Locked
<1>13. CASE kernel' = Restored(kernel) /\ kernel.state
  BY <1>1, <1>2, <1>13 DEF Restored, Kernels, Kept, Locked
<1> QED BY <1>3, <1>4, <1>5, <1>6, <1>7, <1>8, <1>9, <1>10, <1>11, <1>12, <1>13,
        KernelMoves

LEMMA ProcStep ==
  ASSUME IInv, Next
  PROVE  ProcType' /\ Paths' /\ \A p \in Procs : proc'[p].key <= minted'
<1>1. ProcType /\ Paths /\ HistoryType /\ Drawn /\ kernel \in Kernels
      /\ minted <= minted' /\ minted \in Int /\ minted' \in Int /\ None <= minted'
  BY Parts, KernelMoves, Constants DEF IInv, HistoryType
<1>2. ASSUME NEW p \in Procs, NEW c \in Cmds, proc' = [proc EXCEPT ![p] = c], Path(c),
             c.at = "gpg" => c.entry \in Ring, c.key <= minted'
      PROVE  ProcType' /\ Paths' /\ \A q \in Procs : proc'[q].key <= minted'
  <2>1. ProcType' /\ Paths'
    BY <1>1, <1>2 DEF ProcType, Paths
  <2>2. \A q \in Procs : proc[q].key \in Int /\ proc[q].key <= minted
    BY <1>1, Constants DEF ProcType, Cmds, Drawn
  <2> QED BY <1>1, <1>2, <2>1, <2>2 DEF ProcType
<1>3. ASSUME NEW p \in Procs, Starting(p)
      PROVE  ProcType' /\ Paths' /\ \A q \in Procs : proc'[q].key <= minted'
  <2>1. PICK c : Enters(p, c)
    BY <1>3, Begun
  <2> QED BY <1>1, <1>2, <2>1 DEF Enters, First
<1>4. ASSUME NEW p \in Procs, Running(p) \/ Kill(p)
      PROVE  ProcType' /\ Paths' /\ \A q \in Procs : proc'[q].key <= minted'
  <2>1. Onwards(p)
    BY <1>4, GoesOn
  <2>2. ASSUME proc'[p].key \in {proc[p].key, Shown(kernel), None}
        PROVE  proc'[p].key <= minted'
    <3>1. Shown(kernel) <= minted /\ Shown(kernel) \in Int
      BY <1>1, Constants DEF Drawn, Shown, Kernels, HistoryType
    <3>2. proc[p].key <= minted /\ proc[p].key \in Int
      BY <1>1, Constants DEF ProcType, Cmds, Drawn
    <3> QED BY <1>1, <2>2, <3>1, <3>2
  <2>3. proc'[p].key \in {proc[p].key, Shown(kernel), None}
    <3>1. proc \in [Procs -> Cmds] /\ proc[p] \in Cmds
      BY <1>1 DEF ProcType
    <3>2. ASSUME Exit(p) \/ \E place : Goto(p, place)
          PROVE  proc'[p].key \in {proc[p].key, Shown(kernel), None}
      BY <3>2, Goes, Exits, Constants
    <3>3. CASE ReadKey(p)
      BY <1>1, <3>1, <3>2, <3>3 DEF ReadKey, Cmds
    <3>4. CASE RemoveOld(p) \/ Gpg(p)
      BY <3>1, <3>4 DEF RemoveOld, Gpg, Cmds
    <3>5. CASE ConfirmReset(p)
      BY <3>1, <3>2, <3>5 DEF ConfirmReset, Cmds
    <3>6. CASE \/ Arm(p) \/ StartBlock(p) \/ Encrypted(p) \/ Submit(p) \/ SubmitPage(p)
               \/ RemoveState(p) \/ Sweep(p) \/ Unregister(p) \/ Authorize(p) \/ Rmmod(p)
               \/ Wipe(p) \/ ResetKeys(p) \/ ResetCiphers(p) \/ Kill(p)
      BY <3>2, <3>6 DEF Arm, StartBlock, Encrypted, Submit, SubmitPage, RemoveState,
         Sweep, Unregister, Authorize, Rmmod, Wipe, ResetKeys, ResetCiphers, Kill
    <3> QED BY <1>4, <3>3, <3>4, <3>5, <3>6 DEF Running
  <2> QED BY <1>2, <2>1, <2>2, <2>3 DEF Onwards
<1>5. CASE Crash \/ Modprobe \/ Expire
  <2>1. UNCHANGED proc
    BY <1>5 DEF Crash, Modprobe, Expire
  <2>2. \A q \in Procs : proc[q].key \in Int /\ proc[q].key <= minted
    BY <1>1, Constants DEF ProcType, Cmds, Drawn
  <2> QED BY <1>1, <2>1, <2>2 DEF ProcType, Paths
<1>6. CASE Reboot
  <2>1. proc' = [p \in Procs |-> Free]
    BY <1>6 DEF Reboot
  <2> QED BY <1>1, <2>1, Constants DEF ProcType, Paths, Path
<1> QED BY <1>3, <1>4, <1>5, <1>6 DEF Next

LEMMA FileStep ==
  ASSUME IInv, Next
  PROVE  FileType' /\ \A h \in Holders : cipher'[h] <= minted'
<1>1. ProcType /\ FileType /\ Drawn /\ Paths /\ None \in Keys \cup {None}
      /\ minted <= minted' /\ minted \in Int /\ minted' \in Int /\ None <= minted'
      /\ Keys \subseteq Int /\ None \in Int
  BY Parts, KernelMoves, Constants DEF IInv, HistoryType
<1>2. ASSUME keyring' \subseteq Ring, cipher' \in [Holders -> Keys \cup {None}],
             \A h \in Holders :
               \/ cipher'[h] \in {cipher[h], None}
               \/ \E p \in Procs : cipher'[h] = proc[p].key
      PROVE  FileType' /\ \A h \in Holders : cipher'[h] <= minted'
  <2>1. \A q \in Procs : proc[q].key \in Int /\ proc[q].key <= minted
    BY <1>1 DEF ProcType, Cmds, Drawn
  <2>2. \A h \in Holders : cipher[h] \in Int /\ cipher[h] <= minted
    BY <1>1 DEF FileType, Drawn
  <2> QED BY <1>1, <1>2, <2>1, <2>2 DEF FileType
<1>3. ASSUME UNCHANGED cipher, keyring' \subseteq keyring
      PROVE  FileType' /\ \A h \in Holders : cipher'[h] <= minted'
  BY <1>1, <1>2, <1>3 DEF FileType
<1>4. ASSUME NEW p \in Procs, Starting(p)
      PROVE  FileType' /\ \A h \in Holders : cipher'[h] <= minted'
  <2>1. PICK c : Enters(p, c)
    BY <1>4, Begun
  <2>2. cipher' \in {cipher, [cipher EXCEPT ![c.entry[1]] = None]}
    BY <2>1 DEF Enters
  <2>3. keyring' \subseteq Ring
    BY <2>1 DEF Enters
  <2> QED BY <1>1, <1>2, <2>2, <2>3 DEF FileType
<1>5. CASE \E p \in Procs : \/ Arm(p) \/ StartBlock(p) \/ ReadKey(p) \/ Submit(p)
                            \/ SubmitPage(p) \/ RemoveState(p) \/ Authorize(p) \/ Rmmod(p)
                            \/ ConfirmReset(p) \/ ResetKeys(p) \/ Unregister(p) \/ Kill(p)
                            \/ Wipe(p)
  BY <1>3, <1>5 DEF Arm, StartBlock, ReadKey, Submit, SubmitPage, RemoveState, Authorize,
     Rmmod, ConfirmReset, ResetKeys, Unregister, Kill, Wipe
<1>6. ASSUME NEW p \in Procs,
             RemoveOld(p) \/ Gpg(p) \/ Encrypted(p) \/ Sweep(p) \/ ResetCiphers(p)
      PROVE  FileType' /\ \A h \in Holders : cipher'[h] <= minted'
  <2>1. proc[p].key \in Keys \cup {None} /\ UNCHANGED keyring
    BY <1>1, <1>6 DEF ProcType, Cmds, RemoveOld, Gpg, Encrypted, Sweep, ResetCiphers
  <2>2. CASE RemoveOld(p)
    <3>1. \E h : cipher' \in {cipher, [cipher EXCEPT ![h] = None]}
      BY <2>2 DEF RemoveOld
    <3> QED BY <1>1, <1>2, <2>1, <3>1 DEF FileType
  <2>3. CASE Gpg(p)
    <3>1. \E h : cipher' \in {cipher, [cipher EXCEPT ![h] = proc[p].key]}
      BY <2>3 DEF Gpg
    <3> QED BY <1>1, <1>2, <2>1, <3>1 DEF FileType
  <2>4. CASE Encrypted(p) \/ Sweep(p) \/ ResetCiphers(p)
    <3>1. \/ UNCHANGED cipher
          \/ \E S : cipher' = [h \in Holders |-> IF h \in S THEN None ELSE cipher[h]]
      <4>1. CASE Encrypted(p)
        <5>1. cipher' \in {cipher, SweepStale}
          BY <4>1 DEF Encrypted
        <5>2. SweepStale = [h \in Holders |->
                 IF h \in {g \in Holders : <<g, "asc">> \notin keyring} THEN None
                                                                 ELSE cipher[h]]
          BY DEF SweepStale
        <5> QED BY <5>1, <5>2
      <4>2. CASE Sweep(p)
        <5>1. cipher' = [h \in Holders |-> IF h \in Holders THEN None ELSE cipher[h]]
          BY <4>2 DEF Sweep, SweepAll
        <5> QED BY <5>1
      <4>3. CASE ResetCiphers(p)
        BY <4>3 DEF ResetCiphers
      <4> QED BY <2>4, <4>1, <4>2, <4>3
    <3> QED BY <1>1, <1>2, <2>1, <3>1 DEF FileType
  <2> QED BY <1>6, <2>2, <2>3, <2>4
<1>7. CASE Crash \/ Modprobe \/ Expire \/ Reboot
  BY <1>3, <1>7 DEF Crash, Modprobe, Expire, Reboot
<1> QED BY <1>4, <1>5, <1>6, <1>7 DEF Next, Running

LEMMA HistoryStep ==
  ASSUME IInv, Next
  PROVE  HistoryType' /\ printed' <= minted' /\ sealed' <= minted'
<1>1. /\ ProcType /\ HistoryType /\ Drawn /\ kernel \in Kernels
      /\ minted <= minted' /\ minted \in Int /\ minted' \in 0..MaxKeys
      /\ Keys \subseteq Int /\ None \in Int /\ MaxKeys \in Nat
  BY Parts, KernelMoves, Constants DEF IInv, HistoryType
<1>2. ASSUME printed' \in {printed, Shown(kernel)}, printed' # None \/ printed' = printed,
             sealed' = sealed \/ \E p \in Procs : sealed' = proc[p].key,
             told' \subseteq Holders, cut' \in BOOLEAN, wiped' \in BOOLEAN
      PROVE  HistoryType' /\ printed' <= minted' /\ sealed' <= minted'
  <2>1. Shown(kernel) \in Keys \cup {None} /\ (Shown(kernel) # None => Shown(kernel) <= minted)
    BY <1>1, Constants DEF Shown, Kernels, Drawn
  <2>2. \A p \in Procs : proc[p].key \in Keys \cup {None} /\ proc[p].key <= minted
    BY <1>1 DEF ProcType, Cmds, Drawn
  <2>3. printed \in Keys \cup {None} /\ sealed \in Keys \cup {None}
        /\ printed <= minted /\ sealed <= minted
    BY <1>1 DEF HistoryType, Drawn
  <2>4. printed' \in Keys \cup {None} /\ printed' <= minted'
    <3>1. CASE printed' = printed
      BY <1>1, <2>3, <3>1
    <3>2. CASE printed' = Shown(kernel) /\ Shown(kernel) # None
      <4>1. Shown(kernel) \in Keys /\ Shown(kernel) \in Int /\ Shown(kernel) <= minted
        BY <1>1, <2>1, <3>2
      <4>2. Shown(kernel) <= minted'
        BY <1>1, <4>1
      <4> QED BY <3>2, <4>1, <4>2
    <3> QED BY <1>2, <3>1, <3>2
  <2>5. sealed' \in Keys \cup {None} /\ sealed' <= minted'
    <3>1. CASE sealed' = sealed
      BY <1>1, <2>3, <3>1
    <3>2. ASSUME NEW p \in Procs, sealed' = proc[p].key
          PROVE  sealed' \in Keys \cup {None} /\ sealed' <= minted'
      <4>1. proc[p].key \in Keys \cup {None} /\ proc[p].key \in Int
            /\ proc[p].key <= minted
        BY <1>1, <2>2
      <4>2. proc[p].key <= minted'
        BY <1>1, <4>1
      <4> QED BY <3>2, <4>1, <4>2
    <3> QED BY <1>2, <3>1, <3>2
  <2> QED BY <1>1, <1>2, <2>4, <2>5 DEF HistoryType
<1>3. told \subseteq Holders /\ cut \in BOOLEAN /\ wiped \in BOOLEAN
  BY <1>1 DEF HistoryType
<1>4. kernel'.pgp \in BOOLEAN /\ kernel'.on \in BOOLEAN /\ kernel.on \in BOOLEAN
  BY <1>1, KernelStep DEF Kernels
<1>5. ASSUME NEW p \in Procs, Starting(p)
      PROVE  HistoryType' /\ printed' <= minted' /\ sealed' <= minted'
  <2>1. PICK c : Enters(p, c)
    BY <1>5, Begun
  <2>2. UNCHANGED <<printed, sealed, cut, wiped>> /\ told' \subseteq Holders
    BY <1>3, <2>1 DEF Enters
  <2> QED BY <1>2, <1>3, <2>2
<1>6. CASE \E p \in Procs : \/ Arm(p) \/ StartBlock(p) \/ ReadKey(p) \/ RemoveOld(p)
                            \/ Gpg(p) \/ Submit(p)
                            \/ SubmitPage(p) \/ RemoveState(p) \/ Authorize(p) \/ Rmmod(p)
                            \/ Sweep(p) \/ ConfirmReset(p) \/ ResetKeys(p)
                            \/ ResetCiphers(p) \/ Unregister(p) \/ Kill(p) \/ Wipe(p)
  <2>1. sealed' = sealed /\ told' \in {told, {}} /\ cut' \in BOOLEAN /\ wiped' \in BOOLEAN
    BY <1>3, <1>4, <1>6 DEF Arm, StartBlock, ReadKey, RemoveOld, Gpg, Submit, SubmitPage,
       RemoveState, Authorize, Rmmod, Sweep, ConfirmReset, ResetKeys, ResetCiphers,
       Unregister, Kill, Wipe, Uncut
  <2>2. printed' = printed \/ (printed' = Shown(kernel) /\ Shown(kernel) # None)
    BY <1>6 DEF Arm, StartBlock, ReadKey, RemoveOld, Gpg, Submit, SubmitPage,
       RemoveState, Authorize, Rmmod, Sweep, ConfirmReset, ResetKeys, ResetCiphers,
       Unregister, Kill, Wipe
  <2> QED BY <1>2, <1>3, <2>1, <2>2
<1>7. ASSUME NEW p \in Procs, Encrypted(p)
      PROVE  HistoryType' /\ printed' <= minted' /\ sealed' <= minted'
  <2>1. sealed' \in {sealed, proc[p].key} /\ told' \in {told, proc[p].done}
        /\ UNCHANGED <<printed, cut, wiped>>
    BY <1>7 DEF Encrypted
  <2>2. proc[p].done \subseteq Holders
    BY <1>1 DEF ProcType, Cmds
  <2> QED BY <1>2, <1>3, <2>1, <2>2
<1>8. CASE Crash \/ Modprobe \/ Expire \/ Reboot
  BY <1>2, <1>3, <1>4, <1>8 DEF Crash, Modprobe, Expire, Reboot, Uncut
<1> QED BY <1>5, <1>6, <1>7, <1>8 DEF Next, Running

LEMMA TypeStep ==
  ASSUME IInv, Next
  PROVE  (TypeOK /\ Drawn /\ Kept /\ Paths)'
<1>1. kernel \in Kernels /\ Drawn /\ minted \in 0..MaxKeys
  BY Parts DEF IInv, HistoryType
<1>2. minted' \in 0..MaxKeys /\ minted <= minted' /\ MaxKeys \in Nat
  BY <1>1, KernelMoves, Constants
<1>3. kernel'.hash <= minted' /\ kernel'.raw <= minted' /\ kernel'.shot <= minted'
  <2>1. /\ kernel.hash \in Int /\ kernel.raw \in Int /\ kernel.shot \in Int
        /\ kernel.hash <= minted' /\ kernel.raw <= minted' /\ kernel.shot <= minted'
    BY <1>1, <1>2, Constants DEF Kernels, Drawn
  <2>2. None \in Int /\ NoHash <= minted' /\ ZeroKey <= minted' /\ None <= minted'
        /\ minted' <= minted'
    BY <1>2, Constants
  <2> DEFINE Low(k) == k.hash <= minted' /\ k.raw <= minted' /\ k.shot <= minted'
  <2>3. Low(kernel) /\ Low(Prearmed(kernel)) /\ Low(ReadOnce(kernel)) /\ Low(Ended(kernel))
        /\ Low(Restored(kernel)) /\ Low([kernel EXCEPT !.state = @ /\ kernel.on])
    BY <1>1, <2>1, <2>2 DEF Kernels, Prearmed, ReadOnce, Ended, Restored
  <2>4. Low(Began(kernel, minted'))
    BY <1>1, <2>1, <2>2 DEF Kernels, Began
  <2>5. Low([Ended(kernel) EXCEPT !.hash = minted', !.raw = minted'])
        /\ Low([Ended(kernel) EXCEPT !.hash = NoHash, !.raw = ZeroKey])
    BY <1>1, <2>1, <2>2 DEF Kernels, Ended
  <2>6. Low(Unloaded) /\ Low(FreshKernel(minted'))
    BY <2>2 DEF Unloaded, FreshKernel
  <2> HIDE DEF Low
  <2>7. Low(kernel')
    BY <2>3, <2>4, <2>5, <2>6, KernelMoves
  <2> QED BY <2>7 DEF Low
<1>4. TypeOK'
  BY KernelStep, ProcStep, FileStep, HistoryStep DEF TypeOK, Kernels, FileType, ProcType,
     Cmds, HistoryType
<1>5. Drawn'
  BY <1>3, ProcStep, FileStep, HistoryStep DEF Drawn
<1> QED BY <1>4, <1>5, KernelStep, ProcStep

-----------------------------------------------------------------------------
(* The rest of the invariant, part by part. *)

LEMMA SingleStep ==
  ASSUME IInv, Next
  PROVE  Single'
<1>1. Single /\ proc \in [Procs -> Cmds]
  BY Parts DEF IInv, ProcType
<1>2. ASSUME NEW p \in Procs, NEW c, proc' = [proc EXCEPT ![p] = c],
             Busy(p)' => Busy(p) \/ AloneAmong(p)
      PROVE  Single'
  <2>1. \A q \in Procs \ {p} : proc'[q] = proc[q]
    BY <1>1, <1>2
  <2>2. AloneAmong(p) => \A q \in Procs \ {p} : ~Busy(q)
    BY DEF AloneAmong, Busy
  <2>3. \A q \in Procs \ {p} : Busy(q)' <=> Busy(q)
    BY <2>1 DEF Busy
  <2> QED BY <1>1, <1>2, <2>2, <2>3 DEF Single
<1>3. ASSUME NEW p \in Procs, Starting(p)
      PROVE  Single'
  <2>1. PICK c : Enters(p, c)
    BY <1>3, Begun
  <2>2. proc'[p] = c /\ proc' = [proc EXCEPT ![p] = c]
    BY <1>1, <2>1 DEF Enters
  <2>3. Busy(p)' => AloneAmong(p)
    BY <2>1, <2>2 DEF Enters, Busy
  <2> QED BY <1>2, <2>2, <2>3
<1>4. ASSUME NEW p \in Procs, Running(p) \/ Kill(p)
      PROVE  Single'
  <2>1. Onwards(p)
    BY <1>4, GoesOn
  <2>2. Busy(p)' => Busy(p) \/ AloneAmong(p)
    BY <2>1, Constants DEF Onwards, Busy
  <2> QED BY <1>2, <2>1, <2>2 DEF Onwards
<1>5. CASE Crash \/ Modprobe \/ Expire
  BY <1>1, <1>5 DEF Crash, Modprobe, Expire, Single, Busy
<1>6. CASE Reboot
  BY <1>6, Constants DEF Reboot, Single, Busy
<1> QED BY <1>3, <1>4, <1>5, <1>6 DEF Next

LEMMA Off ==
  /\ Unloaded.on = FALSE /\ Unloaded.pgp = FALSE
  /\ \A k : FreshKernel(k).on = FALSE /\ FreshKernel(k).pgp = FALSE
  /\ \A k \in Kernels : Ended(k).on = FALSE /\ Ended(k).pgp = FALSE
<1>1. \A k : FreshKernel(k) \in [loaded : {TRUE}, on : {FALSE}, pgp : {FALSE},
                 restored : {FALSE}, hash : {k}, raw : {k}, shot : {None}, state : {FALSE}]
  BY DEF FreshKernel
<1>2. \A k : FreshKernel(k).on = FALSE /\ FreshKernel(k).pgp = FALSE
  BY <1>1
<1>3. Unloaded.on = FALSE /\ Unloaded.pgp = FALSE
  BY <1>1, <1>2 DEF Unloaded
<1> QED BY <1>2, <1>3 DEF Ended, Kernels

(* A block that is locked was locked before, or is a new one. *)
LEMMA Lockings ==
  ASSUME IInv, Next
  PROVE  /\ Locked' =>
              \/ Locked /\ kernel'.hash = kernel.hash /\ kernel'.shot \in {kernel.shot, None}
              \/ ~kernel.on /\ kernel' = Began(kernel, minted') /\ minted' = minted + 1
                 /\ kernel'.hash = minted'
         /\ kernel'.pgp => kernel.pgp \/ kernel' = Prearmed(kernel)
         /\ kernel'.pgp /\ ~kernel'.on => ~kernel.on
<1>1. kernel \in Kernels /\ Kept
  BY Parts DEF IInv
<1>2. CASE UNCHANGED kernel
  BY <1>1, <1>2 DEF Locked
<1>3. CASE kernel' = Prearmed(kernel) /\ ~kernel.on /\ kernel.loaded
  BY <1>1, <1>3 DEF Prearmed, Kernels, Locked
<1>4. CASE kernel' = Began(kernel, minted') /\ kernel.loaded /\ ~kernel.on
           /\ minted' = minted + 1
  BY <1>1, <1>4 DEF Began, Kernels, Locked
<1>5. CASE kernel' = ReadOnce(kernel)
  BY <1>1, <1>5 DEF ReadOnce, Kernels, Locked
<1>6. CASE kernel' = Ended(kernel) \/ kernel' = [kernel EXCEPT !.state = @ /\ kernel.on]
           \/ kernel' = [Ended(kernel) EXCEPT !.hash = NoHash, !.raw = ZeroKey]
           \/ kernel' = [Ended(kernel) EXCEPT !.hash = minted', !.raw = minted']
  BY <1>1, <1>6 DEF Ended, Kernels, Locked
<1>7. CASE kernel' = Unloaded \/ kernel' = FreshKernel(minted')
  <2>1. kernel'.pgp = FALSE
    BY <1>7, Off
  <2> QED BY <2>1 DEF Locked
<1>8. CASE kernel' = Restored(kernel) /\ kernel.state
  BY <1>1, <1>8 DEF Restored, Kernels, Locked, Kept
<1> QED BY <1>2, <1>3, <1>4, <1>5, <1>6, <1>7, <1>8, KernelMoves

(* Only the reader of a key begins to encrypt. *)
LEMMA Encryptors ==
  ASSUME IInv, Next, NEW q \in Procs, Encrypting(q)', ~ReadKey(q)
  PROVE  /\ Encrypting(q) /\ proc'[q].key = proc[q].key /\ proc'[q].cmd = proc[q].cmd
<1>1. proc \in [Procs -> Cmds]
  BY Parts DEF IInv, ProcType
<1>2. CASE RemoveOld(q) \/ Gpg(q)
  BY <1>1, <1>2 DEF RemoveOld, Gpg, Cmds, Encrypting
<1>3. CASE UNCHANGED proc[q]
  BY <1>3 DEF Encrypting
<1> QED BY <1>2, <1>3, Turns, Constants DEF Enters, First, Leads, Encrypting

LEMMA OneReaderStep ==
  ASSUME IInv, Next
  PROVE  OneReader'
<1>1. /\ kernel \in Kernels /\ OneReader /\ Kept /\ Drawn /\ ProcType /\ HistoryType
      /\ proc \in [Procs -> Cmds] /\ minted \in Int
  BY Parts, Constants DEF IInv, ProcType, HistoryType
<1>2. ASSUME Locked, NEW p \in Procs, ReadKey(p), kernel'.hash = kernel.hash,
             kernel'.shot = None
      PROVE  OneReader'
  <2>1. \A q \in Procs \ {p} :
          Encrypting(q)' => Encrypting(q) /\ proc'[q].key = proc[q].key
                            /\ proc'[q].cmd = proc[q].cmd
    <3>1. Running(p)
      BY <1>2 DEF Running
    <3> QED BY <1>1, <3>1, GoesOn DEF Onwards, Encrypting
  <2>2. sealed' = sealed /\ (Shown(kernel) # None => Shown(kernel) = kernel.hash
                                                     /\ kernel.shot # None)
    BY <1>1, <1>2 DEF ReadKey, Shown, Locked, Kept
  <2>3. CASE Exit(p) /\ UNCHANGED printed
    <3>1. ~Encrypting(p)'
      BY <2>3, Exits, Constants DEF Encrypting
    <3> QED BY <1>1, <1>2, <2>1, <2>2, <2>3, <3>1 DEF OneReader
  <2>4. CASE Shown(kernel) # None /\ Exit(p) /\ printed' = Shown(kernel)
    <3>1. ~Encrypting(p)'
      BY <2>4, Exits, Constants DEF Encrypting
    <3>2. printed' = kernel.hash /\ kernel.hash # sealed
          /\ \A q \in Procs : Encrypting(q) => proc[q].key # kernel.hash
      BY <1>1, <1>2, <2>2, <2>4 DEF OneReader
    <3> QED BY <1>2, <2>1, <2>2, <3>1, <3>2 DEF OneReader
  <2>5. CASE Shown(kernel) # None /\ UNCHANGED printed
    <3>1. printed' # kernel.hash
      BY <1>1, <1>2, <2>2, <2>5 DEF OneReader
    <3> QED BY <1>2, <3>1 DEF OneReader
  <2> QED BY <1>2, <2>3, <2>4, <2>5 DEF ReadKey
<1>3. ASSUME Locked, kernel'.hash = kernel.hash, kernel'.shot \in {kernel.shot, None},
             \A q \in Procs : ~ReadKey(q), Next, printed' = printed,
             \/ sealed' = sealed
             \/ \E p \in Procs : /\ Encrypting(p) /\ proc[p].cmd = "enable"
                                 /\ sealed' = proc[p].key
      PROVE  OneReader'
  <2>1. \A q \in Procs :
          Encrypting(q)' => Encrypting(q) /\ proc'[q].key = proc[q].key
                            /\ proc'[q].cmd = proc[q].cmd
    BY <1>3, Encryptors
  <2>2. kernel.shot # None => kernel.hash # sealed'
    BY <1>1, <1>3 DEF OneReader
  <2>3. kernel.hash = printed => kernel.hash # sealed'
    BY <1>1, <1>3 DEF OneReader
  <2>4. kernel'.shot # None => kernel.shot # None
    BY <1>3
  <2> QED BY <1>1, <1>3, <2>1, <2>2, <2>3, <2>4 DEF OneReader
<1>4. ASSUME Locked', ~Locked
      PROVE  OneReader'
  <2>1. ~kernel.on /\ minted' = minted + 1 /\ kernel'.hash = minted'
        /\ kernel' = Began(kernel, minted') /\ kernel'.on
    BY <1>4, Lockings DEF Locked
  <2>2. \A q \in Procs : ~ReadKey(q)
    BY <1>1, <2>1 DEF ReadKey, ReadOnce, Kernels
  <2>3. printed' = printed /\ sealed' = sealed
    <3>1. PICK p \in Procs : StartBlock(p)
      <4>1. CASE \E p \in Procs : Starting(p)
        BY <2>1, <4>1, Begun DEF Enters
      <4>2. CASE \E p \in Procs : \/ RemoveOld(p) \/ Gpg(p) \/ Encrypted(p) \/ Sweep(p)
                       \/ Unregister(p) \/ Wipe(p) \/ ConfirmReset(p) \/ ResetKeys(p)
                       \/ ResetCiphers(p) \/ Kill(p)
        BY <2>1, <4>2 DEF RemoveOld, Gpg, Encrypted, Sweep, Unregister, Wipe,
           ConfirmReset, ResetKeys, ResetCiphers, Kill
      <4>3. CASE \E p \in Procs : Arm(p) \/ RemoveState(p) \/ Rmmod(p) \/ Authorize(p)
        BY <1>1, <2>1, <4>3 DEF Arm, RemoveState, Rmmod, Authorize
      <4>4. CASE \E p \in Procs : Submit(p) \/ SubmitPage(p)
        <5>1. PICK key : DisableStore(key)
          BY <4>4 DEF Submit, SubmitPage
        <5>2. kernel' = kernel \/ kernel'.on = FALSE
          BY <1>1, <5>1 DEF DisableStore, Ended, Kernels
        <5> QED BY <2>1, <5>2
      <4>5. CASE Crash \/ Expire \/ Reboot
        <5>1. kernel'.on = FALSE \/ (kernel' = Restored(kernel) /\ kernel.state)
          BY <1>1, <4>5, Off DEF Crash, Expire, Reboot
        <5>2. ~kernel.state
          BY <1>1, <2>1 DEF Kept
        <5> QED BY <2>1, <5>1, <5>2
      <4>6. CASE Modprobe
        BY <2>1, <4>6 DEF Modprobe, FreshKernel
      <4> QED BY <2>2, <4>1, <4>2, <4>3, <4>4, <4>5, <4>6 DEF Next, Running
    <3> QED BY <3>1 DEF StartBlock
  <2>4. \A q \in Procs : proc[q].key \in Int /\ proc[q].key <= minted
    BY <1>1, Constants DEF ProcType, Cmds, Drawn
  <2>5. printed # minted + 1 /\ sealed # minted + 1 /\ \A q \in Procs : proc[q].key # minted + 1
    BY <1>1, <2>4, Constants DEF HistoryType, Drawn
  <2>6. \A q \in Procs : Encrypting(q)' => proc'[q].key = proc[q].key
    BY <2>2, Encryptors
  <2> QED BY <2>1, <2>3, <2>5, <2>6 DEF OneReader
<1>5. ASSUME Locked', Locked
      PROVE  OneReader'
  <2>1. kernel'.hash = kernel.hash /\ kernel'.shot \in {kernel.shot, None}
    BY <1>5, Lockings DEF Locked
  <2>2. CASE \E p \in Procs : ReadKey(p)
    <3>1. kernel'.shot = None
      <4>1. kernel' = ReadOnce(kernel) /\ kernel.on /\ kernel.pgp
        BY <1>5, <2>2 DEF ReadKey, Locked
      <4>2. CASE ~kernel.restored
        BY <1>1, <4>1, <4>2 DEF ReadOnce, Kernels
      <4>3. CASE kernel.restored
        BY <1>1, <4>1, <4>3 DEF ReadOnce, Kernels, Kept
      <4> QED BY <4>2, <4>3
    <3> QED BY <1>2, <1>5, <2>1, <2>2, <3>1
  <2>3. CASE \A q \in Procs : ~ReadKey(q)
    <3>1. CASE \E p \in Procs : Starting(p)
      BY <1>3, <1>5, <2>1, <2>3, <3>1, Begun DEF Enters
    <3>2. CASE \E p \in Procs : (Running(p) /\ ~Encrypted(p)) \/ Kill(p)
      <4>1. printed' = printed /\ sealed' = sealed
        BY <2>3, <3>2 DEF Running, Arm, StartBlock, RemoveOld, Gpg, Submit, SubmitPage,
           RemoveState, Authorize, Rmmod, Sweep, ConfirmReset, ResetKeys, ResetCiphers,
           Unregister, Kill, Wipe
      <4> QED BY <1>3, <1>5, <2>1, <2>3, <4>1
    <3>3. CASE \E p \in Procs : Encrypted(p)
      BY <1>3, <1>5, <2>1, <2>3, <3>3 DEF Encrypted, Encrypting
    <3>4. CASE Crash \/ Modprobe \/ Expire \/ Reboot
      BY <1>3, <1>5, <2>1, <2>3, <3>4 DEF Crash, Modprobe, Expire, Reboot
    <3> QED BY <3>1, <3>2, <3>3, <3>4 DEF Next
  <2> QED BY <2>2, <2>3
<1>6. ASSUME ~Locked'
      PROVE  OneReader'
  BY <1>6 DEF OneReader
<1> QED BY <1>4, <1>5, <1>6

(* A lock that has been asked for, and a command that died after that. *)
LEMMA Asked ==
  ASSUME IInv, Next, kernel'.pgp, ~kernel'.on
  PROVE  ~kernel.on /\ (kernel.pgp \/ \E p \in Procs : Arm(p))
<1>1. kernel \in Kernels
  BY Parts DEF IInv
<1>2. ~kernel.on
  BY Lockings
<1>3. CASE kernel.pgp
  BY <1>2, <1>3
<1>4. CASE ~kernel.pgp
  <2> SUFFICES \E p \in Procs : Arm(p)
    BY <1>2
  <2>1. CASE \E p \in Procs : Starting(p)
    BY <1>4, <2>1, Begun DEF Enters
  <2>2. CASE \E p \in Procs : \/ RemoveOld(p) \/ Gpg(p) \/ Encrypted(p) \/ Sweep(p)
                   \/ Unregister(p) \/ Wipe(p) \/ ConfirmReset(p) \/ ResetKeys(p)
                   \/ ResetCiphers(p) \/ Kill(p)
    BY <1>4, <2>2 DEF RemoveOld, Gpg, Encrypted, Sweep, Unregister, Wipe,
       ConfirmReset, ResetKeys, ResetCiphers, Kill
  <2>3. CASE \E p \in Procs : StartBlock(p)
    BY <1>1, <1>4, <2>3 DEF StartBlock, Began, Kernels
  <2>4. CASE \E p \in Procs : RemoveState(p) \/ Authorize(p) \/ ReadKey(p)
    BY <1>1, <1>4, <2>4 DEF RemoveState, Authorize, ReadKey, ReadOnce, Ended, Kernels
  <2>5. CASE \E p \in Procs : Submit(p) \/ SubmitPage(p)
    <3>1. PICK key : DisableStore(key)
      BY <2>5 DEF Submit, SubmitPage
    <3>2. kernel' = kernel \/ kernel'.pgp = FALSE
      BY <1>1, <3>1 DEF DisableStore, Ended, Kernels
    <3> QED BY <1>4, <3>2
  <2>6. CASE \/ \E p \in Procs : Rmmod(p)
             \/ Crash \/ Expire \/ Modprobe \/ Reboot
    <3>1. kernel' = kernel \/ kernel'.pgp = FALSE \/ kernel' = Restored(kernel)
      BY <1>1, <2>6, Off DEF Rmmod, Crash, Expire, Modprobe, Reboot
    <3> QED BY <1>1, <1>4, <3>1 DEF Restored, Kernels
  <2> QED BY <2>1, <2>2, <2>3, <2>4, <2>5, <2>6 DEF Next, Running
<1> QED BY <1>3, <1>4

LEMMA CutStays ==
  ASSUME IInv, Next, cut, kernel'.pgp
  PROVE  cut'
<1>1. CASE \E p \in Procs : Starting(p)
  BY <1>1, Begun DEF Enters
<1>2. CASE \E p \in Procs : Running(p) \/ Kill(p)
  BY <1>2 DEF Running, Arm, StartBlock, ReadKey, RemoveOld, Gpg, Encrypted, Submit,
     SubmitPage, RemoveState, Authorize, Rmmod, Sweep, ConfirmReset, ResetKeys,
     ResetCiphers, Unregister, Kill, Wipe, Uncut
<1>3. CASE Crash \/ Modprobe \/ Expire \/ Reboot
  BY <1>3 DEF Crash, Modprobe, Expire, Reboot, Uncut
<1> QED BY <1>1, <1>2, <1>3 DEF Next

LEMMA ArmedStep ==
  ASSUME IInv, Next
  PROVE  Armed'
<1>1. kernel \in Kernels /\ Armed /\ Kept /\ Paths /\ proc \in [Procs -> Cmds]
  <2>1. TypeOK /\ Armed /\ Kept /\ Paths
    BY DEF IInv
  <2> QED BY <2>1, Parts DEF ProcType
<1>2. ASSUME kernel'.pgp, ~kernel'.on, ~cut'
      PROVE  \E p \in Procs : proc'[p].cmd = "enable" /\ proc'[p].at = "start"
  <2>1. ~cut
    BY <1>2, CutStays
  <2>2. ASSUME NEW p \in Procs, Arm(p), ~kernel.pgp
        PROVE  proc'[p].cmd = "enable" /\ proc'[p].at = "start"
    <3>1. proc[p].cmd = "enable"
      BY <1>1, <2>2, Constants DEF Paths, Path, Arm
    <3>2. kernel' # kernel
      BY <1>2, <2>2
    <3>3. Goto(p, "start")
      BY <2>2, <3>2 DEF Arm
    <3> QED BY <3>1, <3>3, Goes
  <2>3. ASSUME kernel.pgp, ~kernel.on
        PROVE  \E p \in Procs : proc'[p].cmd = "enable" /\ proc'[p].at = "start"
    <3>1. PICK p \in Procs : proc[p].cmd = "enable" /\ proc[p].at = "start"
      BY <1>1, <2>1, <2>3 DEF Armed
    <3>2. UNCHANGED proc[p]
      <4>1. ASSUME NEW q \in Procs, Starting(q)
            PROVE  UNCHANGED proc[p]
        <5>1. PICK c : Enters(q, c)
          BY <4>1, Begun
        <5> QED BY <1>1, <3>1, <5>1, Constants DEF Enters
      <4>2. ASSUME NEW q \in Procs \ {p}, Running(q) \/ Kill(q)
            PROVE  UNCHANGED proc[p]
        BY <1>1, <4>2, GoesOn DEF Onwards
      <4>3. CASE StartBlock(p)
        <5>1. kernel.loaded
          BY <1>1, <2>3 DEF Kept
        <5>2. kernel' = Began(kernel, minted + 1)
          BY <2>3, <4>3, <5>1 DEF StartBlock
        <5>3. kernel'.on = TRUE
          BY <1>1, <5>2 DEF Began, Kernels
        <5> QED BY <1>2, <5>3
      <4>4. CASE Kill(p)
        BY <1>2, <3>1, <4>4 DEF Kill
      <4>5. ~ (\/ Arm(p) \/ ReadKey(p) \/ RemoveOld(p) \/ Gpg(p) \/ Encrypted(p)
               \/ Submit(p) \/ SubmitPage(p) \/ RemoveState(p) \/ Sweep(p) \/ Unregister(p)
               \/ Authorize(p) \/ Rmmod(p) \/ Wipe(p) \/ ConfirmReset(p) \/ ResetKeys(p)
               \/ ResetCiphers(p))
        BY <3>1 DEF Arm, ReadKey, RemoveOld, Gpg, Encrypted, Submit, SubmitPage,
           RemoveState, Sweep, Unregister, Authorize, Rmmod, Wipe, ConfirmReset,
           ResetKeys, ResetCiphers
      <4>6. CASE Crash \/ Modprobe \/ Expire
        BY <4>6 DEF Crash, Modprobe, Expire
      <4>7. CASE Reboot
        <5>1. kernel'.pgp = FALSE \/ kernel.state
          BY <4>7 DEF Reboot, FreshKernel
        <5> QED BY <1>1, <1>2, <2>3, <5>1 DEF Kept
      <4> QED BY <4>1, <4>2, <4>3, <4>4, <4>5, <4>6, <4>7 DEF Next, Running
    <3> QED BY <3>1, <3>2
  <2> QED BY <1>2, <2>2, <2>3, Asked
<1> QED BY <1>2 DEF Armed

LEMMA InitIInv ==
  Init => IInv
<1> SUFFICES ASSUME Init PROVE IInv
  OBVIOUS
<1>1. kernel = FreshKernel(1) /\ kernel \in Kernels /\ kernel.hash = 1 /\ kernel.raw = 1
      /\ kernel.shot = None /\ kernel.on = FALSE /\ kernel.pgp = FALSE
      /\ kernel.state = FALSE
  BY Constants DEF Init, FreshKernel, Kernels
<1>2. \A p \in Procs : proc[p] = Free
  BY DEF Init
<1>3. kernel \in Kernels /\ FileType /\ ProcType /\ HistoryType
  <2>1. FileType
    BY Constants DEF Init, FileType
  <2>2. ProcType
    BY Constants DEF Init, ProcType
  <2>3. minted \in 0..MaxKeys /\ printed = None /\ sealed = None /\ told = {}
        /\ cut = FALSE /\ wiped = FALSE
    BY Constants DEF Init
  <2>4. HistoryType
    BY <2>3 DEF HistoryType
  <2> QED BY <1>1, <2>1, <2>2, <2>4
<1>4. TypeOK
  BY <1>3, Parts
<1>5. Drawn
  BY <1>1, <1>2, Constants DEF Init, Drawn
<1>6. Kept /\ OneReader /\ Armed
  BY <1>1 DEF Kept, OneReader, Armed, Locked
<1>7. Paths /\ Single
  BY <1>2, Constants DEF Paths, Path, Single, Busy
<1> QED BY <1>4, <1>5, <1>6, <1>7 DEF IInv

LEMMA NextIInv ==
  IInv /\ [Next]_vars => IInv'
<1>1. ASSUME IInv, Next
      PROVE  IInv'
  BY <1>1, TypeStep, SingleStep, OneReaderStep, ArmedStep DEF IInv
<1>2. ASSUME IInv, UNCHANGED vars
      PROVE  IInv'
  BY <1>2 DEF IInv, vars, TypeOK, Drawn, Kept, Paths, Single, Busy, OneReader, Encrypting,
     Armed, Locked
<1> QED BY <1>1, <1>2

(* The invariant holds whatever commands run at the same time: what is said *)
(* of keys, of the lock and of the command that reads a key needs no order  *)
(* among them.                                                              *)
THEOREM Invariance == Spec => []IInv
BY InitIInv, NextIInv, PTL DEF Spec

(* Sysfs, the files and the commands are of their types.                    *)
THEOREM TypeCorrect == Spec => []TypeOK
<1>1. IInv => TypeOK
  BY DEF IInv
<1> QED BY <1>1, Invariance, PTL

(* The key of a block that was sealed for its holders was not printed: the  *)
(* kernel gives it to one reader, who prints it or encrypts it (unload_key  *)
(* of sysfs is read once).  Holds for all commands at any time.             *)
THEOREM NeverPrinted == Spec => []SealedOnly
<1>1. IInv => SealedOnly
  BY DEF IInv, OneReader, SealedOnly
<1> QED BY <1>1, Invariance, PTL

-----------------------------------------------------------------------------

LEMMA UnlockedStep ==
  ASSUME {"enable", "insecure"} \cap Rivals = {}, IInv, Unlocked, Next
  PROVE  Unlocked'
<1>1. proc \in [Procs -> Cmds] /\ Single /\ Armed /\ kernel \in Kernels /\ Paths
  <2>1. TypeOK /\ Armed /\ Single /\ Paths
    BY DEF IInv
  <2> QED BY <2>1, Parts DEF ProcType
<1> SUFFICES ASSUME NEW q \in Procs, proc'[q].cmd = "insecure", kernel'.pgp, ~cut'
             PROVE  FALSE
  BY DEF Unlocked
<1>2. ~cut
  BY CutStays
<1>3. ASSUME NEW p \in Procs, Starting(p)
      PROVE  FALSE
  <2>1. PICK c : Enters(p, c)
    BY <1>3, Begun
  <2>2. kernel'.pgp = kernel.pgp
    BY <2>1 DEF Enters
  <2>3. CASE p # q
    BY <1>1, <1>2, <2>1, <2>2, <2>3 DEF Enters, Unlocked
  <2>4. CASE p = q
    <3>1. c.cmd = "insecure" /\ proc[q] = Free /\ AloneAmong(q) /\ ~kernel.on
      BY <1>1, <2>1, <2>4 DEF Enters
    <3>2. PICK r \in Procs : proc[r].cmd = "enable" /\ proc[r].at = "start"
      BY <1>1, <1>2, <2>2, <3>1 DEF Armed
    <3>3. r # q
      BY <3>1, <3>2, Constants
    <3> QED BY <3>1, <3>2, <3>3 DEF AloneAmong
  <2> QED BY <2>3, <2>4
<1>4. ASSUME NEW p \in Procs, Running(p) \/ Kill(p)
      PROVE  FALSE
  <2>1. proc[q].cmd = "insecure"
    BY <1>1, <1>4, GoesOn DEF Onwards
  <2>2. ~kernel.pgp
    BY <1>2, <2>1 DEF Unlocked
  <2>3. kernel' = Prearmed(kernel)
    BY <2>2, Lockings
  <2>4. PICK r \in Procs : Arm(r)
    <3>1. CASE ~kernel'.on
      BY <2>2, <3>1, Asked
    <3>2. CASE kernel'.on
      <4>1. kernel.on
        BY <1>1, <2>3, <3>2 DEF Prearmed, Kernels
      <4>2. kernel'.pgp
        OBVIOUS
      <4> QED BY <2>2, <3>2, <4>1, <4>2, Lockings DEF Locked
    <3> QED BY <3>1, <3>2
  <2>5. proc[r].cmd = "enable" /\ proc[r].at = "arm"
    BY <1>1, <2>4, Constants DEF Arm, Paths, Path
  <2>6. proc[q].at # "confirm"
    BY <1>1, <2>1, Constants DEF Paths, Path
  <2>7. Busy(q) /\ Busy(r)
    BY <2>1, <2>5, <2>6 DEF Busy
  <2> QED BY <1>1, <2>1, <2>5, <2>7 DEF Single
<1>5. CASE Crash \/ Modprobe \/ Expire
  <2>1. UNCHANGED proc
    BY <1>5 DEF Crash, Modprobe, Expire
  <2>2. kernel' = Unloaded \/ kernel' = Ended(kernel) \/ \E k : kernel' = FreshKernel(k)
    BY <1>5 DEF Crash, Modprobe, Expire
  <2> QED BY <1>1, <2>2, Off
<1>6. CASE Reboot
  BY <1>6, Constants DEF Reboot
<1> QED BY <1>3, <1>4, <1>5, <1>6 DEF Next

(* `enable --insecure' prints the key of a block that no one locked, if two *)
(* commands that start a block never run at the same time.                  *)
THEOREM PrintsUnlocked ==
  ASSUME {"enable", "insecure"} \cap Rivals = {}
  PROVE  Spec => []InsecureSkipsPGP
<1>1. Init => Unlocked
  BY Off DEF Init, Unlocked
<1>2. IInv /\ Unlocked /\ [Next]_vars => Unlocked'
  BY UnlockedStep DEF Unlocked, vars
<1>3. Unlocked => InsecureSkipsPGP
  BY DEF Unlocked, InsecureSkipsPGP, Locked
<1> QED BY <1>1, <1>2, <1>3, Invariance, PTL DEF Spec

-----------------------------------------------------------------------------
(* Who works on the files. *)

Working(p) ==
  \/ Encrypting(p)
  \/ proc[p].at \in {"rmstate", "sweep", "unregister", "rmmod", "wipe", "rmkeys", "rmenc"}

(* A ciphertext is written and a key leaves the ring by a working command;  *)
(* what begins writes none, and takes a key from nobody.                    *)
LEMMA Files ==
  ASSUME IInv, Next
  PROVE  \/ UNCHANGED <<keyring, cipher>>
         \/ \E p \in Procs : Working(p) /\ Running(p)
         \/ \E p \in Procs : Starting(p) /\ keyring \subseteq keyring'
               /\ \A h \in Holders : cipher'[h] \in {cipher[h], None}
<1>1. FileType
  BY Parts DEF IInv
<1>2. ASSUME NEW p \in Procs, Starting(p)
      PROVE  keyring \subseteq keyring' /\ \A h \in Holders : cipher'[h] \in {cipher[h], None}
  <2>1. PICK c : Enters(p, c)
    BY <1>2, Begun
  <2> QED BY <1>1, <2>1 DEF Enters, FileType
<1>3. ASSUME NEW p \in Procs, Running(p) \/ Kill(p), ~Working(p)
      PROVE  UNCHANGED <<keyring, cipher>>
  BY <1>3 DEF Working, Encrypting, Running, Arm, StartBlock, ReadKey, RemoveOld, Gpg,
     Encrypted, Submit, SubmitPage, RemoveState, Authorize, Rmmod, Sweep, ConfirmReset,
     ResetKeys, ResetCiphers, Unregister, Kill, Wipe
<1>4. CASE \E p \in Procs : Kill(p)
  BY <1>4 DEF Kill
<1>5. CASE Crash \/ Modprobe \/ Expire \/ Reboot
  BY <1>5 DEF Crash, Modprobe, Expire, Reboot
<1> QED BY <1>2, <1>3, <1>4, <1>5 DEF Next

-----------------------------------------------------------------------------

LEMMA WipedStays ==
  ASSUME IInv, Next, wiped, kernel'.on
  PROVE  wiped'
<1>1. CASE \E p \in Procs : Starting(p)
  BY <1>1, Begun DEF Enters
<1>2. CASE \E p \in Procs : Running(p) \/ Kill(p)
  BY <1>2 DEF Running, Arm, StartBlock, ReadKey, RemoveOld, Gpg, Encrypted, Submit,
     SubmitPage, RemoveState, Authorize, Rmmod, Sweep, ConfirmReset, ResetKeys,
     ResetCiphers, Unregister, Kill, Wipe, Uncut
<1>3. CASE Crash \/ Modprobe \/ Expire \/ Reboot
  BY <1>3 DEF Crash, Modprobe, Expire, Reboot, Uncut
<1> QED BY <1>1, <1>2, <1>3 DEF Next

(* A key leaves the ring by one of three ways. *)
LEMMA Leavings ==
  ASSUME IInv, Next, NEW e \in keyring, e \notin keyring'
  PROVE  \E p \in Procs : \/ Unregister(p) /\ e = proc[p].entry
                          \/ Wipe(p) \/ ResetKeys(p)
<1>1. CASE \E p \in Procs : Starting(p)
  BY <1>1, Begun DEF Enters
<1>2. CASE \E p \in Procs : Running(p) \/ Kill(p)
  BY <1>2 DEF Running, Arm, StartBlock, ReadKey, RemoveOld, Gpg, Encrypted, Submit,
     SubmitPage, RemoveState, Authorize, Rmmod, Sweep, ConfirmReset,
     ResetCiphers, Unregister, Kill
<1>3. CASE Crash \/ Modprobe \/ Expire \/ Reboot
  BY <1>3 DEF Crash, Modprobe, Expire, Reboot
<1> QED BY <1>1, <1>2, <1>3 DEF Next

(* But for gpg, ciphertexts only go. *)
LEMMA CiphersGo ==
  ASSUME IInv, Next, \A p \in Procs : ~Gpg(p)
  PROVE  \A h \in Holders : cipher'[h] \in {cipher[h], None}
<1>1. FileType
  BY Parts DEF IInv
<1>2. ASSUME NEW p \in Procs, Running(p), Working(p)
      PROVE  \A h \in Holders : cipher'[h] \in {cipher[h], None}
  <2>1. CASE RemoveOld(p) \/ Encrypted(p) \/ Sweep(p) \/ ResetCiphers(p)
    BY <1>1, <2>1 DEF RemoveOld, Encrypted, Sweep, ResetCiphers, SweepStale, SweepAll,
       FileType
  <2>2. CASE UNCHANGED cipher
    BY <2>2
  <2> QED BY <1>2, <2>1, <2>2 DEF Running, Arm, StartBlock, ReadKey, Submit, SubmitPage,
          RemoveState, Authorize, Rmmod, ConfirmReset, ResetKeys, Unregister, Wipe
<1> QED BY <1>2, Files

LEMMA GhostsStep ==
  ASSUME {"enable", "reload", "add", "webadd", "remove", "unload"} \cap Rivals = {},
         IInv, Ghosts, Next
  PROVE  Ghosts'
<1>1. proc \in [Procs -> Cmds] /\ Single /\ kernel \in Kernels /\ Paths /\ FileType /\ Drawn
  <2>1. TypeOK /\ Drawn /\ Single /\ Paths
    BY DEF IInv
  <2> QED BY <2>1, Parts DEF ProcType
<1>2. minted \in Int /\ minted' \in Int /\ None \notin Keys /\ NoHash # None
      /\ kernel.hash # None /\ minted + 1 # None
  BY <1>1, Parts, KernelMoves, Constants DEF IInv, HistoryType, Kernels
<1>3. ASSUME NEW p \in Procs, Encrypting(p)
      PROVE  Busy(p)
  BY <1>1, <1>3, Constants DEF Encrypting, Paths, Path, Busy
<1>4. ASSUME NEW p \in Procs, proc[p].at \in {"unregister", "wipe"}
      PROVE  Busy(p)
  BY <1>1, <1>4, Constants DEF Paths, Path, Busy
<1>5. ASSUME NEW p \in Procs, Gpg(p), NEW q \in Procs, proc'[q].at \in {"unregister", "wipe"}
      PROVE  FALSE
  <2>1. Encrypting(p) /\ proc'[p].at = "encrypt"
    BY <1>1, <1>5 DEF Gpg, Encrypting, Cmds
  <2>2. q # p /\ Running(p)
    BY <1>5, <2>1 DEF Running
  <2>3. proc[q].at \in {"unregister", "wipe"}
    BY <1>1, <1>5, <2>2, GoesOn DEF Onwards
  <2> QED BY <1>1, <1>3, <1>4, <2>1, <2>2, <2>3 DEF Single
<1>6. ASSUME \A p \in Procs : ~Gpg(p)
      PROVE  \A h \in Holders : cipher'[h] \in {cipher[h], None}
  BY <1>6, CiphersGo
<1>7. \A q \in Procs : proc'[q].at = "unregister" => cipher'[proc'[q].entry[1]] = None
  <2> SUFFICES ASSUME NEW q \in Procs, proc'[q].at = "unregister"
               PROVE  cipher'[proc'[q].entry[1]] = None
    OBVIOUS
  <2>1. \A p \in Procs : ~Gpg(p)
    BY <1>5
  <2>2. CASE UNCHANGED proc[q]
    <3>1. proc[q].entry[1] \in Holders /\ cipher[proc[q].entry[1]] = None
      BY <1>1, <2>2, Constants DEF Paths, Path, Ghosts
    <3> QED BY <1>6, <2>1, <2>2, <3>1
  <2>3. ASSUME NEW c, Enters(q, c), proc'[q] = c
        PROVE  cipher'[proc'[q].entry[1]] = None
    BY <1>1, <2>3, Constants DEF Enters, FileType
  <2> QED BY <2>2, <2>3, Turns, Constants DEF Leads
<1>8. \A q \in Procs : proc'[q].at = "wipe" => \A h \in Holders : cipher'[h] = None
  <2> SUFFICES ASSUME NEW q \in Procs, proc'[q].at = "wipe"
               PROVE  \A h \in Holders : cipher'[h] = None
    OBVIOUS
  <2>1. \A p \in Procs : ~Gpg(p)
    BY <1>5
  <2>2. CASE Sweep(q)
    BY <2>2 DEF Sweep, SweepAll
  <2>3. CASE UNCHANGED proc[q]
    BY <1>6, <2>1, <2>3 DEF Ghosts
  <2> QED BY <2>2, <2>3, Turns, Constants DEF Leads, Enters, First
<1>9. NoGhost'
  <2> SUFFICES ASSUME Locked', ~wiped', NEW h \in Holders, cipher'[h] = kernel'.hash
               PROVE  Registered(h)'
    BY DEF NoGhost
  <2>1. Locked /\ kernel'.hash = kernel.hash
    <3>1. CASE kernel' = Began(kernel, minted') /\ minted' = minted + 1
               /\ kernel'.hash = minted' /\ ~kernel.on
      <4>1. \A p \in Procs : ~Gpg(p)
        BY <3>1, Off DEF Gpg, Began, Locked
      <4>2. cipher[h] <= minted /\ cipher[h] \in Int
        BY <1>1, Constants DEF Drawn, FileType
      <4>3. cipher'[h] = cipher[h] \/ cipher'[h] = None
        BY <1>6, <4>1
      <4>4. minted + 1 # None /\ cipher[h] # minted + 1
        BY <1>2, <4>2
      <4> QED BY <3>1, <4>3, <4>4
    <3> QED BY <3>1, Lockings
  <2>2. ~wiped
    BY <2>1, Lockings, WipedStays DEF Locked
  <2>3. cipher'[h] # None
    BY <1>2, <2>1
  <2>4. CASE cipher[h] = kernel.hash
    <3>1. PICK s \in Suffixes : <<h, s>> \in keyring
      BY <2>1, <2>2, <2>4 DEF Ghosts, NoGhost, Registered
    <3>2. <<h, s>> \in keyring'
      <4> SUFFICES ASSUME <<h, s>> \notin keyring'
                   PROVE  FALSE
        OBVIOUS
      <4>1. PICK p \in Procs : \/ Unregister(p) /\ <<h, s>> = proc[p].entry
                              \/ Wipe(p) \/ ResetKeys(p)
        BY <3>1, Leavings
      <4>2. CASE Unregister(p) /\ <<h, s>> = proc[p].entry
        BY <1>2, <2>4, <4>2 DEF Unregister, Ghosts
      <4>3. CASE Wipe(p)
        BY <1>2, <2>4, <4>3 DEF Wipe, Ghosts
      <4>4. CASE ResetKeys(p)
        BY <2>1, <4>4 DEF ResetKeys, Locked
      <4> QED BY <4>1, <4>2, <4>3, <4>4
    <3> QED BY <3>1, <3>2 DEF Registered
  <2>5. CASE cipher[h] # kernel.hash
    <3>1. PICK p \in Procs : Gpg(p)
      BY <1>6, <2>1, <2>3, <2>5
    <3>2. proc[p].entry \in keyring /\ h = proc[p].entry[1]
      BY <1>1, <2>1, <2>5, <3>1 DEF Gpg, FileType
    <3> QED BY <1>1, <3>1, <3>2, Constants DEF Gpg, FileType, Registered
  <2> QED BY <2>4, <2>5
<1> QED BY <1>7, <1>8, <1>9 DEF Ghosts

(* No key holder who was removed can end the block, if no two commands that *)
(* encrypt, remove or unload run at the same time.                          *)
THEOREM NobodyElse ==
  ASSUME {"enable", "reload", "add", "webadd", "remove", "unload"} \cap Rivals = {}
  PROVE  Spec => []NoGhost
<1>1. Init => Ghosts
  BY Off, Constants DEF Init, Ghosts, NoGhost, Locked
<1>2. IInv /\ Ghosts /\ [Next]_vars => Ghosts'
  BY GhostsStep DEF Ghosts, NoGhost, Registered, Locked, vars
<1>3. Ghosts => NoGhost
  BY DEF Ghosts
<1> QED BY <1>1, <1>2, <1>3, Invariance, PTL DEF Spec

-----------------------------------------------------------------------------
(* One command at a time, beside the pages for key holders, `key' and       *)
(* `enable --insecure', and one name for each registered key.               *)

OneAtATime == Rivals \subseteq {"web", "show", "insecure"}

(* The commands that work on the files or start a block that is locked.     *)
Ours(p) == Working(p) \/ proc[p].cmd = "enable"

LEMMA OnlyOne ==
  ASSUME OneAtATime, IInv, NEW p \in Procs, Ours(p)
  PROVE  /\ Busy(p)
         /\ \A q \in Procs : Ours(q) => q = p
         /\ \A q \in Procs \ {p} : ~AloneAmong(q)
<1>1. Single /\ Paths
  BY DEF IInv
<1>2. ASSUME NEW q \in Procs, Ours(q)
      PROVE  Busy(q)
  BY <1>1, <1>2, Constants DEF Ours, Working, Encrypting, OneAtATime, Paths, Path, Busy
<1>3. \A q \in Procs \ {p} : ~AloneAmong(q)
  BY <1>2 DEF AloneAmong, Busy
<1> QED BY <1>1, <1>2, <1>3 DEF Single

LEMMA ToldMoves ==
  ASSUME IInv, Next
  PROVE  \/ sealed' = sealed /\ told' \subseteq told
         \/ \E p \in Procs : Encrypted(p) /\ proc[p].cmd = "enable"
              /\ cipher' = SweepStale /\ sealed' = proc[p].key /\ told' = proc[p].done
<1>1. CASE \E p \in Procs : Starting(p)
  BY <1>1, Begun DEF Enters
<1>2. CASE \E p \in Procs : Encrypted(p)
  BY <1>2 DEF Encrypted
<1>3. CASE \E p \in Procs : (Running(p) /\ ~Encrypted(p)) \/ Kill(p)
  BY <1>3 DEF Running, Arm, StartBlock, ReadKey, RemoveOld, Gpg, Submit,
     SubmitPage, RemoveState, Authorize, Rmmod, Sweep, ConfirmReset, ResetKeys,
     ResetCiphers, Unregister, Kill, Wipe
<1>4. CASE Crash \/ Modprobe \/ Expire \/ Reboot
  BY <1>4 DEF Crash, Modprobe, Expire, Reboot
<1> QED BY <1>1, <1>2, <1>3, <1>4 DEF Next

(* While one of these commands pauses, nobody else touches the files. *)
LEMMA Beside ==
  ASSUME OneAtATime, IInv, Next, NEW p \in Procs, Ours(p),
         \/ \E q \in Procs \ {p} : Starting(q) \/ Running(q) \/ Kill(q)
         \/ Crash \/ Modprobe \/ Expire
  PROVE  UNCHANGED <<keyring, cipher, sealed>> /\ told' = told
<1>1. Ours(p) /\ \A q \in Procs \ {p} : ~Working(q) /\ ~AloneAmong(q)
  BY OnlyOne DEF Ours
<1>2. ASSUME NEW q \in Procs \ {p}, Starting(q)
      PROVE  UNCHANGED <<keyring, cipher, sealed>> /\ told' = told
  <2>1. PICK c : Enters(q, c)
    BY <1>2, Begun
  <2>2. c.cmd \in {"web", "show", "insecure"}
    BY <1>1, <2>1 DEF Enters, OneAtATime
  <2>3. c.at # "unregister"
    BY <2>1, <2>2, Constants DEF Enters, Path
  <2> QED BY <2>1, <2>2, <2>3 DEF Enters
<1>3. ASSUME NEW q \in Procs \ {p}, Running(q) \/ Kill(q)
      PROVE  UNCHANGED <<keyring, cipher, sealed>> /\ told' = told
  <2>1. ~ConfirmReset(q)
    BY <1>1 DEF ConfirmReset
  <2>2. ~ (\/ RemoveOld(q) \/ Gpg(q) \/ Encrypted(q) \/ RemoveState(q) \/ Sweep(q)
           \/ Unregister(q) \/ Rmmod(q) \/ Wipe(q) \/ ResetKeys(q) \/ ResetCiphers(q))
    BY <1>1 DEF Working, Encrypting, RemoveOld, Gpg, Encrypted, RemoveState, Sweep,
       Unregister, Rmmod, Wipe, ResetKeys, ResetCiphers
  <2> QED BY <1>3, <2>1, <2>2 DEF Running, Arm, StartBlock, ReadKey, Submit, SubmitPage,
          Authorize, Kill
<1>4. CASE Crash \/ Modprobe \/ Expire
  BY <1>4 DEF Crash, Modprobe, Expire
<1> QED BY <1>2, <1>3, <1>4

LEMMA UntoldStep ==
  ASSUME OneAtATime, IInv, Untold, Next
  PROVE  Untold'
<1>1. proc \in [Procs -> Cmds]
  BY Parts DEF IInv, ProcType
<1> SUFFICES ASSUME NEW q \in Procs
             PROVE  /\ proc'[q].at = "unregister" => proc'[q].entry[1] \notin told'
                    /\ proc'[q].at \in {"rmkeys", "rmenc"} => told' = {}
  BY DEF Untold
<1>2. CASE proc'[q] = Free
  BY <1>2, Constants
<1>3. ASSUME NEW c, Enters(q, c), proc'[q] = c
      PROVE  /\ proc'[q].at = "unregister" => proc'[q].entry[1] \notin told'
             /\ proc'[q].at \in {"rmkeys", "rmenc"} => told' = {}
  BY <1>3 DEF Enters, First
<1>4. CASE Running(q) /\ Leads(q)
  <2>1. CASE ConfirmReset(q) /\ proc'[q].at = "rmkeys"
    <3>1. ~Exit(q)
      BY <2>1, Exits, Constants
    <3> QED BY <2>1, <3>1 DEF ConfirmReset
  <2>2. CASE ResetKeys(q) /\ proc'[q].at = "rmenc"
    BY <2>2 DEF ResetKeys, Untold
  <2> QED BY <1>2, <1>4, <2>1, <2>2 DEF Leads
<1>5. CASE /\ UNCHANGED proc[q]
           /\ \/ \E p \in Procs \ {q} : Starting(p) \/ Running(p) \/ Kill(p)
              \/ Crash \/ Modprobe \/ Expire
  <2>1. CASE proc[q].at \in {"unregister", "rmkeys", "rmenc"}
    <3>1. Ours(q)
      BY <2>1 DEF Ours, Working
    <3>2. told' = told
      BY <1>5, <3>1, Beside
    <3> QED BY <1>5, <3>2 DEF Untold
  <2> QED BY <1>5, <2>1
<1> QED BY <1>2, <1>3, <1>4, <1>5, Turns

LEMMA UnsealedStep ==
  ASSUME IInv, Unsealed, Next
  PROVE  Unsealed'
<1> SUFFICES ASSUME NEW q \in Procs, proc'[q].cmd = "enable",
                    proc'[q].at \in {"arm", "start", "read"}
             PROVE  proc'[q].done = {}
  BY DEF Unsealed
<1>1. CASE \E c : Enters(q, c) /\ proc'[q] = c
  BY <1>1 DEF Enters
<1>2. CASE UNCHANGED proc[q]
  BY <1>2 DEF Unsealed
<1>3. CASE Running(q) /\ Leads(q) /\ Onwards(q)
  <2>1. proc[q].cmd = "enable" /\ ~Exit(q) /\ (Arm(q) \/ StartBlock(q))
    BY <1>3, Exits, Constants DEF Leads, Onwards
  <2>2. \E place : Goto(q, place)
    BY <2>1 DEF Arm, StartBlock
  <2>3. proc'[q].done = proc[q].done
    BY <2>2, Goes
  <2> QED BY <2>1, <2>3 DEF Unsealed, Arm, StartBlock
<1> QED BY <1>1, <1>2, <1>3, Turns, Constants

LEMMA SealingStep ==
  ASSUME OneAtATime, Suffixes = {"asc"}, IInv, Sealing, Unsealed, Next
  PROVE  Sealing'
<1> DEFINE Half(p) ==
      /\ \A h \in proc[p].done : cipher[h] = proc[p].key /\ <<h, "asc">> \in keyring
      /\ \A e \in proc[p].todo : e[1] \notin proc[p].done
      /\ \A e \in keyring \ proc[p].todo : cipher[e[1]] \in {None, proc[p].key}
      /\ proc[p].at = "gpg" => proc[p].entry \in proc[p].todo
                               /\ cipher[proc[p].entry[1]] = None
<1>1. proc \in [Procs -> Cmds] /\ FileType /\ Paths
  BY Parts DEF IInv, ProcType
<1>2. \A e \in Ring : e = <<e[1], "asc">> /\ e[1] \in Holders
  BY Constants
<1> SUFFICES ASSUME NEW p \in Procs, proc'[p].cmd = "enable", Encrypting(p)'
             PROVE  Half(p)'
  BY DEF Sealing
<1>3. CASE UNCHANGED proc[p] /\ (\/ \E q \in Procs \ {p} : Starting(q) \/ Running(q) \/ Kill(q)
                                 \/ Crash \/ Modprobe \/ Expire)
  <2>1. proc[p].cmd = "enable" /\ Encrypting(p) /\ Ours(p)
    BY <1>3 DEF Encrypting, Ours
  <2>2. UNCHANGED <<keyring, cipher>>
    BY <1>3, <2>1, Beside
  <2>3. Half(p)
    BY <2>1 DEF Sealing
  <2> QED BY <1>3, <2>2, <2>3
<1>4. CASE ReadKey(p) /\ proc'[p].at = "encrypt"
  <2>1. proc[p].cmd = "enable" /\ proc[p].done = {} /\ ~Exit(p)
    <3>1. Running(p)
      BY <1>4 DEF Running
    <3>2. ~Exit(p) /\ proc[p].cmd = "enable"
      BY <1>4, <3>1, GoesOn, Exits, Constants DEF Onwards
    <3> QED BY <1>4, <3>2 DEF Unsealed, ReadKey
  <2>2. proc'[p].todo = keyring /\ proc'[p].done = {} /\ UNCHANGED <<keyring, cipher>>
    BY <1>1, <1>4, <2>1 DEF ReadKey, Cmds
  <2> QED BY <1>4, <2>2
<1>5. CASE RemoveOld(p)
  <2>1. Running(p) /\ Encrypting(p)
    BY <1>5 DEF Running, RemoveOld, Encrypting
  <2>2. proc[p].cmd = "enable" /\ Half(p)
    BY <1>1, <2>1, GoesOn, Constants DEF Onwards, Sealing
  <2>3. PICK e \in proc[p].todo : /\ cipher' = [cipher EXCEPT ![e[1]] = None]
                                  /\ proc' = [proc EXCEPT ![p].at = "gpg", ![p].entry = e]
                                  /\ UNCHANGED keyring
    BY <1>5, <2>2 DEF RemoveOld
  <2>4. e \in Ring /\ e[1] \in Holders
    BY <1>1, <1>2 DEF Cmds
  <2>5. /\ proc'[p].todo = proc[p].todo /\ proc'[p].done = proc[p].done
        /\ proc'[p].key = proc[p].key /\ proc'[p].entry = e
    BY <1>1, <2>3 DEF Cmds
  <2>6. e[1] \notin proc[p].done /\ proc[p].done \subseteq Holders
    BY <1>1, <2>2 DEF Cmds
  <2>7. \A h \in Holders : cipher'[h] = IF h = e[1] THEN None ELSE cipher[h]
    BY <1>1, <2>3 DEF FileType
  <2>8. \A f \in keyring : f[1] \in Holders
    BY <1>1, <1>2 DEF FileType
  <2> QED BY <2>2, <2>3, <2>4, <2>5, <2>6, <2>7, <2>8
<1>6. CASE Gpg(p)
  <2> DEFINE e == proc[p].entry
  <2>1. Running(p) /\ Encrypting(p) /\ proc[p].at = "gpg"
    BY <1>6 DEF Running, Gpg, Encrypting
  <2>2. proc[p].cmd = "enable" /\ Half(p)
    BY <1>1, <2>1, GoesOn, Constants DEF Onwards, Sealing
  <2>3. e \in proc[p].todo /\ cipher[e[1]] = None /\ e \in Ring /\ e[1] \in Holders
        /\ e = <<e[1], "asc">> /\ proc[p].done \subseteq Holders /\ proc[p].todo \subseteq Ring
    BY <1>1, <1>2, <2>1, <2>2 DEF Cmds
  <2>4. \A f \in keyring \cup proc[p].todo : f # e => f[1] # e[1] /\ f[1] \in Holders
    BY <1>1, <1>2, <2>3 DEF FileType
  <2>5. /\ proc'[p].at = "encrypt" /\ proc'[p].todo = proc[p].todo \ {e}
        /\ proc'[p].key = proc[p].key /\ UNCHANGED keyring
    BY <1>1, <1>6 DEF Gpg, Cmds
  <2>6. CASE e \in keyring /\ cipher' = [cipher EXCEPT ![e[1]] = proc[p].key]
             /\ proc'[p].done = proc[p].done \cup {e[1]}
    <3>1. \A h \in Holders : cipher'[h] = IF h = e[1] THEN proc[p].key ELSE cipher[h]
      BY <1>1, <2>6 DEF FileType
    <3>2. \A h \in proc'[p].done : cipher'[h] = proc[p].key /\ <<h, "asc">> \in keyring
      BY <2>2, <2>3, <2>6, <3>1
    <3>3. \A f \in proc'[p].todo : f[1] \notin proc'[p].done
      BY <2>2, <2>4, <2>5, <2>6
    <3>4. \A f \in keyring \ proc'[p].todo : cipher'[f[1]] \in {None, proc[p].key}
      BY <2>2, <2>3, <2>4, <2>5, <3>1
    <3> QED BY <2>5, <3>2, <3>3, <3>4
  <2>7. CASE UNCHANGED cipher /\ proc'[p].done = proc[p].done
    <3>1. \A f \in keyring \ proc'[p].todo : cipher[f[1]] \in {None, proc[p].key}
      BY <2>2, <2>3, <2>5
    <3> QED BY <2>2, <2>5, <2>7, <3>1
  <2>8. \/ e \in keyring /\ cipher' = [cipher EXCEPT ![e[1]] = proc[p].key]
           /\ proc'[p].done = proc[p].done \cup {e[1]}
        \/ UNCHANGED cipher /\ proc'[p].done = proc[p].done
    BY <1>1, <1>6 DEF Gpg, Cmds
  <2> QED BY <2>6, <2>7, <2>8
<1> HIDE DEF Half
<1>7. Encrypting(p)' /\ proc'[p] # Free
  BY Constants DEF Encrypting
<1> QED BY <1>3, <1>4, <1>5, <1>6, <1>7, Turns DEF Enters, First, Leads, Encrypting

LEMMA SealedStep ==
  ASSUME OneAtATime, Suffixes = {"asc"}, IInv, Holding, Next
  PROVE  Sealed'
<1>1. /\ kernel \in Kernels /\ OneReader /\ Drawn /\ FileType /\ Paths
      /\ proc \in [Procs -> Cmds]
  <2>1. TypeOK /\ OneReader /\ Drawn /\ Paths
    BY DEF IInv
  <2> QED BY <2>1, Parts DEF ProcType
<1>2. Sealed /\ Sealing /\ Untold
  BY DEF Holding
<1> SUFFICES ASSUME Locked', kernel'.hash = sealed'
             PROVE  Sealed'
  BY DEF Sealed
<1>3. Locked /\ kernel'.hash = kernel.hash /\ kernel'.shot \in {kernel.shot, None}
  <2>1. CASE minted' = minted + 1 /\ kernel'.hash = minted'
    <3>1. /\ sealed \in Int /\ sealed <= minted /\ minted \in Int
          /\ \A p \in Procs : proc[p].key \in Int /\ proc[p].key <= minted
      BY <1>1, Parts, Constants DEF IInv, HistoryType, Drawn, Cmds
    <3>2. sealed' = sealed \/ \E p \in Procs : sealed' = proc[p].key
      BY ToldMoves
    <3> QED BY <2>1, <3>1, <3>2
  <2> QED BY <2>1, Lockings
<1>4. ASSUME NEW p \in Procs, Encrypted(p), proc[p].cmd = "enable", cipher' = SweepStale,
             sealed' = proc[p].key, told' = proc[p].done
      PROVE  Sealed'
  <2>1. Encrypting(p) /\ proc[p].todo = {} /\ proc[p].key = kernel.hash
        /\ UNCHANGED <<kernel, keyring>> /\ proc' = [proc EXCEPT ![p] = Free]
    BY <1>3, <1>4 DEF Encrypted, Encrypting, Exit
  <2>2. kernel'.shot = None
    BY <1>1, <1>3, <2>1 DEF OneReader
  <2>3. /\ \A h \in proc[p].done : cipher[h] = proc[p].key /\ <<h, "asc">> \in keyring
        /\ \A e \in keyring : cipher[e[1]] \in {None, proc[p].key}
        /\ proc[p].done \subseteq Holders
    BY <1>1, <1>2, <1>4, <2>1 DEF Sealing, Cmds
  <2>4. \A h \in Holders : cipher'[h] = IF <<h, "asc">> \in keyring THEN cipher[h] ELSE None
    BY <1>4 DEF SweepStale
  <2>5. \A h \in Holders : cipher'[h] \in {None, sealed'}
    <3> SUFFICES ASSUME NEW h \in Holders, <<h, "asc">> \in keyring
                 PROVE  cipher[h] \in {None, proc[p].key}
      BY <1>4, <2>4
    <3>1. <<h, "asc">>[1] = h
      OBVIOUS
    <3> QED BY <2>3, <3>1
  <2>6. \A h \in told' : cipher'[h] = sealed' /\ <<h, "asc">> \in keyring'
    BY <1>4, <2>1, <2>3, <2>4
  <2>7. \A q \in Procs : q # p => ~Ours(q)
    BY <1>4, OnlyOne DEF Ours
  <2>8. \A q \in Procs :
          /\ proc'[q].cmd # "enable" /\ ~Encrypting(q)'
          /\ proc'[q].at \notin {"rmmod", "rmstate", "sweep", "wipe"}
    BY <1>1, <2>1, <2>7, Constants DEF Ours, Working, Encrypting
  <2> QED BY <2>2, <2>5, <2>6, <2>8 DEF Sealed
<1>5. ASSUME sealed' = sealed, told' \subseteq told
      PROVE  Sealed'
  <2>1. /\ kernel.shot = None
        /\ \A h \in Holders : cipher[h] \in {None, sealed}
        /\ \A h \in told : cipher[h] = sealed /\ <<h, "asc">> \in keyring
        /\ \A p \in Procs :
             /\ proc[p].cmd # "enable" /\ ~Encrypting(p)
             /\ proc[p].at \notin {"rmmod", "rmstate", "sweep", "wipe"}
    BY <1>2, <1>3, <1>5 DEF Sealed
  <2>2. kernel'.shot = None
    BY <1>3, <2>1
  <2>3. \A p \in Procs : ~ (\/ Gpg(p) \/ RemoveOld(p) \/ Encrypted(p) \/ RemoveState(p)
                            \/ Sweep(p) \/ Rmmod(p) \/ Wipe(p))
    BY <2>1 DEF Gpg, RemoveOld, Encrypted, RemoveState, Sweep, Rmmod, Wipe, Encrypting
  <2>4. \A h \in Holders : cipher'[h] \in {None, sealed'}
    BY <1>5, <2>1, <2>3, CiphersGo
  <2>5. ASSUME NEW h \in told'
        PROVE  cipher'[h] = sealed' /\ <<h, "asc">> \in keyring'
    <3>1. h \in told /\ h \in Holders
      BY <1>5, Parts DEF IInv, HistoryType
    <3>2. ASSUME NEW p \in Procs, Starting(p)
          PROVE  cipher'[h] = sealed' /\ <<h, "asc">> \in keyring'
      <4>1. PICK c : Enters(p, c)
        BY <3>2, Begun
      <4>2. <<h, "asc">> \in keyring'
        BY <2>1, <3>1, <4>1 DEF Enters
      <4>3. cipher'[h] = cipher[h]
        BY <1>1, <2>5, <3>1, <4>1 DEF Enters, FileType
      <4> QED BY <1>5, <2>1, <3>1, <4>2, <4>3
    <3>3. CASE \E p \in Procs : Running(p) \/ Kill(p)
      <4>1. CASE \E p \in Procs : ResetKeys(p) \/ ResetCiphers(p)
        BY <1>2, <3>1, <4>1 DEF ResetKeys, ResetCiphers, Untold
      <4>2. CASE \E p \in Procs : Unregister(p)
        <5>1. PICK p \in Procs : Unregister(p)
          BY <4>2
        <5>2. proc[p].entry[1] # h /\ UNCHANGED cipher
              /\ keyring' = keyring \ {proc[p].entry}
          BY <1>2, <3>1, <5>1 DEF Unregister, Untold
        <5>3. <<h, "asc">> # proc[p].entry
          BY <5>2
        <5> QED BY <1>5, <2>1, <3>1, <5>2, <5>3
      <4>3. CASE UNCHANGED <<keyring, cipher>>
        BY <1>5, <2>1, <3>1, <4>3
      <4> QED BY <2>3, <3>3, <4>1, <4>2, <4>3 DEF Running, Arm, StartBlock, ReadKey,
              Submit, SubmitPage, Authorize, ConfirmReset, Kill
    <3>4. CASE Crash \/ Modprobe \/ Expire \/ Reboot
      BY <1>5, <2>1, <3>1, <3>4 DEF Crash, Modprobe, Expire, Reboot
    <3> QED BY <3>2, <3>3, <3>4 DEF Next
  <2>6. ASSUME NEW q \in Procs
        PROVE  /\ proc'[q].cmd # "enable" /\ ~Encrypting(q)'
               /\ proc'[q].at \notin {"rmmod", "rmstate", "sweep", "wipe"}
    <3>1. CASE proc'[q] = Free
      BY <3>1, Constants DEF Encrypting
    <3>2. ASSUME NEW c, Enters(q, c), proc'[q] = c
          PROVE  /\ proc'[q].cmd # "enable" /\ ~Encrypting(q)'
                 /\ proc'[q].at \notin {"rmmod", "rmstate", "sweep", "wipe"}
      BY <1>3, <3>2 DEF Enters, First, Locked, Encrypting
    <3>3. CASE UNCHANGED proc[q]
      BY <2>1, <3>3 DEF Encrypting
    <3>4. CASE Running(q) /\ Leads(q) /\ Onwards(q)
      <4>1. proc'[q].cmd # "enable"
        BY <2>1, <3>4 DEF Onwards
      <4>2. ~Encrypting(q)'
        <5>1. CASE ReadKey(q)
          <6>1. Shown(kernel) = None
            BY <1>3, <2>1 DEF Shown, Locked
          <6>2. proc'[q] = Free
            BY <5>1, <6>1, Exits DEF ReadKey
          <6> QED BY <6>2, Constants DEF Encrypting
        <5> QED BY <2>1, <5>1, Encryptors
      <4>3. proc'[q].at \notin {"rmmod", "rmstate", "sweep", "wipe"}
        <5>1. ~ (Authorize(q) /\ proc'[q].at = "rmmod")
          <6>1. ASSUME Authorize(q), proc'[q].at = "rmmod"
                PROVE  FALSE
            <7>1. ~Exit(q)
              BY <6>1, Exits, Constants
            <7>2. kernel' = [Ended(kernel) EXCEPT !.hash = NoHash, !.raw = ZeroKey]
              BY <6>1, <7>1 DEF Authorize
            <7>3. kernel'.on = FALSE
              BY <1>1, <7>2 DEF Ended, Kernels
            <7> QED BY <7>3 DEF Locked
          <6> QED BY <6>1
        <5>2. ~ (Submit(q) /\ proc'[q].at = "rmstate")
          <6>1. ASSUME Submit(q), proc'[q].at = "rmstate"
                PROVE  FALSE
            <7>1. ~Refuses(proc[q].key) /\ DisableStore(proc[q].key)
              BY <6>1, Exits, Constants DEF Submit
            <7>2. kernel'.on = FALSE
              BY <1>1, <7>1 DEF DisableStore, Ended, Kernels
            <7> QED BY <7>2 DEF Locked
          <6> QED BY <6>1
        <5> QED BY <2>3, <3>1, <3>4, <5>1, <5>2 DEF Leads
      <4> QED BY <4>1, <4>2, <4>3
    <3> QED BY <3>1, <3>2, <3>3, <3>4, Turns
  <2> QED BY <2>2, <2>4, <2>5, <2>6 DEF Sealed
<1> QED BY <1>4, <1>5, ToldMoves

(* A sealed block is left alone by all commands: none gets its key, writes  *)
(* or sweeps a ciphertext or takes a key from a holder it was sealed for.   *)
THEOREM Holds ==
  ASSUME OneAtATime, Suffixes = {"asc"}
  PROVE  Spec => []Holding
<1>1. Init => Holding
  <2>1. Init => ~Locked
    BY Off DEF Init, Locked
  <2>2. Init => \A p \in Procs : proc[p] = Free
    BY DEF Init
  <2> QED BY <2>1, <2>2, Constants DEF Holding, Sealed, Sealing, Unsealed, Untold, Encrypting
<1>2. IInv /\ Holding /\ Next => Holding'
  BY SealedStep, SealingStep, UnsealedStep, UntoldStep DEF Holding
<1>3. Holding /\ UNCHANGED vars => Holding'
  BY DEF Holding, vars, Sealed, Sealing, Unsealed, Untold, Encrypting, Locked
<1> QED BY <1>1, <1>2, <1>3, Invariance, PTL DEF Spec

(* "Any one of them can unlock": each holder a locked block was sealed for  *)
(* finds a ciphertext of its key while it lasts, through kills, failed      *)
(* encryptions and reboots.                                                 *)
THEOREM HoldersKeep ==
  ASSUME OneAtATime, Suffixes = {"asc"}
  PROVE  Spec => []KeyHolders
<1>1. Holding => KeyHolders
  BY DEF Holding, Sealed, KeyHolders
<1> QED BY <1>1, Holds, PTL

(* Whom `status' and `list-pgp' name as recipients of a sealed block can    *)
(* end it, and nobody it was sealed for misses in what they print.          *)
THEOREM ReportsAreTrue ==
  ASSUME OneAtATime, Suffixes = {"asc"}
  PROVE  Spec => []ReportsTrue
<1>1. IInv /\ Holding => ReportsTrue
  <2> SUFFICES ASSUME IInv, Sealed, Locked, kernel.hash = sealed
               PROVE  /\ \A h \in Recipients : Cipher(h) = sealed
                      /\ \A h \in told : [fingerprint |-> h, encrypted |-> TRUE] \in ListPGP
    BY DEF Holding, ReportsTrue
  <2>1. kernel \in Kernels /\ told \subseteq Holders
    BY Parts DEF IInv, HistoryType
  <2>2. sealed # None
    BY <2>1, Constants DEF Kernels
  <2>3. \A h \in Recipients : Cipher(h) = sealed
    BY DEF Sealed, Recipients, Cipher
  <2>4. ASSUME NEW h \in told
        PROVE  [fingerprint |-> h, encrypted |-> TRUE] \in ListPGP
    <3>1. h \in Holders /\ cipher[h] # None /\ <<h, "asc">> \in keyring
      BY <2>1, <2>2 DEF Sealed
    <3>2. Registered(h) /\ KeyEntry(h) = [fingerprint |-> h, encrypted |-> TRUE]
      BY <3>1, CtlAssumption DEF Registered, KeyEntry
    <3> QED BY <3>1, <3>2 DEF ListPGP
  <2> QED BY <2>3, <2>4
<1> QED BY <1>1, Holds, Invariance, PTL
=============================================================================
