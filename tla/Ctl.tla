--------------------------------- MODULE Ctl ---------------------------------
(***************************************************************************)
(* cmd/kblockerctl: the commands, and the pages for key holders, that start *)
(* and end blocks, hand the one-shot key out as ciphertexts, keep the ring  *)
(* of registered keys and unload the module.  Each is a process of its own  *)
(* that reads sysfs, decides, writes sysfs and files, and takes no lock     *)
(* while it does.                                                           *)
(*                                                                          *)
(* The kernel module is seen through sysfs, one file operation per step;    *)
(* module Session says what happens inside.                                 *)
(***************************************************************************)
EXTENDS Integers, FiniteSets

CONSTANTS
  Procs,     \* processes that can run at the same time
  Holders,   \* fingerprints of key holders
  Suffixes,  \* file names of registered keys end in "asc", "gpg" or "pub"
  Commands,  \* the commands that are given
  Rivals,    \* the commands that may run beside any other one
  Kills,     \* may a command be killed half-way?
  GpgFails,  \* may an encryption fail?
  MaxKeys    \* bound: keys drawn by the kernel

ASSUME CtlAssumption ==
  /\ "asc" \in Suffixes /\ Rivals \subseteq Commands
  /\ Kills \in BOOLEAN /\ GpgFails \in BOOLEAN
  /\ MaxKeys \in Nat \ {0}

None    == -1
NoHash  == -2   \* key_hash when it is zeroed: no key has this hash
ZeroKey == 0
Keys    == 0..MaxKeys
Ring    == Holders \X Suffixes
NoEntry == <<"nobody", "none">>

VARIABLES
  kernel,   \* what sysfs shows of the module
  keyring,  \* the files of pgpKeyDir
  cipher,   \* the key inside unlock-<fingerprint>.asc of pgpEncDir
  proc,     \* the commands that are running
  minted,   \* history: keys drawn
  printed,  \* history: the key a command printed last, as sysfs showed it
  sealed,   \* history: the key the last successful enable encrypted ...
  told,     \* ... and the holders it encrypted it for, who were not removed
  cut,      \* history: an `enable' died between pre-arming and starting
  wiped     \* history: a reset removed the key holders during this block

user  == <<keyring, cipher>>
ghost == <<printed, sealed, told, cut, wiped>>
vars  == <<kernel, user, proc, minted, ghost>>

Free == [cmd |-> "none", at |-> "idle", key |-> None, entry |-> NoEntry,
         todo |-> {}, done |-> {}]

TypeOK ==
  /\ kernel \in [loaded : BOOLEAN, on : BOOLEAN, pgp : BOOLEAN, restored : BOOLEAN,
                 hash : Keys \cup {NoHash}, raw : Keys, shot : Keys \cup {None},
                 state : BOOLEAN]
  /\ keyring \subseteq Ring
  /\ cipher \in [Holders -> Keys \cup {None}]
  /\ proc \in [Procs ->
       [cmd : Commands \cup {"none"},
        at : {"idle", "arm", "start", "read", "encrypt", "gpg", "submit",
              "rmstate", "sweep", "unregister", "authorize", "rmmod", "wipe",
              "confirm", "rmkeys", "rmenc"},
        key : Keys \cup {None}, entry : Ring \cup {NoEntry},
        todo : SUBSET Ring, done : SUBSET Holders]]
  /\ minted \in 0..MaxKeys /\ printed \in Keys \cup {None}
  /\ sealed \in Keys \cup {None} /\ told \subseteq Holders
  /\ cut \in BOOLEAN /\ wiped \in BOOLEAN

-----------------------------------------------------------------------------
(* The kernel's side of each file operation. *)

FreshKernel(k) ==
  [loaded |-> TRUE, on |-> FALSE, pgp |-> FALSE, restored |-> FALSE,
   hash |-> k, raw |-> k, shot |-> None, state |-> FALSE]

Unloaded == [FreshKernel(ZeroKey) EXCEPT !.loaded = FALSE, !.hash = NoHash]

Prearmed(k) ==
  IF k.pgp THEN k
  ELSE [k EXCEPT !.pgp = TRUE, !.restored = FALSE, !.raw = ZeroKey,
                 !.shot = None]

Began(k, key) ==
  [k EXCEPT !.on = TRUE, !.restored = FALSE, !.hash = key,
            !.raw = IF k.pgp THEN ZeroKey ELSE key,
            !.shot = IF k.pgp THEN key ELSE None,
            !.state = k.pgp]

EndedForgets(k) ==
  [k EXCEPT !.on = FALSE, !.pgp = FALSE, !.restored = FALSE, !.hash = None,
            !.shot = None, !.state = FALSE]

Ended(k) ==
  [k EXCEPT !.on = FALSE, !.pgp = FALSE, !.restored = FALSE, !.shot = None,
            !.state = FALSE]

(* What `key' prints: "restored" and "encrypted" count as nothing. *)
ShownAlways(k) ==
  IF k.pgp THEN IF k.shot = None THEN ZeroKey ELSE k.shot ELSE k.raw

Shown(k) ==
  IF k.restored \/ ~k.loaded THEN None ELSE IF k.pgp THEN k.shot ELSE k.raw

ReadOnceMissed(k) == k
ReadOnce(k) == IF k.pgp /\ ~k.restored THEN [k EXCEPT !.shot = None] ELSE k

Restored(k) == [k EXCEPT !.restored = TRUE, !.raw = ZeroKey, !.shot = None]

Init ==
  /\ kernel = FreshKernel(1) /\ minted = 1
  /\ keyring \in SUBSET Ring
  /\ cipher = [h \in Holders |-> None]
  /\ proc = [p \in Procs |-> Free]
  /\ printed = None /\ sealed = None /\ told = {}
  /\ cut = FALSE /\ wiped = FALSE

-----------------------------------------------------------------------------
(* Beginning, going on with, and leaving a command. *)

(* A `reset' that waits for its answer does not count as running.           *)
AloneAmong(p) ==
  \A q \in Procs \ {p} : proc[q].cmd \in Rivals \cup {"none"} \/ proc[q].at = "confirm"

MayStart(p, c) ==
  c \in Commands /\ proc[p] = Free /\ (c \in Rivals \/ AloneAmong(p))

Begin(p, c, step, key, entry) ==
  proc' = [proc EXCEPT ![p] = [Free EXCEPT !.cmd = c, !.at = step,
                                           !.key = key, !.entry = entry]]

Goto(p, step) == proc' = [proc EXCEPT ![p].at = step]
Exit(p) == proc' = [proc EXCEPT ![p] = Free]
Uncut == cut' = (cut /\ kernel'.pgp) /\ wiped' = (wiped /\ kernel'.on)

Registered(h) == \E s \in Suffixes : <<h, s>> \in keyring
Sealings == {cipher[h] : h \in Holders} \ {None}

(* The keys that are at hand: one that was printed, or may be decrypted.    *)
Known == (Sealings \cup {printed}) \ {None}

-----------------------------------------------------------------------------
(* doEnable, with and without --insecure *)

Enable(p, c) ==
  /\ c \in {"enable", "insecure"} /\ MayStart(p, c)
  /\ kernel.loaded /\ ~kernel.on
  /\ Begin(p, c, IF c = "enable" THEN "arm" ELSE "start", None, NoEntry)
  /\ UNCHANGED <<kernel, user, minted, ghost>>

(* No key is registered: found out too late. *)
ArmFirst(p) ==
  /\ proc[p].at = "arm"
  /\ kernel' = IF kernel.on \/ ~kernel.loaded THEN kernel ELSE Prearmed(kernel)
  /\ IF keyring = {} \/ kernel.on \/ ~kernel.loaded THEN Exit(p) ELSE Goto(p, "start")
  /\ UNCHANGED <<user, minted, ghost>>

Arm(p) ==
  /\ proc[p].at = "arm"
  /\ IF keyring = {} \/ kernel.on \/ ~kernel.loaded
       THEN Exit(p) /\ UNCHANGED kernel
       ELSE kernel' = Prearmed(kernel) /\ Goto(p, "start")
  /\ UNCHANGED <<user, minted, ghost>>

StartBlock(p) ==
  /\ proc[p].at = "start"
  /\ \/ (kernel.on \/ ~kernel.loaded) /\ Exit(p) /\ UNCHANGED <<kernel, minted>>
     \/ /\ kernel.loaded /\ ~kernel.on /\ minted < MaxKeys
        /\ minted' = minted + 1
        /\ kernel' = Began(kernel, minted + 1)
        /\ Goto(p, "read")
  /\ UNCHANGED <<user, ghost>>

(* readKeyFromSysfs, and what each command does with what it got: print it, *)
(* or encrypt it for whom pgpKeyDir lists at that moment.  `key' that got   *)
(* nothing prints what a holder can decrypt, who may know it anyway.        *)
ReadKey(p) ==
  LET got == Shown(kernel)
      cmd == proc[p].cmd IN
  /\ proc[p].at = "read"
  /\ kernel' = ReadOnce(kernel)
  /\ \/ got = None /\ Exit(p) /\ UNCHANGED printed
     \/ /\ got # None /\ cmd \in {"insecure", "show"}
        /\ printed' = got
        /\ Exit(p)
     \/ /\ got # None /\ cmd \in {"enable", "reload", "add", "webadd"}
        /\ proc' = [proc EXCEPT ![p].at = "encrypt", ![p].key = got,
                      ![p].todo = IF cmd \in {"add", "webadd"}
                                    THEN {proc[p].entry} ELSE keyring]
        /\ UNCHANGED printed
  /\ UNCHANGED <<user, minted, sealed, told, cut, wiped>>

(* One recipient: the old ciphertext goes, gpg writes the new one.  The     *)
(* keys page leaves the old one to gpg, which fails if it is immutable.     *)
RemoveOld(p) ==
  /\ proc[p].at = "encrypt"
  /\ \E e \in proc[p].todo :
       /\ cipher' = IF proc[p].cmd = "webadd" THEN cipher
                    ELSE [cipher EXCEPT ![e[1]] = None]
       /\ proc' = [proc EXCEPT ![p].at = "gpg", ![p].entry = e]
  /\ UNCHANGED <<kernel, keyring, minted, ghost>>

Gpg(p) ==
  LET e == proc[p].entry IN
  /\ proc[p].at = "gpg"
  /\ \/ /\ e \in keyring
        /\ cipher' = [cipher EXCEPT ![e[1]] = proc[p].key]
        /\ proc' = [proc EXCEPT ![p].at = "encrypt", ![p].todo = @ \ {e},
                                ![p].done = @ \cup {e[1]}]
     \/ /\ e \notin keyring \/ GpgFails \/ cipher[e[1]] # None
        /\ UNCHANGED cipher
        /\ proc' = [proc EXCEPT ![p].at = "encrypt", ![p].todo = @ \ {e}]
  /\ UNCHANGED <<kernel, keyring, minted, ghost>>

(* cleanupPGPCiphertextsExcept *)
SweepAll  == [h \in Holders |-> None]
SweepNone == cipher
SweepStale ==
  [h \in Holders |-> IF <<h, "asc">> \in keyring THEN cipher[h] ELSE None]

Encrypted(p) ==
  /\ proc[p].at = "encrypt" /\ proc[p].todo = {}
  /\ Exit(p)
  /\ IF proc[p].cmd = "enable" /\ proc[p].done # {}
       THEN /\ cipher' = SweepStale
            /\ sealed' = proc[p].key /\ told' = proc[p].done
       ELSE UNCHANGED <<cipher, sealed, told>>
  /\ UNCHANGED <<kernel, keyring, minted, printed, cut, wiped>>

-----------------------------------------------------------------------------
(* doDisable, doUnblock and the unblock page: the key is at hand, or was    *)
(* decrypted from a ciphertext, or none is needed; then it is submitted.    *)

Disable(p) ==
  /\ MayStart(p, "disable") /\ kernel.loaded /\ ~kernel.pgp
  /\ Begin(p, "disable", "submit", None, NoEntry)
  /\ UNCHANGED <<kernel, user, minted, ghost>>

Unblock(p) ==
  /\ MayStart(p, "unblock") /\ kernel.loaded
  /\ \/ ~kernel.pgp /\ Begin(p, "unblock", "submit", None, NoEntry)
     \/ /\ kernel.pgp
        /\ \E k \in Known :
             Begin(p, "unblock", "submit", k, NoEntry)
  /\ UNCHANGED <<kernel, user, minted, ghost>>

(* The page asks for the ciphertext of a holder, and decrypts it.           *)
CiphertextByKey(p, h) ==
  /\ MayStart(p, "web") /\ cipher[h] # None
  /\ Begin(p, "web", "submit", cipher[h], NoEntry)
  /\ UNCHANGED <<kernel, user, minted, ghost>>

(* The store behind `disable', which refuses another key under a lock.      *)
Refuses(key) == ~kernel.loaded \/ (kernel.pgp /\ key # kernel.hash)

DisableStore(key) ==
  \/ Refuses(key) /\ UNCHANGED <<kernel, minted>>
  \/ /\ ~Refuses(key) /\ ~kernel.pgp
     /\ kernel' = Ended(kernel) /\ UNCHANGED minted
  \/ /\ ~Refuses(key) /\ kernel.pgp /\ minted < MaxKeys
     /\ minted' = minted + 1
     /\ kernel' = [Ended(kernel) EXCEPT !.hash = minted + 1, !.raw = minted + 1]

Submit(p) ==
  /\ proc[p].at = "submit" /\ proc[p].cmd # "web"
  /\ DisableStore(proc[p].key)
  /\ IF Refuses(proc[p].key) THEN Exit(p) ELSE Goto(p, "rmstate")
  /\ Uncut /\ UNCHANGED <<user, printed, sealed, told>>

(* handleAPIUnblock: the page leaves the files to whoever comes next.       *)
SubmitPage(p) ==
  /\ proc[p].at = "submit" /\ proc[p].cmd = "web"
  /\ DisableStore(proc[p].key)
  /\ Exit(p)
  /\ Uncut /\ UNCHANGED <<user, printed, sealed, told>>

(* The state file of a running block is flagged, and cannot be removed. *)
RemoveState(p) ==
  /\ proc[p].at = "rmstate"
  /\ kernel' = [kernel EXCEPT !.state = @ /\ kernel.on]
  /\ Goto(p, "sweep")
  /\ UNCHANGED <<user, minted, ghost>>

(* cleanupPGPCiphertexts *)
Sweep(p) ==
  /\ proc[p].at = "sweep"
  /\ cipher' = SweepAll
  /\ IF proc[p].cmd = "unload" THEN Goto(p, "wipe") ELSE Exit(p)
  /\ UNCHANGED <<kernel, keyring, minted, ghost>>

-----------------------------------------------------------------------------
(* doUnload: the key is at hand or decrypted; the store behind `unblock'    *)
(* takes it with or without a lock, and forgets key and hash.               *)

Unload(p) ==
  /\ MayStart(p, "unload")
  /\ \E k \in Known : Begin(p, "unload", "authorize", k, NoEntry)
  /\ UNCHANGED <<kernel, user, minted, ghost>>

Authorize(p) ==
  /\ proc[p].at = "authorize"
  /\ IF kernel.loaded /\ proc[p].key = kernel.hash
       THEN /\ kernel' = [Ended(kernel) EXCEPT !.hash = NoHash, !.raw = ZeroKey]
            /\ Goto(p, "rmmod")
       ELSE Exit(p) /\ UNCHANGED kernel
  /\ Uncut /\ UNCHANGED <<user, minted, printed, sealed, told>>

(* A block that has begun by now holds the module, and what follows is done *)
(* all the same.                                                            *)
Rmmod(p) ==
  /\ proc[p].at = "rmmod"
  /\ kernel' = IF kernel.on THEN kernel ELSE Unloaded
  /\ Goto(p, "rmstate")
  /\ Uncut /\ UNCHANGED <<user, minted, printed, sealed, told>>

(* After the state file and the ciphertexts, /etc/kblocker.                 *)
Wipe(p) ==
  /\ proc[p].at = "wipe"
  /\ keyring' = {} /\ Exit(p)
  /\ UNCHANGED <<kernel, cipher, minted, ghost>>

-----------------------------------------------------------------------------
(* doReset --key-holders: no block may run when it begins; it asks, lists   *)
(* keys and ciphertexts, and removes the keys first.                        *)

ResetAsks(p) ==
  /\ MayStart(p, "reset") /\ ~kernel.on
  /\ Begin(p, "reset", "confirm", None, NoEntry)
  /\ UNCHANGED <<kernel, user, minted, ghost>>

ConfirmReset(p) ==
  /\ proc[p].at = "confirm" /\ AloneAmong(p)
  /\ \/ Exit(p) /\ UNCHANGED told
     \/ /\ proc' = [proc EXCEPT ![p].at = "rmkeys", ![p].todo = keyring,
                                ![p].done = {h \in Holders : cipher[h] # None}]
        /\ told' = {}
  /\ UNCHANGED <<kernel, user, minted, printed, sealed, cut, wiped>>

ResetKeys(p) ==
  /\ proc[p].at = "rmkeys"
  /\ keyring' = keyring \ proc[p].todo /\ wiped' = (wiped \/ kernel.on)
  /\ Goto(p, "rmenc")
  /\ UNCHANGED <<kernel, cipher, minted, printed, sealed, told, cut>>

ResetCiphers(p) ==
  /\ proc[p].at = "rmenc"
  /\ cipher' = [h \in Holders |-> IF h \in proc[p].done THEN None ELSE cipher[h]]
  /\ Exit(p)
  /\ UNCHANGED <<kernel, keyring, minted, ghost>>

-----------------------------------------------------------------------------
(* doReload, doKey, doAddPGP and addKey of the keys page, doRemovePGP *)

Reload(p) ==
  /\ MayStart(p, "reload") /\ kernel.loaded /\ keyring # {}
  /\ Begin(p, "reload", "read", None, NoEntry)
  /\ UNCHANGED <<kernel, user, minted, ghost>>

ShowKey(p) ==
  /\ MayStart(p, "show")
  /\ Begin(p, "show", "read", None, NoEntry)
  /\ UNCHANGED <<kernel, user, minted, ghost>>

Register(p, h, c) ==
  /\ MayStart(p, c) /\ <<h, "asc">> \notin keyring
  /\ keyring' = keyring \cup {<<h, "asc">>}
  /\ Begin(p, c, "read", None, <<h, "asc">>)
  /\ UNCHANGED <<kernel, cipher, minted, ghost>>

AddKey(p, h)     == Register(p, h, "add")
AddKeyPage(p, h) == Register(p, h, "webadd")

(* The ciphertext goes first, the key after it. *)
RemoveKeyFirst(p, e) ==
  /\ MayStart(p, "remove") /\ e \in keyring
  /\ keyring' = keyring \ {e}
  /\ Begin(p, "remove", "sweep", None, e)
  /\ told' = told \ {e[1]}
  /\ UNCHANGED <<kernel, cipher, minted, printed, sealed, cut, wiped>>

RemoveKey(p, e) ==
  /\ MayStart(p, "remove") /\ e \in keyring
  /\ cipher' = [cipher EXCEPT ![e[1]] = None]
  /\ Begin(p, "remove", "unregister", None, e)
  /\ told' = told \ {e[1]}
  /\ UNCHANGED <<kernel, keyring, minted, printed, sealed, cut, wiped>>

Unregister(p) ==
  /\ proc[p].at = "unregister"
  /\ keyring' = keyring \ {proc[p].entry}
  /\ Exit(p)
  /\ UNCHANGED <<kernel, cipher, minted, ghost>>

-----------------------------------------------------------------------------
(* The kernel's own doing, and that of whoever turns things off. *)

(* doCrash, and rmmod by hand or by an upgrade: no key is asked for.  With  *)
(* a block running the machine panics, if it does anything: see Reboot.     *)
Crash ==
  /\ kernel.loaded /\ ~kernel.on
  /\ kernel' = Unloaded
  /\ Uncut /\ UNCHANGED <<user, proc, minted, printed, sealed, told>>

Modprobe ==
  /\ ~kernel.loaded /\ minted < MaxKeys
  /\ minted' = minted + 1 /\ kernel' = FreshKernel(minted + 1)
  /\ UNCHANGED <<user, proc, ghost>>

Expire ==
  /\ kernel.on
  /\ kernel' = Ended(kernel)
  /\ Uncut /\ UNCHANGED <<user, proc, minted, printed, sealed, told>>

(* A reboot ends every command.  A block that is in the state file comes    *)
(* back; otherwise a key is drawn.                                          *)
Reboot ==
  /\ proc' = [p \in Procs |-> Free]
  /\ \/ kernel.state /\ kernel' = Restored(kernel) /\ UNCHANGED minted
     \/ /\ ~kernel.state /\ minted < MaxKeys
        /\ minted' = minted + 1 /\ kernel' = FreshKernel(minted + 1)
  /\ Uncut /\ UNCHANGED <<user, printed, sealed, told>>

Kill(p) ==
  /\ Kills /\ proc[p] # Free
  /\ Exit(p)
  /\ cut' = (cut \/ (proc[p].cmd = "enable" /\ proc[p].at = "start"))
  /\ UNCHANGED <<kernel, user, minted, printed, sealed, told, wiped>>

-----------------------------------------------------------------------------
Starting(p) ==
  \/ \E c \in {"enable", "insecure"} : Enable(p, c)
  \/ Disable(p) \/ Unblock(p) \/ Unload(p) \/ ResetAsks(p)
  \/ Reload(p) \/ ShowKey(p)
  \/ \E h \in Holders : CiphertextByKey(p, h) \/ AddKey(p, h) \/ AddKeyPage(p, h)
  \/ \E e \in keyring : RemoveKey(p, e)

Running(p) ==
  \/ Arm(p) \/ StartBlock(p) \/ ReadKey(p) \/ RemoveOld(p) \/ Gpg(p) \/ Encrypted(p)
  \/ Submit(p) \/ SubmitPage(p) \/ RemoveState(p) \/ Sweep(p) \/ Unregister(p)
  \/ Authorize(p) \/ Rmmod(p) \/ Wipe(p)
  \/ ConfirmReset(p) \/ ResetKeys(p) \/ ResetCiphers(p)

Next ==
  \/ \E p \in Procs : Starting(p) \/ Running(p) \/ Kill(p)
  \/ Crash \/ Modprobe \/ Expire \/ Reboot

Spec == Init /\ [][Next]_vars
-----------------------------------------------------------------------------
Locked == kernel.on /\ kernel.pgp

(* "PGP mode encrypts the unload key to every registered key holder [...].  *)
(* Any one of them can unlock" (README.md:116): once `enable' has said for  *)
(* whom it encrypted, each of them that nobody removes finds a ciphertext   *)
(* of the right key as long as the block lasts, over reboots too.           *)
KeyHolders ==
  Locked /\ kernel.hash = sealed => \A h \in told : cipher[h] = sealed

(* The key of a block that was sealed for its holders was never printed:    *)
(* what reads it first is the only one that gets it.                        *)
SealedOnly == Locked /\ kernel.hash = sealed => sealed # printed

(* What list-pgp and the keys page print as "encrypted", the recipients     *)
(* that status prints, and what pgp-cipher hands to one of them.            *)
KeyEntry(h) == [fingerprint |-> h, encrypted |-> cipher[h] # None]
ListPGP     == {KeyEntry(h) : h \in {h \in Holders : Registered(h)}}
Recipients  == {h \in Holders : cipher[h] # None}
Cipher(h)   == cipher[h]

(* What they print of a block that was sealed is true: whoever is listed as *)
(* a recipient can end it, also when commands of earlier blocks died before *)
(* they had removed what was theirs, and nobody it was sealed for misses.   *)
ReportsTrue ==
  Locked /\ kernel.hash = sealed =>
    /\ \A h \in Recipients : Cipher(h) = sealed
    /\ \A h \in told : [fingerprint |-> h, encrypted |-> TRUE] \in ListPGP

(* Nobody holds a ciphertext of the running block's key who is not, or no   *)
(* longer, registered: a removal takes the ciphertext first.  A reset takes *)
(* it last, and may have been answered when a block had begun.              *)
NoGhost ==
  Locked /\ ~wiped => \A h \in Holders : cipher[h] = kernel.hash => Registered(h)

(* "--insecure skips PGP and prints the key" (README.md:118): the block     *)
(* that `enable --insecure' started is locked only if an `enable' before it *)
(* died after it had asked for the lock.                                    *)
InsecureSkipsPGP ==
  \A p \in Procs :
    proc[p].cmd = "insecure" /\ proc[p].at = "read" /\ Locked => cut
=============================================================================
