---------------------------- MODULE SettingsStore ----------------------------
(***************************************************************************)
(* Labels and credentials of the TinyGo firmware: store.go, and the        *)
(* handlers of web.go that change or read them (handleLabel,               *)
(* handleAuthChange, checkAuth), one goroutine per connection.             *)
(*                                                                         *)
(* The mutex storeMu guards the credentials and the save; the labels are   *)
(* set outside of it.  A save erases the one flash sector and then writes  *)
(* it, so the power may fail, and either call may, in between.  A step is  *)
(* one assignment, one flash call or one lock operation.                   *)
(***************************************************************************)
EXTENDS FiniteSets

CONSTANTS
  Conn,         \* the goroutines that serve connections
  PC,           \* the PCs that have a label
  Text,         \* labels, user names and passwords
  Kept,         \* what storeLoad reads back of a text, see StoreAssumption
  Credentials,  \* the pairs <<user, password>> that clients ask for
  PcName, DefaultUser, DefaultPass,  \* what config.go starts with
  Nothing,      \* the empty string
  Blank,        \* an erased or half-written sector
  NoOne, NoJob,
  PowerCuts,    \* may the power fail?
  FlashFaults   \* may a flash call fail?

\* A field is padded with zero bytes and read back up to the first one, so a
\* text that holds a zero byte comes back shorter, or as Nothing.
ASSUME StoreAssumption ==
  /\ Kept \in [Text -> Text \cup {Nothing}]
  /\ \A t \in Text : Kept[t] # Nothing => Kept[Kept[t]] = Kept[t]
  /\ PcName \in [PC -> Text]
  /\ {DefaultUser, DefaultPass} \subseteq Text
  /\ \A t \in {DefaultUser, DefaultPass} \cup {PcName[p] : p \in PC} : Kept[t] = t
  /\ Nothing \notin Text
  /\ Credentials \subseteq Text \X Text
  /\ NoOne \notin Conn
  /\ {PowerCuts, FlashFaults} \subseteq BOOLEAN

Settings == [labels : [PC -> Text], user : Text, pass : Text]

ASSUME BlankAssumption == Blank \notin Settings

VARIABLES
  labels, user, pass,  \* the settings in RAM
  flash,    \* the sector
  lock,     \* who holds storeMu
  buf,      \* the bytes storeSave has put together
  pc, job,  \* where each goroutine is, and its request
  seen,     \* the last credentials a request was compared with
  flashFailed  \* history: has a flash call failed?

ram  == <<labels, user, pass>>
vars == <<labels, user, pass, flash, lock, buf, pc, job, seen, flashFailed>>

Default == [labels |-> PcName, user |-> DefaultUser, pass |-> DefaultPass]
InRam   == [labels |-> labels, user |-> user, pass |-> pass]

\* cStr(fixedStr(t)), or the default where that is empty.
Or(t, default) == IF Kept[t] = Nothing THEN default ELSE Kept[t]

\* storeLoad: what a boot makes of the sector.
Load(f) ==
  IF f = Blank THEN Default
  ELSE [labels |-> [p \in PC |-> Or(f.labels[p], PcName[p])],
        user   |-> Or(f.user, DefaultUser),
        pass   |-> Or(f.pass, DefaultPass)]

LabelJob == [kind : {"label"}, id : PC, old : Text]
AuthJob  == [kind : {"auth"}, new : Credentials, old : Text \X Text]
LoginJob == [kind : {"login"}]

ASSUME JobAssumption == NoJob \notin AuthJob

AuthPc == {"auth_user", "auth_pass", "undo_user", "undo_pass"}
SavePc == {"erase", "write"}

(* Type correctness; the goroutine between a lock and its unlock is the one *)
(* that holds the mutex.                                                    *)
TypeOK ==
  /\ labels \in [PC -> Text] /\ user \in Text /\ pass \in Text
  /\ flash \in Settings \cup {Blank}
  /\ buf \in Settings \cup {Blank}
  /\ lock \in Conn \cup {NoOne}
  /\ pc \in [Conn -> {"idle", "login", "save_lock", "failed"} \cup AuthPc \cup SavePc]
  /\ job \in [Conn -> LabelJob \cup AuthJob \cup LoginJob \cup {NoJob}]
  /\ seen \in Text \X Text
  /\ flashFailed \in BOOLEAN
  /\ \A c \in Conn : (lock = c) = (pc[c] \in AuthPc \cup SavePc \cup {"login"})

Init ==
  /\ labels = PcName /\ user = DefaultUser /\ pass = DefaultPass
  /\ flash = Blank /\ buf = Blank
  /\ lock = NoOne
  /\ pc = [c \in Conn |-> "idle"]
  /\ job = [c \in Conn |-> NoJob]
  /\ seen = <<DefaultUser, DefaultPass>>
  /\ flashFailed = FALSE

-----------------------------------------------------------------------------
At(c, from, to) == pc[c] = from /\ pc' = [pc EXCEPT ![c] = to]

Lock(c)   == lock = NoOne /\ lock' = c
Unlock(c) == lock = c /\ lock' = NoOne

FlashFails == FlashFaults /\ flashFailed' = TRUE

Done(c) == job' = [job EXCEPT ![c] = NoJob]

\* handleLabel: the old label is kept, the new one set, without the mutex.
SetLabel(c, p, name) ==
  /\ At(c, "idle", "save_lock")
  /\ job' = [job EXCEPT ![c] = [kind |-> "label", id |-> p, old |-> labels[p]]]
  /\ labels' = [labels EXCEPT ![p] = name]
  /\ UNCHANGED <<user, pass, flash, lock, buf, seen, flashFailed>>

\* handleAuthChange: storeMu is held while the pair is read and replaced.
AuthLock(c, pair) ==
  /\ At(c, "idle", "auth_user")
  /\ Lock(c)
  /\ job' = [job EXCEPT ![c] =
               [kind |-> "auth", new |-> pair, old |-> <<user, pass>>]]
  /\ UNCHANGED <<ram, flash, buf, seen, flashFailed>>

\* Mutant: the mutex is given back between the two assignments.
AuthUserUnlocks(c) ==
  /\ At(c, "auth_user", "auth_pass")
  /\ user' = job[c].new[1]
  /\ Unlock(c)
  /\ UNCHANGED <<labels, pass, flash, buf, job, seen, flashFailed>>

AuthUser(c) ==
  /\ At(c, "auth_user", "auth_pass")
  /\ user' = job[c].new[1]
  /\ UNCHANGED <<labels, pass, flash, lock, buf, job, seen, flashFailed>>

\* Mutant: the new pair is used at once but not saved.
AuthPassSavesNot(c) ==
  /\ At(c, "auth_pass", "idle")
  /\ pass' = job[c].new[2]
  /\ Unlock(c)
  /\ Done(c)
  /\ UNCHANGED <<labels, user, flash, buf, seen, flashFailed>>

AuthPass(c) ==
  /\ At(c, "auth_pass", "save_lock")
  /\ pass' = job[c].new[2]
  /\ Unlock(c)
  /\ UNCHANGED <<labels, user, flash, buf, job, seen, flashFailed>>

\* checkAuth copies the pair under the mutex and compares the copy.
LoginLock(c) ==
  /\ At(c, "idle", "login")
  /\ Lock(c)
  /\ job' = [job EXCEPT ![c] = [kind |-> "login"]]
  /\ UNCHANGED <<ram, flash, buf, seen, flashFailed>>

Login(c) ==
  /\ At(c, "login", "idle")
  /\ seen' = <<user, pass>>
  /\ Unlock(c)
  /\ Done(c)
  /\ UNCHANGED <<ram, flash, buf, flashFailed>>

-----------------------------------------------------------------------------
(* storeSave                                                               *)

\* Mutant: a save is skipped while another one is in progress.
SaveLockOrSkip(c) ==
  /\ \/ At(c, "save_lock", "erase") /\ Lock(c) /\ buf' = InRam /\ UNCHANGED job
     \/ /\ lock # NoOne
        /\ At(c, "save_lock", "idle") /\ Done(c) /\ UNCHANGED <<lock, buf>>
  /\ UNCHANGED <<ram, flash, seen, flashFailed>>

\* The sector's new contents are put together under the mutex.
SaveLock(c) ==
  /\ At(c, "save_lock", "erase")
  /\ Lock(c)
  /\ buf' = InRam
  /\ UNCHANGED <<ram, flash, job, seen, flashFailed>>

\* Mutant: the error return of storeSave forgets to unlock.
EraseKeepsLock(c) ==
  /\ \/ At(c, "erase", "write") /\ flash' = Blank /\ UNCHANGED flashFailed
     \/ /\ FlashFails
        /\ At(c, "erase", "failed")
        /\ flash' \in {flash, Blank}
  /\ UNCHANGED <<ram, lock, buf, job, seen>>

Erase(c) ==
  /\ \/ /\ At(c, "erase", "write")
        /\ flash' = Blank
        /\ UNCHANGED <<lock, flashFailed>>
     \/ /\ FlashFails
        /\ At(c, "erase", "failed")
        /\ flash' \in {flash, Blank}
        /\ Unlock(c)
  /\ UNCHANGED <<ram, buf, job, seen>>

Write(c) ==
  /\ \/ At(c, "write", "idle") /\ flash' = buf /\ Done(c) /\ UNCHANGED flashFailed
     \/ At(c, "write", "failed") /\ FlashFails /\ UNCHANGED <<flash, job>>
  /\ Unlock(c)
  /\ UNCHANGED <<ram, buf, seen>>

-----------------------------------------------------------------------------
(* The save failed: the handler puts back what it had found.               *)

UndoLabel(c) ==
  /\ pc[c] = "failed" /\ job[c].kind = "label"
  /\ labels' = [labels EXCEPT ![job[c].id] = job[c].old]
  /\ pc' = [pc EXCEPT ![c] = "idle"]
  /\ Done(c)
  /\ UNCHANGED <<user, pass, flash, lock, buf, seen, flashFailed>>

UndoAuthLock(c) ==
  /\ job[c] # NoJob /\ job[c].kind = "auth"
  /\ At(c, "failed", "undo_user")
  /\ Lock(c)
  /\ UNCHANGED <<ram, flash, buf, job, seen, flashFailed>>

UndoUser(c) ==
  /\ At(c, "undo_user", "undo_pass")
  /\ user' = job[c].old[1]
  /\ UNCHANGED <<labels, pass, flash, lock, buf, job, seen, flashFailed>>

UndoPass(c) ==
  /\ At(c, "undo_pass", "idle")
  /\ pass' = job[c].old[2]
  /\ Unlock(c)
  /\ Done(c)
  /\ UNCHANGED <<labels, user, flash, buf, seen, flashFailed>>

-----------------------------------------------------------------------------
\* A restart: storeLoad reads the sector, or cannot and takes the defaults.
Restart(s) ==
  /\ labels' = s.labels /\ user' = s.user /\ pass' = s.pass
  /\ lock' = NoOne /\ buf' = Blank
  /\ pc' = [c \in Conn |-> "idle"]
  /\ job' = [c \in Conn |-> NoJob]
  /\ UNCHANGED <<flash, seen>>

PowerCut ==
  /\ PowerCuts
  /\ \/ Restart(Load(flash)) /\ UNCHANGED flashFailed
     \/ Restart(Default) /\ FlashFails

Next ==
  \/ \E c \in Conn :
       \/ \E p \in PC, name \in Text : SetLabel(c, p, name)
       \/ \E pair \in Credentials : AuthLock(c, pair)
       \/ AuthUser(c) \/ AuthPass(c)
       \/ LoginLock(c) \/ Login(c)
       \/ SaveLock(c) \/ Erase(c) \/ Write(c)
       \/ UndoLabel(c) \/ UndoAuthLock(c) \/ UndoUser(c) \/ UndoPass(c)
  \/ PowerCut

Spec == Init /\ [][Next]_vars

-----------------------------------------------------------------------------
Reloaded(pair) == <<Or(pair[1], DefaultUser), Or(pair[2], DefaultPass)>>

\* The pairs somebody has asked for, as they are or as a boot reads them back.
Known ==
  LET asked == Credentials \cup {<<DefaultUser, DefaultPass>>}
  IN  asked \cup {Reloaded(pair) : pair \in asked}

(* No half-changed credentials: whoever is let in or refused was compared   *)
(* with a pair that was set as a pair, and only such a pair is ever saved,  *)
(* whatever changes, saves, failures and power cuts overlap.                *)
NoTornCredentials ==
  /\ seen \in Known
  /\ lock = NoOne => <<user, pass>> \in Known
  /\ \A s \in {buf, flash} \ {Blank} : <<s.user, s.pass>> \in Known

(* Once all requests are answered a restart brings back every label, the    *)
(* user and the password as they are, but for a text that fixedStr and cStr *)
(* do not keep whole (one with a zero byte), in whatever order the handlers *)
(* changed and saved them and wherever the power had failed before, as long *)
(* as no flash call fails.                                                  *)
QuiescentIsSaved ==
  ~flashFailed /\ (\A c \in Conn : pc[c] = "idle") =>
    LET s == Load(flash) IN
      /\ \A p \in PC : Kept[labels[p]] = labels[p] => s.labels[p] = labels[p]
      /\ Kept[user] = user => s.user = user
      /\ Kept[pass] = pass => s.pass = pass

(* A power cut spares a user and a password that fixedStr and cStr keep     *)
(* whole, unless it meets the erased sector or a change of the credentials: *)
(* a save of a label, in progress or broken off, does not bring back older  *)
(* ones.                                                                    *)
CutsSpareCredentials ==
  [][PowerCut /\ flash # Blank /\ ~flashFailed'
     /\ (\A c \in Conn : job[c] = NoJob \/ job[c].kind # "auth")
       => /\ Kept[user] = user => user' = user
          /\ Kept[pass] = pass => pass' = pass]_vars

=============================================================================
