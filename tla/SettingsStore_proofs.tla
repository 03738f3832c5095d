------------------------- MODULE SettingsStore_proofs -------------------------
(***************************************************************************)
(* Proofs about SettingsStore, for any connections, texts and faults.      *)
(*                                                                         *)
(* Three facts carry them.  What storeLoad reads back it reads back        *)
(* unchanged the next time (LoadTwice); the pair of credentials changes    *)
(* only under the mutex, so from the lock of a save to its write the       *)
(* buffer holds the pair in RAM (BufIsRam); and while a change is not yet  *)
(* saved its goroutine is still on the way to a save (Pending).            *)
(***************************************************************************)
EXTENDS SettingsStore, TLAPS

\* What a text comes back as is a text that comes back as itself.
LEMMA OrTwice ==
  ASSUME NEW t \in Text, NEW d \in Text, Kept[d] = d
  PROVE  Or(t, d) \in Text /\ Or(Or(t, d), d) = Or(t, d)
  BY StoreAssumption DEF StoreAssumption, Or

LEMMA DefaultTyped == Default \in Settings /\ Default # Blank
  BY StoreAssumption, BlankAssumption
     DEF StoreAssumption, BlankAssumption, Default, Settings

\* What a boot makes of a sector is a proper set of settings.
LEMMA LoadTyped ==
  ASSUME NEW f \in Settings \cup {Blank}
  PROVE  Load(f) \in Settings
  <1>1. CASE f = Blank
    BY <1>1, DefaultTyped DEF Load
  <1>2. CASE f # Blank
    <2>1. f \in Settings
      BY <1>2
    <2>2. \A p \in PC : f.labels[p] \in Text /\ PcName[p] \in Text /\ Kept[PcName[p]] = PcName[p]
      BY <2>1, StoreAssumption DEF StoreAssumption, Settings
    <2>3. \A p \in PC : Or(f.labels[p], PcName[p]) \in Text
      BY <2>2, OrTwice
    <2>4. f.user \in Text /\ f.pass \in Text /\ DefaultUser \in Text /\ DefaultPass \in Text
          /\ Kept[DefaultUser] = DefaultUser /\ Kept[DefaultPass] = DefaultPass
      BY <2>1, StoreAssumption DEF StoreAssumption, Settings
    <2>5. Or(f.user, DefaultUser) \in Text /\ Or(f.pass, DefaultPass) \in Text
      BY <2>4, OrTwice
    <2> QED
      BY <1>2, <2>3, <2>5 DEF Load, Settings
  <1> QED
    BY <1>1, <1>2

\* A second restart changes nothing.
LEMMA LoadTwice ==
  ASSUME NEW f \in Settings \cup {Blank}
  PROVE  Load(Load(f)) = Load(f)
  <1> DEFINE g == Load(f)
  <1>1. g \in Settings /\ g # Blank
    BY LoadTyped, BlankAssumption DEF BlankAssumption
  <1>2. \A p \in PC : PcName[p] \in Text /\ Kept[PcName[p]] = PcName[p]
    BY StoreAssumption DEF StoreAssumption
  <1>3. DefaultUser \in Text /\ DefaultPass \in Text
        /\ Kept[DefaultUser] = DefaultUser /\ Kept[DefaultPass] = DefaultPass
    BY StoreAssumption DEF StoreAssumption
  <1>4. /\ \A p \in PC : Or(g.labels[p], PcName[p]) = g.labels[p]
        /\ Or(g.user, DefaultUser) = g.user /\ Or(g.pass, DefaultPass) = g.pass
    <2>1. CASE f = Blank
      <3>1. g = Default
        BY <2>1 DEF Load
      <3>2. \A t \in Text : Kept[t] = t => Or(t, t) = t
        BY StoreAssumption DEF StoreAssumption, Or
      <3> QED
        BY <3>1, <3>2, <1>2, <1>3 DEF Default
    <2>2. CASE f # Blank
      <3>1. f \in Settings
        BY <2>2
      <3>2. g = [labels |-> [p \in PC |-> Or(f.labels[p], PcName[p])],
                 user   |-> Or(f.user, DefaultUser),
                 pass   |-> Or(f.pass, DefaultPass)]
        BY <2>2 DEF Load
      <3>3. f.user \in Text /\ f.pass \in Text /\ \A p \in PC : f.labels[p] \in Text
        BY <3>1 DEF Settings
      <3>4. \A p \in PC : Or(g.labels[p], PcName[p]) = g.labels[p]
        BY <3>2, <3>3, <1>2, OrTwice
      <3>5. Or(g.user, DefaultUser) = g.user /\ Or(g.pass, DefaultPass) = g.pass
        BY <3>2, <3>3, <1>3, OrTwice
      <3> QED
        BY <3>4, <3>5
    <2> QED
      BY <2>1, <2>2
  <1>5. [p \in PC |-> Or(g.labels[p], PcName[p])] = g.labels
    <2>1. g.labels \in [PC -> Text]
      BY <1>1 DEF Settings
    <2> QED
      BY <2>1, <1>4
  <1>6. g = [labels |-> g.labels, user |-> g.user, pass |-> g.pass]
    BY <1>1 DEF Settings
  <1>7. Load(g) = [labels |-> [p \in PC |-> Or(g.labels[p], PcName[p])],
                   user   |-> Or(g.user, DefaultUser),
                   pass   |-> Or(g.pass, DefaultPass)]
    BY <1>1 DEF Load
  <1> HIDE DEF g
  <1>8. Load(g) = g
    BY <1>4, <1>5, <1>6, <1>7
  <1> QED
    BY <1>8 DEF g

-----------------------------------------------------------------------------
(* Types                                                                   *)

\* A goroutine in the middle of a request has the job of that request.
JobOK ==
  \A c \in Conn :
    /\ pc[c] \in AuthPc => job[c] \in AuthJob
    /\ pc[c] \in SavePc \cup {"save_lock", "failed"} => job[c] \in LabelJob \cup AuthJob
    /\ pc[c] = "idle" => job[c] = NoJob

TypeInv == TypeOK /\ JobOK

LEMMA InitTypeInv == Init => TypeInv
  <1> SUFFICES ASSUME Init PROVE TypeInv
    OBVIOUS
  <1>1. TypeOK
    <2>1. flashFailed \in BOOLEAN
      BY Zenon DEF Init
    <2> QED
      BY <2>1, StoreAssumption DEF Init, TypeOK, StoreAssumption, AuthPc, SavePc
  <1>2. JobOK
    BY DEF Init, JobOK, AuthPc, SavePc
  <1> QED
    BY <1>1, <1>2 DEF TypeInv

LEMMA NextTypeInv == TypeInv /\ [Next]_vars => TypeInv'
  <1> SUFFICES ASSUME TypeInv, [Next]_vars PROVE TypeInv'
    OBVIOUS
  <1> USE StoreAssumption DEF StoreAssumption
  <1>0. TypeOK /\ JobOK
    BY DEF TypeInv
  <1>f. flashFailed' \in BOOLEAN
    BY <1>0 DEF TypeOK, Next, vars, ram, SetLabel, AuthLock, AuthUser, AuthPass, LoginLock, Login,
       SaveLock, Erase, Write, UndoLabel, UndoAuthLock, UndoUser, UndoPass, PowerCut, Restart,
       FlashFails
  <1> DEFINE Typed == TypeOK' /\ JobOK'
  <1>1. ASSUME NEW c \in Conn, NEW p \in PC, NEW name \in Text, SetLabel(c, p, name) PROVE Typed
    BY <1>0, <1>1, <1>f DEF TypeOK, JobOK, SetLabel, At, LabelJob, AuthPc, SavePc
  <1>2. ASSUME NEW c \in Conn, NEW pair \in Credentials, AuthLock(c, pair) PROVE Typed
    BY <1>0, <1>2, <1>f DEF TypeOK, JobOK, AuthLock, Lock, At, ram, AuthJob, AuthPc, SavePc
  <1>3. ASSUME NEW c \in Conn, AuthUser(c) PROVE Typed
    <2>1. job[c].new \in Text \X Text
      BY <1>0, <1>3 DEF TypeOK, JobOK, AuthUser, At, AuthJob, AuthPc
    <2> QED
      BY <2>1, <1>0, <1>3, <1>f DEF TypeOK, JobOK, AuthUser, At, AuthPc, SavePc
  <1>4. ASSUME NEW c \in Conn, AuthPass(c) PROVE Typed
    <2>1. job[c].new \in Text \X Text /\ job[c] \in AuthJob
      BY <1>0, <1>4 DEF TypeOK, JobOK, AuthPass, At, AuthJob, AuthPc
    <2> QED
      BY <2>1, <1>0, <1>4, <1>f DEF TypeOK, JobOK, AuthPass, Unlock, At, AuthPc, SavePc
  <1>5. ASSUME NEW c \in Conn, LoginLock(c) PROVE Typed
    BY <1>0, <1>5, <1>f DEF TypeOK, JobOK, LoginLock, Lock, At, ram, LoginJob, AuthPc, SavePc
  <1>6. ASSUME NEW c \in Conn, Login(c) PROVE Typed
    BY <1>0, <1>6, <1>f DEF TypeOK, JobOK, Login, Unlock, Done, At, ram, AuthPc, SavePc
  <1>7. ASSUME NEW c \in Conn, SaveLock(c) PROVE Typed
    BY <1>0, <1>7, <1>f DEF TypeOK, JobOK, SaveLock, Lock, At, ram, InRam, Settings, AuthPc, SavePc
  <1>8. ASSUME NEW c \in Conn, Erase(c) PROVE Typed
    BY <1>0, <1>8, <1>f DEF TypeOK, JobOK, Erase, Unlock, At, ram, AuthPc, SavePc
  <1>9. ASSUME NEW c \in Conn, Write(c) PROVE Typed
    BY <1>0, <1>9, <1>f DEF TypeOK, JobOK, Write, Unlock, Done, At, ram, AuthPc, SavePc
  <1>10. ASSUME NEW c \in Conn, UndoLabel(c) PROVE Typed
    <2>1. job[c] \in LabelJob
      BY <1>0, <1>10 DEF JobOK, UndoLabel, LabelJob, AuthJob
    <2>2. job[c].old \in Text
      BY <2>1 DEF LabelJob
    <2>3. labels' \in [PC -> Text]
      BY <2>2, <1>0, <1>10 DEF TypeOK, UndoLabel
    <2>4. pc[c] = "failed" /\ pc' = [pc EXCEPT ![c] = "idle"] /\ job' = [job EXCEPT ![c] = NoJob]
          /\ UNCHANGED <<user, pass, flash, lock, buf, seen, flashFailed>>
      BY <1>10 DEF UndoLabel, Done
    <2> QED
      BY <2>3, <2>4, <1>0, <1>f DEF TypeOK, JobOK, AuthPc, SavePc
  <1>11. ASSUME NEW c \in Conn, UndoAuthLock(c) PROVE Typed
    <2>1. job[c] \in AuthJob
      BY <1>0, <1>11 DEF JobOK, UndoAuthLock, At, LabelJob, AuthJob
    <2> QED
      BY <2>1, <1>0, <1>11, <1>f DEF TypeOK, JobOK, UndoAuthLock, Lock, At, ram, AuthPc, SavePc
  <1>12. ASSUME NEW c \in Conn, UndoUser(c) PROVE Typed
    <2>1. job[c].old \in Text \X Text
      BY <1>0, <1>12 DEF JobOK, UndoUser, At, AuthJob, AuthPc
    <2> QED
      BY <2>1, <1>0, <1>12, <1>f DEF TypeOK, JobOK, UndoUser, At, AuthPc, SavePc
  <1>13. ASSUME NEW c \in Conn, UndoPass(c) PROVE Typed
    <2>1. job[c].old \in Text \X Text
      BY <1>0, <1>13 DEF JobOK, UndoPass, At, AuthJob, AuthPc
    <2> QED
      BY <2>1, <1>0, <1>13, <1>f DEF TypeOK, JobOK, UndoPass, Unlock, Done, At, AuthPc, SavePc
  <1>14. ASSUME PowerCut PROVE Typed
    <2>1. PICK s \in Settings : Restart(s)
      <3>1. Load(flash) \in Settings
        BY <1>0, LoadTyped DEF TypeOK
      <3> QED
        BY <1>14, <3>1, DefaultTyped DEF PowerCut
    <2>2. s.labels \in [PC -> Text] /\ s.user \in Text /\ s.pass \in Text
      BY DEF Settings
    <2> QED
      BY <2>1, <2>2, <1>0, <1>f DEF TypeOK, JobOK, Restart, AuthPc, SavePc
  <1>15. ASSUME UNCHANGED vars PROVE Typed
    BY <1>0, <1>15 DEF TypeOK, JobOK, vars, ram
  <1>16. Typed
    BY <1>1, <1>2, <1>3, <1>4, <1>5, <1>6, <1>7, <1>8, <1>9, <1>10, <1>11, <1>12, <1>13,
       <1>14, <1>15 DEF Next
  <1> QED
    BY <1>16 DEF TypeInv

(* The settings keep their types, and the goroutine between a lock and its  *)
(* unlock is the one that holds storeMu, on every path through the handlers *)
(* and storeSave, the error returns included.                               *)
THEOREM TypeCorrect == Spec => []TypeOK
  <1>1. TypeInv => TypeOK
    BY DEF TypeInv
  <1> QED
    BY <1>1, InitTypeInv, NextTypeInv, PTL DEF Spec

-----------------------------------------------------------------------------
(* Credentials                                                             *)

LEMMA KnownFacts ==
  /\ Known \subseteq Text \X Text
  /\ Credentials \subseteq Known
  /\ <<DefaultUser, DefaultPass>> \in Known
  /\ \A pair \in Known : Reloaded(pair) \in Known
  <1> DEFINE asked == Credentials \cup {<<DefaultUser, DefaultPass>>}
  <1>1. asked \subseteq Text \X Text
    BY StoreAssumption DEF StoreAssumption
  <1>2. Known = asked \cup {Reloaded(pair) : pair \in asked}
    BY DEF Known
  <1>3. \A pair \in Text \X Text :
          Reloaded(pair) \in Text \X Text /\ Reloaded(Reloaded(pair)) = Reloaded(pair)
    <2> SUFFICES ASSUME NEW pair \in Text \X Text
                 PROVE  Reloaded(pair) \in Text \X Text
                        /\ Reloaded(Reloaded(pair)) = Reloaded(pair)
      OBVIOUS
    <2>1. /\ DefaultUser \in Text /\ Kept[DefaultUser] = DefaultUser
          /\ DefaultPass \in Text /\ Kept[DefaultPass] = DefaultPass
      BY StoreAssumption DEF StoreAssumption
    <2>2. pair[1] \in Text /\ pair[2] \in Text
      OBVIOUS
    <2>3. Or(pair[1], DefaultUser) \in Text
          /\ Or(Or(pair[1], DefaultUser), DefaultUser) = Or(pair[1], DefaultUser)
      BY <2>1, <2>2, OrTwice
    <2>4. Or(pair[2], DefaultPass) \in Text
          /\ Or(Or(pair[2], DefaultPass), DefaultPass) = Or(pair[2], DefaultPass)
      BY <2>1, <2>2, OrTwice
    <2> QED
      BY <2>3, <2>4 DEF Reloaded
  <1> HIDE DEF asked
  <1>4. \A pair \in Known : Reloaded(pair) \in Known
    BY <1>1, <1>2, <1>3
  <1>5. Credentials \subseteq asked /\ <<DefaultUser, DefaultPass>> \in asked
    BY DEF asked
  <1> QED
    BY <1>1, <1>2, <1>3, <1>4, <1>5

\* The pair of a sector or a buffer.
PairOf(s) == <<s.user, s.pass>>

LEMMA LoadPair ==
  /\ \A f \in Settings : f # Blank => PairOf(Load(f)) = Reloaded(PairOf(f))
  /\ PairOf(Load(Blank)) = <<DefaultUser, DefaultPass>>
  /\ PairOf(Default) = <<DefaultUser, DefaultPass>>
  BY DEF Load, PairOf, Reloaded, Default

\* Only between the two assignments, under the mutex, is the pair in RAM not
\* one that was set as a pair; the goroutine in between knows the first half.
CredInv ==
  /\ seen \in Known
  /\ (\A c \in Conn : pc[c] \notin {"auth_pass", "undo_pass"}) => <<user, pass>> \in Known
  /\ buf # Blank => PairOf(buf) \in Known
  /\ flash # Blank => PairOf(flash) \in Known
  /\ \A c \in Conn :
       /\ job[c] \in AuthJob => job[c].old \in Known
       /\ pc[c] = "auth_pass" => user = job[c].new[1]
       /\ pc[c] = "undo_pass" => user = job[c].old[1]

LEMMA InitCredInv == Init => CredInv
  BY KnownFacts, JobAssumption DEF Init, CredInv, JobAssumption

LEMMA NextCredInv == TypeInv /\ CredInv /\ [Next]_vars => CredInv'
  <1> SUFFICES ASSUME TypeInv, CredInv, [Next]_vars PROVE CredInv'
    OBVIOUS
  <1>0. TypeOK /\ JobOK
    BY DEF TypeInv
  <1>m. \A c, d \in Conn : pc[c] \in AuthPc \cup SavePc \cup {"login"}
                           /\ pc[d] \in AuthPc \cup SavePc \cup {"login"} => c = d
    BY <1>0 DEF TypeOK
  <1>u. lock = NoOne => \A c \in Conn : pc[c] \notin AuthPc
    BY <1>0, StoreAssumption DEF TypeOK, StoreAssumption
  <1>1. ASSUME NEW c \in Conn, NEW p \in PC, NEW name \in Text, SetLabel(c, p, name) PROVE CredInv'
    BY <1>0, <1>1 DEF TypeOK, CredInv, SetLabel, At, AuthJob
  <1>2. ASSUME NEW c \in Conn, NEW pair \in Credentials, AuthLock(c, pair) PROVE CredInv'
    <2>1. <<user, pass>> \in Known
      BY <1>u, <1>2 DEF CredInv, AuthLock, Lock, AuthPc
    <2> QED
      BY <2>1, <1>0, <1>2 DEF TypeOK, CredInv, AuthLock, Lock, At, ram, AuthJob
  <1>3. ASSUME NEW c \in Conn, AuthUser(c) PROVE CredInv'
    <2>1. \A d \in Conn : d # c => pc[d] \notin AuthPc
      BY <1>m, <1>3 DEF AuthUser, At, AuthPc
    <2> QED
      BY <2>1, <1>0, <1>3 DEF TypeOK, CredInv, AuthUser, At, AuthPc
  <1>4. ASSUME NEW c \in Conn, AuthPass(c) PROVE CredInv'
    <2>1. \A d \in Conn : d # c => pc[d] \notin AuthPc
      BY <1>m, <1>4 DEF AuthPass, At, AuthPc
    <2>2. job[c].new \in Credentials /\ Credentials \subseteq Text \X Text
      BY <1>0, <1>4, StoreAssumption DEF JobOK, AuthPass, At, AuthPc, AuthJob, StoreAssumption
    <2>3. <<user', pass'>> = job[c].new
      BY <2>2, <1>4 DEF CredInv, AuthPass, At
    <2>4. <<user', pass'>> \in Known
      BY <2>2, <2>3, KnownFacts
    <2> QED
      BY <2>1, <2>4, <1>0, <1>4 DEF TypeOK, CredInv, AuthPass, At, AuthPc
  <1>5. ASSUME NEW c \in Conn, LoginLock(c) PROVE CredInv'
    BY <1>0, <1>5 DEF TypeOK, CredInv, LoginLock, At, ram, AuthJob
  <1>6. ASSUME NEW c \in Conn, Login(c) PROVE CredInv'
    <2>1. \A d \in Conn : pc[d] \notin AuthPc
      BY <1>m, <1>6 DEF Login, At, AuthPc
    <2>2. <<user, pass>> \in Known
      BY <2>1 DEF CredInv, AuthPc
    <2> QED
      BY <2>2, <1>0, <1>6, JobAssumption DEF TypeOK, CredInv, Login, Done, At, ram, JobAssumption
  <1>7. ASSUME NEW c \in Conn, SaveLock(c) PROVE CredInv'
    <2>1. <<user, pass>> \in Known
      BY <1>u, <1>7 DEF CredInv, SaveLock, Lock, AuthPc
    <2>2. PairOf(buf') = <<user, pass>>
      BY <1>7 DEF SaveLock, InRam, PairOf
    <2> QED
      BY <2>1, <2>2, <1>0, <1>7 DEF TypeOK, CredInv, SaveLock, At, ram
  <1>8. ASSUME NEW c \in Conn, Erase(c) PROVE CredInv'
    BY <1>0, <1>8 DEF TypeOK, CredInv, Erase, At, ram
  <1>9. ASSUME NEW c \in Conn, Write(c) PROVE CredInv'
    BY <1>0, <1>9, JobAssumption DEF TypeOK, CredInv, Write, Done, At, ram, JobAssumption
  <1>10. ASSUME NEW c \in Conn, UndoLabel(c) PROVE CredInv'
    BY <1>0, <1>10, JobAssumption DEF TypeOK, CredInv, UndoLabel, Done, JobAssumption
  <1>11. ASSUME NEW c \in Conn, UndoAuthLock(c) PROVE CredInv'
    BY <1>0, <1>11 DEF TypeOK, CredInv, UndoAuthLock, At, ram
  <1>12. ASSUME NEW c \in Conn, UndoUser(c) PROVE CredInv'
    <2>1. \A d \in Conn : d # c => pc[d] \notin AuthPc
      BY <1>m, <1>12 DEF UndoUser, At, AuthPc
    <2> QED
      BY <2>1, <1>0, <1>12 DEF TypeOK, CredInv, UndoUser, At, AuthPc
  <1>13. ASSUME NEW c \in Conn, UndoPass(c) PROVE CredInv'
    <2>1. \A d \in Conn : d # c => pc[d] \notin AuthPc
      BY <1>m, <1>13 DEF UndoPass, At, AuthPc
    <2>2. job[c].old \in Known /\ job[c].old \in Text \X Text
      BY <1>0, <1>13, KnownFacts DEF JobOK, CredInv, UndoPass, At, AuthPc
    <2>3. <<user', pass'>> = job[c].old
      BY <2>2, <1>13 DEF CredInv, UndoPass, At
    <2> QED
      BY <2>1, <2>2, <2>3, <1>0, <1>13, JobAssumption
         DEF TypeOK, CredInv, UndoPass, Done, At, AuthPc, JobAssumption
  <1>14. ASSUME PowerCut PROVE CredInv'
    <2>1. PICK s \in {Load(flash), Default} : Restart(s)
      BY <1>14 DEF PowerCut
    <2>2. PairOf(s) \in Known
      <3>1. flash # Blank => PairOf(Load(flash)) \in Known
        BY <1>0, LoadPair, KnownFacts DEF TypeOK, CredInv
      <3>2. PairOf(Load(Blank)) \in Known /\ PairOf(Default) \in Known
        BY LoadPair, KnownFacts
      <3> QED
        BY <3>1, <3>2
    <2> QED
      BY <2>1, <2>2, JobAssumption DEF CredInv, Restart, PairOf, JobAssumption
  <1>15. ASSUME UNCHANGED vars PROVE CredInv'
    BY <1>15 DEF CredInv, vars, ram
  <1> QED
    BY <1>1, <1>2, <1>3, <1>4, <1>5, <1>6, <1>7, <1>8, <1>9, <1>10, <1>11, <1>12, <1>13,
       <1>14, <1>15 DEF Next

(* For any number of connections, whoever is let in or refused was compared *)
(* with a pair that was set as a pair (checkAuth), and only such a pair is  *)
(* ever saved by storeSave or brought back by storeLoad.                    *)
THEOREM NeverTornCredentials == Spec => []NoTornCredentials
  <1>1. TypeInv /\ CredInv => NoTornCredentials
    <2> SUFFICES ASSUME TypeInv, CredInv PROVE NoTornCredentials
      OBVIOUS
    <2>1. lock = NoOne => \A c \in Conn : pc[c] \notin {"auth_pass", "undo_pass"}
      BY StoreAssumption DEF TypeInv, TypeOK, StoreAssumption, AuthPc
    <2> QED
      BY <2>1 DEF CredInv, NoTornCredentials, PairOf
  <1> QED
    BY <1>1, InitTypeInv, NextTypeInv, InitCredInv, NextCredInv, PTL DEF Spec

-----------------------------------------------------------------------------
(* What is on flash                                                        *)

\* The pair does not change between the lock of a save and its write.
BufIsRam ==
  \A c \in Conn : pc[c] \in SavePc => buf # Blank /\ PairOf(buf) = <<user, pass>>

\* As long as no flash call has failed: a change that is not on flash has a
\* goroutine that has yet to take the lock of its save, or a save is on its
\* way that holds all there is in RAM.
Pending ==
  (\A c \in Conn : pc[c] \notin {"save_lock", "auth_user", "auth_pass"}) =>
    /\ (\A c \in Conn : pc[c] \notin SavePc) => Load(flash) = Load(InRam)
    /\ \A c \in Conn : pc[c] \in SavePc => buf = InRam

\* The pair on flash is the one in RAM but for changes that are not answered.
PairOnFlash ==
  flash # Blank /\ (\A c \in Conn : job[c] \notin AuthJob) =>
    Reloaded(PairOf(flash)) = Reloaded(<<user, pass>>)

SavedInv ==
  /\ BufIsRam
  /\ \A c \in Conn : pc[c] = "login" => job[c] \notin AuthJob
  /\ ~flashFailed =>
       /\ \A c \in Conn : pc[c] \notin {"failed", "undo_user", "undo_pass"}
       /\ Pending
       /\ PairOnFlash

LEMMA InitSavedInv == Init => SavedInv
  <1> SUFFICES ASSUME Init PROVE SavedInv
    OBVIOUS
  <1>1. Load(flash) = Default /\ InRam = Default
    BY DEF Init, Load, InRam, Default
  <1>2. Load(Default) = Default
    BY <1>1, LoadTwice DEF Init
  <1> QED
    BY <1>1, <1>2 DEF Init, SavedInv, BufIsRam, Pending, PairOnFlash, SavePc

LEMMA NextSavedInv == TypeInv /\ SavedInv /\ [Next]_vars => SavedInv'
  <1> SUFFICES ASSUME TypeInv, SavedInv, [Next]_vars PROVE SavedInv'
    OBVIOUS
  <1>0. TypeOK /\ JobOK
    BY DEF TypeInv
  <1>m. \A c, d \in Conn : pc[c] \in AuthPc \cup SavePc \cup {"login"}
                           /\ pc[d] \in AuthPc \cup SavePc \cup {"login"} => c = d
    BY <1>0 DEF TypeOK
  <1>u. lock = NoOne => \A c \in Conn : pc[c] \notin AuthPc \cup SavePc
    BY <1>0, StoreAssumption DEF TypeOK, StoreAssumption
  <1>1. ASSUME NEW c \in Conn, NEW p \in PC, NEW name \in Text, SetLabel(c, p, name) PROVE SavedInv'
    <2>1. job[c] \notin AuthJob
      BY <1>0, <1>1, JobAssumption DEF JobOK, SetLabel, At, JobAssumption
    <2> QED
      BY <2>1, <1>0, <1>1
         DEF TypeOK, SavedInv, BufIsRam, Pending, PairOnFlash, SetLabel, At, AuthJob, SavePc
  <1>2. ASSUME NEW c \in Conn, NEW pair \in Credentials, AuthLock(c, pair) PROVE SavedInv'
    <2>1. job'[c] \in AuthJob
      BY <1>0, <1>2 DEF TypeOK, AuthLock, AuthJob
    <2> QED
      BY <2>1, <1>0, <1>2 DEF TypeOK, SavedInv, BufIsRam, Pending, PairOnFlash, AuthLock, At, ram, SavePc
  <1>3. ASSUME NEW c \in Conn, AuthUser(c) PROVE SavedInv'
    <2>1. \A d \in Conn : pc[d] \notin SavePc
      BY <1>m, <1>3 DEF AuthUser, At, AuthPc, SavePc
    <2>2. job[c] \in AuthJob
      BY <1>0, <1>3 DEF JobOK, AuthUser, At, AuthPc
    <2> QED
      BY <2>1, <2>2, <1>0, <1>3
         DEF TypeOK, SavedInv, BufIsRam, Pending, PairOnFlash, AuthUser, At, SavePc
  <1>4. ASSUME NEW c \in Conn, AuthPass(c) PROVE SavedInv'
    <2>1. \A d \in Conn : pc[d] \notin SavePc
      BY <1>m, <1>4 DEF AuthPass, At, AuthPc, SavePc
    <2>2. job[c] \in AuthJob
      BY <1>0, <1>4 DEF JobOK, AuthPass, At, AuthPc
    <2> QED
      BY <2>1, <2>2, <1>0, <1>4
         DEF TypeOK, SavedInv, BufIsRam, Pending, PairOnFlash, AuthPass, At, SavePc
  <1>5. ASSUME NEW c \in Conn, LoginLock(c) PROVE SavedInv'
    <2>1. job[c] \notin AuthJob /\ job'[c] \notin AuthJob
      BY <1>0, <1>5, JobAssumption DEF TypeOK, JobOK, LoginLock, At, JobAssumption, AuthJob
    <2>2. InRam' = InRam
      BY <1>5 DEF LoginLock, ram, InRam
    <2> QED
      BY <2>1, <2>2, <1>0, <1>5
         DEF TypeOK, SavedInv, BufIsRam, Pending, PairOnFlash, LoginLock, At, ram, SavePc
  <1>6. ASSUME NEW c \in Conn, Login(c) PROVE SavedInv'
    <2>1. job[c] \notin AuthJob /\ job'[c] \notin AuthJob
      BY <1>0, <1>6, JobAssumption DEF TypeOK, SavedInv, Login, Done, At, JobAssumption
    <2>2. InRam' = InRam
      BY <1>6 DEF Login, ram, InRam
    <2> QED
      BY <2>1, <2>2, <1>0, <1>6
         DEF TypeOK, SavedInv, BufIsRam, Pending, PairOnFlash, Login, Done, At, ram, SavePc
  <1>7. ASSUME NEW c \in Conn, SaveLock(c) PROVE SavedInv'
    <2>1. \A d \in Conn : pc[d] \notin AuthPc \cup SavePc
      BY <1>u, <1>7 DEF SaveLock, Lock
    <2>2. buf' = InRam /\ InRam' = InRam /\ PairOf(buf') = <<user, pass>> /\ InRam \in Settings
      BY <1>0, <1>7 DEF TypeOK, SaveLock, ram, InRam, PairOf, Settings
    <2>3. buf' # Blank
      BY <2>2, BlankAssumption DEF BlankAssumption
    <2> QED
      BY <2>1, <2>2, <2>3, <1>0, <1>7
         DEF TypeOK, SavedInv, BufIsRam, Pending, PairOnFlash, SaveLock, At, ram, SavePc
  <1>8. ASSUME NEW c \in Conn, Erase(c) PROVE SavedInv'
    <2>1. InRam' = InRam
      BY <1>8 DEF Erase, ram, InRam
    <2>2. flashFailed' \/ (flash' = Blank /\ flashFailed' = flashFailed /\ pc' = [pc EXCEPT ![c] = "write"])
      BY <1>8 DEF Erase, At, FlashFails
    <2>3. pc[c] = "erase" /\ UNCHANGED <<user, pass, buf, job>>
          /\ \/ pc' = [pc EXCEPT ![c] = "write"]
             \/ pc' = [pc EXCEPT ![c] = "failed"]
      BY <1>8 DEF Erase, At, ram
    <2>4. BufIsRam' /\ \A d \in Conn : pc'[d] = "login" => job'[d] \notin AuthJob
      BY <2>3, <1>0 DEF TypeOK, SavedInv, BufIsRam, SavePc
    <2>5. ASSUME ~flashFailed' PROVE /\ \A d \in Conn : pc'[d] \notin {"failed", "undo_user", "undo_pass"}
                                     /\ Pending' /\ PairOnFlash'
      BY <2>1, <2>2, <2>3, <2>5, <1>0 DEF TypeOK, SavedInv, Pending, PairOnFlash, SavePc
    <2> QED
      BY <2>4, <2>5 DEF SavedInv
  <1>9. ASSUME NEW c \in Conn, Write(c) PROVE SavedInv'
    <2>1. InRam' = InRam /\ UNCHANGED <<user, pass, buf>> /\ pc[c] = "write"
      BY <1>9 DEF Write, At, ram, InRam
    <2>2. \A d \in Conn : d # c => pc[d] \notin SavePc
      BY <2>1, <1>m DEF SavePc
    <2>3. buf # Blank /\ PairOf(buf) = <<user, pass>>
      BY <2>1 DEF SavedInv, BufIsRam, SavePc
    <2>4. flashFailed' \/ (/\ flash' = buf /\ flashFailed' = flashFailed
                           /\ pc' = [pc EXCEPT ![c] = "idle"] /\ job' = [job EXCEPT ![c] = NoJob])
      BY <1>9 DEF Write, At, FlashFails, Done
    <2>5. BufIsRam' /\ \A d \in Conn : pc'[d] = "login" => job'[d] \notin AuthJob
      BY <2>1, <2>2, <1>0, <1>9 DEF TypeOK, SavedInv, BufIsRam, Write, At, Done, SavePc
    <2>6. ASSUME ~flashFailed' PROVE /\ \A d \in Conn : pc'[d] \notin {"failed", "undo_user", "undo_pass"}
                                     /\ Pending' /\ PairOnFlash'
      BY <2>1, <2>2, <2>3, <2>4, <2>6, <1>0 DEF TypeOK, SavedInv, Pending, PairOnFlash, SavePc
    <2> QED
      BY <2>5, <2>6 DEF SavedInv
  <1>10. ASSUME NEW c \in Conn, UndoLabel(c) PROVE SavedInv'
    <2>1. flashFailed'
      BY <1>0, <1>10 DEF TypeOK, SavedInv, UndoLabel
    <2> QED
      BY <2>1, <1>0, <1>10 DEF TypeOK, SavedInv, BufIsRam, UndoLabel, Done, SavePc
  <1>11. ASSUME NEW c \in Conn, UndoAuthLock(c) PROVE SavedInv'
    <2>1. flashFailed'
      BY <1>0, <1>11 DEF TypeOK, SavedInv, UndoAuthLock, At
    <2> QED
      BY <2>1, <1>0, <1>11 DEF TypeOK, SavedInv, BufIsRam, UndoAuthLock, At, ram, SavePc
  <1>12. ASSUME NEW c \in Conn, UndoUser(c) PROVE SavedInv'
    <2>1. flashFailed'
      BY <1>0, <1>12 DEF TypeOK, SavedInv, UndoUser, At
    <2>2. \A d \in Conn : pc[d] \notin SavePc
      BY <1>m, <1>12 DEF UndoUser, At, AuthPc, SavePc
    <2> QED
      BY <2>1, <2>2, <1>0, <1>12 DEF TypeOK, SavedInv, BufIsRam, UndoUser, At, SavePc
  <1>13. ASSUME NEW c \in Conn, UndoPass(c) PROVE SavedInv'
    <2>1. flashFailed'
      BY <1>0, <1>13 DEF TypeOK, SavedInv, UndoPass, At
    <2>2. \A d \in Conn : pc[d] \notin SavePc
      BY <1>m, <1>13 DEF UndoPass, At, AuthPc, SavePc
    <2> QED
      BY <2>1, <2>2, <1>0, <1>13 DEF TypeOK, SavedInv, BufIsRam, UndoPass, Done, At, SavePc
  <1>14. ASSUME PowerCut PROVE SavedInv'
    <2>1. \A c \in Conn : pc'[c] = "idle" /\ job'[c] = NoJob
      BY <1>14 DEF PowerCut, Restart
    <2>2. BufIsRam' /\ \A c \in Conn : pc'[c] = "login" => job'[c] \notin AuthJob
      BY <2>1 DEF BufIsRam, SavePc
    <2>3. ASSUME ~flashFailed' PROVE Pending' /\ PairOnFlash'
      <3>1. Restart(Load(flash)) /\ flash' = flash /\ flash \in Settings \cup {Blank}
        BY <1>0, <1>14, <2>3 DEF PowerCut, FlashFails, Restart, TypeOK
      <3>2. Load(flash) \in Settings
        BY <3>1, LoadTyped
      <3>3. InRam' = Load(flash)
        BY <3>1, <3>2 DEF Restart, InRam, Settings
      <3>4. Load(flash') = Load(InRam')
        BY <3>1, <3>3, LoadTwice
      <3>5. <<user', pass'>> = PairOf(Load(flash))
        BY <3>1 DEF Restart, PairOf
      <3>6. Load(Load(flash)) = Load(flash) /\ Load(flash) # Blank
        BY <3>1, <3>2, LoadTwice, BlankAssumption DEF BlankAssumption
      <3>7. flash # Blank => Reloaded(PairOf(flash)) = Reloaded(<<user', pass'>>)
        BY <3>1, <3>2, <3>5, <3>6, LoadPair
      <3> QED
        BY <2>1, <3>1, <3>4, <3>7 DEF Pending, PairOnFlash, SavePc
    <2> QED
      BY <2>1, <2>2, <2>3 DEF SavedInv
  <1>15. ASSUME UNCHANGED vars PROVE SavedInv'
    <2>1. InRam' = InRam
      BY <1>15 DEF vars, ram, InRam
    <2> QED
      BY <2>1, <1>15 DEF SavedInv, BufIsRam, Pending, PairOnFlash, vars, ram
  <1> QED
    BY <1>1, <1>2, <1>3, <1>4, <1>5, <1>6, <1>7, <1>8, <1>9, <1>10, <1>11, <1>12, <1>13,
       <1>14, <1>15 DEF Next

(* For any number of connections, once all requests are answered a restart  *)
(* brings back every label, the user and the password that come back whole  *)
(* from their field as they are in RAM, unless a flash call of storeSave or *)
(* storeLoad has failed.                                                    *)
THEOREM QuiescentIsAlwaysSaved == Spec => []QuiescentIsSaved
  <1>1. TypeInv /\ SavedInv => QuiescentIsSaved
    <2> SUFFICES ASSUME TypeInv, SavedInv, ~flashFailed, \A c \in Conn : pc[c] = "idle"
                 PROVE  /\ \A p \in PC : Kept[labels[p]] = labels[p] =>
                                            Load(flash).labels[p] = labels[p]
                        /\ Kept[user] = user => Load(flash).user = user
                        /\ Kept[pass] = pass => Load(flash).pass = pass
      BY DEF QuiescentIsSaved
    <2>1. Load(flash) = Load(InRam)
      BY DEF SavedInv, Pending, SavePc
    <2>2. /\ labels \in [PC -> Text] /\ user \in Text /\ pass \in Text
          /\ Nothing \notin Text
      BY StoreAssumption DEF TypeInv, TypeOK, StoreAssumption
    <2>3. InRam # Blank
      BY <2>2, BlankAssumption DEF BlankAssumption, InRam, Settings
    <2>4. /\ \A p \in PC : Load(InRam).labels[p] = Or(labels[p], PcName[p])
          /\ Load(InRam).user = Or(user, DefaultUser)
          /\ Load(InRam).pass = Or(pass, DefaultPass)
      BY <2>3 DEF Load, InRam
    <2> QED
      BY <2>1, <2>2, <2>4 DEF Or
  <1> QED
    BY <1>1, InitTypeInv, NextTypeInv, InitSavedInv, NextSavedInv, PTL DEF Spec

(* For any number of connections, a power cut takes credentials that come   *)
(* back whole from their field away only where it meets the erased sector   *)
(* or a change of them.                                                     *)
THEOREM CutsAlwaysSpareCredentials == Spec => CutsSpareCredentials
  <1> DEFINE Spared ==
        PowerCut /\ flash # Blank /\ ~flashFailed'
        /\ (\A c \in Conn : job[c] = NoJob \/ job[c].kind # "auth")
          => /\ Kept[user] = user => user' = user
             /\ Kept[pass] = pass => pass' = pass
  <1>1. TypeInv /\ SavedInv => Spared
    <2> SUFFICES ASSUME TypeInv, SavedInv, PowerCut, flash # Blank, ~flashFailed',
                        \A c \in Conn : job[c] = NoJob \/ job[c].kind # "auth"
                 PROVE  /\ Kept[user] = user => user' = user
                        /\ Kept[pass] = pass => pass' = pass
      OBVIOUS
    <2>1. Restart(Load(flash)) /\ ~flashFailed /\ flash \in Settings
      BY DEF PowerCut, FlashFails, TypeInv, TypeOK
    <2>2. \A c \in Conn : job[c] \notin AuthJob
      BY JobAssumption DEF JobAssumption, AuthJob
    <2>3. Reloaded(PairOf(flash)) = Reloaded(<<user, pass>>)
      BY <2>1, <2>2 DEF SavedInv, PairOnFlash
    <2>4. <<user', pass'>> = PairOf(Load(flash))
      BY <2>1 DEF Restart, PairOf
    <2>5. <<user', pass'>> = Reloaded(<<user, pass>>)
      BY <2>1, <2>3, <2>4, LoadPair
    <2>6. user \in Text /\ pass \in Text /\ Nothing \notin Text
      BY StoreAssumption DEF TypeInv, TypeOK, StoreAssumption
    <2>7. user' = Or(user, DefaultUser) /\ pass' = Or(pass, DefaultPass)
      BY <2>5 DEF Reloaded
    <2> QED
      BY <2>6, <2>7 DEF Or
  <1>2. TypeInv /\ SavedInv /\ [Next]_vars => [Spared]_vars
    BY <1>1
  <1> QED
    BY <1>2, InitTypeInv, NextTypeInv, InitSavedInv, NextSavedInv, PTL DEF Spec, CutsSpareCredentials

=============================================================================
