-------------------------- MODULE OtaUpdate_proofs --------------------------
(***************************************************************************)
(* What OtaUpdate guarantees for every set of images and every behaviour   *)
(* of them: type correctness under all faults; the way back with at most   *)
(* one failing flash operation; and, before the first and with replies     *)
(* that arrive, the trial.  Power cuts and outages fall anywhere.          *)
(***************************************************************************)
EXTENDS OtaUpdate, TLAPS

Installing == {"remove_backup", "write_pending", "back_up", "replace"}

\* TypeOK is inductive once it is known that what is being installed
\* compiles, and that a main.py about to listen exists.
TypeInv ==
  /\ TypeOK
  /\ pc \in Installing => disk[Upload] \in Image
  /\ pc = "listen" => disk[Main] \in Image

LEMMA TypeInit == Init => TypeInv
<1> SUFFICES ASSUME Init PROVE TypeInv
  OBVIOUS
<1>1. disk \in [File -> Content \cup {NoFile}]
  BY OtaAssumption DEF Init, Content
<1>2. /\ disk[Main] = Factory
      /\ \A f \in {Backup, Upload, Pending, Booting} : disk[f] = NoFile
  BY DEF Init, File, Main, Backup, Upload, Pending, Booting
<1>3. flashErrors \in 0..MaxFlashErrors
  BY OtaAssumption DEF Init
<1>4. pc \in BootPc /\ wdt \in BOOLEAN /\ tried = "run" /\ proven \subseteq Image
  BY OtaAssumption DEF Init, BootPc
<1>5. /\ {disk[Main], disk[Backup]} \subseteq Image \cup {NoFile}
      /\ disk[Upload] # Marker
      /\ {disk[Pending], disk[Booting]} \subseteq {Marker, NoFile}
  BY <1>2, OtaAssumption
<1>6. TypeOK
  BY <1>1, <1>3, <1>4, <1>5 DEF TypeOK
<1> QED
  BY <1>6 DEF Init, TypeInv, Installing

LEMMA TypeStep ==
  ASSUME TypeInv, [Next]_vars
  PROVE  TypeInv'
<1> USE OtaAssumption DEF BehaviourAssumption, TypeInv, TypeOK, Installing,
        File, Content, Main, Backup, Upload, Pending, Booting,
        BootPc, RunPc, UploadPc, InstallPc, Goto, Exists, Store, RemoveFile,
        FlashError, MarkerFails, Renamed, RenameFails
<1>1. CASE Boot
  <2>1. CASE BootDecide BY <2>1 DEF BootDecide
  <2>2. CASE RestoreRemovesMain BY <2>2 DEF RestoreRemovesMain
  <2>3. CASE RestoreRenamesBackup BY <2>3 DEF RestoreRenamesBackup
  <2>4. CASE DropPending BY <2>4 DEF DropPending
  <2>5. CASE DropBooting BY <2>5 DEF DropBooting
  <2>6. CASE MarkBooting BY <2>6 DEF MarkBooting
  <2>7. CASE ArmWatchdog BY <2>7 DEF ArmWatchdog
  <2> QED BY <1>1, <2>1, <2>2, <2>3, <2>4, <2>5, <2>6, <2>7 DEF Boot
<1>2. CASE Run
  <2>1. CASE StartMain BY <2>1 DEF StartMain
  <2>2. CASE Listen BY <2>2 DEF Listen
  <2>3. CASE ClearPending BY <2>3 DEF ClearPending
  <2>4. CASE ClearBooting BY <2>4 DEF ClearBooting
  <2> QED BY <1>2, <2>1, <2>2, <2>3, <2>4 DEF Run
<1>3. CASE Receive
  <2>1. CASE OpenUpload BY <2>1 DEF OpenUpload
  <2>2. CASE StreamUpload BY <2>2 DEF StreamUpload
  <2>3. CASE ValidateUpload BY <2>3 DEF ValidateUpload
  <2>4. CASE DiscardUpload BY <2>4 DEF DiscardUpload
  <2> QED BY <1>3, <2>1, <2>2, <2>3, <2>4 DEF Receive
<1>4. CASE Install
  <2>1. CASE RemoveBackup BY <2>1 DEF RemoveBackup
  <2>2. CASE WritePending BY <2>2 DEF WritePending
  <2>3. CASE BackUpMain BY <2>3 DEF BackUpMain
  <2>4. CASE ReplaceMain
    <3>1. CASE pc' = "reply"
      <4>1. disk[Upload] \in Image /\ Renamed(Upload, Main) /\ tried' = "no"
        BY <2>4, <3>1 DEF ReplaceMain
      <4> QED BY <2>4, <3>1, <4>1 DEF ReplaceMain
    <3>2. CASE pc' = "undo" BY <2>4, <3>2 DEF ReplaceMain
    <3> QED BY <2>4, <3>1, <3>2 DEF ReplaceMain
  <2>5. CASE UndoBackUp BY <2>5 DEF UndoBackUp
  <2>6. CASE UndoPending BY <2>6 DEF UndoPending
  <2>7. CASE UndoBooting BY <2>7 DEF UndoBooting
  <2>8. CASE Reply BY <2>8 DEF Reply
  <2> QED BY <1>4, <2>1, <2>2, <2>3, <2>4, <2>5, <2>6, <2>7, <2>8 DEF Install
<1>5. CASE BeginUpload BY <1>5 DEF BeginUpload
<1>6. CASE MachineReset \/ WatchdogReset \/ PowerCut
  BY <1>6 DEF MachineReset, WatchdogReset, PowerCut, Restart
<1>7. CASE NetOutage BY <1>7 DEF NetOutage
<1>8. CASE UNCHANGED vars BY <1>8 DEF vars
<1> QED
  BY <1>1, <1>2, <1>3, <1>4, <1>5, <1>6, <1>7, <1>8 DEF Next, Progress

(* main.py and its backup only ever hold images that compile, and every     *)
(* file and marker what belongs there, under every fault of the flash, the  *)
(* power, the network and the client.                                       *)
THEOREM TypeCorrect == Spec => []TypeOK
<1>1. Init => TypeInv
  BY TypeInit
<1>2. TypeInv /\ [Next]_vars => TypeInv'
  BY TypeStep
<1>3. TypeInv => TypeOK
  BY DEF TypeInv
<1> QED
  BY <1>1, <1>2, <1>3, PTL DEF Spec

-----------------------------------------------------------------------------
(* Up to the first failing flash operation, and after it as long as there   *)
(* is no second.                                                            *)
OneFault == flashErrors <= 1

\* Nobody uploads again while a firmware that was installed waits for its
\* first boot.  Only a lost reply leaves the controller listening then.
Patient == pc = "open" => disk[Main] \in proven

\* Where main.py must be an image that serves: the controller has begun to
\* listen, or handles an upload.
Settled == {"clear_pending", "clear_booting", "open", "stream", "validate",
            "discard", "remove_backup", "write_pending", "back_up",
            "undo_pending", "undo_booting"}

\* A backup has served; it is there whenever main.py has not; and a main.py
\* that has not served stands under the pending marker.  The rest says where
\* that is about to change.  A roll-back that could not remove main.py, and
\* an undo, have had their failure already.
OneFaultWayBack ==
  /\ disk[Backup] \in proven \cup {NoFile}
  /\ disk[Main] \notin proven => Exists(Backup)
  /\ disk[Main] \notin proven /\ Exists(Main) => Exists(Pending)
  /\ pc \in Settled => disk[Main] \in proven
  /\ pc = "serving" => disk[Main] \in proven \/ LossyReplies
  /\ pc \in {"back_up", "replace", "reply", "reset"} => Exists(Pending)
  /\ pc \in {"replace", "undo"} => ~Exists(Main)
  /\ pc = "undo" => flashErrors = 1
  /\ pc \in {"reply", "reset", "restore_rename"} => Exists(Backup)
  /\ pc = "restore_rename" => ~Exists(Main) \/ flashErrors = 1
  /\ pc = "drop_pending" => disk[Main] \in proven \cup {NoFile}

OneFaultInv == TypeInv /\ (OneFault => OneFaultWayBack)

LEMMA OneFaultInit == Init => OneFaultInv
<1> SUFFICES ASSUME Init PROVE OneFaultInv
  OBVIOUS
<1>1. TypeInv
  BY TypeInit
<1>2. /\ disk[Main] = Factory
      /\ \A f \in {Backup, Upload, Pending, Booting} : disk[f] = NoFile
  BY DEF Init, File, Main, Backup, Upload, Pending, Booting
<1> QED
  BY <1>1, <1>2 DEF Init, OneFaultInv, OneFaultWayBack, Settled, Exists

(* One step per action.  The count of failures only grows, so that after a  *)
(* step within the bound the state before it was within the bound too.      *)
LEMMA OneFaultStep ==
  ASSUME OneFaultInv, [Next]_vars, ~LossyReplies \/ Patient'
  PROVE  OneFaultInv'
<1>1. TypeInv'
  BY TypeStep DEF OneFaultInv
<1>2. /\ disk \in [File -> Content \cup {NoFile}]
      /\ {disk[Main], disk[Backup]} \subseteq Image \cup {NoFile}
      /\ proven \subseteq Image
      /\ NoFile \notin Image
      /\ pc \in Installing => disk[Upload] \in Image
      /\ pc = "listen" => disk[Main] \in Image
      /\ Marker # NoFile
      /\ flashErrors \in Nat
  BY OtaAssumption DEF OneFaultInv, TypeInv, TypeOK
<1> SUFFICES ASSUME OneFault' PROVE OneFaultWayBack'
  BY <1>1 DEF OneFaultInv
<1> USE <1>2
    DEF Patient, OneFaultInv, OneFaultWayBack, OneFault, Settled, Goto, Exists, Store,
        RemoveFile, FlashError, MarkerFails, Renamed, RenameFails, Installing,
        File, Main, Backup, Upload, Pending, Booting
<1>3. CASE Boot
  <2>1. CASE BootDecide BY <2>1 DEF BootDecide
  <2>2. CASE RestoreRemovesMain BY <2>2 DEF RestoreRemovesMain
  <2>3. CASE RestoreRenamesBackup BY <2>3 DEF RestoreRenamesBackup
  <2>4. CASE DropPending BY <2>4 DEF DropPending
  <2>5. CASE DropBooting BY <2>5 DEF DropBooting
  <2>6. CASE MarkBooting BY <2>6 DEF MarkBooting
  <2>7. CASE ArmWatchdog BY <2>7 DEF ArmWatchdog
  <2> QED BY <1>3, <2>1, <2>2, <2>3, <2>4, <2>5, <2>6, <2>7 DEF Boot
<1>4. CASE Run
  <2>1. CASE StartMain BY <2>1 DEF StartMain
  <2>2. CASE Listen BY <2>2 DEF Listen
  <2>3. CASE ClearPending BY <2>3 DEF ClearPending
  <2>4. CASE ClearBooting BY <2>4 DEF ClearBooting
  <2> QED BY <1>4, <2>1, <2>2, <2>3, <2>4 DEF Run
<1>5. CASE Receive
  <2>1. CASE OpenUpload BY <2>1 DEF OpenUpload
  <2>2. CASE StreamUpload BY <2>2 DEF StreamUpload
  <2>3. CASE ValidateUpload BY <2>3 DEF ValidateUpload
  <2>4. CASE DiscardUpload BY <2>4 DEF DiscardUpload
  <2> QED BY <1>5, <2>1, <2>2, <2>3, <2>4 DEF Receive
<1>6. CASE Install
  <2>1. CASE RemoveBackup BY <2>1 DEF RemoveBackup
  <2>2. CASE WritePending BY <2>2 DEF WritePending
  <2>3. CASE BackUpMain BY <2>3 DEF BackUpMain
  <2>4. CASE ReplaceMain BY <2>4 DEF ReplaceMain
  <2>5. CASE UndoBackUp BY <2>5 DEF UndoBackUp
  <2>6. CASE UndoPending BY <2>6 DEF UndoPending
  <2>7. CASE UndoBooting BY <2>7 DEF UndoBooting
  <2>8. CASE Reply BY <2>8 DEF Reply
  <2> QED BY <1>6, <2>1, <2>2, <2>3, <2>4, <2>5, <2>6, <2>7, <2>8 DEF Install
<1>7. CASE BeginUpload BY <1>7 DEF BeginUpload
<1>8. CASE MachineReset \/ WatchdogReset \/ PowerCut
  BY <1>8 DEF MachineReset, WatchdogReset, PowerCut, Restart
<1>9. CASE NetOutage BY <1>9 DEF NetOutage
<1>10. CASE UNCHANGED vars BY <1>10 DEF vars
<1> QED
  BY <1>3, <1>4, <1>5, <1>6, <1>7, <1>8, <1>9, <1>10 DEF Next, Progress

LEMMA OneFaultAlways ==
  ASSUME ~LossyReplies
  PROVE  Spec => []OneFaultInv
<1>1. Init => OneFaultInv
  BY OneFaultInit
<1>2. OneFaultInv /\ [Next]_vars => OneFaultInv'
  BY OneFaultStep
<1> QED
  BY <1>1, <1>2, PTL DEF Spec

LEMMA OneFaultSurvives == OneFaultInv => (OneFault => GoodCopySurvives)
BY DEF OneFaultInv, OneFaultWayBack, GoodCopySurvives, Exists

(* An update and a roll-back leave a way back: one of main.py and           *)
(* main.py.bak has been seen serving, wherever the power failed and         *)
(* whichever flash operation was the one to fail.                           *)
THEOREM GoodCopyAlways ==
  ASSUME ~LossyReplies
  PROVE  Spec => [](OneFault => GoodCopySurvives)
BY OneFaultSurvives, OneFaultAlways, PTL

(* A lost reply alone does not cost the way back either: it takes a second  *)
(* upload before the controller has restarted, as in the run                *)
(* ota_lost_reply.                                                          *)
THEOREM GoodCopyIfPatient ==
  Spec /\ []Patient => [](OneFault => GoodCopySurvives)
<1>1. Init => OneFaultInv
  BY OneFaultInit
<1>2. OneFaultInv /\ [Next]_vars /\ Patient' => OneFaultInv'
  BY OneFaultStep
<1> QED
  BY <1>1, <1>2, OneFaultSurvives, PTL DEF Spec

(* A controller that answers requests would restart into an image known to  *)
(* serve, also when one flash operation has failed.                         *)
THEOREM RestartAlwaysSafe ==
  ASSUME ~LossyReplies
  PROVE  Spec => [](OneFault => RestartIsSafe)
<1>1. OneFaultInv => (OneFault => RestartIsSafe)
  BY DEF OneFaultInv, OneFaultWayBack, RestartIsSafe
<1> QED
  BY <1>1, OneFaultAlways, PTL

(* Both at once where the flash fails at most once, as in the run.          *)
THEOREM SafeWithOneFault ==
  ASSUME ~LossyReplies, MaxFlashErrors <= 1
  PROVE  Spec => [](GoodCopySurvives /\ RestartIsSafe)
<1>1. TypeInv => OneFault
  BY OtaAssumption DEF TypeInv, TypeOK, OneFault
<1>2. OneFaultInv => GoodCopySurvives /\ RestartIsSafe
  BY <1>1, OneFaultSurvives DEF OneFaultInv, OneFaultWayBack, RestartIsSafe
<1> QED
  BY <1>2, OneFaultAlways, PTL

-----------------------------------------------------------------------------
(* As long as the flash is sound.  Power cuts and outages are still free.   *)
Sound == flashErrors = 0

Idle == {"serving", "open", "stream", "validate", "discard", "remove_backup"}

\* What the files and the markers look like at each point of the program.
\* That the good image is proven is what matters; the rest keeps it so.
WayBack ==
  /\ GoodImage \in proven
  /\ pc \in Idle => ~Exists(Pending) /\ ~Exists(Booting)
  /\ pc = "write_pending" =>
       ~Exists(Pending) /\ ~Exists(Booting) /\ ~Exists(Backup)
  /\ pc = "back_up" =>
       Exists(Pending) /\ ~Exists(Booting) /\ ~Exists(Backup)
  /\ pc = "replace" =>
       Exists(Pending) /\ ~Exists(Booting) /\ Exists(Backup) /\ ~Exists(Main)
  /\ pc \in {"reply", "reset"} =>
       Exists(Pending) /\ ~Exists(Booting) /\ Exists(Backup) /\ Exists(Main)
  /\ pc \notin {"undo", "undo_pending", "undo_booting"}
  /\ pc \in {"restore", "restore_rename"} => Exists(Pending) /\ Exists(Booting)
  /\ pc = "restore_rename" => Exists(Backup) /\ ~Exists(Main)
  /\ pc = "drop_pending" => ~Exists(Backup)
  /\ pc \in {"drop_booting", "clear_booting"} => ~Exists(Pending)
  /\ pc = "clear_pending" => disk[Main] \in proven
  /\ Exists(Pending) /\ Exists(Booting) /\ Exists(Main) /\ Exists(Backup) =>
       tried # "no" \/ Marked
  /\ pc = "arm" => Exists(Booting)

WayBackInv == TypeInv /\ (Sound => WayBack)

LEMMA WayBackInit == Init => WayBackInv
<1> SUFFICES ASSUME Init PROVE WayBackInv
  OBVIOUS
<1>1. TypeInv
  BY TypeInit
<1>2. /\ disk[Main] = Factory
      /\ \A f \in {Backup, Upload, Pending, Booting} : disk[f] = NoFile
  BY DEF Init, File, Main, Backup, Upload, Pending, Booting
<1>3. GoodImage \in proven
  BY <1>2 DEF Init, GoodImage, OnTrial, Exists
<1> QED
  BY <1>1, <1>2, <1>3 DEF Init, WayBackInv, WayBack, Idle, Exists

(* While the flash stays sound a write is done when it returns.             *)
LEMMA NoFlashError ==
  ASSUME TypeInv, Sound'
  PROVE  ~FlashError
<1>1. flashErrors \in Nat
  BY OtaAssumption DEF TypeInv, TypeOK
<1> QED
  BY <1>1 DEF Sound, FlashError

(* The count of failures only grows.                                        *)
LEMMA SoundBefore ==
  ASSUME TypeInv, [Next]_vars, Sound'
  PROVE  Sound
<1>1. flashErrors \in Nat
  BY OtaAssumption DEF TypeInv, TypeOK
<1>2. flashErrors' = flashErrors \/ flashErrors' = flashErrors + 1
  BY DEF Next, Progress, Boot, Run, Receive, Install, BootDecide, RestoreRemovesMain,
     RestoreRenamesBackup, DropPending, DropBooting, MarkBooting, ArmWatchdog, StartMain,
     Listen, ClearPending, ClearBooting, OpenUpload, StreamUpload, ValidateUpload,
     DiscardUpload, RemoveBackup, WritePending, BackUpMain, ReplaceMain, UndoBackUp,
     UndoPending, UndoBooting, Reply, BeginUpload, NetOutage, MachineReset, WatchdogReset,
     PowerCut, Restart, Store, RemoveFile, FlashError, Renamed, RenameFails, MarkerFails, vars
<1> QED
  BY <1>1, <1>2 DEF Sound

(* One step per action; each looks at the five files before and after.      *)
LEMMA WayBackStep ==
  ASSUME ~LossyReplies, WayBackInv, [Next]_vars
  PROVE  WayBackInv'
<1>1. TypeInv'
  BY TypeStep DEF WayBackInv
<1> SUFFICES ASSUME Sound' PROVE WayBack'
  BY <1>1 DEF WayBackInv
<1>0. WayBack
  BY SoundBefore DEF WayBackInv
<1>2. ~FlashError
  BY NoFlashError DEF WayBackInv
<1>3. /\ disk \in [File -> Content \cup {NoFile}]
      /\ {disk[Main], disk[Backup]} \subseteq Image \cup {NoFile}
      /\ proven \subseteq Image
      /\ NoFile \notin Image
      /\ pc \in Installing => disk[Upload] \in Image
      /\ pc = "listen" => disk[Main] \in Image
      /\ Marker # NoFile
  BY OtaAssumption DEF WayBackInv, TypeInv, TypeOK
<1> USE <1>0, <1>2, <1>3
    DEF WayBack, Idle, Marked, GoodImage, OnTrial, Goto, Exists, Store, RemoveFile,
        MarkerFails, Renamed, RenameFails, Installing,
        File, Main, Backup, Upload, Pending, Booting
<1>4. CASE Boot
  <2>1. CASE BootDecide BY <2>1 DEF BootDecide
  <2>2. CASE RestoreRemovesMain BY <2>2 DEF RestoreRemovesMain
  <2>3. CASE RestoreRenamesBackup BY <2>3 DEF RestoreRenamesBackup
  <2>4. CASE DropPending BY <2>4 DEF DropPending
  <2>5. CASE DropBooting BY <2>5 DEF DropBooting
  <2>6. CASE MarkBooting BY <2>6 DEF MarkBooting
  <2>7. CASE ArmWatchdog BY <2>7 DEF ArmWatchdog
  <2> QED BY <1>4, <2>1, <2>2, <2>3, <2>4, <2>5, <2>6, <2>7 DEF Boot
<1>5. CASE Run
  <2>1. CASE StartMain BY <2>1 DEF StartMain
  <2>2. CASE Listen BY <2>2 DEF Listen
  <2>3. CASE ClearPending BY <2>3 DEF ClearPending
  <2>4. CASE ClearBooting BY <2>4 DEF ClearBooting
  <2> QED BY <1>5, <2>1, <2>2, <2>3, <2>4 DEF Run
<1>6. CASE Receive
  <2>1. CASE OpenUpload BY <2>1 DEF OpenUpload
  <2>2. CASE StreamUpload BY <2>2 DEF StreamUpload
  <2>3. CASE ValidateUpload BY <2>3 DEF ValidateUpload
  <2>4. CASE DiscardUpload BY <2>4 DEF DiscardUpload
  <2> QED BY <1>6, <2>1, <2>2, <2>3, <2>4 DEF Receive
<1>7. CASE Install
  <2>1. CASE RemoveBackup BY <2>1 DEF RemoveBackup
  <2>2. CASE WritePending BY <2>2 DEF WritePending
  <2>3. CASE BackUpMain BY <2>3 DEF BackUpMain
  <2>4. CASE ReplaceMain BY <2>4 DEF ReplaceMain
  <2>5. CASE UndoBackUp BY <2>5 DEF UndoBackUp
  <2>6. CASE UndoPending BY <2>6 DEF UndoPending
  <2>7. CASE UndoBooting BY <2>7 DEF UndoBooting
  <2>8. CASE Reply BY <2>8 DEF Reply
  <2> QED BY <1>7, <2>1, <2>2, <2>3, <2>4, <2>5, <2>6, <2>7, <2>8 DEF Install
<1>8. CASE BeginUpload BY <1>8 DEF BeginUpload
<1>9. CASE MachineReset \/ WatchdogReset \/ PowerCut
  BY <1>9 DEF MachineReset, WatchdogReset, PowerCut, Restart
<1>10. CASE NetOutage BY <1>10 DEF NetOutage
<1>11. CASE UNCHANGED vars BY <1>11 DEF vars
<1> QED
  BY <1>4, <1>5, <1>6, <1>7, <1>8, <1>9, <1>10, <1>11 DEF Next, Progress

LEMMA WayBackAlways ==
  ASSUME ~LossyReplies
  PROVE  Spec => []WayBackInv
<1>1. Init => WayBackInv
  BY WayBackInit
<1>2. WayBackInv /\ [Next]_vars => WayBackInv'
  BY WayBackStep
<1> QED
  BY <1>1, <1>2, PTL DEF Spec

(* On a flash that has not failed yet, boot.py takes away no firmware that  *)
(* it has not started before, but for the one that had its booting marker   *)
(* and not its start when the power failed.                                 *)
THEOREM TrialAlwaysBooted ==
  ASSUME ~LossyReplies
  PROVE  Spec => []TrialIsBooted
<1>1. WayBackInv => TrialIsBooted
  BY DEF WayBackInv, WayBack, Marked, Sound, TypeInv, TypeOK, TrialIsBooted
<1> QED
  BY <1>1, WayBackAlways, PTL

-----------------------------------------------------------------------------
(* The refinement: which action of the trial each step is.                  *)

LEMMA TrialInit == Init => Trial!Init
<1> SUFFICES ASSUME Init PROVE Trial!Init
  OBVIOUS
<1>1. disk[Main] = Factory /\ disk[Backup] = NoFile /\ disk[Pending] = NoFile
  BY DEF Init, File, Main, Backup, Upload, Pending, Booting
<1> QED
  BY <1>1, OtaAssumption
  DEF Init, Trial!Init, Sound, GoodImage, TrialImage, OnTrial, Exists

LEMMA TrialStep ==
  ASSUME ~LossyReplies, WayBackInv, [Next]_vars
  PROVE  [Trial!Next]_(Trial!vars)
<1>s. ASSUME ~ Sound' PROVE Trial!Next
  BY <1>s DEF Sound, Trial!Next
<1> SUFFICES ASSUME Sound' PROVE [Trial!Next]_(Trial!vars)
  BY <1>s
<1>0. Sound /\ WayBack
  BY SoundBefore DEF WayBackInv
<1>1. ~FlashError
  BY NoFlashError DEF WayBackInv
<1>2. /\ disk \in [File -> Content \cup {NoFile}]
      /\ {disk[Main], disk[Backup]} \subseteq Image \cup {NoFile}
      /\ proven \subseteq Image
      /\ NoFile \notin Image
      /\ pc \in Installing => disk[Upload] \in Image
      /\ pc = "listen" => disk[Main] \in Image
      /\ Marker # NoFile
  BY OtaAssumption DEF WayBackInv, TypeInv, TypeOK
<1>3. SUFFICES \/ Trial!Promised
               \/ UNCHANGED <<GoodImage, TrialImage, proven>>
  BY <1>0 DEF Sound, Trial!Next, Trial!vars
<1> USE <1>0, <1>1, <1>2
    DEF WayBack, Idle, GoodImage, TrialImage, OnTrial, Goto, Exists, Store,
        RemoveFile, MarkerFails, Renamed, RenameFails, Installing,
        File, Main, Backup, Upload, Pending, Booting
<1>4. CASE RestoreRemovesMain     \* the trial ends without success
  <2>1. \/ Trial!RollBack
        \/ UNCHANGED <<GoodImage, TrialImage, proven>>
    BY <1>4 DEF RestoreRemovesMain, Trial!RollBack
  <2> QED BY <2>1 DEF Trial!Promised
<1>5. CASE Listen                 \* the running image has served
  <2>1. Trial!Serve(disk[Main])
    BY <1>5 DEF Listen, Trial!Serve
  <2> QED BY <2>1, <1>5 DEF Trial!Promised, Listen
<1>6. CASE ClearPending           \* the trial ends with success
  <2>1. \/ Trial!Accept
        \/ UNCHANGED <<GoodImage, TrialImage, proven>>
    BY <1>6 DEF ClearPending, Trial!Accept
  <2> QED BY <2>1 DEF Trial!Promised
<1>7. CASE ReplaceMain            \* the upload goes on trial
  <2>1. Trial!Install(disk[Upload])
    BY <1>7 DEF ReplaceMain, Trial!Install
  <2>2. disk[Upload] \in Image
    BY <1>7 DEF ReplaceMain
  <2> QED BY <2>1, <2>2 DEF Trial!Promised
<1>8. CASE \/ BootDecide \/ RestoreRenamesBackup \/ DropPending \/ DropBooting
           \/ MarkBooting \/ ArmWatchdog
  BY <1>8 DEF BootDecide, RestoreRenamesBackup, DropPending, DropBooting,
              MarkBooting, ArmWatchdog
<1>9. CASE StartMain \/ ClearBooting \/ NetOutage
  BY <1>9 DEF StartMain, ClearBooting, NetOutage
<1>10. CASE Receive \/ BeginUpload
  BY <1>10 DEF Receive, OpenUpload, StreamUpload, ValidateUpload,
               DiscardUpload, BeginUpload
<1>11. CASE \/ RemoveBackup \/ WritePending \/ BackUpMain \/ UndoBackUp
            \/ UndoPending \/ UndoBooting \/ Reply
  BY <1>11 DEF RemoveBackup, WritePending, BackUpMain, UndoBackUp,
               UndoPending, UndoBooting, Reply
<1>12. CASE MachineReset \/ WatchdogReset \/ PowerCut
  BY <1>12 DEF MachineReset, WatchdogReset, PowerCut, Restart
<1>13. CASE UNCHANGED vars
  BY <1>13 DEF vars
<1> QED
  BY <1>4, <1>5, <1>6, <1>7, <1>8, <1>9, <1>10, <1>11, <1>12, <1>13
  DEF Next, Progress, Boot, Run, Install

(* The files, the markers and the watchdog implement the trial until a      *)
(* flash operation fails: an image replaces the good one only after it has  *)
(* served, and only one image is on trial at a time.                        *)
THEOREM TrialImplemented ==
  ASSUME ~LossyReplies
  PROVE  Spec => ImplementsTrial
<1>1. Init => Trial!Init
  BY TrialInit
<1>2. WayBackInv /\ [Next]_vars => [Trial!Next]_(Trial!vars)
  BY TrialStep
<1> QED
  BY <1>1, <1>2, WayBackAlways, PTL DEF Spec, ImplementsTrial, Trial!Spec

=============================================================================
