------------------------------ MODULE OtaUpdate ------------------------------
(***************************************************************************)
(* The over-the-air update of the v2 MicroPython controller: the upload    *)
(* handler of src/v2/main.py, the boot logic of src/v2/boot.py, and the    *)
(* flash file system, the hardware watchdog and the power supply both run  *)
(* on.                                                                     *)
(*                                                                         *)
(* One action is one file-system operation (littlefs makes each of them    *)
(* atomic and durable when it returns) or one decision between two of      *)
(* them, so a power cut can fall between any two.  Every image is assumed  *)
(* to carry this same update code.  The faults the controller must live    *)
(* with are constants: how many flash operations may fail, and whether     *)
(* power cuts, network outages at boot and lost replies may happen, each   *)
(* any number of times.                                                    *)
(***************************************************************************)
EXTENDS Naturals, FiniteSets

CONSTANTS
  Image,          \* the contents of main.py that compile
  Factory,        \* the image on the controller when it is first switched on
  Behaviour,      \* what running an image does, see BehaviourAssumption
  Partial,        \* a file that does not compile: cut off, or not Python
  Marker,         \* the contents of a marker file
  NoFile,         \* the file does not exist
  MaxFlashErrors, \* how many flash operations may fail
  PowerCuts,      \* may the power fail?
  NetOutages,     \* may main.py die for lack of DHCP or of the expander?
  LossyReplies    \* may the reply to an installed upload fail to be sent?

\* "serves": main.py reaches the accept loop.  "stops": it raises, or hangs
\* without feeding the watchdog, before that.  "spins": it feeds the watchdog
\* for ever and never listens.
BehaviourAssumption ==
  Behaviour \in [Image -> {"serves", "stops", "spins"}]

ASSUME OtaAssumption ==
  /\ BehaviourAssumption
  /\ Factory \in Image
  /\ Behaviour[Factory] = "serves"
  /\ Partial \notin Image /\ Marker \notin Image /\ NoFile \notin Image
  /\ NoFile # Partial /\ NoFile # Marker /\ Partial # Marker
  /\ MaxFlashErrors \in Nat
  /\ {PowerCuts, NetOutages, LossyReplies} \subseteq BOOLEAN

Main    == "main.py"
Backup  == "main.py.bak"
Upload  == "main.py.upload"
Pending == "ota_pending.json"
Booting == "ota_booting"
File    == {Main, Backup, Upload, Pending, Booting}
Content == Image \cup {Partial, Marker}

VARIABLES
  disk,        \* the flash file system
  pc,          \* what the processor is about to do
  wdt,         \* is the hardware watchdog armed?
  proven,      \* history: the images that have been seen listening for HTTP
  tried,       \* history: has main.py been started since it was installed?
  flashErrors  \* how many flash operations have failed so far

vars == <<disk, pc, wdt, proven, tried, flashErrors>>

BootPc    == {"boot", "restore", "restore_rename", "drop_pending",
              "drop_booting", "mark", "arm", "start"}
RunPc     == {"listen", "clear_pending", "clear_booting", "serving",
              "halted", "spinning"}
UploadPc  == {"open", "stream", "validate", "discard"}
InstallPc == {"remove_backup", "write_pending", "back_up", "replace",
              "reply", "reset", "undo", "undo_pending", "undo_booting"}

(* Type correctness.  Its point is the first two lines: neither main.py nor  *)
(* its backup ever holds anything but an image that compiles, whatever      *)
(* fails while an upload is received, validated or installed.               *)
TypeOK ==
  /\ disk \in [File -> Content \cup {NoFile}]
  /\ {disk[Main], disk[Backup]} \subseteq Image \cup {NoFile}
  /\ disk[Upload] # Marker
  /\ {disk[Pending], disk[Booting]} \subseteq {Marker, NoFile}
  /\ pc \in BootPc \cup RunPc \cup UploadPc \cup InstallPc
  /\ wdt \in BOOLEAN
  /\ proven \subseteq Image
  /\ tried \in {"no", "cut", "run"}
  /\ flashErrors \in 0..MaxFlashErrors

Init ==
  /\ disk = [f \in File |-> IF f = Main THEN Factory ELSE NoFile]
  /\ pc = "boot"
  /\ wdt = FALSE
  /\ proven = {Factory}      \* the image was brought up on the bench
  /\ tried = "run"
  /\ flashErrors = 0

-----------------------------------------------------------------------------
(* The file system, as os and open() of MicroPython show it.               *)

Exists(f) == disk[f] # NoFile

Goto(from, to) == pc = from /\ pc' = to

\* A flash operation fails: an I/O error or a full file system.
FlashError ==
  /\ flashErrors < MaxFlashErrors
  /\ flashErrors' = flashErrors + 1

Store(f, c) == disk' = [disk EXCEPT ![f] = c] /\ UNCHANGED flashErrors

\* remove_file: the OSError of a failing os.remove is swallowed.
RemoveFile(f) ==
  \/ Store(f, NoFile)
  \/ Exists(f) /\ FlashError /\ UNCHANGED disk

\* os.rename that succeeds; littlefs replaces an existing target.
Renamed(f, g) ==
  /\ Exists(f)
  /\ disk' = [disk EXCEPT ![g] = disk[f], ![f] = NoFile]
  /\ UNCHANGED flashErrors

\* os.rename that raises.
RenameFails(f) ==
  \/ ~Exists(f) /\ UNCHANGED <<disk, flashErrors>>
  \/ Exists(f) /\ FlashError /\ UNCHANGED disk

\* Writing a marker raises: open() fails, or it creates the file and then
\* write() or close() fails.
MarkerFails(f) ==
  /\ FlashError
  /\ \/ UNCHANGED disk
     \/ disk' = [disk EXCEPT ![f] = Marker]

-----------------------------------------------------------------------------
(* boot.py                                                                 *)

\* Mutant: a boot that failed once is tried again, and again.
BootDecideForgetsBooting ==
  /\ pc = "boot"
  /\ pc' = IF Exists(Pending) THEN "mark" ELSE "start"
  /\ UNCHANGED <<disk, wdt, proven, tried, flashErrors>>

\* The two markers say what the previous boot came to.
BootDecide ==
  /\ pc = "boot"
  /\ pc' = CASE Exists(Pending) /\ Exists(Booting)  -> "restore"
             [] Exists(Pending) /\ ~Exists(Booting) -> "mark"
             [] OTHER                               -> "start"
  /\ UNCHANGED <<disk, wdt, proven, tried, flashErrors>>

\* Mutant: main.py is removed before anyone looks for the backup.
RestoreRemovesMainUnchecked ==
  /\ Goto("restore", "restore_rename")
  /\ RemoveFile(Main)
  /\ UNCHANGED <<wdt, proven, tried>>

\* restore_backup, first half: without a backup there is nothing to restore.
RestoreRemovesMain ==
  /\ \/ /\ Exists(Backup)
        /\ Goto("restore", "restore_rename")
        /\ RemoveFile(Main)
     \/ /\ ~Exists(Backup)
        /\ Goto("restore", "drop_pending")
        /\ UNCHANGED <<disk, flashErrors>>
  /\ UNCHANGED <<wdt, proven, tried>>

\* restore_backup, second half; its exception is printed and forgotten.
RestoreRenamesBackup ==
  /\ Goto("restore_rename", "drop_pending")
  /\ Renamed(Backup, Main) \/ RenameFails(Backup)
  /\ UNCHANGED <<wdt, proven, tried>>

DropPending ==
  /\ Goto("drop_pending", "drop_booting")
  /\ RemoveFile(Pending)
  /\ UNCHANGED <<wdt, proven, tried>>

DropBooting ==
  /\ Goto("drop_booting", "start")
  /\ RemoveFile(Booting)
  /\ UNCHANGED <<wdt, proven, tried>>

\* The first boot of an update is marked; a failure skips the watchdog.
MarkBooting ==
  /\ \/ Goto("mark", "arm") /\ Store(Booting, Marker)
     \/ Goto("mark", "start") /\ MarkerFails(Booting)
  /\ UNCHANGED <<wdt, proven, tried>>

\* Mutant: the watchdog object is made and never started.
ArmWatchdogNot ==
  /\ Goto("arm", "start")
  /\ UNCHANGED <<disk, wdt, proven, tried, flashErrors>>

ArmWatchdog ==
  /\ Goto("arm", "start")
  /\ wdt' = TRUE
  /\ UNCHANGED <<disk, proven, tried, flashErrors>>

-----------------------------------------------------------------------------
(* main.py, from its first line to the accept loop                         *)

\* main.py gets to listen(), or not: no such file, or a broken image.
StartMain ==
  /\ pc = "start"
  /\ \/ Exists(Main) /\ Behaviour[disk[Main]] = "serves" /\ pc' = "listen"
     \/ Exists(Main) /\ Behaviour[disk[Main]] = "spins"  /\ pc' = "spinning"
     \/ Exists(Main) /\ Behaviour[disk[Main]] = "stops"  /\ pc' = "halted"
     \/ ~Exists(Main)                                    /\ pc' = "halted"
  /\ tried' = IF Exists(Main) THEN "run" ELSE tried
  /\ UNCHANGED <<disk, wdt, proven, flashErrors>>

\* A healthy main.py dies of its surroundings: no DHCP lease within 30
\* seconds, or no expander on the bus.  Nothing catches the exception.
NetOutage ==
  /\ NetOutages
  /\ Exists(Main)
  /\ Goto("start", "halted")
  /\ tried' = "run"
  /\ UNCHANGED <<disk, wdt, proven, flashErrors>>

\* serve_http is listening: main.py calls itself healthy.
Listen ==
  /\ pc = "listen"
  /\ proven' = proven \cup {disk[Main]}
  /\ pc' = IF Exists(Pending) \/ Exists(Booting) THEN "clear_pending"
                                                 ELSE "serving"
  /\ UNCHANGED <<disk, wdt, tried, flashErrors>>

ClearPending ==
  /\ Goto("clear_pending", "clear_booting")
  /\ RemoveFile(Pending)
  /\ UNCHANGED <<wdt, proven, tried>>

\* Mutant: acceptance leaves the booting marker for the next update to find.
ClearBootingNot ==
  /\ Goto("clear_booting", "serving")
  /\ UNCHANGED <<disk, wdt, proven, tried, flashErrors>>

ClearBooting ==
  /\ Goto("clear_booting", "serving")
  /\ RemoveFile(Booting)
  /\ UNCHANGED <<wdt, proven, tried>>

-----------------------------------------------------------------------------
(* handle_ota_update                                                       *)

\* POST /update: a left-over upload goes first.
BeginUpload ==
  /\ Goto("serving", "open")
  /\ RemoveFile(Upload)
  /\ UNCHANGED <<wdt, proven, tried>>

\* stream_request_body_to_file opens the file, or refuses the length first.
OpenUpload ==
  /\ \/ Goto("open", "stream") /\ Store(Upload, Partial)
     \/ Goto("open", "discard") /\ UNCHANGED <<disk, flashErrors>>
  /\ UNCHANGED <<wdt, proven, tried>>

\* The body arrives in full, whatever it is, or the client or the flash
\* fails on the way.
StreamUpload ==
  /\ \/ /\ Goto("stream", "validate")
        /\ \E c \in Image \cup {Partial} : Store(Upload, c)
     \/ Goto("stream", "discard") /\ UNCHANGED <<disk, flashErrors>>
  /\ UNCHANGED <<wdt, proven, tried>>

\* Mutant: what arrived in full is installed, compiled or not.
ValidateUploadNot ==
  /\ Goto("validate", "remove_backup")
  /\ UNCHANGED <<disk, wdt, proven, tried, flashErrors>>

\* Only what compiles goes on; a lack of memory may refuse that too.
ValidateUpload ==
  /\ \/ disk[Upload] \in Image /\ Goto("validate", "remove_backup")
     \/ Goto("validate", "discard")
  /\ UNCHANGED <<disk, wdt, proven, tried, flashErrors>>

DiscardUpload ==
  /\ Goto("discard", "serving")
  /\ RemoveFile(Upload)
  /\ UNCHANGED <<wdt, proven, tried>>

-----------------------------------------------------------------------------
(* install_ota_upload                                                      *)

\* Mutant: the backup of an earlier update stays until it is overwritten.
RemoveBackupNot ==
  /\ Goto("remove_backup", "write_pending")
  /\ UNCHANGED <<disk, wdt, proven, tried, flashErrors>>

RemoveBackup ==
  /\ Goto("remove_backup", "write_pending")
  /\ RemoveFile(Backup)
  /\ UNCHANGED <<wdt, proven, tried>>

WritePending ==
  /\ \/ Goto("write_pending", "back_up") /\ Store(Pending, Marker)
     \/ Goto("write_pending", "undo_pending") /\ MarkerFails(Pending)
  /\ UNCHANGED <<wdt, proven, tried>>

BackUpMain ==
  /\ \/ Goto("back_up", "replace") /\ Renamed(Main, Backup)
     \/ Goto("back_up", "undo_pending") /\ RenameFails(Main)
  /\ UNCHANGED <<wdt, proven, tried>>

\* main_moved is set: from here a failure goes through the rename back.
ReplaceMain ==
  /\ \/ Goto("replace", "reply") /\ Renamed(Upload, Main) /\ tried' = "no"
     \/ Goto("replace", "undo") /\ RenameFails(Upload) /\ UNCHANGED tried
  /\ UNCHANGED <<wdt, proven>>

\* Mutant: the exception handler forgets that main.py was moved away.
UndoBackUpNot ==
  /\ Goto("undo", "undo_pending")
  /\ UNCHANGED <<disk, wdt, proven, tried, flashErrors>>

\* The exception handler; a failing rename back is swallowed.
UndoBackUp ==
  /\ Goto("undo", "undo_pending")
  /\ IF Exists(Backup) /\ ~Exists(Main)
       THEN Renamed(Backup, Main) \/ RenameFails(Backup)
       ELSE UNCHANGED <<disk, flashErrors>>
  /\ UNCHANGED <<wdt, proven, tried>>

UndoPending ==
  /\ Goto("undo_pending", "undo_booting")
  /\ RemoveFile(Pending)
  /\ UNCHANGED <<wdt, proven, tried>>

UndoBooting ==
  /\ Goto("undo_booting", "discard")
  /\ RemoveFile(Booting)
  /\ UNCHANGED <<wdt, proven, tried>>

\* The reply is sent, or send() raises: serve_http then drops the client and
\* goes on accepting, and machine.reset() is not reached.
Reply ==
  /\ Goto("reply", "reset") \/ (LossyReplies /\ Goto("reply", "serving"))
  /\ UNCHANGED <<disk, wdt, proven, tried, flashErrors>>

-----------------------------------------------------------------------------
(* Resets                                                                  *)

Restart ==
  /\ pc' = "boot"
  /\ wdt' = FALSE
  /\ UNCHANGED <<disk, proven, flashErrors>>

MachineReset == pc = "reset" /\ Restart /\ UNCHANGED tried

\* Nobody feeds the watchdog of a halted processor.
WatchdogReset == wdt /\ pc = "halted" /\ Restart /\ UNCHANGED tried

\* main.py has its booting marker and is not yet started.
Marked == pc \in {"arm", "start"} /\ Exists(Booting)

\* The power fails, at any moment, and comes back.  Where the controller is
\* about to reset by itself the cut is no different from that reset.
PowerCut ==
  /\ PowerCuts
  /\ pc # "reset" /\ ~(wdt /\ pc = "halted")
  /\ Restart
  /\ tried' = IF Marked /\ tried = "no" THEN "cut" ELSE tried

Boot == \/ BootDecide \/ RestoreRemovesMain \/ RestoreRenamesBackup
        \/ DropPending \/ DropBooting \/ MarkBooting \/ ArmWatchdog

Run == StartMain \/ Listen \/ ClearPending \/ ClearBooting

Receive == OpenUpload \/ StreamUpload \/ ValidateUpload \/ DiscardUpload

Install == \/ RemoveBackup \/ WritePending \/ BackUpMain \/ ReplaceMain
           \/ UndoBackUp \/ UndoPending \/ UndoBooting \/ Reply

\* What the controller does by itself, without clients and power cuts.
Progress == Boot \/ Run \/ Receive \/ Install \/ MachineReset \/ WatchdogReset

Next == Progress \/ BeginUpload \/ NetOutage \/ PowerCut

\* The processor and the watchdog run; clients, outages and power cuts are free.
Spec == Init /\ [][Next]_vars /\ WF_vars(Progress)

-----------------------------------------------------------------------------
(* Safety                                                                  *)

(* The way back: whatever is cut off or fails during an update or during a  *)
(* roll-back, main.py or main.py.bak still holds an image that has been     *)
(* seen serving.                                                            *)
GoodCopySurvives == \E f \in {Main, Backup} : disk[f] \in proven

(* A controller that answers requests would come up again: should the power *)
(* fail while it is idle, it restarts into an image known to serve and not  *)
(* into an empty slot or a firmware nobody has tried.                       *)
RestartIsSafe == pc = "serving" => disk[Main] \in proven

(* Until a flash operation fails, boot.py takes a new firmware away only    *)
(* after it has been started, or when the power failed between its booting  *)
(* marker and its start, which costs it its trial: the booting marker of an *)
(* earlier update is never mistaken for its own.                            *)
TrialIsBooted ==
  pc = "restore" /\ Exists(Main) /\ Exists(Backup) /\ flashErrors = 0 =>
    tried \in {"run", "cut"}

-----------------------------------------------------------------------------
(* What the update promises: FirmwareTrial.  An image is on trial while the *)
(* pending marker stands beside a backup, and the backup is then the good   *)
(* one.  The flash is sound until one of its operations fails.              *)

OnTrial == Exists(Pending) /\ Exists(Backup)

GoodImage  == IF OnTrial THEN disk[Backup] ELSE disk[Main]
TrialImage == IF OnTrial THEN disk[Main] ELSE NoFile

Trial == INSTANCE FirmwareTrial WITH
  None <- NoFile, good <- GoodImage, trial <- TrialImage, sound <- (flashErrors = 0)

(* Every step of an update, of a boot and of a roll-back is a step of the   *)
(* trial or changes nothing of it: no image becomes the good one before it  *)
(* has served, and no second image goes on trial beside a first.            *)
ImplementsTrial == Trial!Spec

-----------------------------------------------------------------------------
(* Liveness                                                                *)

PowerStable == <>[][~PowerCut]_vars
SoundFlash  == [](flashErrors = 0)

\* A firmware that feeds the watchdog and never listens.
Spinning == pc = "spinning"

(* No update stays on trial: on a sound flash and once the power is stable  *)
(* a new image is accepted or rolled back, with no help from outside.  Only *)
(* an image that feeds the watchdog for ever stays.                         *)
EveryTrialSettles ==
  PowerStable /\ SoundFlash =>
    (TrialImage # NoFile ~> TrialImage = NoFile \/ Spinning)

\* Only the surroundings can have stopped a healthy image.
Outage == pc = "halted" /\ Exists(Main) /\ Behaviour[disk[Main]] = "serves"

(* Whatever is installed, and wherever the power failed, every boot ends    *)
(* in the accept loop on a sound flash and once the power is stable, also   *)
(* after a firmware that dies at once; only a network or expander outage or *)
(* an image that feeds the watchdog for ever may stop it before.            *)
ServesAgain ==
  PowerStable /\ SoundFlash => (pc = "boot" ~> pc = "serving" \/ Outage \/ Spinning)

=============================================================================
