---------------------------- MODULE FirmwareTrial ----------------------------
(***************************************************************************)
(* What the over-the-air update of the v2 controller promises, with no     *)
(* files, markers or watchdog: one good firmware that has been seen        *)
(* serving, and at most one firmware on trial beside it.  A trial ends by  *)
(* being accepted, once it has served, or by being dropped, as long as the *)
(* flash is sound.                                                         *)
(***************************************************************************)
CONSTANTS
  Image,      \* firmware images that compile
  None        \* "no firmware is on trial", not an image

VARIABLES
  good,       \* the firmware the controller can always fall back to
  trial,      \* the firmware on trial, or None
  proven,     \* the firmwares that have been seen listening for HTTP
  sound       \* has every flash operation succeeded so far?

vars == <<good, trial, proven, sound>>

Init ==
  /\ good \in Image
  /\ trial = None
  /\ proven = {good}
  /\ sound = TRUE

\* An uploaded firmware is put on trial: only when no other one is.
Install(i) ==
  /\ trial = None
  /\ trial' = i
  /\ UNCHANGED <<good, proven>>

\* A firmware that is on trial, or the good one, reaches the HTTP server.
Serve(i) ==
  /\ i \in {good, trial} \ {None}
  /\ proven' = proven \cup {i}
  /\ UNCHANGED <<good, trial>>

\* The firmware on trial becomes the good one, never before it has served.
Accept ==
  /\ trial \in proven
  /\ good' = trial
  /\ trial' = None
  /\ UNCHANGED proven

\* The firmware on trial is dropped.
RollBack ==
  /\ trial # None
  /\ trial' = None
  /\ UNCHANGED <<good, proven>>

Promised ==
  \/ \E i \in Image : Install(i) \/ Serve(i)
  \/ Accept
  \/ RollBack

\* From the first failing flash operation on nothing is promised.
Next ==
  \/ sound /\ sound' /\ Promised
  \/ sound' = FALSE

Spec == Init /\ [][Next]_vars

=============================================================================
