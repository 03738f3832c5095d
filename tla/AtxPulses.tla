------------------------------ MODULE AtxPulses ------------------------------
(***************************************************************************)
(* The ATX switches of the TinyGo firmware: handleAction, runAction and    *)
(* mcpPulse (src/v2/tinygo-firmware), the MCP23017 driver under them, and  *)
(* time.  Every connection is served by a goroutine of its own and no lock *)
(* is held over a pulse, so pulses of one switch may overlap.  The errors  *)
(* of both driver calls of a pulse are ignored by the code.                *)
(*                                                                         *)
(* A driver call is one step.  Time advances in ticks, never past the end  *)
(* of a sleep: a goroutine that is due runs within the tick.               *)
(***************************************************************************)
EXTENDS Naturals, FiniteSets

CONSTANTS
  Conn,        \* the goroutines that serve connections
  PC,          \* the PCs under control
  PowerPulse, ResetPulse, ForcePulse,  \* pulse lengths in ticks (config.go)
  I2CErrors    \* may a driver call fail?

ASSUME PulseAssumption ==
  /\ {PowerPulse, ResetPulse, ForcePulse} \subseteq Nat \ {0}
  /\ ResetPulse <= PowerPulse /\ PowerPulse < ForcePulse
  /\ I2CErrors \in BOOLEAN

\* The actions of runAction, its aliases poweron and poweroff included: which
\* line of the PC is pulsed, and for how long.
Action == {"power", "poweron", "reset", "force_off", "poweroff"}
ForceOff == {"force_off", "poweroff"}
LineOf(action) == IF action = "reset" THEN "reset" ELSE "power"
Length(action) ==
  CASE action \in ForceOff  -> ForcePulse
    [] action = "reset"  -> ResetPulse
    [] OTHER             -> PowerPulse

Switch == PC \X {"power", "reset"}
Job    == PC \X Action
NoJob  == <<>>
SwitchOf(j) == <<j[1], LineOf(j[2])>>

VARIABLES
  pc,      \* where each goroutine is
  job,     \* the PC and the action it serves
  left,    \* the ticks left of its sleep
  cache,   \* the driver's copy of the output pins
  out,     \* the output pins of the chip: the switches that are pressed
  held,    \* history: how long each switch has been pressed without a break
  missed   \* history: the switches a driver call has failed for

vars == <<pc, job, left, cache, out, held, missed>>

MaxHeld == ForcePulse + 1

(* Type correctness; a goroutine has a job exactly while it pulses.         *)
TypeOK ==
  /\ pc \in [Conn -> {"idle", "press", "sleep"}]
  /\ job \in [Conn -> Job \cup {NoJob}]
  /\ left \in [Conn -> 0..ForcePulse]
  /\ cache \subseteq Switch /\ out \subseteq Switch /\ missed \subseteq Switch
  /\ held \in [Switch -> 0..MaxHeld]
  /\ \A c \in Conn : (pc[c] = "idle") = (job[c] = NoJob)

\* mcpInit has left every switch released.
Init ==
  /\ pc   = [c \in Conn |-> "idle"]
  /\ job  = [c \in Conn |-> NoJob]
  /\ left = [c \in Conn |-> 0]
  /\ cache = {} /\ out = {} /\ missed = {}
  /\ held = [s \in Switch |-> 0]

-----------------------------------------------------------------------------
\* SetPins of the driver: it writes all pins, but only if one changes, and
\* remembers what it wrote only if the write succeeded.
SetPin(s, pins) ==
  /\ \/ pins = cache /\ UNCHANGED <<cache, out, missed>>
     \/ pins # cache /\ cache' = pins /\ out' = pins /\ UNCHANGED missed
     \/ /\ I2CErrors /\ pins # cache
        /\ out' \in {out, pins}
        /\ missed' = missed \cup {s}
        /\ UNCHANGED cache
  /\ held' = [t \in Switch |-> IF t \in out' THEN held[t] ELSE 0]

High(s) == SetPin(s, cache \cup {s})
Low(s)  == SetPin(s, cache \ {s})

\* A POST /action that passed the checks of handleAction and runAction.
Request(c, p, action) ==
  /\ pc[c] = "idle"
  /\ pc' = [pc EXCEPT ![c] = "press"]
  /\ job' = [job EXCEPT ![c] = <<p, action>>]
  /\ UNCHANGED <<left, cache, out, held, missed>>

\* mcpPulse: High, and Sleep begins.
Press(c) ==
  /\ pc[c] = "press"
  /\ High(SwitchOf(job[c]))
  /\ pc' = [pc EXCEPT ![c] = "sleep"]
  /\ left' = [left EXCEPT ![c] = Length(job[c][2])]
  /\ UNCHANGED job

\* Mutant: the release is left to the last of the overlapping pulses.
ReleaseIfLast(c) ==
  /\ pc[c] = "sleep" /\ left[c] = 0
  /\ IF \E d \in Conn \ {c} :
          pc[d] = "sleep" /\ SwitchOf(job[d]) = SwitchOf(job[c])
       THEN UNCHANGED <<cache, out, held, missed>>
       ELSE Low(SwitchOf(job[c]))
  /\ pc' = [pc EXCEPT ![c] = "idle"]
  /\ job' = [job EXCEPT ![c] = NoJob]
  /\ UNCHANGED left

\* Mutant: whatever was pressed, the power line is released.
ReleasePowerLine(c) ==
  /\ pc[c] = "sleep" /\ left[c] = 0
  /\ Low(<<job[c][1], "power">>)
  /\ pc' = [pc EXCEPT ![c] = "idle"]
  /\ job' = [job EXCEPT ![c] = NoJob]
  /\ UNCHANGED left

\* Mutant: the goroutine keeps its request after it has answered.
ReleaseKeepsJob(c) ==
  /\ pc[c] = "sleep" /\ left[c] = 0
  /\ Low(SwitchOf(job[c]))
  /\ pc' = [pc EXCEPT ![c] = "idle"]
  /\ UNCHANGED <<job, left>>

\* mcpPulse: the sleep is over, Low; the request is answered with ok.
Release(c) ==
  /\ pc[c] = "sleep" /\ left[c] = 0
  /\ Low(SwitchOf(job[c]))
  /\ pc' = [pc EXCEPT ![c] = "idle"]
  /\ job' = [job EXCEPT ![c] = NoJob]
  /\ UNCHANGED left

\* Time passes while nobody is due.
Tick ==
  /\ \A c \in Conn : pc[c] = "idle" \/ (pc[c] = "sleep" /\ left[c] > 0)
  /\ left' = [c \in Conn |-> IF pc[c] = "sleep" THEN left[c] - 1 ELSE left[c]]
  /\ held' = [s \in Switch |->
                IF s \in out /\ held[s] < MaxHeld THEN held[s] + 1 ELSE held[s]]
  /\ UNCHANGED <<pc, job, cache, out, missed>>

Next ==
  \/ \E c \in Conn :
       \/ \E p \in PC, a \in Action : Request(c, p, a)
       \/ Press(c)
       \/ Release(c)
  \/ Tick

Spec == Init /\ [][Next]_vars

-----------------------------------------------------------------------------
Pulsing(s) == {c \in Conn : pc[c] = "sleep" /\ SwitchOf(job[c]) = s}

(* However pulses overlap, a pressed switch has a goroutine that will       *)
(* release it, unless a driver call for that switch has failed: the last    *)
(* one out never leaves a switch pressed.                                   *)
PressedIsReleased ==
  \A s \in cache \cup out : s \in missed \/ Pulsing(s) # {}

(* Overlapping short pulses never add up to a forced power-off: a switch is *)
(* pressed for longer than a power pulse only if a force-off was asked for  *)
(* it, and never for longer than the force-off pulse.                       *)
NoAccidentalForceOff ==
  \A s \in Switch \ missed :
    /\ held[s] <= ForcePulse
    /\ held[s] > PowerPulse =>
         \E c \in Pulsing(s) : job[c][2] \in ForceOff

(* "Pulse lengths: ... force-off (hold) 5 s": when a force-off is answered  *)
(* with ok, its switch has just been pressed for that long.                 *)
ForceOffHolds ==
  [][\A c \in Conn :
       Release(c) /\ job[c][2] \in ForceOff => held[SwitchOf(job[c])] >= ForcePulse]_vars

=============================================================================
