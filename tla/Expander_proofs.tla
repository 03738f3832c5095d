--------------------------- MODULE Expander_proofs ---------------------------
(***************************************************************************)
(* What the expander guarantees for every number of PCs and every wiring   *)
(* of them to the two banks, whichever I2C writes raise.                   *)
(***************************************************************************)
EXTENDS Expander, TLAPS

\* While begin() runs the latch is the fresh object's, and the banks it has
\* already cleared are clear.
Traced ==
  /\ TypeOK
  /\ OnlyFailuresLinger
  /\ pc \in BeginPc => latch = {}
  /\ pc = "olat_b" => olat \cap Bank("A") = {}
  /\ pc \in {"iodir_a", "iodir_b"} => olat = {}

(* Every switch is on one of the two banks; the empty tuple is none.        *)
LEMMA BanksCover == Switch = Bank("A") \cup Bank("B")
BY ExpanderAssumption DEF Switch, Bank, Line

LEMMA PressIsASwitch ==
  ASSUME NEW p \in PC, NEW a \in Action
  PROVE  /\ <<p, LineOf(a)>> \in Switch
         /\ <<p, LineOf(a)>> # NoSwitch
BY DEF Switch, Line, LineOf, NoSwitch

LEMMA TracedInit == Init => Traced
BY DEF Init, Traced, TypeOK, OnlyFailuresLinger, BeginPc, NoSwitch

LEMMA TracedStep ==
  ASSUME Traced, [Next]_vars
  PROVE  Traced'
<1>1. NoSwitch \notin Switch
  BY DEF NoSwitch, Switch
<1>2. \A b \in {"A", "B"} : Bank(b) \subseteq Switch
  BY DEF Bank
<1> USE <1>1, <1>2 DEF Traced, TypeOK, OnlyFailuresLinger, BeginPc
<1>3. CASE Scan
  BY <1>3 DEF Scan
<1>4. CASE BeginOlat("A", "olat_a", "olat_b")
  BY <1>4 DEF BeginOlat, WriteRaises, Written
<1>5. CASE BeginOlat("B", "olat_b", "iodir_a")
  <2>1. olat' = {} \/ (pc' = "halted" /\ olat' \subseteq olat)
    BY <1>5, BanksCover DEF BeginOlat, WriteRaises, Written
  <2> QED
    BY <1>5, <2>1 DEF BeginOlat
<1>6. CASE BeginIodir("A", "iodir_a", "iodir_b")
  BY <1>6 DEF BeginIodir
<1>7. CASE BeginIodir("B", "iodir_b", "idle")
  BY <1>7 DEF BeginIodir
<1>8. ASSUME NEW p \in PC, NEW a \in Action, Press(p, a)
      PROVE  Traced'
  <2> DEFINE s == <<p, LineOf(a)>>
  <2>1. s \in Switch /\ s # NoSwitch
    BY PressIsASwitch
  <2>2. /\ latch' = latch \cup {s}
        /\ olat' \subseteq olat \cup latch \cup {s}
        /\ pc = "idle" /\ current = NoSwitch
        /\ \/ pc' = "hold" /\ current' = s /\ failed' = failed
           \/ pc' = "idle" /\ current' = NoSwitch /\ failed' = failed \cup {s}
    BY <1>8, <2>1 DEF Press, WriteRaises, Written
  <2> HIDE DEF s
  <2>3. latch' \cup olat' \subseteq failed' \cup {current'}
    BY <2>1, <2>2
  <2>4. outputs' = outputs
    BY <1>8 DEF Press
  <2> QED
    BY <2>1, <2>2, <2>3, <2>4
<1>9. CASE Release
  <2>1. /\ latch' = latch \ {current}
        /\ pc = "hold" /\ current \in Switch
        /\ pc' = "idle" /\ current' = NoSwitch
        /\ outputs' = outputs
    BY <1>9 DEF Release
  <2>2. CASE /\ Written(BankOf[current[1]], latch' \cap Bank(BankOf[current[1]]))
             /\ failed' = failed
    <3>1. current \in Bank(BankOf[current[1]])
      BY <2>1 DEF Bank
    <3>2. current \notin olat' /\ olat' \subseteq olat \cup latch'
      BY <2>1, <2>2, <3>1 DEF Written
    <3> QED
      BY <2>1, <2>2, <3>2
  <2>3. CASE /\ WriteRaises(BankOf[current[1]],
                            latch' \cap Bank(BankOf[current[1]]))
             /\ failed' = failed \cup {current}
    <3>1. olat' \subseteq olat \cup latch'
      BY <2>3 DEF WriteRaises, Written
    <3> QED
      BY <2>1, <2>3, <3>1
  <2> QED
    BY <1>9, <2>2, <2>3 DEF Release
<1>10. CASE Reset
  BY <1>10 DEF Reset
<1>11. CASE PowerCycle
  BY <1>11 DEF PowerCycle
<1>12. CASE UNCHANGED vars
  BY <1>12 DEF vars
<1> QED
  BY <1>3, <1>4, <1>5, <1>6, <1>7, <1>8, <1>9, <1>10, <1>11, <1>12
  DEF Next, Begin

LEMMA TracedAlways == Spec => []Traced
<1>1. Init => Traced
  BY TracedInit
<1>2. Traced /\ [Next]_vars => Traced'
  BY TracedStep
<1> QED
  BY <1>1, <1>2, PTL DEF Spec

(* A switch that stays pressed, in the chip or in the latch, is one whose   *)
(* own action raised since the controller started.                          *)
THEOREM OnlyFailuresEverLinger == Spec => []OnlyFailuresLinger
<1>1. Traced => OnlyFailuresLinger
  BY DEF Traced
<1> QED
  BY <1>1, TracedAlways, PTL

(* When the controller starts to serve requests every switch is released,   *)
(* whatever an earlier run of the program had left pressed in the chip.     *)
THEOREM RestartAlwaysReleases == Spec => RestartReleases
<1>1. Traced /\ [Next]_vars => (pc = "iodir_b" /\ pc' = "idle" => olat' = {})
  <2> SUFFICES ASSUME Traced, Next, pc = "iodir_b", pc' = "idle"
               PROVE  olat' = {}
    BY DEF vars
  <2> QED
    BY DEF Traced, Next, Begin, Scan, BeginOlat, BeginIodir, Press, Release,
           Reset, PowerCycle
<1>2. Traced /\ [Next]_vars
        => [pc = "iodir_b" /\ pc' = "idle" => olat' = {}]_vars
  BY <1>1
<1> QED
  BY <1>2, TracedAlways, PTL DEF Spec, RestartReleases

(* Types are kept, and a pulse is in progress exactly while it has a        *)
(* switch: begin, set_output and pulse of main.py for any PCs and banks.    *)
THEOREM TypeCorrect == Spec => []TypeOK
<1>1. Traced => TypeOK
  BY DEF Traced
<1> QED
  BY <1>1, TracedAlways, PTL

-----------------------------------------------------------------------------
(* What an action presses besides its own switch: only what an earlier      *)
(* action that raised has left in the latch.                                *)

\* A press adds to the pressed switches its own and failed ones, a release
\* failed ones.
PressesOwnOrFailed ==
  /\ \A p \in PC, a \in Action :
       Press(p, a) => Pressed' \ Pressed \subseteq failed \cup {<<p, LineOf(a)>>}
  /\ Release => Pressed' \ Pressed \subseteq failed

LEMMA PressesOwnOrFailedStep ==
  ASSUME Traced
  PROVE  PressesOwnOrFailed
<1>1. ASSUME NEW p \in PC, NEW a \in Action, Press(p, a)
      PROVE  Pressed' \ Pressed \subseteq failed \cup {<<p, LineOf(a)>>}
  <2> DEFINE s == <<p, LineOf(a)>>
  <2>1. s \in Switch /\ s # NoSwitch
    BY PressIsASwitch
  <2>2. olat' \subseteq olat \cup latch \cup {s} /\ current = NoSwitch
    BY <1>1, <2>1 DEF Press, WriteRaises, Written, Traced, TypeOK
  <2>3. outputs' = outputs /\ olat \cup latch \subseteq failed \cup {NoSwitch}
    BY <1>1, <2>2 DEF Press, Traced, OnlyFailuresLinger
  <2>4. olat \cup latch \subseteq Switch /\ NoSwitch \notin Switch
    BY DEF Traced, TypeOK, NoSwitch, Switch
  <2>5. olat' \subseteq failed \cup {s}
    BY <2>2, <2>3, <2>4
  <2> HIDE DEF s
  <2>6. Pressed' \subseteq olat'
    BY DEF Pressed
  <2> QED
    BY <2>5, <2>6 DEF s
<1>2. ASSUME Release
      PROVE  Pressed' \ Pressed \subseteq failed
  <2>1. /\ outputs' = outputs
        /\ latch' = latch \ {current}
        /\ olat' \subseteq olat \cup latch'
    BY <1>2 DEF Release, WriteRaises, Written
  <2>2. latch' \subseteq failed
    BY <2>1 DEF Traced, OnlyFailuresLinger
  <2>3. Pressed' \ Pressed \subseteq olat' \ olat
    BY <2>1 DEF Pressed
  <2> QED
    BY <2>1, <2>2, <2>3
<1> QED
  BY <1>1, <1>2 DEF PressesOwnOrFailed

(* No action ever presses a switch of a PC that nobody asked for, unless an *)
(* earlier action on that very switch raised; on either bank, and for any   *)
(* writes that raise.                                                       *)
THEOREM OnlyFailuresAreRepeated == Spec => [][PressesOwnOrFailed]_vars
<1>1. Traced => [PressesOwnOrFailed]_vars
  BY PressesOwnOrFailedStep
<1> QED
  BY <1>1, TracedAlways, PTL

(* The comments of main.py hold while the bus works: an action presses the  *)
(* switch it is about and no other one.  The run expander_stale_latch shows *)
(* that they do not after a write that raised.                              *)
THEOREM OwnSwitchWithoutErrors ==
  ASSUME ~I2CErrors
  PROVE  Spec => PulsesItsOwnSwitch
<1>1. Init => failed = {}
  BY DEF Init
<1>2. failed = {} /\ [Next]_vars => (failed = {})'
  BY DEF Next, vars, Begin, Scan, BeginOlat, BeginIodir, Press, Release,
         WriteRaises, Reset, PowerCycle
<1>3. Spec => [](failed = {})
  BY <1>1, <1>2, PTL DEF Spec
<1>4. Traced /\ failed = {} =>
        [/\ \A p \in PC, a \in Action :
              Press(p, a) => Pressed' \ Pressed \subseteq {<<p, LineOf(a)>>}
         /\ Release => Pressed' \subseteq Pressed]_vars
  BY PressesOwnOrFailedStep DEF PressesOwnOrFailed
<1> QED
  BY <1>3, <1>4, TracedAlways, PTL DEF PulsesItsOwnSwitch

=============================================================================
