-------------------------- MODULE AtxPulses_proofs --------------------------
(***************************************************************************)
(* Overlapping pulses, for every number of connections and of PCs and      *)
(* every pulse length: what is pressed is released, and short pulses never *)
(* add up to a forced power-off.                                           *)
(***************************************************************************)
EXTENDS AtxPulses, TLAPS

\* c is the goroutine whose press began the time s has been pressed: its
\* pulse is over when that time reaches the length of its action.
Starter(s, c) ==
  /\ pc[c] = "sleep"
  /\ SwitchOf(job[c]) = s
  /\ held[s] + left[c] = Length(job[c][2])

\* Driver and chip differ only where a call has failed; and every pressed
\* switch still has its starter, because the release of any goroutine ends
\* the press of all of them.
PulseInv ==
  /\ TypeOK
  /\ \A s \in Switch : (s \in cache) # (s \in out) => s \in missed
  /\ \A s \in Switch : s \notin out => held[s] = 0
  /\ \A s \in Switch : s \in out /\ s \notin missed => \E c \in Conn : Starter(s, c)

LEMMA JobFacts ==
  ASSUME NEW j \in Job
  PROVE  /\ SwitchOf(j) \in Switch
         /\ j[2] \in Action
         /\ j # NoJob
BY DEF Job, SwitchOf, LineOf, Switch, NoJob

LEMMA LengthFacts ==
  ASSUME NEW a \in Action
  PROVE  /\ Length(a) \in 1..ForcePulse
         /\ Length(a) > PowerPulse => a \in ForceOff
BY PulseAssumption DEF Length, ForceOff, Action

(* What a driver call for s leaves of the invariant: nothing changes for    *)
(* the other switches that have not failed, and s is as asked or failed.    *)
LEMMA SetPinEffect ==
  ASSUME PulseInv, NEW s \in Switch, NEW pins \in SUBSET Switch,
         pins \ {s} = cache \ {s}, SetPin(s, pins)
  PROVE  /\ cache' \in SUBSET Switch /\ out' \in SUBSET Switch
         /\ missed' \in SUBSET Switch /\ missed \subseteq missed'
         /\ held' \in [Switch -> 0..MaxHeld]
         /\ \A t \in Switch : (t \in cache') # (t \in out') => t \in missed'
         /\ \A t \in Switch : t \notin out' => held'[t] = 0
         /\ \A t \in Switch : t \in out' /\ t \notin missed' => held'[t] = held[t]
         /\ \A t \in Switch \ {s} :
              t \in out' /\ t \notin missed' => t \in out
         /\ s \in out' /\ s \notin missed' => s \in pins
<1>1. /\ cache \in SUBSET Switch /\ out \in SUBSET Switch
      /\ missed \in SUBSET Switch /\ held \in [Switch -> 0..MaxHeld]
      /\ 0 \in 0..MaxHeld
  BY PulseAssumption DEF PulseInv, TypeOK, MaxHeld
<1>2. /\ cache' \in SUBSET Switch /\ out' \in SUBSET Switch
      /\ missed' \in SUBSET Switch /\ missed \subseteq missed'
  BY <1>1 DEF SetPin
<1>3. held' = [t \in Switch |-> IF t \in out' THEN held[t] ELSE 0]
  BY DEF SetPin
<1>4. held' \in [Switch -> 0..MaxHeld]
  BY <1>1, <1>3
<1>5. \A t \in Switch : (t \in cache') # (t \in out') => t \in missed'
  BY <1>1 DEF SetPin, PulseInv
<1>6. /\ \A t \in Switch : t \notin out' => held'[t] = 0
      /\ \A t \in Switch : t \in out' => held'[t] = held[t]
  BY <1>3
<1>7. \A t \in Switch \ {s} : t \in out' /\ t \notin missed' => t \in out
  BY <1>1 DEF SetPin, PulseInv
<1>8. s \in out' /\ s \notin missed' => s \in pins
  BY <1>1 DEF SetPin, PulseInv
<1> QED
  BY <1>2, <1>4, <1>5, <1>6, <1>7, <1>8

LEMMA PulseInit == Init => PulseInv
<1> SUFFICES ASSUME Init PROVE PulseInv
  OBVIOUS
<1>1. ForcePulse \in Nat /\ 0 \in 0..ForcePulse /\ 0 \in 0..MaxHeld
  BY PulseAssumption DEF MaxHeld
<1>2. TypeOK
  BY <1>1 DEF Init, TypeOK
<1> QED
  BY <1>2 DEF Init, PulseInv

LEMMA PulseStep ==
  ASSUME PulseInv, [Next]_vars
  PROVE  PulseInv'
<1>1. /\ pc \in [Conn -> {"idle", "press", "sleep"}]
      /\ job \in [Conn -> Job \cup {NoJob}]
      /\ left \in [Conn -> 0..ForcePulse]
      /\ cache \subseteq Switch /\ out \subseteq Switch /\ missed \subseteq Switch
      /\ held \in [Switch -> 0..MaxHeld]
      /\ \A c \in Conn : (pc[c] = "idle") = (job[c] = NoJob)
  BY DEF PulseInv, TypeOK
<1>2. ForcePulse \in Nat /\ PowerPulse \in Nat /\ MaxHeld = ForcePulse + 1
  BY PulseAssumption DEF MaxHeld
<1>3. ASSUME NEW c \in Conn, NEW p \in PC, NEW a \in Action, Request(c, p, a)
      PROVE  PulseInv'
  <2>1. <<p, a>> \in Job /\ <<p, a>> # NoJob
    BY DEF Job, NoJob
  <2>2. TypeOK'
    BY <1>1, <1>3, <2>1 DEF Request, TypeOK
  <2>3. \A s \in Switch, d \in Conn : Starter(s, d) => Starter(s, d)'
    BY <1>1, <1>3 DEF Request, Starter
  <2> QED
    BY <1>3, <2>2, <2>3 DEF Request, PulseInv
<1>4. ASSUME NEW c \in Conn, Press(c)
      PROVE  PulseInv'
  <2> DEFINE s == SwitchOf(job[c])
  <2>1. job[c] \in Job /\ s \in Switch /\ Length(job[c][2]) \in 1..ForcePulse
    BY <1>1, <1>4, JobFacts, LengthFacts DEF Press
  <2> HIDE DEF s
  <2>2. SetPin(s, cache \cup {s})
    BY <1>4 DEF Press, High, s
  <2>3. /\ cache' \in SUBSET Switch /\ out' \in SUBSET Switch
        /\ missed' \in SUBSET Switch /\ missed \subseteq missed'
        /\ held' \in [Switch -> 0..MaxHeld]
        /\ \A t \in Switch : (t \in cache') # (t \in out') => t \in missed'
        /\ \A t \in Switch : t \notin out' => held'[t] = 0
        /\ \A t \in Switch : t \in out' /\ t \notin missed' => held'[t] = held[t]
        /\ \A t \in Switch \ {s} :
             t \in out' /\ t \notin missed' => t \in out
    BY <1>1, <2>1, <2>2, SetPinEffect
  <2>4. /\ pc' = [pc EXCEPT ![c] = "sleep"] /\ pc[c] = "press" /\ job' = job
        /\ left' = [left EXCEPT ![c] = Length(job[c][2])]
    BY <1>4 DEF Press
  <2>5. TypeOK'
    <3>1. \A d \in Conn : (pc'[d] = "idle") = (job'[d] = NoJob)
      BY <1>1, <2>4
    <3> QED
      BY <1>1, <2>1, <2>3, <2>4, <3>1 DEF TypeOK
  <2>6. ASSUME NEW t \in Switch, t \in out', t \notin missed'
        PROVE  \E d \in Conn : Starter(t, d)'
    <3>1. held'[t] = held[t]
      BY <2>3, <2>6
    <3>2. CASE t \in out
      <4>1. PICK d \in Conn : Starter(t, d)
        BY <2>3, <2>6, <3>2 DEF PulseInv
      <4>2. d # c
        BY <2>4, <4>1 DEF Starter
      <4> QED
        BY <1>1, <2>4, <3>1, <4>1, <4>2 DEF Starter
    <3>3. CASE t \notin out
      <4>1. t = s /\ held[t] = 0
        BY <2>3, <2>6, <3>3 DEF PulseInv
      <4>2. Starter(t, c)'
        BY <1>1, <2>1, <2>4, <3>1, <4>1 DEF Starter, s
      <4> QED
        BY <4>2
    <3> QED
      BY <3>2, <3>3
  <2> QED
    BY <2>3, <2>5, <2>6 DEF PulseInv
<1>5. ASSUME NEW c \in Conn, Release(c)
      PROVE  PulseInv'
  <2> DEFINE s == SwitchOf(job[c])
  <2>1. job[c] \in Job /\ s \in Switch
    BY <1>1, <1>5, JobFacts DEF Release
  <2> HIDE DEF s
  <2>2. SetPin(s, cache \ {s})
    BY <1>5 DEF Release, Low, s
  <2>3. /\ cache' \in SUBSET Switch /\ out' \in SUBSET Switch
        /\ missed' \in SUBSET Switch /\ missed \subseteq missed'
        /\ held' \in [Switch -> 0..MaxHeld]
        /\ \A t \in Switch : (t \in cache') # (t \in out') => t \in missed'
        /\ \A t \in Switch : t \notin out' => held'[t] = 0
        /\ \A t \in Switch : t \in out' /\ t \notin missed' => held'[t] = held[t]
        /\ \A t \in Switch \ {s} :
             t \in out' /\ t \notin missed' => t \in out
        /\ s \in out' => s \in missed'
    BY <1>1, <2>1, <2>2, SetPinEffect
  <2>4. /\ pc' = [pc EXCEPT ![c] = "idle"]
        /\ job' = [job EXCEPT ![c] = NoJob] /\ left' = left
    BY <1>5 DEF Release
  <2>5. TypeOK'
    <3>1. \A d \in Conn : (pc'[d] = "idle") = (job'[d] = NoJob)
      BY <1>1, <2>4
    <3> QED
      BY <1>1, <2>3, <2>4, <3>1 DEF TypeOK
  <2>6. ASSUME NEW t \in Switch, t \in out', t \notin missed'
        PROVE  \E d \in Conn : Starter(t, d)'
    <3>1. t # s /\ t \in out /\ t \notin missed /\ held'[t] = held[t]
      BY <2>3, <2>6
    <3>2. PICK d \in Conn : Starter(t, d)
      BY <3>1 DEF PulseInv
    <3>3. d # c
      BY <3>1, <3>2 DEF Starter, s
    <3> QED
      BY <1>1, <2>4, <3>1, <3>2, <3>3 DEF Starter
  <2> QED
    BY <2>3, <2>5, <2>6 DEF PulseInv
<1>6. CASE Tick
  <2>1. /\ \A c \in Conn : pc[c] = "sleep" =>
             left[c] > 0 /\ left'[c] = left[c] - 1
        /\ left' \in [Conn -> 0..ForcePulse]
    BY <1>1, <1>2, <1>6 DEF Tick
  <2>2. /\ held' = [s \in Switch |-> IF s \in out /\ held[s] < MaxHeld
                                       THEN held[s] + 1 ELSE held[s]]
        /\ UNCHANGED <<pc, job, cache, out, missed>>
    BY <1>6 DEF Tick
  <2>3. held' \in [Switch -> 0..MaxHeld]
    BY <1>1, <1>2, <2>2
  <2>4. TypeOK'
    BY <1>1, <2>1, <2>2, <2>3 DEF TypeOK
  <2>5. ASSUME NEW s \in Switch, s \in out, s \notin missed
        PROVE  \E c \in Conn : Starter(s, c)'
    <3>1. PICK c \in Conn : Starter(s, c)
      BY <2>5 DEF PulseInv
    <3>2. job[c] \in Job /\ Length(job[c][2]) \in 1..ForcePulse
      BY <1>1, <3>1, JobFacts, LengthFacts DEF Starter
    <3>3. /\ held[s] \in Nat /\ left[c] \in Nat /\ left[c] > 0
          /\ held[s] + left[c] = Length(job[c][2])
      BY <1>1, <1>2, <2>1, <3>1 DEF Starter
    <3>4. held[s] < MaxHeld
      BY <1>2, <3>2, <3>3
    <3>5. held'[s] = held[s] + 1 /\ left'[c] = left[c] - 1
      BY <2>1, <2>2, <2>5, <3>1, <3>4 DEF Starter
    <3>6. held'[s] + left'[c] = Length(job[c][2])
      BY <3>2, <3>3, <3>5
    <3>7. Starter(s, c)'
      BY <2>2, <3>1, <3>6 DEF Starter
    <3> QED
      BY <3>7
  <2>6. \A s \in Switch : s \notin out => held'[s] = 0
    BY <2>2 DEF PulseInv
  <2> QED
    BY <2>2, <2>4, <2>5, <2>6 DEF PulseInv
<1>7. CASE UNCHANGED vars
  BY <1>7 DEF vars, PulseInv, TypeOK, Starter
<1> QED
  BY <1>3, <1>4, <1>5, <1>6, <1>7 DEF Next

LEMMA PulseAlways == Spec => []PulseInv
<1>1. Init => PulseInv
  BY PulseInit
<1>2. PulseInv /\ [Next]_vars => PulseInv'
  BY PulseStep
<1> QED
  BY <1>1, <1>2, PTL DEF Spec

(* However many goroutines pulse one switch at the same time, none of them  *)
(* leaves it pressed when it is done.                                       *)
THEOREM PressedIsAlwaysReleased == Spec => []PressedIsReleased
<1>1. PulseInv => PressedIsReleased
  <2> SUFFICES ASSUME PulseInv, NEW s \in cache \cup out, s \notin missed
               PROVE  Pulsing(s) # {}
    BY DEF PressedIsReleased
  <2>1. s \in Switch /\ s \in out
    BY DEF PulseInv, TypeOK
  <2>2. PICK c \in Conn : Starter(s, c)
    BY <2>1 DEF PulseInv
  <2> QED
    BY <2>2 DEF Starter, Pulsing
<1> QED
  BY <1>1, PulseAlways, PTL

(* No sequence of power and reset requests, however they overlap, holds a   *)
(* power switch long enough to force the PC off.                            *)
THEOREM NeverAccidentalForceOff == Spec => []NoAccidentalForceOff
<1>1. PulseInv => NoAccidentalForceOff
  <2> SUFFICES ASSUME PulseInv, NEW s \in Switch, s \notin missed
               PROVE  /\ held[s] <= ForcePulse
                      /\ held[s] > PowerPulse =>
                           \E c \in Pulsing(s) : job[c][2] \in ForceOff
    BY DEF NoAccidentalForceOff
  <2>1. CASE s \notin out
    BY <2>1, PulseAssumption DEF PulseInv
  <2>2. CASE s \in out
    <3>1. PICK c \in Conn : Starter(s, c)
      BY <2>2 DEF PulseInv
    <3>2. job[c] \in Job
      BY <3>1 DEF PulseInv, TypeOK, Starter
    <3>3. /\ job[c][2] \in Action
          /\ Length(job[c][2]) \in 1..ForcePulse
          /\ Length(job[c][2]) > PowerPulse => job[c][2] \in ForceOff
      BY <3>2, JobFacts, LengthFacts
    <3>4. /\ held[s] \in Nat /\ left[c] \in Nat
          /\ ForcePulse \in Nat /\ PowerPulse \in Nat
          /\ held[s] + left[c] = Length(job[c][2])
      BY <3>1, PulseAssumption DEF PulseInv, TypeOK, MaxHeld, Starter
    <3>5. held[s] <= Length(job[c][2])
      BY <3>3, <3>4
    <3>6. c \in Pulsing(s)
      BY <3>1 DEF Pulsing, Starter
    <3> QED
      BY <3>3, <3>4, <3>5, <3>6
  <2> QED
    BY <2>1, <2>2
<1> QED
  BY <1>1, PulseAlways, PTL

(* Types are kept: no press is held past the saturation of its counter and  *)
(* no goroutine without a job sleeps (mcp.go for any number of them).       *)
THEOREM TypeCorrect == Spec => []TypeOK
<1>1. PulseInv => TypeOK
  BY DEF PulseInv
<1> QED
  BY <1>1, PulseAlways, PTL

-----------------------------------------------------------------------------
(* A pulse that nobody cuts short.  Two clients that pulse one switch at    *)
(* the same time, and a driver call that fails, are all that can make a     *)
(* pulse shorter than config.go says.                                       *)

\* No two goroutines sleep over the same switch.
Apart == \A c, d \in Conn : c # d /\ pc[c] = "sleep" /\ pc[d] = "sleep"
                              => SwitchOf(job[c]) # SwitchOf(job[d])

Holding ==
  \A c \in Conn : pc[c] = "sleep" /\ SwitchOf(job[c]) \notin missed
                    => SwitchOf(job[c]) \in out

(* A driver call sets every pin it is given, but for the switches it has    *)
(* failed.                                                                  *)
LEMMA SetPinSets ==
  ASSUME PulseInv, NEW s \in Switch, NEW pins \in SUBSET Switch,
         pins \ {s} = cache \ {s}, SetPin(s, pins)
  PROVE  /\ missed \subseteq missed'
         /\ \A t \in pins : t \notin missed' => t \in out'
BY DEF SetPin, PulseInv, TypeOK

LEMMA HoldingStep ==
  ASSUME PulseInv, Holding, Apart, [Next]_vars
  PROVE  Holding'
<1>1. /\ pc \in [Conn -> {"idle", "press", "sleep"}]
      /\ job \in [Conn -> Job \cup {NoJob}]
      /\ cache \subseteq Switch /\ out \subseteq Switch
      /\ \A c \in Conn : (pc[c] = "idle") = (job[c] = NoJob)
      /\ \A s \in Switch : (s \in cache) # (s \in out) => s \in missed
  BY DEF PulseInv, TypeOK
<1>2. ASSUME NEW d \in Conn, pc[d] = "sleep", SwitchOf(job[d]) \notin missed
      PROVE  SwitchOf(job[d]) \in cache
  <2>1. SwitchOf(job[d]) \in out
    BY <1>2 DEF Holding
  <2> QED
    BY <1>1, <1>2, <2>1
<1>3. ASSUME NEW c \in Conn, NEW p \in PC, NEW a \in Action, Request(c, p, a)
      PROVE  Holding'
  BY <1>1, <1>3 DEF Request, Holding
<1>4. ASSUME NEW c \in Conn, Press(c)
      PROVE  Holding'
  <2> DEFINE s == SwitchOf(job[c])
  <2>1. s \in Switch
    BY <1>1, <1>4, JobFacts DEF Press
  <2>2. SetPin(s, cache \cup {s})
    BY <1>4 DEF Press, High
  <2>3. /\ missed \subseteq missed'
        /\ \A t \in cache \cup {s} : t \notin missed' => t \in out'
    <3> HIDE DEF s
    <3> QED
      BY <1>1, <2>1, <2>2, SetPinSets
  <2>4. ASSUME NEW d \in Conn, pc'[d] = "sleep",
               SwitchOf(job[d]) \notin missed'
        PROVE  SwitchOf(job[d]) \in out'
    <3>1. CASE d = c
      BY <2>3, <2>4, <3>1
    <3>2. CASE d # c
      <4>1. pc[d] = "sleep"
        BY <1>1, <1>4, <2>4, <3>2 DEF Press
      <4> QED
        BY <1>2, <2>3, <2>4, <4>1
    <3> QED
      BY <3>1, <3>2
  <2> QED
    BY <1>4, <2>4 DEF Press, Holding
<1>5. ASSUME NEW c \in Conn, Release(c)
      PROVE  Holding'
  <2> DEFINE s == SwitchOf(job[c])
  <2>1. s \in Switch
    BY <1>1, <1>5, JobFacts DEF Release
  <2>2. SetPin(s, cache \ {s})
    BY <1>5 DEF Release, Low
  <2>3. /\ missed \subseteq missed'
        /\ \A t \in cache \ {s} : t \notin missed' => t \in out'
    <3> HIDE DEF s
    <3> QED
      BY <1>1, <2>1, <2>2, SetPinSets
  <2>4. ASSUME NEW d \in Conn, pc'[d] = "sleep",
               SwitchOf(job'[d]) \notin missed'
        PROVE  SwitchOf(job'[d]) \in out'
    <3>1. d # c /\ pc[d] = "sleep" /\ job'[d] = job[d]
      BY <1>1, <1>5, <2>4 DEF Release
    <3>2. SwitchOf(job[d]) # s
      BY <1>5, <3>1 DEF Apart, Release
    <3>3. SwitchOf(job[d]) \in cache
      BY <1>2, <2>3, <2>4, <3>1
    <3> QED
      BY <2>3, <2>4, <3>1, <3>2, <3>3
  <2> QED
    BY <2>4 DEF Holding
<1>6. CASE Tick
  BY <1>6 DEF Tick, Holding
<1>7. CASE UNCHANGED vars
  BY <1>7 DEF vars, Holding
<1> QED
  BY <1>3, <1>4, <1>5, <1>6, <1>7 DEF Next

LEMMA HoldingAlways == Spec /\ []Apart => []Holding
<1>1. Init => Holding
  BY DEF Init, Holding
<1>2. PulseInv /\ Holding /\ Apart /\ [Next]_vars => Holding'
  BY HoldingStep
<1> QED
  BY <1>1, <1>2, PulseAlways, PTL DEF Spec

\* The pulse that ends now has pressed its switch for exactly its length.
FullPulse(c) == held[SwitchOf(job[c])] = Length(job[c][2])

LEMMA ReleaseIsFull ==
  ASSUME PulseInv, Holding, Apart,
         NEW c \in Conn, Release(c), SwitchOf(job[c]) \notin missed
  PROVE  FullPulse(c) /\ job[c] \in Job
<1>1. pc[c] = "sleep" /\ left[c] = 0
  BY DEF Release
<1>2. job[c] \in Job /\ SwitchOf(job[c]) \in Switch
  BY <1>1, JobFacts DEF PulseInv, TypeOK
<1>3. PICK d \in Conn : Starter(SwitchOf(job[c]), d)
  BY <1>1, <1>2 DEF PulseInv, Holding
<1>4. d = c
  BY <1>1, <1>3 DEF Apart, Starter
<1>5. held[SwitchOf(job[c])] \in Nat
  BY <1>2, PulseAssumption DEF PulseInv, TypeOK, MaxHeld
<1>6. held[SwitchOf(job[c])] + left[c] = Length(job[c][2])
  BY <1>3, <1>4 DEF Starter
<1> QED
  BY <1>1, <1>2, <1>5, <1>6 DEF FullPulse

(* Where clients do not pulse the same switch at the same time, every pulse *)
(* whose driver calls succeed has exactly its length, also beside pulses of *)
(* other switches, whose failing calls do not touch it.                     *)
THEOREM ApartPulsesAreFull ==
  Spec /\ []Apart =>
    [][\A c \in Conn :
         Release(c) /\ SwitchOf(job[c]) \notin missed => FullPulse(c)]_vars
<1>1. PulseInv /\ Holding /\ Apart =>
        [\A c \in Conn :
           Release(c) /\ SwitchOf(job[c]) \notin missed => FullPulse(c)]_vars
  BY ReleaseIsFull
<1> QED
  BY <1>1, PulseAlways, HoldingAlways, PTL

(* The promise of config.go, that a force-off holds its switch for 5 s, is  *)
(* kept by every pulse that has its switch to itself while the bus works.   *)
(* The run pulses_overlap shows that it needs the first of these.           *)
THEOREM ForceOffHoldsApart ==
  ASSUME ~I2CErrors
  PROVE  Spec /\ []Apart => ForceOffHolds
<1>1. Init => missed = {}
  BY DEF Init
<1>2. missed = {} /\ [Next]_vars => (missed = {})'
  BY DEF Next, vars, Request, Press, Release, Tick, High, Low, SetPin
<1>3. Spec => [](missed = {})
  BY <1>1, <1>2, PTL DEF Spec
<1>4. PulseInv /\ Holding /\ Apart /\ missed = {} =>
        [\A c \in Conn : Release(c) /\ job[c][2] \in ForceOff
                           => held[SwitchOf(job[c])] >= ForcePulse]_vars
  <2> SUFFICES ASSUME PulseInv, Holding, Apart, missed = {},
                      NEW c \in Conn, Release(c), job[c][2] \in ForceOff
               PROVE  held[SwitchOf(job[c])] >= ForcePulse
    OBVIOUS
  <2>1. FullPulse(c)
    BY ReleaseIsFull
  <2>2. Length(job[c][2]) = ForcePulse
    BY DEF Length, ForceOff
  <2> QED
    BY <2>1, <2>2, PulseAssumption DEF FullPulse
<1> QED
  BY <1>3, <1>4, PulseAlways, HoldingAlways, PTL DEF ForceOffHolds

=============================================================================
