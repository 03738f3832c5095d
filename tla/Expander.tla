------------------------------ MODULE Expander ------------------------------
(***************************************************************************)
(* The ATX switches of the v2 MicroPython controller: class MCP23017 and   *)
(* run_action of src/v2/main.py, the port expander behind them, and I2C    *)
(* writes that may raise OSError at any register access.                   *)
(*                                                                         *)
(* The server handles one request at a time, so there is one pulse at a    *)
(* time.  The expander is a chip of its own: a reset of the processor      *)
(* (watchdog, machine.reset) leaves its registers as they are, a power     *)
(* cycle clears both.  Only the output pins matter: a bank register is     *)
(* the set of the switches whose bits are set.                             *)
(***************************************************************************)
EXTENDS FiniteSets

CONSTANTS
  PC,          \* the PCs under control
  BankOf,      \* the bank, "A" or "B", that a PC is wired to
  I2CErrors    \* may a write to the expander raise?

ASSUME ExpanderAssumption ==
  /\ BankOf \in [PC -> {"A", "B"}]
  /\ I2CErrors \in BOOLEAN

Line    == {"power", "reset"}
Switch  == PC \X Line
NoSwitch == <<>>

\* The names /action accepts; poweron and poweroff are aliases.
Action  == {"power", "poweron", "reset", "force_off", "poweroff"}
LineOf(action) == IF action = "reset" THEN "reset" ELSE "power"

Bank(b) == {s \in Switch : BankOf[s[1]] = b}

VARIABLES
  latch,    \* output_latch: what the driver believes it has written
  olat,     \* the OLAT registers of the chip
  outputs,  \* the banks whose IODIR has made the switch pins outputs
  pc,       \* where the program is
  current,  \* the switch of the pulse in progress
  failed    \* history: switches whose action raised since the last begin()

vars == <<latch, olat, outputs, pc, current, failed>>

BeginPc == {"scan", "olat_a", "olat_b", "iodir_a", "iodir_b"}

(* Type correctness; a pulse is in progress exactly while it has a switch.  *)
TypeOK ==
  /\ latch \subseteq Switch /\ olat \subseteq Switch /\ failed \subseteq Switch
  /\ outputs \subseteq {"A", "B"}
  /\ pc \in BeginPc \cup {"idle", "hold", "halted"}
  /\ current \in Switch \cup {NoSwitch}
  /\ (pc = "hold") = (current # NoSwitch)

Init ==
  /\ latch = {} /\ olat = {} /\ outputs = {} /\ failed = {}
  /\ pc = "scan"
  /\ current = NoSwitch

\* The ATX header sees a switch pressed when its pin is a high output.
Pressed == {s \in olat : BankOf[s[1]] \in outputs}

-----------------------------------------------------------------------------
\* write_reg of one OLAT register: the whole bank is written at once.
Written(b, bits) == olat' = (olat \ Bank(b)) \cup bits

\* write_reg raises, before or after the chip took the byte.
WriteRaises(b, bits) ==
  /\ I2CErrors
  /\ Written(b, bits) \/ UNCHANGED olat

-----------------------------------------------------------------------------
(* MCP23017.begin, called once as main.py starts                           *)

\* The expander answers at its address, or main.py dies.
Scan ==
  /\ pc = "scan"
  /\ pc' = "olat_a" \/ (I2CErrors /\ pc' = "halted")
  /\ UNCHANGED <<latch, olat, outputs, current, failed>>

\* All switches of a bank are released before its pins become outputs.
BeginOlat(b, from, to) ==
  /\ pc = from
  /\ \/ Written(b, {}) /\ pc' = to
     \/ WriteRaises(b, {}) /\ pc' = "halted"
  /\ UNCHANGED <<latch, outputs, current, failed>>

\* The pins become outputs; a pull-up write that raises is the last case too.
BeginIodir(b, from, to) ==
  /\ pc = from
  /\ \/ pc' = to /\ outputs' = outputs \cup {b}
     \/ I2CErrors /\ pc' = "halted" /\ outputs' \in {outputs, outputs \cup {b}}
  /\ failed' = IF pc' = "idle" THEN {} ELSE failed
  /\ UNCHANGED <<latch, olat, current>>

\* Mutant: begin() clears bank A twice and bank B never.
BeginForgetsB ==
  \/ Scan
  \/ BeginOlat("A", "olat_a", "olat_b")
  \/ BeginOlat("A", "olat_b", "iodir_a")
  \/ BeginIodir("A", "iodir_a", "iodir_b")
  \/ BeginIodir("B", "iodir_b", "idle")

Begin ==
  \/ Scan
  \/ BeginOlat("A", "olat_a", "olat_b")
  \/ BeginOlat("B", "olat_b", "iodir_a")
  \/ BeginIodir("A", "iodir_a", "iodir_b")
  \/ BeginIodir("B", "iodir_b", "idle")

-----------------------------------------------------------------------------
(* run_action and MCP23017.pulse                                           *)

\* set_output(True): the latch is updated first and written afterwards, so
\* it keeps the bit when the write raises.
Press(p, action) ==
  LET s == <<p, LineOf(action)>>
      b == BankOf[p]
  IN  /\ pc = "idle"
      /\ latch' = latch \cup {s}
      /\ \/ /\ Written(b, latch' \cap Bank(b))
            /\ pc' = "hold" /\ current' = s
            /\ UNCHANGED failed
         \/ /\ WriteRaises(b, latch' \cap Bank(b))
            /\ failed' = failed \cup {s}
            /\ UNCHANGED <<pc, current>>
      /\ UNCHANGED outputs

\* Mutant: the register is written before the latch is updated.
ReleaseWritesFirst ==
  LET b == BankOf[current[1]]
  IN  /\ pc = "hold"
      /\ latch' = latch \ {current}
      /\ \/ Written(b, latch \cap Bank(b)) /\ UNCHANGED failed
         \/ /\ WriteRaises(b, latch \cap Bank(b))
            /\ failed' = failed \cup {current}
      /\ pc' = "idle" /\ current' = NoSwitch
      /\ UNCHANGED outputs

\* set_output(False), after the pulse length: the same, the other way.
Release ==
  LET b == BankOf[current[1]]
  IN  /\ pc = "hold"
      /\ latch' = latch \ {current}
      /\ \/ Written(b, latch' \cap Bank(b)) /\ UNCHANGED failed
         \/ /\ WriteRaises(b, latch' \cap Bank(b))
            /\ failed' = failed \cup {current}
      /\ pc' = "idle" /\ current' = NoSwitch
      /\ UNCHANGED outputs

-----------------------------------------------------------------------------
\* Mutant: a pulse does not feed the watchdog.
ResetAnyTime ==
  /\ pc \in {"idle", "halted", "hold"}
  /\ pc' = "scan" /\ latch' = {}
  /\ UNCHANGED <<olat, outputs, current, failed>>

\* The processor restarts on its own; a fresh MCP23017 object has latch 0.
\* No reset falls into a pulse: the pulse feeds the watchdog, and an update,
\* the only other reason to reset, is another request.
Reset ==
  /\ pc \in {"idle", "halted"}
  /\ pc' = "scan" /\ latch' = {}
  /\ UNCHANGED <<olat, outputs, current, failed>>

PowerCycle ==
  /\ pc' = "scan"
  /\ latch' = {} /\ olat' = {} /\ outputs' = {} /\ failed' = {}
  /\ current' = NoSwitch

Next ==
  \/ Begin
  \/ \E p \in PC, a \in Action : Press(p, a)
  \/ Release
  \/ Reset
  \/ PowerCycle

Spec == Init /\ [][Next]_vars

-----------------------------------------------------------------------------
(* A switch stays pressed, or waits in the latch to be pressed again, only  *)
(* if an action on that very switch raised since the controller started:    *)
(* no action that returned ok leaves anything behind, on its own bank or on *)
(* the other one.                                                           *)
OnlyFailuresLinger == latch \cup olat \subseteq failed \cup {current}

(* A restart releases every switch before the first request is served, also *)
(* those a failed action had left pressed in the chip.                      *)
RestartReleases == [][pc = "iodir_b" /\ pc' = "idle" => olat' = {}]_vars

(* An action presses the switch it is about and no other one: "ATX power    *)
(* switch pulse", "ATX reset switch pulse" in the comments of main.py.      *)
PulsesItsOwnSwitch ==
  [][/\ \A p \in PC, a \in Action :
          Press(p, a) => Pressed' \ Pressed \subseteq {<<p, LineOf(a)>>}
     /\ Release => Pressed' \subseteq Pressed]_vars

=============================================================================
