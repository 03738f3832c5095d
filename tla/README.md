# A TLA+ model of the OOB management controllers

The repository holds three programs for one job, pressing the power and reset
buttons of four PCs from a web page: the first controller (ESP32, `src/main.py`),
its successor in MicroPython (`src/v2/main.py`, `src/v2/boot.py`) and a port of
that to TinyGo (`src/v2/tinygo-firmware`). What they have in common is that nobody
stands next to them: a controller that loses its firmware, its credentials or its
address, or that holds a power button down, has to be visited. The modules here
model the parts that decide this, TLC checks them on small instances, and TLAPS
proves the most important results for every instance.

## 1. Inventory

### v2 in MicroPython (one thread, one request at a time)

| Part | State | Operations | What is hard |
| --- | --- | --- | --- |
| Update and boot: `handle_ota_update`, `install_ota_upload`, `boot.py` | five files on flash, the watchdog, the program in RAM | upload, validate, install, reboot, mark, arm, accept, roll back | power may fail between any two file operations; flash operations fail; the program in RAM is not the one on flash; the reply comes before the reset |
| ATX switches: `class MCP23017`, `run_action` | `output_latch` in RAM, registers in the expander | begin, pulse | a register write may raise half-way through a pulse; the expander keeps its outputs over a reset of the processor |
| HTTP server: `serve_http`, the readers, `handle_request` | none between requests | accept, read head and body, check the login, decode parameters, dispatch, answer errors | a request comes in segments of any length or not at all; an exception in a handler is answered and forgotten, whatever it had done |
| Labels | `labels`, `labels.json` | load, set, save | RAM changes before the file, which is truncated before it is written |
| KVM, log | a PIO FIFO, a list | switch, append | the PIO may not be there |
| Ethernet | `nic` | bring-up | gives up after 30 seconds and takes `main.py` down |

Update, boot and the server interact through the marker files and through what the
server does after an exception; the watchdog connects them to the Ethernet bring-up,
which may end `main.py` on the first boot of a good update.

### v2 in TinyGo (a goroutine for each connection)

| Part | State | Operations | What is hard |
| --- | --- | --- | --- |
| ATX pulses: `handleAction`, `runAction`, `mcpPulse` | the driver's copy of the pins, the pins | action | no lock over High, Sleep, Low, so pulses overlap; the errors of both calls are dropped |
| Settings: `store.go`, `handleLabel`, `handleAuthChange`, `checkAuth` | labels, user, password, `storeMu`, one flash sector | set, change, log in, save, load | labels are set outside the mutex; change and save are two critical sections; erase before write |
| Network: `netbring.go`, `main.go` | address, mask, gateway | bring up, discover, request, retry | constant transaction id, late answers, no renewal |
| HTTP server: `server.go` | listener, error count | listen, accept, heal | errors that count and errors that do not; a handler that panics takes everything down |
| Serial console, log, KVM | two rings, a half-read line, a FIFO | read, push, clear, send | the line is touched with and without the mutex |

### v1 on the ESP32

| Part | State | Operations | What is hard |
| --- | --- | --- | --- |
| Settings | three NVS name spaces, `LABELS` | load, set blobs, commit, reset | a pair is two blobs and one commit; the body is one `recv`, so a part of a field may be saved; what is too long is saved but never read back |
| Wi-Fi: `bringup_wifi` | `SETUP_MODE`, the interfaces | join, or start the access point | no access point if there are credentials, good or not |
| Switches: `pulse` | the registers of the expander | read, press, read, release | no `finally`; nothing clears the expander after a restart |
| Server | none between requests | accept, receive, answer | `accept` and the pins are outside of the `try` |

v2 replaces it, but it is the program in the root of the repository.

### What makes each part correct

* Update: a firmware that has been seen serving is on flash at every moment; an
  idle controller restarts into one; no update is rolled back because of the marker of
  an earlier one; every update ends accepted or rolled back; every boot ends serving.
* Switches: what a request leaves pressed, it releases; an action touches its own
  switch; a short pulse never becomes a forced power-off; a restart releases all.
* Settings: no pair of credentials that nobody set; RAM and flash agree once all
  requests are answered, and a reboot brings it back.
* Network: the address in use is leased to this controller; one is found in the end.
* Server: the listener is healed; a request takes effect as a whole, once it has been
  let in, or not at all; parameters in one-byte characters arrive as they were typed; RAM and
  file tell the same story of a label; a silent client costs its timeout and no more.
* v1: no pair of credentials or of network and password that nobody asked for; somebody
  can always reach the controller; labels outlive a restart; an action that ends without
  an exception leaves no switch pressed.

`PROJECT.json` lists, under `hazards`, the lines where each of these can go wrong and
the property that would notice.

## 2. The modules

| Module | Models | Shape |
| --- | --- | --- |
| `FirmwareTrial` | what an update promises | abstract: a good firmware and at most one on trial |
| `OtaUpdate` | `boot.py`, the upload and install of `main.py`, resets | one action for each file operation or decision; implements `FirmwareTrial` |
| `Expander` | `class MCP23017` and `run_action` of `main.py` | one action for each register write |
| `AtxPulses` | `mcp.go`, `handleAction` | one action for each driver call and goroutine, and ticks of time |
| `SettingsStore` | `store.go`, the handlers of `web.go` that use it | one action for each assignment, flash call or lock operation of a goroutine |
| `DhcpClient` | `netbring.go`, the loop of `main.go` | client, servers, network |
| `Listener` | `server.go`, the start of `main.go`, the nil device of `mcp.go` | one action for each outcome of a socket call and each stage of a connection |
| `Forms` | `url_unquote`, `parse_kv_pairs`, and the encoding the page applies | functions on sequences |
| `HttpServer` | `serve_http`, the readers, `handle_request`, the labels of `src/v2/main.py` | one action for each outcome of a socket or file call and for each route; extends `Forms` |
| `V1Controller` | `src/main.py` | one action for each NVS, socket or I2C call or route |
| `MC...` | the instance of each for TLC | model values and definitions |
| `..._proofs` | theorems about each | TLAPS |

Definitions have the names of the code where they stand for a function, and `map` in
`PROJECT.json` gives the lines. A definition preceded by the word "Mutant" is a
plausible bug: put in place of the definition it follows, it must make the property
that is meant to notice it fail. Mutants are not part of any specification.

### OtaUpdate

`disk` maps the five file names to their contents: an image, `Partial` (anything that
does not compile), `Marker`, or `NoFile`. `pc` is the statement the processor is at,
from the two lines of `boot.py` that read the markers to the accept loop and through
the handler of `/update`. An image is only its behaviour: it serves, it stops, or it
spins (feeds the watchdog and never listens). `proven` (the images that have been seen
listening) and `tried` (what has become of `main.py` since it was installed: nothing, a start,
or a power cut between its booting marker and its start) are history. Such a cut costs a
firmware its trial: the next boot finds the marker and rolls back an image that never ran.

`remove_file` swallows its error, so it may leave the file; `os.rename` raises or moves;
a marker may have been created when its writing raises. `Restart` keeps the disk and
the history and loses the rest. A power cut may come at any step. Assumptions, all
external to the code: littlefs makes each operation atomic and durable when it
returns (the code calls `os.sync`); every image carries this update code; the factory
image serves.

`ImplementsTrial` maps the disk to `FirmwareTrial`: while the pending marker and the
backup both exist, the backup is the good firmware and `main.py` is on trial; else
`main.py` is the good one. `FirmwareTrial` promises nothing from the first failing flash
operation on (`sound`).

### Expander

`latch` is `output_latch`, `olat` and `outputs` are the registers of the chip, as sets
of switches. A write covers a whole bank, and a write that raises may have reached the
chip or not. `Reset` restarts the processor and leaves the chip alone; it cannot fall
into a pulse, because `sleep_with_watchdog` feeds the watchdog and the update handler
is another request.

### AtxPulses

A goroutine is idle, about to press, or asleep with `left` ticks to go. `SetPin` is the
driver: it writes only what changes and remembers only what was written. `Tick` never
passes the end of a sleep. The lengths keep the order of `config.go`, reset <= power <
force-off; a goroutine that is due runs before the next tick, which stands for the code
taking microseconds and the pulses seconds.

### SettingsStore

`pc` and `job` follow each goroutine through `handleLabel`, `handleAuthChange`,
`checkAuth` and `storeSave`. The assignment of user and password is two steps. `Kept`
is what `fixedStr` and `cStr` make of a text between them: the same, or shorter if it
holds a zero byte. The properties compare flash and RAM for texts that are kept whole; no
handler refuses the others, and they come back shorter or as the default, which
`src/v2/tinygo-firmware/README.md:32` ("credentials and labels persist across reboots") does
not say. `flashFailed` remembers whether a flash call has failed. TinyGo's
scheduler for this board is taken to be the cooperative one, as the comment at
`kvm.go:69` does; the model allows more interleavings than it does.

### DhcpClient

`net` is a set of datagrams: delivering one does not remove it (duplicates), `Lose`
does, and nothing orders them. Sending DISCOVER or REQUEST makes what is in flight
`old`. A server is named by its address. `overtaken` and `lapsed` record the two events
that can part the controller from its lease, so the invariant holds without assuming
them away and says that there is no third one.

### Listener

`pc` follows `serveForever` through its calls and sleeps, `conn` each connection through
reading, handling and replying. The chip is external and known from the comments of
`server.go`: the listening socket holds one handshake (`handshake`), and a client that
leaves before `Accept` runs may leave it failing once or until it is closed (`upset`). What
a handler does is in the other modules; here a request only needs the expander or not.
`mcpInit` may have failed, since `main` goes on without it, and a panic ends everything.
A count of errors that is not reset by a success can also close a listener that is no
longer wedged, with a handshake in it: the model has it, and no property forbids it.

### Forms and HttpServer

A text is a sequence of symbols: a character, or a word in which nothing is ever escaped.
`url_unquote` is the loop of the code over places, with `Chr` for `chr(int(xy, 16))`, one
symbol for one byte. The page's `URLSearchParams` (`Encode`, external) turns a character into its
bytes (`Utf8`, `Bytes`) and escapes each of them (`Quote`), so an accented letter comes out of
`url_unquote` as two characters, which is what a label with one then shows. `DecodedAsEncoded`
is about fields of one-byte characters (`OneByte`). `int` also takes a sign or a blank and one digit, so "%+5" is a byte,
though no encoder writes it: `Escape` is what one does write.

A request is a stream: the header lines, `"end"` for the blank line, the body. `recv`
returns any first part of what is left, up to what it was asked for, nothing once the client
has closed, or raises. `pc` is where the program is between `accept`, the two readers, the
handler, `save_labels` and the reply; `did` is what the request has had done. `Raise` is an
exception that reaches `serve_http`, which answers 500 or, for the errnos of
`is_client_disconnect`, just closes. `NotUtf8` are symbols that stand for bytes that
`decode()` raises on, in the head (`Parse`) or in the body (`DecodeFails`). A line of the head that has not come is not there, so the
order of the lines matters when a client stops early. Names are cut at `NameMax`, 32 in the
code. After a failing save the file is old, unreadable or new (`Remains`); if it is new, `late`
is the request whose label the file has and RAM has not. That `close` makes the file durable is
assumed. A pulse is one step here (its own steps are in `Expander`), and `/update` is in
`OtaUpdate`.

### V1Controller

`nvs` is what `get_blob` sees, `committed` what is sure to be on flash; a reset leaves any
mixture of the two, blob by blob. `todo` are the blobs still to be set, so a power cut
or an exception may fall between any two of them. The body is what one `recv` returns: all, or
a part that ends in either field. `marred` remembers the name spaces whose last change was
interrupted or came in part, and a later complete change clears it, so the properties say
both what may break a pair and what repairs it. `olat` are the two banks of the expander as
sets of bits, and `Wiring` says which bit each switch is on: `Press` and `Release` read a bank
and write it back as a whole. The registers are kept over a reset of the processor and
lost with the power. Time does not pass in `bringup_wifi`: a network is in reach and takes the
password (`Joinable`), or not.

## 3. The runs

| Run | Bounds | Shows |
| --- | --- | --- |
| `ota` | four images (factory, good, dying, spinning), one failing flash operation, any number of power cuts and outages; 4,304 states | `TypeOK`, `GoodCopySurvives`, `RestartIsSafe`, `TrialIsBooted`, `ImplementsTrial`, `EveryTrialSettles`, `ServesAgain` |
| `ota_lost_reply` | replies may be lost, no other fault | `GoodCopySurvives` fails: finding 1 |
| `expander` | three PCs, two on one bank; 26,086 states | `TypeOK`, `OnlyFailuresLinger`, `RestartReleases` |
| `expander_stale_latch` | the same | `PulsesItsOwnSwitch` fails: finding 2 |
| `pulses` | three connections, one PC, pulses of 1, 2 and 5 ticks, failing driver calls; 512,000 states | `TypeOK`, `PressedIsReleased`, `NoAccidentalForceOff` |
| `pulses_overlap` | two connections, no failures | `ForceOffHolds` fails: finding 3 |
| `store` | two connections, one PC, four texts, one of which comes back shorter, failures and power cuts; 2,964,004 states | `TypeOK`, `NoTornCredentials`, `QuiescentIsSaved`, `CutsSpareCredentials` |
| `dhcp` | two servers, of which one keeps its address for the controller and the other repeats its mask; 41,408 states | `TypeOK`, `AddressIsOurs`, `EventuallyBound` |
| `listener` | three clients, two sockets, three errors in a row instead of ten, expander there or not; 5,614 states | `TypeOK`, `BurstIsNoWedge`, `ListenerHeals`, `NobodyWaitsForever` |
| `http` | two PCs, names of at most 2 symbols, a limit of 14 symbols, chunks of 6, 31 requests, among them names to be escaped, one with an accented letter, one too long, bytes that are not UTF-8 in head and body, an endless head, wrong lengths; 641,272 states | `TypeOK`, `PartsNeverAct`, `DecodedAsEncoded`, `AnsweredAsDone`, `FileIsServed`, `RestartKeepsLabels`, `AcceptsAgain` |
| `v1` | two PCs on different banks, two networks in reach, buffers of one symbol, two changes of settings, all faults; 280,543 states | `TypeOK`, `CredentialsWereAsked`, `LabelsAreSaved`, `OnlyFailuresLinger`, `AcceptsAgain` |
| `v1_stranded` | a network out of reach, no faults | `NeverStranded` fails: finding 4 |

Why these bounds are enough to be interesting. Two updates in a row with a bad one among
them need three images, and the spinning image adds the case the watchdog does not
catch. Two PCs on a bank are needed for one to disturb the other, a third on the other
bank for what must not be disturbed. Three overlapping pulses are the least that can
chain without the first and the last touching, and the lengths let two power pulses
add up to more than a power pulse and three to more than a force-off. Two connections are
enough for every pair of critical sections to interleave; a third only waits for the
mutex. A second DHCP server is what makes an answer ambiguous. Three
clients are the least that leave one waiting when two sockets are taken, and three errors
let a success, a busy answer and an early leave fall between them. The limits of `http` are
such that a body needs two chunks, a head fits in one and does not, and the longest
body is one symbol below the limit for a head; every split of every request into segments
is explored, and one client follows another with what the first has left behind. Two
changes of settings in `v1` are what it takes to mar a pair and to put it right. No counter is cut off except `held`, which saturates one tick above the longest pulse, the
number of failing flash operations, `MaxFlashErrors`, and the changes of settings of v1, `MaxSaves`.

`ota_lost_reply` turns off the deadlock check because with no power cuts a controller with a
dead firmware and no watchdog really stops, and `listener` because it does after a panic.

### Fairness

* `OtaUpdate`: weak fairness of what the processor and the watchdog do by themselves.
  Clients, outages and power cuts owe nothing. The liveness properties assume that the
  power is stable from some moment on and that no flash operation fails, and say so
  (`PowerStable`, `SoundFlash`). They allow the spinning image to stay (`Spinning`):
  `feed_watchdog` is all a watchdog sees, so the code has no answer to such a firmware.
  `ServesAgain` allows an outage to stop a healthy image, since
  `connect_w5500_dhcp` raises after 30 seconds.
* `DhcpClient`: weak fairness of the client, which never blocks without a deadline; strong
  fairness of sending, of the answers of a server that has an address, and of their
  arriving in time and first. That is a network that works now and then, and it is needed:
  the client retries for ever, so nothing else can keep it from an address.
* `Listener`: weak fairness of the loop and of every goroutine that is ready or has a
  deadline, which is what `connDeadline` is for; clients owe nothing, not even the request.
  Strong fairness of `Listen`: `net.Listen` on a chip with a free socket fails now and then
  but not for ever.
* `HttpServer`: weak fairness of what the server does by itself, a receive timeout
  included (`HTTP_CLIENT_TIMEOUT_SECONDS`), and of the handler as a whole; clients owe nothing.
* `V1Controller`: weak fairness of the program, whose timeouts of 10 and 15 seconds are
  in it; `AcceptsAgain` assumes that power cuts end at some moment, and allows the exceptions
  that end the program.

The other modules state no liveness.

## 4. Findings

1. `ota_lost_reply`. The reply of a successful upload is sent before the reset
   (`main.py:738`). If it cannot be sent, the exception ends in `serve_http` and the old
   program goes on, with the new one on trial on flash. A second upload then removes
   `main.py.bak`, the only proven firmware. The page says "Rollback protected"
   (`main.py:1236`).
2. `expander_stale_latch`. `set_output` changes the latch and then writes it
   (`main.py:370-376`). After a write that raises, the next action on that bank presses the
   other PC's switch as well, and leaves it pressed.
3. `pulses_overlap`. A power pulse that ends during a force-off of the same PC releases the
   shared switch; the force-off is answered ok without the "force-off (hold) 5 s" of the
   firmware's README.
4. `v1_stranded`. `bringup_wifi` starts the access point only if no network is stored
   (`main.py:127-131`). After a complete `/setwifi` for a network that is out of reach, and
   its reset, the controller has neither (`main.py:133`), though `src/README.md:65` lists an "AP
   fallback" and the comment at `main.py:41` speaks of allowing one.

The exact lines are quoted in `PROJECT.json`.

## 5. The proofs

All proofs are for any constants that satisfy the named assumptions of the modules.
Constants that are booleans (faults) are arbitrary unless a theorem says otherwise.

* `OtaUpdate_proofs`. `TypeCorrect` holds under all faults. `GoodCopyAlways` and
  `RestartAlwaysSafe` allow one failing flash operation, whichever it is, and any number
  of power cuts and outages; they assume that replies arrive. `GoodCopyIfPatient` bounds
  finding 1: where replies are lost, the way back holds as long as nobody uploads again
  before the new firmware has run (`Patient`). They hold for any `MaxFlashErrors` up to the second failure (`OneFault`);
  after it TLC finds both violated. `SafeWithOneFault` puts them together for a flash that
  fails at most once. The invariant, `OneFaultInv`: a backup is always proven; it is there
  whenever `main.py` is not proven; an unproven `main.py` stands under the pending marker; and
  where the program has begun to listen or handles an upload, `main.py` is proven. Two points need the history
  of the failure: `undo` is reached only by one, so the rename back succeeds; and a
  roll-back goes on beside a `main.py` it could not remove only after one, so the backup is
  renamed over it before the pending marker goes.
  `TrialAlwaysBooted` and `TrialImplemented` assume that replies arrive, and both properties
  claim nothing from the first failing flash operation on. After one neither would hold: a booting marker that could not be
  removed is taken for the next update's, and a backup that could not be removed makes the
  pending marker put a proven `main.py` on trial. Neither is inductive. The invariant
  `WayBack` says that the image on the board before the upload stays proven and, for each
  group of program points, which files are on the disk: the pending marker comes with the
  backup from `replace` on, the only point of the update without a `main.py`; the roll-back
  has both markers until the backup is back as `main.py`, and drops them only without a
  backup; `clear_pending` is reached only with a proven `main.py`; both markers together
  mean that the upload has been started, or is about to be, or lost the power just before; the undo of a failed update is never reached. Each
  action moves between two groups.
  `TrialImplemented` maps each step to a step of `FirmwareTrial` or to a stutter under the
  same invariant; the steps that matter are the renaming of the upload (`Install`), the
  first `listen` (`Serve`), the removal of the pending marker (`Accept`) and the removal of
  `main.py` in a roll-back (`RollBack`).
* `Expander_proofs`. `TypeCorrect`; `OnlyFailuresEverLinger` and `RestartAlwaysReleases`, from
  an invariant, `Traced`, on how far `begin()` has come: the driver's latch is empty during
  all of it, bank A of the output latch is clear before bank B is written, and both are
  before the first line is made an output. `OnlyFailuresAreRepeated` bounds finding 2: besides
  its own switch an action can only press one whose own earlier action raised; without
  such a failure the comments of `main.py` hold (`OwnSwitchWithoutErrors`).
* `AtxPulses_proofs`. `TypeCorrect`; `PressedIsAlwaysReleased` and `NeverAccidentalForceOff` for any number of
  connections and PCs. Both rest on `PulseInv`: driver and chip differ only for switches of which a
  call has failed, and every other pressed switch has a `Starter`, a sleeping goroutine of
  that switch for which the time held and the time left add up to its own pulse. There is
  one because the release of any goroutine ends the press of all of them. A switch held
  longer than a power pulse therefore has a force-off among the goroutines that still sleep.
  `ApartPulsesAreFull` and `ForceOffHoldsApart` bound finding 3: if no two goroutines sleep over
  one switch (`Apart`), the starter of a switch is its only goroutine, and `Holding` says that
  the switch stays pressed under it; so each pulse whose calls succeed has exactly its length.
* `DhcpClient_proofs`. `TypeCorrect` and `AddressIsAlwaysOurs` for any number of servers. The
  invariant: what is in flight and fresh names the chosen server, and a fresh ACK stands
  for a lease, unless an old datagram has taken effect.
* `Listener_proofs`. `TypeCorrect` and `BurstNeverCloses` for any number
  of clients and sockets and any limit. `Calm` says that the count has room for one more at
  each `Accept`, and that without a client that left early there is nothing to count.
* `SettingsStore_proofs`. `TypeCorrect`, `NeverTornCredentials`, `QuiescentIsAlwaysSaved` and
  `CutsAlwaysSpareCredentials` for any number of connections, any texts and any of the faults. `JobAssumption` says that the
  sentinel for "no request" is no request. `CredInv`: the pair in RAM is one that was set as a
  pair except between the two assignments of one goroutine, which knows the first half and
  remembers a pair to put back; so are the pairs in the buffer and on flash. `SavedInv`: if nobody is still to save, the buffer being written, or else the
  sector, is what is in RAM; and the pair on flash is the one in RAM unless a change of it is not
  yet answered (`PairOnFlash`). It is needed because change and save are two critical sections,
  so a save may write the change of another request, whose own save then writes it again.
* `V1Controller_proofs`. `TypeCorrect`, `CredentialsWereAlwaysAsked`, `OnlyFailuresEverLinger` and
  `LabelsAreAlwaysSaved` for any PCs, wiring, texts, buffers, requests, number of saves and faults. `PairInv` gives, for each name space that is not marred, what the two blobs may be while
  `todo` shrinks from two to none: the first set, both set, committed. `SwitchInv`: pressed are
  switches whose action failed, and the one that is being held; it needs that no two switches
  share a bit, so that a bank with one bit changed is the old switches and that one (`BankWritten`).
  `LabelInv`: in a save each label
  is set or still to be set, and outside of it a restart would show what is served.
* `HttpServer_proofs`. `TypeCorrect`, `PartsCanNeverAct`, `AlwaysAnsweredAsDone`, `FileIsAlwaysServed` and
  `RestartAlwaysKeepsLabels` for any requests, limits, names and escapes. What
  `url_unquote` returns is a text for every input (`UnquoteTyped`): that its loop is defined, and
  typed, is shown by taking the least place from the end where it fails, since a set of
  naturals that is not empty has a least element (`LeastViolation`, from the well-foundedness
  of `<`). `PartsInv` says what the readers hold: `data` and `rest` are the two parts of the
  request (`Reading`), `data` has no blank line before the head is complete, and what follows the blank
  line is then a first part of the body (`AfterTheHead`). `AnswerInv`: nothing is done before the
  handler, and something is when the reply says so. `SaveInv`: the file
  is lost or holds the labels in RAM with two corrections, the name that is being saved taken back
  within `save_labels`, and the name of a save that raised after it had been written. The assumptions say that no header line is `"end"`, that
  sentinels are not values, that `"0"`, the default for a missing id, names no PC, and that an
  escape stands for a symbol and each of "%", "+", "&", "=" and each byte of a longer character has
  one (`FormsAssumption`). `AlwaysDecodedAsEncoded` says that the handler gets the form the page
  sent, for any one-byte characters and any escapes: what is decoded are the bytes of the form
  (`ParsedAsBytes`, `BytesTyped`), and those of a one-byte text are the text (`BytesOfOneByte`). Encoder and decoder are compared by place: `Laid` says where each
  text begins in several put one after another (`Flattened`), and `FlattenIsLoop` ties that to
  the `FlattenSeq` of the library. At the place of an escape one turn of the decoder's loop
  gives the symbol and goes on at the next escape (`StepEscaped`); so from the last place
  back to the first, what it returns is the rest of the text (`UnquoteQuote`, again by
  `LeastViolation`). A quoted text holds no "&" and no "=" (`QuoteTyped`), so the items of the
  encoded form are its pairs, one for one (`ItemsOfForm`), and an item falls apart at its
  only "=" (`ItemFallsApart`). The keys of a form are distinct, so which item is the last of
  a key does not matter.

Only model-checked: everything under fairness (`EveryTrialSettles`, `ServesAgain`,
`EventuallyBound`, `ListenerHeals`, `NobodyWaitsForever`, `AcceptsAgain`), which is beyond the
prover. Every other property of a passing run is a theorem. Of the four properties that
fail, three are theorems under the conditions that the findings violate: replies that arrive
or clients that wait, writes that do not raise, pulses that do not overlap. The fourth,
`NeverStranded`, fails in the single case that a wrong network is stored, and nothing is proved of it.

## 6. Not modelled

* The serial console, the log and the KVM bytes of the TinyGo port (`serial.go`, `log.go`,
  `kvm.go`), and the logs of the other two programs: bounded lists of lines that only a page
  reads, and write-only bytes to a switch. They decide nothing about the PCs or the
  controller. What could go wrong there, a clear during a read, depends on a scheduler
  the repository does not name.
* The request parser of the TinyGo port: it is a different text with the same purpose as the
  one in `HttpServer`; `Listener` has its timeouts and errors.
* The Ethernet bring-up of `src/v2/main.py` and `w5500_dhcp.py`: calls into the network
  module of MicroPython, of which only the failure after 30 seconds matters (`NetOutage` in
  `OtaUpdate`). The DHCP client that the repository does contain is in `DhcpClient`.
* Two or more failing flash operations in one update: the code has no answer to them.
* Reading the sense pins, LEDs and the heartbeat, the web pages, packet and register
  layouts, wording of replies and log lines, the PIO program, board files and build.
