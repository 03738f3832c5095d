---------------------------- MODULE V1Controller ----------------------------
(***************************************************************************)
(* The first controller, src/main.py on an ESP32: settings in NVS, the     *)
(* Wi-Fi bring-up with its setup access point, one request at a time, and  *)
(* pulses through the port expander without a copy of its registers.       *)
(*                                                                         *)
(* set_blob is seen by get_blob at once but is only sure to be on flash    *)
(* after commit: a reset before that leaves any mixture of old and new     *)
(* blobs.  The expander keeps its registers over a reset of the processor  *)
(* and loses them with the power.                                          *)
(***************************************************************************)
EXTENDS Naturals, Sequences

CONSTANTS
  PCS,         \* the keys of LABELS and PCS, in order
  Wiring,      \* the bank and bit of the expander that each switch is on
  LabelOf,     \* the labels main.py starts with
  BlobMax, PskMax,  \* 32 and 64, the buffers get_blob fills
  Request,     \* what clients send
  DefaultUser, DefaultPass,
  Joinable,    \* the pairs <<ssid, psk>> that a network in reach accepts
  Missing,     \* a blob that was never set
  NoConn,
  I2CErrors, NvsErrors, SocketErrors, PowerCuts,  \* may these happen?
  MaxSaves     \* bound: so many requests to change settings

PC     == {PCS[i] : i \in 1 .. Len(PCS)}
Text   == Seq(STRING)
Line   == {"power", "reset"}
Switch == PC \X Line
Bank   == {"A", "B"}
Bit    == 0 .. 7
Empty  == <<>>

ASSUME V1Assumption ==
  /\ PCS \in Seq(PC)
  /\ Wiring \in [Switch -> Bank \X Bit]
  /\ \A s, t \in Switch : Wiring[s] = Wiring[t] => s = t
  /\ LabelOf \in [PC -> Text]
  /\ {BlobMax, PskMax, MaxSaves} \subseteq Nat
  /\ \A p \in PC : Len(LabelOf[p]) <= BlobMax
  /\ {DefaultUser, DefaultPass} \subseteq Text
  /\ Missing \notin Text /\ NoConn \notin Request
  /\ {I2CErrors, NvsErrors, SocketErrors, PowerCuts} \subseteq BOOLEAN

\* first and second are the form fields of /setwifi and /setauth, in the
\* order they are sent, second is the name of /setlabel; login is what the
\* Authorization header says.
ASSUME RequestAssumption ==
  Request \subseteq [route : {"/setwifi", "/setauth", "/setlabel", "/action", "/kvm"},
                     login : Text \X Text, pc : PC, line : Line,
                     first : Text, second : Text]

VARIABLES
  nvs,        \* what get_blob sees
  committed,  \* what is sure to be on flash
  labels,     \* LABELS
  net,        \* "ap" in SETUP_MODE, "sta" with a network to join, or "none"
  pc,         \* where the program is
  conn, got,  \* the request and what has come of its two fields
  todo,       \* the blobs still to be set
  saves,      \* how many requests to change settings there were
  olat,       \* OLATA and OLATB of the expander: the bits that are set
  failed,     \* history: switches that an action left with an exception
  marred      \* history: name spaces whose last change was interrupted, or
              \* taken from a part of a request

store  == <<nvs, committed, marred, saves>>
switch == <<olat, failed>>
vars   == <<nvs, committed, labels, net, pc, conn, got, todo,
            olat, failed, marred, saves>>

Blob  == Text \cup {Missing}
Nvs   == [wifi : [{"ssid", "psk"} -> Blob], auth : [{"user", "pass"} -> Blob],
          labels : [PC -> Blob]]
Area  == {"wifi", "auth", "labels"}

\* The name space that the request in hand changes.
area == CASE conn.route = "/setwifi" -> "wifi"
          [] conn.route = "/setauth" -> "auth"
          [] OTHER -> "labels"

Blobs == [wifi   |-> [k \in {"ssid", "psk"} |-> Missing],
          auth   |-> [k \in {"user", "pass"} |-> Missing],
          labels |-> [p \in PC |-> Missing]]

Clear == [b \in Bank |-> {}]

(* Type correctness: what is set next is a blob of the name space being     *)
(* changed, and there is one only in the middle of a save.                  *)
TypeOK ==
  /\ nvs \in Nvs /\ committed \in Nvs
  /\ labels \in [PC -> Text]
  /\ net \in {"ap", "sta", "none"}
  /\ pc \in {"wifi", "io", "labels", "accept", "recv", "handle", "hold", "save",
             "reset", "dead"}
  /\ conn \in Request \cup {NoConn} /\ got \in Text \X Text
  /\ pc \in {"recv", "handle", "hold", "save"} => conn # NoConn
  /\ todo # <<>> => pc = "save"
  /\ pc = "save" => todo \in Seq((DOMAIN nvs[area]) \X Text)
  /\ olat \in [Bank -> SUBSET Bit] /\ failed \subseteq Switch
  /\ marred \subseteq Area /\ saves \in 0 .. MaxSaves

Init ==
  /\ nvs = Blobs /\ committed = Blobs
  /\ labels = LabelOf
  /\ net = "none"
  /\ pc = "wifi" /\ conn = NoConn /\ got = <<Empty, Empty>>
  /\ todo = <<>>
  /\ olat = Clear /\ failed = {}
  /\ marred = {} /\ saves = 0

-----------------------------------------------------------------------------
(* NVS                                                                     *)

\* get_blob raises if there is no blob, or one longer than the buffer.
Readable(blob, max) == blob # Missing /\ Len(blob) <= max

get_wifi_creds ==
  IF Readable(nvs.wifi["ssid"], BlobMax) /\ Readable(nvs.wifi["psk"], PskMax)
    THEN <<nvs.wifi["ssid"], nvs.wifi["psk"]>> ELSE <<Empty, Empty>>

Or(text, default) == IF text = Empty THEN default ELSE text

get_auth_creds ==
  IF Readable(nvs.auth["user"], BlobMax) /\ Readable(nvs.auth["pass"], BlobMax)
    THEN <<Or(nvs.auth["user"], DefaultUser), Or(nvs.auth["pass"], DefaultPass)>>
    ELSE <<DefaultUser, DefaultPass>>

\* What a reset may leave of a name space.
Mixtures(a) ==
  {f \in [DOMAIN nvs[a] -> {nvs[a][k] : k \in DOMAIN nvs[a]}
                             \cup {committed[a][k] : k \in DOMAIN nvs[a]}] :
     \A k \in DOMAIN nvs[a] : f[k] \in {nvs[a][k], committed[a][k]}}

\* The processor starts again, with what is on flash.
Reset ==
  /\ \E w \in Mixtures("wifi"), a \in Mixtures("auth"), l \in Mixtures("labels") :
       nvs' = [wifi |-> w, auth |-> a, labels |-> l]
  /\ committed' = nvs'
  /\ labels' = LabelOf /\ net' = "none"
  /\ pc' = "wifi" /\ conn' = NoConn /\ got' = <<Empty, Empty>> /\ todo' = <<>>

-----------------------------------------------------------------------------
(* The program up to its loop                                              *)

\* No access point if there are credentials, good or not.
bringup_wifi ==
  /\ pc = "wifi" /\ pc' = "io"
  /\ net' = IF get_wifi_creds[1] = Empty THEN "ap"
            ELSE IF get_wifi_creds \in Joinable THEN "sta" ELSE "none"
  /\ UNCHANGED <<store, labels, conn, got, todo, switch>>

\* IODIRA and IODIRB; an exception here ends main.py.
BeginIo ==
  /\ pc = "io"
  /\ pc' \in {"labels"} \cup (IF I2CErrors THEN {"dead"} ELSE {})
  /\ UNCHANGED <<store, labels, net, conn, got, todo, switch>>

\* What load_labels makes of the blobs.
Loaded(blobs) ==
  [p \in PC |-> IF Readable(blobs[p], BlobMax) /\ blobs[p] # Empty
                THEN blobs[p] ELSE LabelOf[p]]

load_labels ==
  /\ pc = "labels" /\ pc' = "accept"
  /\ labels' = Loaded(nvs.labels)
  /\ UNCHANGED <<store, net, conn, got, todo, switch>>

-----------------------------------------------------------------------------
(* One request                                                             *)

\* Mutant: what is left of a failed save is kept.
AnswerKeepsTodo ==
  /\ pc' = "accept" /\ conn' = NoConn /\ got' = <<Empty, Empty>>
  /\ UNCHANGED <<labels, net, todo>>

\* The reply and the end of the connection; errors of send are swallowed.
Answer ==
  /\ pc' = "accept" /\ conn' = NoConn /\ got' = <<Empty, Empty>> /\ todo' = <<>>
  /\ UNCHANGED <<labels, net>>

Accept(r) ==
  /\ pc = "accept" /\ net # "none"
  /\ pc' = "recv" /\ conn' = r
  /\ IF r.route \in {"/action", "/kvm"} THEN UNCHANGED saves
     ELSE saves < MaxSaves /\ saves' = saves + 1
  /\ UNCHANGED <<nvs, committed, marred, labels, net, got, todo, switch>>

\* accept is outside of the try: an exception ends main.py.
AcceptFails ==
  /\ pc = "accept" /\ SocketErrors
  /\ pc' = "dead"
  /\ UNCHANGED <<store, labels, net, conn, got, todo, switch>>

\* The body is what one recv returns: all of it, or a part of it that ends
\* in the first or the second field.
Recv(n, m) ==
  /\ pc = "recv" /\ pc' = "handle"
  /\ n \in 0 .. Len(conn.first) /\ m \in 0 .. Len(conn.second)
  /\ m > 0 => n = Len(conn.first)
  /\ got' = <<SubSeq(conn.first, 1, n), SubSeq(conn.second, 1, m)>>
  /\ UNCHANGED <<store, labels, net, conn, todo, switch>>

\* Mutant: without settimeout a client that says nothing is waited for.
RecvFailsNot == FALSE /\ UNCHANGED vars

\* 10 or 15 seconds are over, or the connection breaks.
RecvFails == pc = "recv" /\ Answer /\ UNCHANGED <<store, switch>>

Whole == got = <<conn.first, conn.second>>

\* Only /setwifi in setup mode needs no credentials.
Allowed == (net = "ap" /\ conn.route = "/setwifi") \/ conn.login = get_auth_creds

Handle(route) == pc = "handle" /\ conn.route = route /\ Allowed

\* 401, 400 for an empty field, and the routes that change nothing here, for
\* which /kvm stands.
Refuse ==
  /\ pc = "handle"
  /\ \/ ~Allowed
     \/ conn.route = "/setwifi" /\ got[1] = Empty
     \/ conn.route = "/setauth" /\ Empty \in {got[1], got[2]}
     \/ conn.route = "/setlabel" /\ got[2] = Empty
     \/ conn.route = "/kvm"
  /\ Answer /\ UNCHANGED <<store, switch>>

Save(blobs) ==
  /\ pc' = "save" /\ todo' = blobs
  /\ UNCHANGED <<store, net, conn, got, switch>>

SetWifi ==
  /\ Handle("/setwifi") /\ got[1] # Empty
  /\ Save(<< <<"ssid", got[1]>>, <<"psk", got[2]>> >>)
  /\ UNCHANGED labels

SetAuth ==
  /\ Handle("/setauth") /\ Empty \notin {got[1], got[2]}
  /\ Save(<< <<"user", got[1]>>, <<"pass", got[2]>> >>)
  /\ UNCHANGED labels

\* Mutant: the labels are saved before the new one is among them.
SetLabelSavesOld ==
  /\ Handle("/setlabel") /\ got[2] # Empty
  /\ labels' = [labels EXCEPT ![conn.pc] = got[2]]
  /\ Save([i \in 1 .. Len(PCS) |-> <<PCS[i], labels[PCS[i]]>>])

SetLabel ==
  /\ Handle("/setlabel") /\ got[2] # Empty
  /\ labels' = [labels EXCEPT ![conn.pc] = got[2]]
  /\ Save([i \in 1 .. Len(PCS) |-> <<PCS[i], labels'[PCS[i]]>>])

\* An exception in a save is answered 500; what is set stays set.
SaveFails ==
  /\ pc = "save" /\ NvsErrors
  /\ marred' = marred \cup {area}
  /\ Answer
  /\ UNCHANGED <<nvs, committed, saves, switch>>

SetBlob ==
  /\ pc = "save" /\ todo # <<>>
  /\ nvs' = [nvs EXCEPT ![area] = [@ EXCEPT ![todo[1][1]] = todo[1][2]]]
  /\ todo' = Tail(todo)
  /\ UNCHANGED <<committed, marred, saves, labels, net, pc, conn, got, switch>>

\* Settings for which the program restarts.
Saved ==
  /\ marred' = IF area = "labels" \/ Whole THEN marred \ {area} ELSE marred \cup {area}
  /\ IF area = "labels" THEN Answer
     ELSE pc' = "reset" /\ UNCHANGED <<labels, net, conn, got, todo>>

\* Mutant: commit is not called.
CommitNot ==
  /\ pc = "save" /\ todo = <<>>
  /\ Saved
  /\ UNCHANGED <<nvs, committed, saves, switch>>

Commit ==
  /\ pc = "save" /\ todo = <<>>
  /\ committed' = [committed EXCEPT ![area] = nvs[area]]
  /\ Saved
  /\ UNCHANGED <<nvs, saves, switch>>

MachineReset == pc = "reset" /\ Reset /\ UNCHANGED <<marred, saves, switch>>

PowerCut ==
  /\ PowerCuts
  /\ Reset
  /\ marred' = IF pc = "save" THEN marred \cup {area} ELSE marred
  /\ olat' = Clear /\ failed' = {}
  /\ UNCHANGED saves

-----------------------------------------------------------------------------
(* pulse: a bank is read, one bit of it is changed and the whole bank is   *)
(* written back; either access may raise.                                  *)

Current == <<conn.pc, conn.line>>
Port    == Wiring[Current][1]
bit     == Wiring[Current][2]

\* The bank of the switch in hand is written.
WriteOlat(bits) == olat' = [olat EXCEPT ![Port] = bits]

\* The read raises, or the write does, before or after the chip has taken it.
AccessRaises(bits) ==
  /\ I2CErrors
  /\ UNCHANGED olat \/ WriteOlat(bits)
  /\ failed' = failed \cup {Current}
  /\ Answer

Press ==
  /\ Handle("/action")
  /\ LET cur == olat[Port] IN
       \/ /\ WriteOlat(cur \cup {bit})
          /\ pc' = "hold"
          /\ UNCHANGED <<failed, labels, net, conn, got, todo>>
       \/ AccessRaises(cur \cup {bit})
  /\ UNCHANGED store

\* Mutant: the release is skipped.
ReleaseNot ==
  /\ pc = "hold"
  /\ Answer
  /\ UNCHANGED <<store, switch>>

Release ==
  /\ pc = "hold"
  /\ LET cur == olat[Port] IN
       \/ WriteOlat(cur \ {bit}) /\ failed' = failed \ {Current} /\ Answer
       \/ AccessRaises(cur \ {bit})
  /\ UNCHANGED store

\* The switches that are closed.
Pressed == {s \in Switch : Wiring[s][2] \in olat[Wiring[s][1]]}

-----------------------------------------------------------------------------
\* What the program does by itself.
Program ==
  \/ bringup_wifi \/ BeginIo \/ load_labels
  \/ RecvFails \/ Refuse \/ SetWifi \/ SetAuth \/ SetLabel
  \/ SaveFails \/ SetBlob \/ Commit \/ MachineReset \/ Press \/ Release

Next ==
  \/ Program
  \/ AcceptFails \/ PowerCut
  \/ \E r \in Request : Accept(r)
  \/ pc = "recv" /\ \E n \in 0 .. Len(conn.first), m \in 0 .. Len(conn.second) : Recv(n, m)

Spec == Init /\ [][Next]_vars /\ WF_vars(Program)

-----------------------------------------------------------------------------
Asked(route) ==
  {<<r.first, r.second>> : r \in {q \in Request : q.route = route}}

(* Network and password, and user and password, are a pair that one request *)
(* asked for, or none and the default, between any two requests and after   *)
(* every reset, unless the last change of that pair was interrupted or came *)
(* in parts; a complete change puts that right.                             *)
CredentialsWereAsked ==
  pc # "save" =>
    /\ "wifi" \notin marred => get_wifi_creds \in Asked("/setwifi") \cup {<<Empty, Empty>>}
    /\ "auth" \notin marred =>
         get_auth_creds \in Asked("/setauth") \cup {<<DefaultUser, DefaultPass>>}

(* After bringup_wifi somebody can reach the controller: it has joined a    *)
(* network or its setup access point is up, the fallback that               *)
(* src/README.md:65 lists.                                                  *)
NeverStranded == pc # "wifi" => net # "none"

(* A restart shows the labels that were served before it, but for those that*)
(* are too long to read back, unless the last save was interrupted.         *)
LabelsAreSaved ==
  "labels" \notin marred /\ pc = "accept" =>
    \A p \in PC : Len(labels[p]) <= BlobMax => labels[p] = Loaded(committed.labels)[p]

(* Between requests no switch is pressed but those whose last action ended  *)
(* in an exception, although nothing ever clears the expander, every write  *)
(* is of a whole bank, and the banks keep what earlier actions left.        *)
OnlyFailuresLinger == pc \in {"accept", "recv", "handle", "save"} => Pressed \subseteq failed

(* Once the power is stable the server always comes back to accept, unless  *)
(* an exception outside of its try has ended it.                            *)
AcceptsAgain ==
  <>[][~PowerCut]_vars => []<>(pc \in {"accept", "dead"})

=============================================================================
