----------------------------- MODULE HttpServer -----------------------------
(***************************************************************************)
(* The HTTP server of src/v2/main.py: serve_http, the two readers,         *)
(* check_auth, handle_request, and the labels that a request may change.   *)
(* One client is served at a time.                                         *)
(*                                                                         *)
(* A request comes as a stream of symbols: the header lines in some order, *)
(* "end" for the blank line, the body.  recv returns any part of what is   *)
(* left of it, nothing once the client has closed, or raises, and so does  *)
(* send.  /update is in OtaUpdate, a pulse is in Expander.                 *)
(***************************************************************************)
EXTENDS Forms

CONSTANTS
  PC,        \* the ids of PCS
  PcName,    \* their names in PCS
  Action,    \* the actions run_action knows
  Request,   \* what clients send
  NotUtf8,   \* what decode() raises at
  Numeral,   \* what int() makes of a text: defined where it does not raise
  NameMax,   \* 32
  HTTP_MAX_REQUEST_BYTES,
  Chunk,     \* 1024, what recv returns at most
  Torn,      \* a label file that is missing or cannot be read
  NoConn,
  Nothing    \* no form, or nothing done

ASSUME HttpAssumption ==
  /\ PC \subseteq Nat
  /\ PcName \in [PC -> Text]
  /\ \A p \in PC : Len(PcName[p]) \in 1 .. NameMax
  /\ NameMax \in Nat \ {0} /\ HTTP_MAX_REQUEST_BYTES \in Nat /\ Chunk \in Nat \ {0}
  /\ NoConn \notin Request
  /\ Torn \notin [PC -> Text]
  /\ <<"0">> \in DOMAIN Numeral => Numeral[<<"0">>] \notin PC

\* What the page sends is an object's keys, each once, with their values.
Form(form) ==
  /\ form \in Seq(Text \X Text)
  /\ \A i, j \in 1 .. Len(form) : Bytes(form[i][1]) = Bytes(form[j][1]) => i = j

\* form is what the page was asked to send; other clients have none.  auth
\* tells whether the Authorization line holds the credentials; length is
\* the Content-Length line, -1 where int() raises.
ASSUME RequestAssumption ==
  \A r \in Request :
    /\ {r.head, r.query, r.body} \subseteq Text
    /\ "end" \in Symbol \ ToSet(r.head)
    /\ {r.method, r.route} \subseteq STRING
    /\ r.auth \in BOOLEAN /\ r.length \in Int
    /\ r.form # Nothing => Form(r.form) /\ r.body = Encode(r.form)

VARIABLES
  labels,  \* in RAM
  file,    \* labels.json
  late,    \* what a save that raised has left in the file nevertheless
  uart,    \* has make_kvm_uart found the PIO?
  pc,      \* where the program is
  conn,    \* the request of the client being served
  rest,    \* what recv has still to return of it
  data, body,  \* what the two readers have got
  code,    \* the status of the reply
  did      \* what the request has had done

vars == <<labels, file, late, uart, pc, conn, rest, data, body, code, did>>

Done == [op : {"action", "kvm", "label"}, id : Nat, arg : Text, old : Text]

ASSUME DoneAssumption == Nothing \notin Done

(* Type correctness; no client makes the server hold more of a request      *)
(* than HTTP_MAX_REQUEST_BYTES and one chunk.                               *)
TypeOK ==
  /\ labels \in [PC -> Text]
  /\ \A p \in PC : Len(labels[p]) \in 1 .. NameMax
  /\ file \in [PC -> Text] \cup {Torn} /\ late \in Done \cup {Nothing}
  /\ uart \in BOOLEAN
  /\ pc \in {"accept", "head", "parse", "body", "handle", "save", "reply", "error"}
  /\ conn \in Request \cup {NoConn} /\ (conn = NoConn) = (pc = "accept")
  /\ rest \in Text /\ data \in Text /\ body \in Text
  /\ Len(data) <= HTTP_MAX_REQUEST_BYTES + Chunk
  /\ Len(body) <= HTTP_MAX_REQUEST_BYTES
  /\ code \in {200, 204, 400, 401, 404, 500}
  /\ did \in Done \cup {Nothing}

\* The PIO may not be there; the server then goes on without a UART.
make_kvm_uart == BOOLEAN

Init ==
  /\ labels = PcName /\ file = Torn /\ late = Nothing
  /\ uart \in make_kvm_uart
  /\ pc = "accept" /\ conn = NoConn
  /\ rest = <<>> /\ data = <<>> /\ body = <<>>
  /\ code = 200 /\ did = Nothing

-----------------------------------------------------------------------------
Least(m, n) == IF m < n THEN m ELSE n

state  == <<labels, file, late, uart>>
stream == <<rest, data, body>>

\* serve_http closes the client and accepts the next one.
Close ==
  /\ pc' = "accept" /\ conn' = NoConn
  /\ rest' = <<>> /\ data' = <<>> /\ body' = <<>>
  /\ did' = Nothing /\ code' = 200

Answer(status) == pc' = "reply" /\ code' = status /\ UNCHANGED <<conn, stream>>

\* An exception reaches serve_http, which answers 500, or nothing if it is
\* an OSError with an errno of is_client_disconnect.
Fault == pc' = "error" /\ code' = 500 /\ UNCHANGED <<conn, stream, did>>
Raise == Fault \/ Close

Accept(r) ==
  /\ pc = "accept"
  /\ pc' = "head" /\ conn' = r
  /\ rest' = r.head \o <<"end">> \o r.body
  /\ UNCHANGED <<state, data, body, code, did>>

-----------------------------------------------------------------------------
(* read_request_start                                                      *)

\* What one recv(most) may return.
Segment(most) == {SubSeq(rest, 1, n) : n \in 1 .. Least(Len(rest), most)}
Remaining(chunk) == SubSeq(rest, Len(chunk) + 1, Len(rest))

\* Mutant: the limit is only checked when the head is complete.
RecvHeadUnchecked(chunk) ==
  /\ pc = "head" /\ chunk \in Segment(Chunk)
  /\ data' = data \o chunk /\ rest' = Remaining(chunk)
  /\ pc' = IF "end" \in ToSet(data') THEN "parse" ELSE "head"
  /\ UNCHANGED <<state, conn, body, code, did>>

RecvHead(chunk) ==
  /\ pc = "head" /\ chunk \in Segment(Chunk)
  /\ data' = data \o chunk /\ rest' = Remaining(chunk)
  /\ IF Len(data') > HTTP_MAX_REQUEST_BYTES
       THEN pc' = "error" /\ code' = 500
       ELSE /\ pc' = IF "end" \in ToSet(data') THEN "parse" ELSE "head"
            /\ UNCHANGED code
  /\ UNCHANGED <<state, conn, body, did>>

\* The client has closed: what has come so far is parsed as the whole head.
RecvHeadEnd ==
  /\ pc = "head"
  /\ pc' = "parse" /\ rest' = <<>>
  /\ UNCHANGED <<state, conn, data, body, code, did>>

WithBody == {"POST", "PUT", "PATCH"}

\* A line that has not come is not there.
check_auth(head) == "auth" \in head /\ conn.auth
parse_content_length(head) == IF "length" \in head THEN conn.length ELSE 0

\* decode() does not raise.
Decodable(text) == ToSet(text) \cap NotUtf8 = {}

\* handle_request up to the body.  A request line that cannot be decoded is
\* none, any other line raises.
Parse ==
  LET head    == ToSet(Before(data, "end"))
      lines   == Decodable(Before(data, "end"))
      length  == parse_content_length(head)
      initial == After(data, "end")
  IN
  /\ pc = "parse"
  /\ \/ "line" \notin head /\ Close
     \/ "line" \in head /\ ~lines /\ Fault
     \/ /\ "line" \in head /\ lines
        /\ conn.route # "/health" /\ ~check_auth(head)
        /\ Answer(401) /\ UNCHANGED did
     \/ /\ "line" \in head /\ lines
        /\ conn.route = "/health" \/ check_auth(head)
        /\ IF conn.method \in WithBody /\ length \notin 0 .. HTTP_MAX_REQUEST_BYTES
             THEN Answer(400) /\ UNCHANGED did
             ELSE /\ body' = IF conn.method \notin WithBody THEN <<>>
                             ELSE SubSeq(initial, 1, Least(length, Len(initial)))
                  /\ pc' = IF conn.method \in WithBody /\ Len(body') < length
                             THEN "body" ELSE "handle"
                  /\ UNCHANGED <<conn, rest, data, code, did>>
  /\ UNCHANGED state

-----------------------------------------------------------------------------
(* read_request_body                                                       *)

\* Mutant: the first segment is taken for the whole body.
RecvBodyOnce(chunk) ==
  /\ pc = "body" /\ chunk \in Segment(conn.length - Len(body)) \cap Segment(Chunk)
  /\ body' = body \o chunk /\ rest' = Remaining(chunk)
  /\ pc' = "handle"
  /\ UNCHANGED <<state, conn, data, code, did>>

RecvBody(chunk) ==
  /\ pc = "body" /\ chunk \in Segment(conn.length - Len(body)) \cap Segment(Chunk)
  /\ body' = body \o chunk /\ rest' = Remaining(chunk)
  /\ pc' = IF Len(body') = conn.length THEN "handle" ELSE "body"
  /\ UNCHANGED <<state, conn, data, code, did>>

\* "Incomplete request body"
RecvBodyEnd ==
  /\ pc = "body"
  /\ Answer(400)
  /\ UNCHANGED <<state, did>>

\* Mutant: settimeout is not called, so a recv without data waits.
RecvTimeoutNot == FALSE /\ UNCHANGED vars

\* HTTP_CLIENT_TIMEOUT_SECONDS pass with nothing from the client.
RecvTimeout == pc \in {"head", "body"} /\ Raise /\ UNCHANGED state

\* The connection breaks.
RecvFails == pc \in {"head", "body"} /\ Raise /\ UNCHANGED state

-----------------------------------------------------------------------------
(* handle_request from the parameters on                                   *)

params == Updated(parse_kv_pairs(conn.query), parse_kv_pairs(body))

\* UnicodeError, before a handler is chosen.
DecodeFails == pc = "handle" /\ ~Decodable(body) /\ Fault /\ UNCHANGED state

Handle(method, route) ==
  pc = "handle" /\ Decodable(body) /\ conn.method = method /\ conn.route = route

Pages  == {"/", "/index.html", "/status", "/health", "/log", "/favicon.ico"}
Labels == {"/label", "/setlabel"}

\* Reading the pins for /status may raise.
GetPage ==
  /\ \E route \in Pages :
       Handle("GET", route) /\ \/ /\ Answer(IF route = "/favicon.ico" THEN 204 ELSE 200)
                                  /\ UNCHANGED did
                               \/ route = "/status" /\ Raise
  /\ UNCHANGED state

NotFound ==
  /\ pc = "handle" /\ Decodable(body)
  /\ <<conn.method, conn.route>> \notin
       ({"GET"} \X Pages) \cup ({"POST"} \X ({"/action", "/kvm"} \cup Labels))
  /\ Answer(404)
  /\ UNCHANGED <<state, did>>

Job(op, id, arg, old) == [op |-> op, id |-> id, arg |-> arg, old |-> old]

\* int(text) does not raise and is the id of a PC, or a KVM port.
find_pc(text) == text \in DOMAIN Numeral /\ Numeral[text] \in PC

\* The pulse is done, or raises half-way.
run_action(id, action) ==
  \/ Answer(200) /\ did' = Job("action", id, action, <<>>)
  \/ Raise

PostAction ==
  LET id     == Get(params, <<"pc">>, <<"0">>)
      action == Get(params, <<"action">>, Get(params, <<"type">>, <<>>))
  IN
  /\ Handle("POST", "/action")
  /\ IF find_pc(id) /\ action \in Action THEN run_action(Numeral[id], action)
       ELSE Answer(400) /\ UNCHANGED did
  /\ UNCHANGED state

\* RuntimeError without a UART.
kvm_switch(port) ==
  IF uart THEN Answer(200) /\ did' = Job("kvm", port, <<>>, <<>>)
  ELSE Fault

PostKvm ==
  LET port == Get(params, <<"port">>, <<"0">>) IN
  /\ Handle("POST", "/kvm")
  /\ IF find_pc(port) THEN kvm_switch(Numeral[port])
     ELSE Answer(400) /\ UNCHANGED did
  /\ UNCHANGED state

-----------------------------------------------------------------------------
(* Labels                                                                  *)

Cut(text) == SubSeq(text, 1, Least(Len(text), NameMax))

\* name.strip()
Strip(text) ==
  LET ink == {i \in 1 .. Len(text) : text[i] # " "}
  IN  IF ink = {} THEN <<>>
      ELSE SubSeq(text, CHOOSE i \in ink : \A j \in ink : i <= j,
                        CHOOSE i \in ink : \A j \in ink : i >= j)

load_labels(f) ==
  IF f = Torn THEN PcName
  ELSE [p \in PC |-> IF f[p] = <<>> THEN PcName[p] ELSE Cut(f[p])]

\* Mutant: the name is not cut, as load_labels will do.
NewNameUncut == Strip(Get(params, <<"name">>, <<>>))

NewName == Cut(Strip(Get(params, <<"name">>, <<>>)))

\* Mutant: a request that names no PC is answered ok.
RefuseLabelNot == Answer(200) /\ UNCHANGED <<labels, did>>

\* "Invalid label"
RefuseLabel == Answer(400) /\ UNCHANGED <<labels, did>>

PostLabel ==
  LET id == Get(params, <<"pc">>, <<"0">>) IN
  /\ \E route \in Labels : Handle("POST", route)
  /\ IF find_pc(id) /\ NewName # <<>>
       THEN /\ labels' = [labels EXCEPT ![Numeral[id]] = NewName]
            /\ did' = Job("label", Numeral[id], NewName, labels[Numeral[id]])
            /\ pc' = "save"
            /\ UNCHANGED <<conn, stream, code>>
       ELSE RefuseLabel
  /\ UNCHANGED <<file, late, uart>>

SaveLabels ==
  /\ pc = "save"
  /\ file' = labels /\ late' = Nothing
  /\ Answer(200)
  /\ UNCHANGED <<labels, uart, did>>

\* What is in the file when save_labels raises: open has not truncated it,
\* or has, or everything has been written.
Remains ==
  \/ UNCHANGED <<file, late>>
  \/ file' = Torn /\ late' = Nothing
  \/ file' = labels /\ late' = did

\* Mutant: the old name is not put back.
SaveLabelsFailsKeeps == pc = "save" /\ Remains /\ Raise /\ UNCHANGED <<labels, uart>>

\* The old name is put back in RAM.
SaveLabelsFails ==
  /\ pc = "save"
  /\ Remains
  /\ labels' = [labels EXCEPT ![did.id] = did.old]
  /\ Raise
  /\ UNCHANGED uart

-----------------------------------------------------------------------------
\* response: sent, or send raises.
Reply == pc = "reply" /\ (Close \/ Raise) /\ UNCHANGED state

\* The 500 of serve_http, whose own errors are swallowed.
ReplyError == pc = "error" /\ Close /\ UNCHANGED state

\* The power fails or the watchdog bites; the label file is old, lost or new
\* if this falls into save_labels.
Restart ==
  /\ file' \in IF pc = "save" THEN {file, Torn, labels} ELSE {file}
  /\ late' = Nothing
  /\ labels' = load_labels(file')
  /\ uart' \in make_kvm_uart
  /\ Close

Handlers == DecodeFails \/ GetPage \/ NotFound \/ PostAction \/ PostKvm \/ PostLabel

Serve == Parse \/ RecvTimeout \/ SaveLabels \/ SaveLabelsFails \/ Reply \/ ReplyError

Next ==
  \/ Serve \/ Handlers
  \/ \E r \in Request : Accept(r)
  \/ \E chunk \in Segment(Chunk) : RecvHead(chunk) \/ RecvBody(chunk)
  \/ RecvHeadEnd \/ RecvBodyEnd \/ RecvFails
  \/ Restart

\* A handler ends, which leaves pc = "handle".
HandlerEnds == pc = "handle" /\ pc' \in {"save", "reply", "error", "accept"}

\* What the server does by itself; clients owe nothing.
Fairness == WF_vars(Serve) /\ WF_pc(HandlerEnds)

Spec == Init /\ [][Next]_vars /\ Fairness

-----------------------------------------------------------------------------
(* A request has an effect only if it came with the credentials and all of  *)
(* its body has been read, in however many segments it came and wherever    *)
(* the client stopped sending; or its parameters came in the query, and so  *)
(* with the request line.                                                   *)
PartsNeverAct ==
  did # Nothing =>
    /\ conn.auth
    /\ body = SubSeq(conn.body, 1, Len(body))
    /\ Len(body) = conn.length \/ (body = <<>> /\ conn.query # <<>>)

(* A parameter of the page's form reaches the handlers as it was typed, if  *)
(* all its characters are of one byte.  (url_unquote makes a character of   *)
(* each byte, so of an accented letter it makes two.)                       *)
DecodedAsEncoded ==
  pc = "handle" /\ conn.form # Nothing /\ body = conn.body =>
    \A i \in DOMAIN conn.form :
      LET name == conn.form[i][1]  value == conn.form[i][2] IN
      OneByte(name) /\ OneByte(value) => Get(params, name, <<>>) = value

(* A POST that is answered 200 has been carried out, and one that is        *)
(* refused has changed nothing.                                             *)
AnsweredAsDone ==
  pc = "reply" /\ conn.method = "POST" => (code = 200) = (did # Nothing)

\* The labels in RAM, but for the one whose save raised after it had been
\* written.
InFile == IF late = Nothing THEN labels ELSE [labels EXCEPT ![late.id] = late.arg]

(* Except within save_labels the labels that are served are those a restart *)
(* finds, unless the file has been lost; a save that raised leaves at most  *)
(* its own label different, until the next save.                            *)
FileIsServed == pc # "save" => file \in {InFile, Torn}

(* A restart changes no label but one whose save has raised, unless it      *)
(* falls into save_labels or an earlier save has lost the file.             *)
RestartKeepsLabels ==
  [][Restart /\ pc # "save" /\ file # Torn => labels' = InFile]_vars

(* The server always comes back to accept, whatever clients do or leave     *)
(* undone: a silent client costs it two seconds.                            *)
AcceptsAgain == []<>(pc = "accept")

=============================================================================
