------------------------------ MODULE Listener ------------------------------
(***************************************************************************)
(* The accept loop of the TinyGo firmware (serveForever and serveConn of   *)
(* server.go), a goroutine for each connection, and the W5500, whose       *)
(* listening socket holds one handshake and may wedge when that client     *)
(* leaves before Accept runs (server.go:13-16).                            *)
(*                                                                         *)
(* A request either needs the I2C expander (/status, /action) or not; all  *)
(* else that the handlers do is in the other modules.  main starts the     *)
(* loop whether or not mcpInit has found the expander.                     *)
(***************************************************************************)
EXTENDS Naturals, FiniteSets

CONSTANTS
  Client,         \* clients, each with at most one connection
  None,           \* no client
  Sockets,        \* sockets of the chip besides the listening one
  maxConsecErrs   \* failing Accepts in a row that make the listener broken

ASSUME ListenerAssumption ==
  /\ None \notin Client
  /\ Sockets \in Nat \ {0}
  /\ maxConsecErrs \in Nat \ {0}

VARIABLES
  pc,        \* where serveForever is
  consec,    \* its count of failing Accepts
  conn,      \* client -> what the goroutine of its connection does
  handshake, \* the client whose handshake the listening socket holds
  upset,     \* what the listening socket makes of clients that left
  left,      \* history: has a client ever left before it was accepted?
  expander,  \* has mcpInit set mcpDev?
  alive      \* FALSE after a panic, which stops every goroutine

vars == <<pc, consec, conn, handshake, upset, left, expander, alive>>

Open == {c \in Client : conn[c] # "closed"}

(* Type correctness: the chip has a socket for each open connection, and    *)
(* serveForever never counts past its limit.                                *)
TypeOK ==
  /\ pc \in {"listen", "listen_gap", "accept", "busy_gap", "accept_gap", "close"}
  /\ consec \in 0..maxConsecErrs
  /\ conn \in [Client -> {"closed", "read", "handle", "reply"}]
  /\ Cardinality(Open) <= Sockets
  /\ handshake \in Client \cup {None}
  /\ upset \in {"no", "once", "wedged"}
  /\ left \in BOOLEAN /\ expander \in BOOLEAN /\ alive \in BOOLEAN

Init ==
  /\ pc = "listen" /\ consec = 0
  /\ conn = [c \in Client |-> "closed"]
  /\ handshake = None /\ upset = "no"
  /\ left = FALSE
  /\ expander \in BOOLEAN
  /\ alive = TRUE

-----------------------------------------------------------------------------
(* serveForever                                                            *)

Goto(from, to) == pc = from /\ pc' = to

Listen ==
  /\ Goto("listen", "accept")
  /\ consec' = 0
  /\ UNCHANGED <<conn, handshake, upset, left, expander, alive>>

\* Logged, and tried again after listenRetryGap.
ListenFails ==
  /\ Goto("listen", "listen_gap")
  /\ UNCHANGED <<consec, conn, handshake, upset, left, expander, alive>>

ListenAgain ==
  /\ Goto("listen_gap", "listen")
  /\ UNCHANGED <<consec, conn, handshake, upset, left, expander, alive>>

\* Accept returns a connection, which moves to a socket of its own.
AcceptOk ==
  /\ pc = "accept" /\ handshake # None /\ upset = "no"
  /\ Cardinality(Open) < Sockets
  /\ consec' = 0
  /\ conn' = [conn EXCEPT ![handshake] = "read"]
  /\ handshake' = None
  /\ UNCHANGED <<pc, upset, left, expander, alive>>

\* Mutant: "No more sockets" is counted like any other error.
AcceptBusyCounts ==
  /\ Goto("accept", "accept_gap")
  /\ handshake # None /\ upset = "no"
  /\ Cardinality(Open) = Sockets
  /\ consec' = consec + 1
  /\ UNCHANGED <<conn, handshake, upset, left, expander, alive>>

\* "No more sockets": the error is not counted, and the client waits on.
AcceptBusy ==
  /\ Goto("accept", "busy_gap")
  /\ handshake # None /\ upset = "no"
  /\ Cardinality(Open) = Sockets
  /\ UNCHANGED <<consec, conn, handshake, upset, left, expander, alive>>

BusyGap ==
  /\ Goto("busy_gap", "accept")
  /\ UNCHANGED <<consec, conn, handshake, upset, left, expander, alive>>

\* Mutant: every error is taken for a lack of sockets.
AcceptErrForgives ==
  /\ Goto("accept", "busy_gap")
  /\ upset # "no"
  /\ upset' = IF upset = "once" THEN "no" ELSE upset
  /\ UNCHANGED <<consec, conn, handshake, left, expander, alive>>

\* Any other error: counted until a connection comes.
AcceptErr ==
  /\ Goto("accept", "accept_gap")
  /\ upset # "no"
  /\ consec' = consec + 1
  /\ upset' = IF upset = "once" THEN "no" ELSE upset
  /\ UNCHANGED <<conn, handshake, left, expander, alive>>

\* Mutant: the count is compared with > instead of >=.
AcceptGapOneMore ==
  /\ Goto("accept_gap", IF consec > maxConsecErrs THEN "close" ELSE "accept")
  /\ UNCHANGED <<consec, conn, handshake, upset, left, expander, alive>>

AcceptGap ==
  /\ Goto("accept_gap", IF consec >= maxConsecErrs THEN "close" ELSE "accept")
  /\ UNCHANGED <<consec, conn, handshake, upset, left, expander, alive>>

\* The listening socket goes, with the handshake it may hold.
Close ==
  /\ Goto("close", "listen")
  /\ handshake' = None /\ upset' = "no"
  /\ UNCHANGED <<consec, conn, left, expander, alive>>

ServeForever ==
  \/ Listen \/ ListenFails \/ ListenAgain
  \/ AcceptOk \/ AcceptBusy \/ BusyGap \/ AcceptErr \/ AcceptGap \/ Close

-----------------------------------------------------------------------------
(* serveConn, the goroutine of a connection                                *)

\* The loop knows nothing of what the goroutines do.
Becomes(c, from, to) ==
  /\ conn[c] = from
  /\ conn' = [conn EXCEPT ![c] = to]
  /\ UNCHANGED <<pc, consec, handshake, upset, left, expander>>

ReadRequest(c) == Becomes(c, "read", "handle") /\ UNCHANGED alive

\* Mutant: no deadline: a goroutine waits for its client.
ReadFailsNever(c) == FALSE

\* A broken request, or none before connDeadline; c.Close is deferred.
ReadFails(c) == Becomes(c, "read", "closed") /\ UNCHANGED alive

Handle(c) == Becomes(c, "handle", "reply") /\ UNCHANGED alive

\* mcpRead and mcpPulse use mcpDev without asking whether it is nil.
HandlePanics(c) ==
  /\ ~expander
  /\ Becomes(c, "handle", "handle")
  /\ alive' = FALSE

\* The errors of the writes are ignored, and the deadline bounds them.
Reply(c) == Becomes(c, "reply", "closed") /\ UNCHANGED alive

ServeConn(c) ==
  ReadRequest(c) \/ ReadFails(c) \/ Handle(c) \/ HandlePanics(c) \/ Reply(c)

-----------------------------------------------------------------------------
(* Clients                                                                 *)

Listening == pc \notin {"listen", "listen_gap"}

Connect(c) ==
  /\ Listening /\ upset # "wedged" /\ handshake = None
  /\ conn[c] = "closed"
  /\ handshake' = c
  /\ UNCHANGED <<pc, consec, conn, upset, left, expander, alive>>

\* The client leaves before Accept runs: harmless, one failing Accept, or a
\* listening socket that fails until it is closed.
Leave ==
  /\ handshake # None
  /\ handshake' = None
  /\ upset' \in {upset, "once", "wedged"}
  /\ left' = TRUE
  /\ UNCHANGED <<pc, consec, conn, expander, alive>>

Next ==
  /\ alive
  /\ \/ ServeForever
     \/ \E c \in Client : ServeConn(c) \/ Connect(c)
     \/ Leave

\* net.Listen does not fail for ever, and every goroutine that is ready runs
\* on: reads end at the deadline, whether or not the client sends.
Fairness ==
  /\ WF_vars(alive /\ ServeForever) /\ SF_vars(alive /\ Listen)
  /\ \A c \in Client : /\ WF_vars(alive /\ ReadFails(c))
                       /\ WF_vars(alive /\ Handle(c))
                       /\ WF_vars(alive /\ Reply(c))

Spec == Init /\ [][Next]_vars /\ Fairness

-----------------------------------------------------------------------------
(* Properties                                                              *)

(* A burst of clients that use up the sockets is not taken for a wedged     *)
(* listener: the listener is not closed, and no waiting handshake lost,     *)
(* unless some client has left too early (the comment at server.go:95-96).  *)
BurstIsNoWedge == pc = "close" => left

(* Whatever the clients do, the listener again and again works: a wedged    *)
(* socket is found out, closed and re-created.                              *)
ListenerHeals == []<>(~alive \/ (pc = "accept" /\ upset = "no"))

(* A client that has shaken hands does not wait for ever, whatever those    *)
(* that have the sockets do: connections end by the deadline, which is not  *)
(* extended, and the loop looks for a free socket again.                    *)
NobodyWaitsForever ==
  \A c \in Client : handshake = c ~> (~alive \/ handshake # c)

=============================================================================
