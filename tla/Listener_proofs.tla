-------------------------- MODULE Listener_proofs --------------------------
(***************************************************************************)
(* For any number of clients and sockets and any limit on errors in a row: *)
(* types and the socket count are kept, and a burst of clients never       *)
(* closes the listener.                                                    *)
(***************************************************************************)
EXTENDS Listener, FiniteSetTheorems, TLAPS

(* Without a client that left there is nothing to count, and serveForever   *)
(* comes to none of the points behind an error.  Next below its limit, the  *)
(* count can still be raised by one.                                        *)
Calm ==
  /\ TypeOK
  /\ IsFiniteSet(Open)
  /\ pc \in {"accept", "busy_gap"} => consec < maxConsecErrs
  /\ ~left => /\ upset = "no" /\ consec = 0
              /\ pc \notin {"accept_gap", "close"}

LEMMA CalmInit == Init => Calm
<1> SUFFICES ASSUME Init PROVE Calm
  OBVIOUS
<1>1. Open = {}
  BY DEF Init, Open
<1>2. IsFiniteSet(Open) /\ Cardinality(Open) = 0
  BY <1>1, FS_EmptySet
<1>3. TypeOK
  <2>1. alive \in BOOLEAN /\ left \in BOOLEAN /\ expander \in BOOLEAN
    BY Zenon DEF Init
  <2> QED
    BY <1>2, <2>1, ListenerAssumption DEF Init, TypeOK
<1> QED
  BY <1>2, <1>3, ListenerAssumption DEF Init, Calm

(* A goroutine never opens a connection.                                    *)
LEMMA GoroutinesOnlyClose ==
  ASSUME Calm, NEW c \in Client, NEW from \in {"read", "handle", "reply"},
         NEW to \in {"closed", "handle", "reply"}, Becomes(c, from, to)
  PROVE  /\ conn' \in [Client -> {"closed", "read", "handle", "reply"}]
         /\ IsFiniteSet(Open') /\ Cardinality(Open') <= Sockets
<1>1. conn' \in [Client -> {"closed", "read", "handle", "reply"}]
  BY DEF Becomes, Calm, TypeOK
<1>2. Open' \subseteq Open
  BY DEF Becomes, Calm, TypeOK, Open
<1>3. IsFiniteSet(Open) /\ Cardinality(Open) <= Sockets
  BY DEF Calm, TypeOK
<1>4. IsFiniteSet(Open') /\ Cardinality(Open') <= Cardinality(Open)
  BY <1>2, <1>3, FS_Subset
<1>5. Cardinality(Open) \in Nat /\ Cardinality(Open') \in Nat
  BY <1>3, <1>4, FS_CardinalityType
<1> QED
  BY <1>1, <1>3, <1>4, <1>5, ListenerAssumption

(* An accepted connection takes one of the sockets that are left.           *)
LEMMA AcceptTakesOne ==
  ASSUME Calm, AcceptOk
  PROVE  /\ conn' \in [Client -> {"closed", "read", "handle", "reply"}]
         /\ IsFiniteSet(Open') /\ Cardinality(Open') <= Sockets
<1>1. conn' \in [Client -> {"closed", "read", "handle", "reply"}]
  BY DEF AcceptOk, Calm, TypeOK
<1>2. Open' = Open \cup {handshake}
  BY DEF AcceptOk, Calm, TypeOK, Open
<1>3. IsFiniteSet(Open) /\ Cardinality(Open) < Sockets
  BY DEF AcceptOk, Calm
<1>4. /\ IsFiniteSet(Open')
      /\ \/ Cardinality(Open') = Cardinality(Open)
         \/ Cardinality(Open') = Cardinality(Open) + 1
  BY <1>2, <1>3, FS_AddElement
<1>5. Cardinality(Open) \in Nat
  BY <1>3, FS_CardinalityType
<1> QED
  BY <1>1, <1>3, <1>4, <1>5, ListenerAssumption

LEMMA CalmStep == Calm /\ [Next]_vars => Calm'
<1> SUFFICES ASSUME Calm, [Next]_vars PROVE Calm'
  OBVIOUS
<1> USE ListenerAssumption
<1>1. CASE Listen
  BY <1>1 DEF Listen, Goto, Calm, TypeOK, Open
<1>2. CASE ListenFails
  BY <1>2 DEF ListenFails, Goto, Calm, TypeOK, Open
<1>3. CASE ListenAgain
  BY <1>3 DEF ListenAgain, Goto, Calm, TypeOK, Open
<1>4. CASE AcceptOk
  BY <1>4, AcceptTakesOne DEF AcceptOk, Calm, TypeOK
<1>5. CASE AcceptBusy
  BY <1>5 DEF AcceptBusy, Goto, Calm, TypeOK, Open
<1>6. CASE BusyGap
  BY <1>6 DEF BusyGap, Goto, Calm, TypeOK, Open
<1>7. CASE AcceptErr
  BY <1>7 DEF AcceptErr, Goto, Calm, TypeOK, Open
<1>8. CASE AcceptGap
  BY <1>8 DEF AcceptGap, Goto, Calm, TypeOK, Open
<1>9. CASE Close
  BY <1>9 DEF Close, Goto, Calm, TypeOK, Open
<1>10. ASSUME NEW c \in Client, ServeConn(c)
       PROVE  Calm'
  <2>1. \E from \in {"read", "handle", "reply"}, to \in {"closed", "handle", "reply"} :
          Becomes(c, from, to)
    BY <1>10 DEF ServeConn, ReadRequest, ReadFails, Handle, HandlePanics, Reply
  <2>2. alive' \in BOOLEAN
    BY <1>10 DEF ServeConn, ReadRequest, ReadFails, Handle, HandlePanics, Reply,
                 Calm, TypeOK
  <2>3. /\ conn' \in [Client -> {"closed", "read", "handle", "reply"}]
        /\ IsFiniteSet(Open') /\ Cardinality(Open') <= Sockets
    BY <2>1, GoroutinesOnlyClose
  <2>4. UNCHANGED <<pc, consec, handshake, upset, left, expander>>
    BY <2>1 DEF Becomes
  <2> QED
    BY <2>2, <2>3, <2>4 DEF Calm, TypeOK
<1>11. ASSUME NEW c \in Client, Connect(c)
       PROVE  Calm'
  BY <1>11 DEF Connect, Calm, TypeOK, Open
<1>12. CASE Leave
  BY <1>12 DEF Leave, Calm, TypeOK, Open
<1>13. CASE UNCHANGED vars
  BY <1>13 DEF vars, Calm, TypeOK, Open
<1> QED
  BY <1>1, <1>2, <1>3, <1>4, <1>5, <1>6, <1>7, <1>8, <1>9, <1>10, <1>11, <1>12,
     <1>13 DEF Next, ServeForever

LEMMA CalmAlways == Spec => []Calm
BY CalmInit, CalmStep, PTL DEF Spec

(* Types are kept, the open connections never outnumber the sockets, and    *)
(* serveForever never counts past its limit (server.go:83-114).             *)
THEOREM TypeCorrect == Spec => []TypeOK
<1>1. Calm => TypeOK
  BY DEF Calm
<1> QED
  BY <1>1, CalmAlways, PTL

(* As long as every client waits until it is accepted, no number of them    *)
(* makes serveForever close its listener (server.go:95-100).                *)
THEOREM BurstNeverCloses == Spec => []BurstIsNoWedge
<1>1. Calm => BurstIsNoWedge
  BY DEF Calm, BurstIsNoWedge
<1> QED
  BY <1>1, CalmAlways, PTL

=============================================================================
