-------------------------- MODULE DhcpClient_proofs --------------------------
(***************************************************************************)
(* Whose address the controller uses: the safety of DhcpClient for any     *)
(* number of servers and any behaviour of the network.                     *)
(***************************************************************************)
EXTENDS DhcpClient, TLAPS

Fresh(type) == {m \in net : m.type = type /\ ~m.old}

\* While nobody waits for an ACK that counts, nothing in flight is fresh;
\* afterwards what is fresh names the server whose offer was taken.
FreshIsChosen ==
  /\ pc \in {"await_offer", "request"} =>
       Fresh("request") = {} /\ Fresh("ack") = {}
  /\ pc \in {"await_ack", "configure", "bound"} =>
       \A m \in Fresh("request") \cup Fresh("ack") : m.server = offer

\* A fresh ACK stands for a lease, and so does the address in use.
AckIsLease ==
  /\ pc = "await_ack" /\ ~overtaken =>
       \A m \in Fresh("ack") : owner[m.server] = "us"
  /\ pc \in {"configure", "bound"} /\ ~overtaken =>
       /\ ip = offer /\ mask = ip
       /\ owner[ip] = "us" \/ (pc = "bound" /\ lapsed)

IInv == TypeOK /\ FreshIsChosen /\ AckIsLease

\* A datagram is what it was made of; an aged one is old, and otherwise what
\* it was.
LEMMA MsgFields ==
  ASSUME NEW type \in {"offer", "request", "ack"}, NEW s \in Server,
         NEW old \in BOOLEAN
  PROVE  /\ Msg(type, s, old) \in Message
         /\ Msg(type, s, old).type = type
         /\ Msg(type, s, old).server = s
         /\ Msg(type, s, old).old = old
BY DEF Msg, Message

LEMMA AgedIsOld ==
  ASSUME net \subseteq Message
  PROVE  Aged \subseteq Message /\ \A m \in Aged : m.old = TRUE
<1> SUFFICES ASSUME NEW m \in net
             PROVE  LET a == [m EXCEPT !.old = TRUE]
                    IN  a \in Message /\ a.old = TRUE
  BY DEF Aged
<1>1. m \in Message
  OBVIOUS
<1> QED BY <1>1 DEF Message

\* In the first state no datagram is in flight and no address is in use.
LEMMA InitIInv == Init => IInv
<1> SUFFICES ASSUME Init PROVE IInv
    OBVIOUS
<1>1. TypeOK
  <2>1. overtaken \in BOOLEAN /\ lapsed \in BOOLEAN
    BY DEF Init
  <2>2. net \subseteq Message
    BY DEF Init
  <2>3. owner \in [Server -> {"us", "other", "free"}]
    BY DEF Init
  <2>4. pc = "bringup" /\ offer = None /\ ip = None /\ mask = None
    BY DEF Init
  <2> QED BY <2>1, <2>2, <2>3, <2>4 DEF TypeOK
<1>2. FreshIsChosen /\ AckIsLease
  BY DEF Init, FreshIsChosen, AckIsLease, Fresh
<1> QED BY <1>1, <1>2 DEF IInv

\* Every step of the client, the servers and the network keeps the types.
LEMMA StepTypeOK == TypeOK /\ [Next]_vars => TypeOK'
<1> SUFFICES ASSUME TypeOK, [Next]_vars PROVE TypeOK'
    OBVIOUS
<1> USE DhcpAssumption DEF TypeOK, Goto
<1>1. CASE LinkUp
  BY <1>1 DEF LinkUp
<1>2. CASE SendDiscover
  <2>1. net' \subseteq Message
    BY <1>2, AgedIsOld DEF SendDiscover
  <2> QED BY <1>2, <2>1 DEF SendDiscover
<1>3. CASE SendRequest
  <2>1. offer \in Server
    BY <1>3 DEF SendRequest
  <2>2. Msg("request", offer, FALSE) \in Message
    BY <2>1, MsgFields
  <2>3. net' \subseteq Message
    BY <1>3, <2>2, AgedIsOld DEF SendRequest
  <2>4. pc' = "await_ack" /\ UNCHANGED <<offer, ip, mask, owner, overtaken, lapsed>>
    BY <1>3 DEF SendRequest
  <2>5. offer # None /\ ip = None /\ mask = None
    BY <1>3 DEF SendRequest
  <2> QED BY <2>3, <2>4, <2>5
<1>4. CASE Configure
  BY <1>4 DEF Configure
<1>5. CASE Retry
  BY <1>5 DEF Retry, Fail
<1>6. ASSUME NEW s \in Server, ReceiveOffer(s) PROVE TypeOK'
  BY <1>6 DEF ReceiveOffer
<1>7. ASSUME NEW s \in Server, ReceiveAck(s) PROVE TypeOK'
  BY <1>7 DEF ReceiveAck
<1>8. ASSUME NEW s \in Server, Offer(s) PROVE TypeOK'
  <2>1. Msg("offer", s, FALSE) \in Message
    BY MsgFields
  <2>2. net' \subseteq Message
    BY <1>8, <2>1 DEF Offer
  <2> QED BY <1>8, <2>2 DEF Offer
<1>9. ASSUME NEW s \in Server, Ack(s) PROVE TypeOK'
  BY <1>9, MsgFields DEF Ack, Message
<1>10. ASSUME NEW s \in Server, Decline(s) \/ Expire(s) \/ Take(s) PROVE TypeOK'
  BY <1>10 DEF Decline, Expire, Take
<1>11. ASSUME NEW m \in net, Lose(m) PROVE TypeOK'
  BY <1>11 DEF Lose
<1>12. CASE UNCHANGED vars
  BY <1>12 DEF vars
<1> QED
  BY <1>1, <1>2, <1>3, <1>4, <1>5, <1>6, <1>7, <1>8, <1>9, <1>10, <1>11, <1>12
  DEF Next, Client

\* Every step keeps what is known of the datagrams in flight and the lease.
LEMMA StepLease ==
  IInv /\ [Next]_vars => FreshIsChosen' /\ AckIsLease'
<1> SUFFICES ASSUME IInv, [Next]_vars PROVE FreshIsChosen' /\ AckIsLease'
    OBVIOUS
<1> USE DEF IInv, TypeOK, FreshIsChosen, AckIsLease, Fresh, Message, Msg, Aged, Goto
<1>1. CASE LinkUp
  BY <1>1 DEF LinkUp
<1>2. CASE SendDiscover
  BY <1>2 DEF SendDiscover
<1>3. CASE SendRequest
  BY <1>3 DEF SendRequest
<1>4. CASE Configure
  BY <1>4 DEF Configure
<1>5. CASE Retry
  BY <1>5 DEF Retry, Fail
<1>6. ASSUME NEW s \in Server, ReceiveOffer(s)
      PROVE FreshIsChosen' /\ AckIsLease'
  BY <1>6 DEF ReceiveOffer
<1>7. ASSUME NEW s \in Server, ReceiveAck(s)
      PROVE FreshIsChosen' /\ AckIsLease'
  BY <1>7 DEF ReceiveAck
<1>8. ASSUME NEW s \in Server, Offer(s)
      PROVE FreshIsChosen' /\ AckIsLease'
  BY <1>8 DEF Offer
<1>9. ASSUME NEW s \in Server, Ack(s)
      PROVE FreshIsChosen' /\ AckIsLease'
  BY <1>9 DEF Ack
<1>10. ASSUME NEW s \in Server, Decline(s)
       PROVE FreshIsChosen' /\ AckIsLease'
  BY <1>10 DEF Decline
<1>11. ASSUME NEW s \in Server, Expire(s)
       PROVE FreshIsChosen' /\ AckIsLease'
  BY <1>11 DEF Expire
<1>12. ASSUME NEW s \in Server, Take(s)
       PROVE FreshIsChosen' /\ AckIsLease'
  BY <1>12 DEF Take
<1>13. ASSUME NEW m \in net, Lose(m)
       PROVE FreshIsChosen' /\ AckIsLease'
  BY <1>13 DEF Lose
<1>14. CASE UNCHANGED vars
  BY <1>14 DEF vars
<1> QED
  BY <1>1, <1>2, <1>3, <1>4, <1>5, <1>6, <1>7, <1>8, <1>9, <1>10, <1>11,
     <1>12, <1>13, <1>14
  DEF Next, Client

\* The inductive invariant holds in every reachable state.
LEMMA AlwaysIInv == Spec => []IInv
<1>1. IInv /\ [Next]_vars => IInv'
  BY StepTypeOK, StepLease DEF IInv
<1> QED BY InitIInv, <1>1, PTL DEF Spec

(* Types, and that an address comes with a mask and after an offer: the     *)
(* code of netbring.go for any servers and any network.                     *)
THEOREM TypeCorrect == Spec => []TypeOK
<1>1. IInv => TypeOK
  BY DEF IInv
<1> QED BY AlwaysIInv, <1>1, PTL

(* The controller uses an address that is leased to it, with the mask and   *)
(* gateway of that lease, unless a datagram of an earlier round has taken   *)
(* effect or the lease has run out: dhcpDiscover and dhcpRequest for any    *)
(* number of servers.                                                       *)
THEOREM AddressIsAlwaysOurs == Spec => []AddressIsOurs
<1>1. IInv => AddressIsOurs
  BY DEF IInv, AckIsLease, AddressIsOurs
<1> QED BY AlwaysIInv, <1>1, PTL

=============================================================================
