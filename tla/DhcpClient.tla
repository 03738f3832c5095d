----------------------------- MODULE DhcpClient -----------------------------
(***************************************************************************)
(* The DHCP client of the TinyGo firmware (dhcpLease, dhcpDiscover and     *)
(* dhcpRequest of netbring.go under the retry loop of main.go), DHCP       *)
(* servers, and a network that loses, delays, reorders and duplicates      *)
(* datagrams.                                                              *)
(*                                                                         *)
(* The transaction id is the same in every round (makeXID), so an answer   *)
(* to an earlier REQUEST passes for an answer to this one, and the client  *)
(* does not look at the server an ACK comes from.  It never renews a       *)
(* lease.  A server has one address for this client, and both are named    *)
(* by the server.  A lost DISCOVER is an offer that is not made; a NAK is  *)
(* ignored by the client and left out.                                     *)
(***************************************************************************)
CONSTANTS
  Server,      \* the DHCP servers of the network
  AckHasMask,  \* the servers whose ACK repeats mask and gateway
  Reserved,    \* the servers that keep their address for this client
  None         \* no server

ASSUME DhcpAssumption ==
  AckHasMask \subseteq Server /\ Reserved \subseteq Server /\ None \notin Server

VARIABLES
  pc,         \* where the client is
  offer,      \* the server whose offer it took
  ip, mask,   \* the servers its address, and its mask and gateway, come from
  net,        \* datagrams in flight; delivering one does not remove it
  owner,      \* who has the address of each server: "us", "other" or "free"
  overtaken,  \* history: has a datagram of an earlier round taken effect?
  lapsed      \* history: has the lease of the address in use run out?

vars == <<pc, offer, ip, mask, net, owner, overtaken, lapsed>>

Message == [type : {"offer", "request", "ack"}, server : Server, old : BOOLEAN]
Msg(type, s, old) == [type |-> type, server |-> s, old |-> old]

(* Type correctness; an address comes with a mask, and only after an offer. *)
TypeOK ==
  /\ pc \in {"bringup", "discover", "await_offer", "request", "await_ack",
             "configure", "bound"}
  /\ offer \in Server \cup {None} /\ ip \in Server \cup {None}
  /\ mask \in Server \cup {None}
  /\ net \subseteq Message
  /\ owner \in [Server -> {"us", "other", "free"}]
  /\ overtaken \in BOOLEAN /\ lapsed \in BOOLEAN
  /\ (offer # None) = (pc \in {"request", "await_ack", "configure", "bound"})
  /\ (ip # None) = (pc \in {"configure", "bound"})
  /\ (mask # None) = (ip # None)

Init ==
  /\ pc = "bringup"
  /\ offer = None /\ ip = None /\ mask = None
  /\ net = {}
  /\ owner \in [Server -> {"us", "other", "free"}]
  /\ \A s \in Reserved : owner[s] # "other"
  /\ overtaken = FALSE /\ lapsed = FALSE

-----------------------------------------------------------------------------
(* The client                                                              *)

Goto(from, to) == pc = from /\ pc' = to

\* Whatever is still in flight belongs to an earlier round now.
Aged == {[m EXCEPT !.old = TRUE] : m \in net}

\* An error: another round, or, after 30 seconds, another netBringUp.
Fail(from) ==
  /\ pc = from /\ pc' \in {"discover", "bringup"}
  /\ offer' = None /\ ip' = None /\ mask' = None
  /\ UNCHANGED <<net, owner, overtaken, lapsed>>

\* netBringUp: the chip answers and the link comes up.  Until then it fails
\* and main tries again, which changes nothing here.
LinkUp ==
  /\ Goto("bringup", "discover")
  /\ UNCHANGED <<offer, ip, mask, net, owner, overtaken, lapsed>>

SendDiscover ==
  /\ Goto("discover", "await_offer")
  /\ net' = Aged
  /\ UNCHANGED <<offer, ip, mask, owner, overtaken, lapsed>>

\* The first offer wins.
ReceiveOffer(s) ==
  /\ Goto("await_offer", "request")
  /\ \E m \in net : m.type = "offer" /\ m.server = s
  /\ offer' = s
  /\ UNCHANGED <<ip, mask, net, owner, overtaken, lapsed>>

\* Mutant: the REQUEST does not say whose offer it takes.
SendRequestToAll ==
  /\ Goto("request", "await_ack")
  /\ net' = Aged \cup {Msg("request", s, FALSE) : s \in Server}
  /\ UNCHANGED <<offer, ip, mask, owner, overtaken, lapsed>>

\* The REQUEST names the server, and is broadcast.
SendRequest ==
  /\ Goto("request", "await_ack")
  /\ net' = Aged \cup {Msg("request", offer, FALSE)}
  /\ UNCHANGED <<offer, ip, mask, owner, overtaken, lapsed>>

\* Mutant: an ACK whose mask is missing leaves the lease without one.
ReceiveAckNoDefault(s) ==
  /\ Goto("await_ack", "configure")
  /\ \E m \in net :
       /\ m.type = "ack" /\ m.server = s
       /\ overtaken' = (overtaken \/ m.old)
  /\ ip' = s
  /\ mask' = IF s \in AckHasMask THEN s ELSE None
  /\ UNCHANGED <<offer, net, owner, lapsed>>

\* An ACK, whoever sends it; what it leaves out comes from the offer.
ReceiveAck(s) ==
  /\ Goto("await_ack", "configure")
  /\ \E m \in net :
       /\ m.type = "ack" /\ m.server = s
       /\ overtaken' = (overtaken \/ m.old)
  /\ ip' = s
  /\ mask' = IF s \in AckHasMask THEN s ELSE offer
  /\ UNCHANGED <<offer, net, owner, lapsed>>

\* The address is set and the firmware goes on to serve; from here nobody
\* listens for datagrams.
Configure ==
  /\ Goto("configure", "bound")
  /\ net' = {m \in net : m.type = "request"}
  /\ UNCHANGED <<offer, ip, mask, owner, overtaken, lapsed>>

\* Mutant: the four seconds have no end.
WaitForEver ==
  \/ \E at \in {"discover", "request", "configure"} : Fail(at)
  \/ pc \in {"await_offer", "await_ack"} /\ UNCHANGED vars

\* A socket call fails, no offer or no ACK comes within four seconds, or the
\* chip does not take the address.
Retry ==
  \E at \in {"discover", "await_offer", "request", "await_ack", "configure"} :
    Fail(at)

-----------------------------------------------------------------------------
(* The servers and the network                                             *)

\* A server whose address is not taken answers a DISCOVER.
Offer(s) ==
  /\ pc = "await_offer"
  /\ owner[s] # "other"
  /\ net' = net \cup {Msg("offer", s, FALSE)}
  /\ UNCHANGED <<pc, offer, ip, mask, owner, overtaken, lapsed>>

\* A REQUEST that names the server is granted, if the address is not taken.
Ack(s) ==
  /\ owner[s] # "other"
  /\ \E m \in net :
       /\ m.type = "request" /\ m.server = s
       /\ net' = net \cup {Msg("ack", s, m.old)}
  /\ owner' = [owner EXCEPT ![s] = "us"]
  /\ UNCHANGED <<pc, offer, ip, mask, overtaken, lapsed>>

\* A REQUEST that names another server tells this one that its address is
\* not wanted.
Decline(s) ==
  /\ owner[s] = "us"
  /\ \E m \in net :
       /\ m.type = "request" /\ m.server # s
       /\ overtaken' = (overtaken \/ m.old)
  /\ owner' = [owner EXCEPT ![s] = "free"]
  /\ UNCHANGED <<pc, offer, ip, mask, net, lapsed>>

\* A lease runs out, but not within the seconds a REQUEST takes.
Expire(s) ==
  /\ owner[s] = "us"
  /\ pc \notin {"await_ack", "configure"}
  /\ owner' = [owner EXCEPT ![s] = "free"]
  /\ lapsed' = (lapsed \/ s = ip)
  /\ UNCHANGED <<pc, offer, ip, mask, net, overtaken>>

\* Another client gets the address, and gives it back.
Take(s) ==
  /\ owner[s] # "us" /\ s \notin Reserved
  /\ owner' = [owner EXCEPT ![s] = IF @ = "free" THEN "other" ELSE "free"]
  /\ UNCHANGED <<pc, offer, ip, mask, net, overtaken, lapsed>>

Lose(m) ==
  /\ m \in net
  /\ net' = net \ {m}
  /\ UNCHANGED <<pc, offer, ip, mask, owner, overtaken, lapsed>>

-----------------------------------------------------------------------------
Client ==
  \/ LinkUp \/ SendDiscover \/ SendRequest \/ Configure \/ Retry
  \/ \E s \in Server : ReceiveOffer(s) \/ ReceiveAck(s)

Next ==
  \/ Client
  \/ \E s \in Server : Offer(s) \/ Ack(s) \/ Decline(s) \/ Expire(s) \/ Take(s)
  \/ \E m \in net : Lose(m)

\* The client never stops.  What is tried again and again succeeds at last:
\* a datagram is sent, and the answer of a server that has an address for this
\* client is given, arrives in time, and is the first one.
Fairness ==
  /\ WF_vars(Client)
  /\ SF_vars(SendDiscover) /\ SF_vars(Configure)
  /\ \A s \in Reserved :
       /\ SF_vars(Offer(s)) /\ SF_vars(ReceiveOffer(s))
       /\ SF_vars(offer = s /\ SendRequest)
       /\ SF_vars(pc = "await_ack" /\ Ack(s)) /\ SF_vars(ReceiveAck(s))

Spec == Init /\ [][Next]_vars /\ Fairness

-----------------------------------------------------------------------------
(* The address in use is leased to this controller, and its mask and        *)
(* gateway come from the server that leased it, whatever is lost, delayed   *)
(* or duplicated.  Two things break that, and only these: a datagram of an  *)
(* earlier round, which the constant transaction id lets through, and a     *)
(* lease that has run out, for it is never renewed.                         *)
AddressIsOurs ==
  pc = "bound" /\ ~overtaken =>
    /\ mask = ip
    /\ owner[ip] = "us" \/ lapsed

(* "No link/lease: ... it retries forever": with a server that keeps an     *)
(* address for it, the controller gets one in the end.                      *)
EventuallyBound == Reserved # {} => <>(pc = "bound")

=============================================================================
