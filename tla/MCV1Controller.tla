--------------------------- MODULE MCV1Controller ---------------------------
(* Two PCs, on the same two bits of different banks, and two networks in    *)
(* reach.  With BlobMax = 1 one pair of credentials and one label are too   *)
(* long to be read back, and a part of that password is not.                *)
EXTENDS V1Controller

Ports  == <<"pc1", "pc2">>
Wires  == [s \in {"pc1", "pc2"} \X {"power", "reset"} |->
             <<IF s[1] = "pc1" THEN "B" ELSE "A", IF s[2] = "power" THEN 0 ELSE 1>>]
Labels == [p \in PC |-> <<p>>]
Dflt   == <<"oob">>
Near   == {<< <<"n1">>, <<"k1">> >>, << <<"n2">>, <<"k2">> >>}

Ask(route, login, p, line, pair) ==
  [route |-> route, login |-> login, pc |-> p, line |-> line,
   first |-> pair[1], second |-> pair[2]]

None == << <<>>, <<>> >>

Requests ==
  {Ask("/setwifi", <<Dflt, Dflt>>, "pc1", "power", w) : w \in Near}
  \cup {Ask("/setauth", <<Dflt, Dflt>>, "pc1", "power", << <<"u">>, <<"v">> >>),
         Ask("/setauth", << <<"u">>, <<"v">> >>, "pc1", "power", << <<"t">>, <<"s", "s">> >>)}
  \cup {Ask("/setlabel", <<Dflt, Dflt>>, "pc1", "power", <<<<>>, <<"x">> >>),
         Ask("/setlabel", <<Dflt, Dflt>>, "pc2", "power", <<<<>>, <<"y", "y">> >>)}
  \cup {Ask("/action", <<Dflt, Dflt>>, "pc1", line, None) : line \in Line}
  \cup {Ask("/action", <<Dflt, Dflt>>, "pc2", "power", None)}

\* An open network that is out of reach, and what anybody else asks.
FarRequests ==
  {Ask("/setwifi", <<Dflt, Dflt>>, "pc1", "power", << <<"n3">>, <<>> >>),
   Ask("/kvm", <<Dflt, Dflt>>, "pc1", "power", None)}

=============================================================================
