----------------------------- MODULE MCExpander -----------------------------
(* Three of the four PCs: two share bank A, one is on bank B.               *)
EXTENDS Expander

CONSTANTS p1, p2, p3

ThreePCs == {p1, p2, p3}
Wiring   == [p \in PC |-> IF p = p3 THEN "B" ELSE "A"]

=============================================================================
