---------------------------- MODULE MCAtxPulses ----------------------------
(* Two or three connections and one or two PCs; goroutines are symmetric.  *)
EXTENDS AtxPulses, TLC

CONSTANTS c1, c2, c3, p1

Symmetry == Permutations(Conn)

=============================================================================
