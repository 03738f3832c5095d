----------------------------- MODULE MCOtaUpdate -----------------------------
(* Instances of OtaUpdate for TLC.  The image v1 is the factory's, v2 is a  *)
(* good update, v3 dies at once and v4 feeds the watchdog for ever.         *)
EXTENDS OtaUpdate

CONSTANTS v1, v2, v3, v4

FourImages == {v1, v2, v3, v4}

ImageBehaviour ==
  [i \in Image |-> CASE i = v3 -> "stops" [] i = v4 -> "spins"
                     [] OTHER  -> "serves"]

=============================================================================
