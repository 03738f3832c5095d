----------------------------- MODULE MCListener -----------------------------
(* Three clients for two sockets; three errors in a row instead of ten.       *)
EXTENDS Listener

CONSTANTS c1, c2, c3

=============================================================================
