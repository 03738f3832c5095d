---------------------------- MODULE MCDhcpClient ----------------------------
(* Two servers; only the ACK of the first repeats mask and gateway.         *)
EXTENDS DhcpClient

CONSTANTS s1, s2

=============================================================================
