------------------------------ MODULE MCTunnel ------------------------------
(* Tunnel with two connections: everything may happen to the first one.     *)
EXTENDS Tunnel

CONSTANTS First, Second

MCFaults == SubSeq(<<First, Second>>, 1, MaxConns)
=============================================================================
