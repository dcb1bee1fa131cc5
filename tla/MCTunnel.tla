------------------------------ MODULE MCTunnel ------------------------------
(* Tunnel for model checking.                                              *)
EXTENDS Tunnel
=============================================================================
