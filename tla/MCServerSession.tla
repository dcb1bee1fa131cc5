-------------------------- MODULE MCServerSession --------------------------
(* Bounded instances of ServerSession. *)
EXTENDS ServerSession
=============================================================================
