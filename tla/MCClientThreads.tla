-------------------------- MODULE MCClientThreads --------------------------
(* Bounded instances of ClientThreads. *)
EXTENDS ClientThreads
=============================================================================
