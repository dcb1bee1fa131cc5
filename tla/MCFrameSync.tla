---------------------------- MODULE MCFrameSync ----------------------------
(* Bounded instances of FrameSync. *)
EXTENDS FrameSync
=============================================================================
