------------------------------ MODULE MCParts ------------------------------
(***************************************************************************)
(* Four parts whose properties are all about safety and which share no     *)
(* state: the framer of the client, its C interface, the layout of the     *)
(* decoders, and the X backend of the server.  A behaviour is one of a     *)
(* part, chosen at the start.                                              *)
(*                                                                         *)
(* The X backend has two CRTCs, a screen of up to 3 by 2 units of the      *)
(* minimal size, and requests of every kind that set_displays tells apart: *)
(* one display or two, side by side or sharing a mode, one that is too     *)
(* large or too small, none enabled, and more displays than there are.     *)
(***************************************************************************)
EXTENDS DisplayFramer, ClientInterface, MCPartition, XBackend, TLC

CONSTANTS t1, t2, e1, e2, ev1

VARIABLE part   \* the part of this behaviour

partsVars == <<part, vars, interfaceVars, partitionVars, backendVars>>

\* The parts that rest have one initial state.
PartsInit ==
  /\ part \in {"framer", "interface", "layout", "backend"}
  /\ Init /\ InterfaceInit /\ PartitionInit /\ XBackendInit
  /\ part # "layout" => /\ enabled = {}
                        /\ width = (CHOOSE w \in Widths : TRUE)
                        /\ height = (CHOOSE h \in Heights : TRUE)
  /\ part # "backend" => support = "none"

PartsNext ==
  /\ UNCHANGED part
  /\ \/ part = "framer" /\ Next /\ UNCHANGED <<interfaceVars, partitionVars, backendVars>>
     \/ part = "interface" /\ InterfaceNext /\ UNCHANGED <<vars, partitionVars, backendVars>>
     \/ part = "layout" /\ PartitionNext /\ UNCHANGED <<vars, interfaceVars, backendVars>>
     \/ part = "backend" /\ XBackendNext /\ UNCHANGED <<vars, interfaceVars, partitionVars>>

PartsSpec == PartsInit /\ [][PartsNext]_partsVars

-----------------------------------------------------------------------------
(* The framer. *)

\* No decoder is treated apart: their numbers are only compared for equality.
Symmetry == Permutations(Decoders)

\* Bound: one failure in all, of an encoder or of the decoding, and none in the
\* last frame, which no later one could force out.
OneFailure ==
  LET failed == {fd \in Cut \X Decoders :
                   layout[fd[1]][fd[2]].encoded # layout[fd[1]][fd[2]].relevant}
      frames == {fd[1] : fd \in failed} \union {m.frame : m \in undecodable}
  IN  /\ Cardinality(undecodable) + Cardinality(failed) <= 1
      /\ MaxFrames - 1 \notin frames

\* Bound: at most two of the six runs of fragments are of full length.
FewLongRuns ==
  Cardinality({fd \in Cut \X Decoders : layout[fd[1]][fd[2]].relevant = MaxFragments}) <= 2

-----------------------------------------------------------------------------
(* The C interface: two threads of a caller, room for two errors and an event. *)

MCThreads == {t1, t2}
MCErrors == {e1, e2}
MCEvents == {ev1}

-----------------------------------------------------------------------------
(* The X backend. *)

D(xx, yy, ww, hh) == [on |-> TRUE, x |-> xx, y |-> yy, w |-> ww, h |-> hh]

MCRequests == {
  <<D(0, 0, 1, 1)>>,
  <<D(0, 0, 2, 1), D(2, 0, 1, 2)>>,
  <<D(0, 0, 2, 1), D(0, 1, 2, 1)>>,
  <<Off, D(0, 0, 2, 1)>>,
  <<D(0, 0, 2, 2), D(2, 0, 2, 2)>>,
  <<D(0, 0, 1, 1), D(1, 0, 2, 0)>>,
  <<D(0, 0, 1, 2), D(1, 0, 1, 2), D(2, 0, 1, 2)>>,
  <<[D(0, 0, 5, 1) EXCEPT !.on = FALSE]>>}

MCLockKey == [l \in {"caps", "scroll"} |-> IF l = "caps" THEN 66 ELSE 0]

MCKeys == {7, 66, 264}

MCButtons == {[mapped |-> TRUE, idx |-> 1]}

\* Bound: the X server refuses a request, or another client resizes the screen;
\* with two calls of set_displays there is this or an input, with one both.
OneDisturbance ==
  /\ refusals + counts.resizes <= 1
  /\ refusals + counts.resizes + counts.inputs + counts.calls <= 3
=============================================================================
