----------------------------- MODULE MessageBag -----------------------------
(***************************************************************************)
(* What an out-of-order channel promises: every message that comes out of  *)
(* it was put into it, and comes out once.  Messages are numbered by their *)
(* sender so that equal ones are told apart.                               *)
(***************************************************************************)
EXTENDS Naturals, Sequences

CONSTANT Numbered   \* the messages with their numbers

VARIABLES
    inside,  \* what has been sent
    outside  \* what the receiver has taken, in the order of taking

Init == inside = {} /\ outside = << >>

Send(x) == x \notin inside /\ inside' = inside \cup {x} /\ UNCHANGED outside

Take(x) ==
    /\ x \in inside
    /\ \A k \in DOMAIN outside : outside[k] # x
    /\ outside' = Append(outside, x)
    /\ UNCHANGED inside

Next == \E x \in Numbered : Send(x) \/ Take(x)

Spec == Init /\ [][Next]_<<inside, outside>>
=============================================================================
