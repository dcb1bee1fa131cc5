---------------------------- MODULE MessageQueue ----------------------------
(***************************************************************************)
(* What an in-order channel promises its users: a message is taken from    *)
(* the channel when every message sent before it has been taken, once, and *)
(* it is given to the application unless it lacks a field that the         *)
(* application's type needs.                                               *)
(***************************************************************************)
EXTENDS Naturals, Sequences

CONSTANTS
    Messages,    \* what may be sent
    Incomplete,  \* messages the application's type refuses
    Undecodable  \* messages that are not of the receiver's wire type

VARIABLES
    sent,      \* every message sent, in order
    taken,     \* how many of them the receiver has taken
    received   \* the messages given to the application

Init == sent = << >> /\ taken = 0 /\ received = << >>

Send(m) ==
    /\ sent' = Append(sent, m)
    /\ UNCHANGED <<taken, received>>

\* The next message reaches the application.
Deliver ==
    /\ taken < Len(sent)
    /\ sent[taken + 1] \notin Incomplete \cup Undecodable
    /\ taken' = taken + 1
    /\ received' = Append(received, sent[taken + 1])
    /\ UNCHANGED sent

\* The next message is taken and an error is given to the application.
Refuse ==
    /\ taken < Len(sent)
    /\ sent[taken + 1] \in Incomplete
    /\ taken' = taken + 1
    /\ UNCHANGED <<sent, received>>

Next == (\E m \in Messages : Send(m)) \/ Deliver \/ Refuse

Spec == Init /\ [][Next]_<<sent, taken, received>>
=============================================================================
