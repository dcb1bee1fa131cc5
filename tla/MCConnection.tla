---------------------------- MODULE MCConnection ----------------------------
(***************************************************************************)
(* Connecting, and the channels of a session.  Two clients, one with the   *)
(* server's token and one without, three calls of connect between them,    *)
(* and one fault: a restart of the server or a lost connection.  Then      *)
(* the messages of one channel.  The two share no state: a behaviour is    *)
(* one of connecting or one of a channel, chosen at the start.             *)
(***************************************************************************)
EXTENDS Connection, SessionChannels

VARIABLE connecting   \* is this a behaviour of connecting?

allVars == <<connecting, vars, ChannelsVars>>

AllInit ==
  /\ connecting \in BOOLEAN
  /\ Init /\ ChannelsInit
  /\ connecting => channel = "in_order" /\ kind = "sync"
  /\ ~connecting => cert_pem = Absent

AllNext ==
  /\ UNCHANGED connecting
  /\ \/ connecting /\ Next /\ UNCHANGED ChannelsVars
     \/ ~connecting /\ ChannelsNext /\ UNCHANGED vars

AllSpec == AllInit /\ [][AllNext]_allVars /\ (connecting => Fairness)

-----------------------------------------------------------------------------
(* The channels. *)

\* An empty message (a delimiter only), one with a two-byte delimiter, one of
\* each kind the receiver refuses.
MCDelimLen == [m \in Messages |-> IF m = "long" THEN 2 ELSE 1]
MCBodyLen == [m \in Messages |-> IF m = "empty" THEN 0 ELSE 1]

\* An empty media message is a stream that ends at once.
MCMediaLen == [m \in Media |-> IF m = "void" THEN 0 ELSE 2]
=============================================================================
