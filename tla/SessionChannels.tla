-------------------------- MODULE SessionChannels --------------------------
(***************************************************************************)
(* A session has in-order channels (control, event, tunnel) and one        *)
(* out-of-order channel (media) over the same connection.  The channels    *)
(* share no state but the connection, so that a behaviour exercises one of *)
(* them, chosen at the start.                                              *)
(***************************************************************************)
EXTENDS InOrderChannel, OutOfOrderChannel

VARIABLE channel   \* the channel exercised: "in_order" or "out_of_order"

ChannelsInit == channel \in {"in_order", "out_of_order"} /\ InOrderInit /\ MediaInit

ChannelsNext ==
    /\ UNCHANGED channel
    /\ \/ channel = "in_order" /\ InOrderNext /\ UNCHANGED mediaVars
       \/ channel = "out_of_order" /\ MediaNext /\ UNCHANGED inOrderVars

ChannelsVars == <<channel, inOrderVars, mediaVars>>

ChannelsSpec == ChannelsInit /\ [][ChannelsNext]_ChannelsVars
=============================================================================
