------------------------- MODULE OutOfOrderChannel -------------------------
(***************************************************************************)
(* The out-of-order codec (codec/out_of_order.rs over                      *)
(* transport/datagram.rs): the media channel.  A message is a QUIC stream  *)
(* of its own, opened by the sender after its gate let the message pass,   *)
(* and finished when it is dropped.  The receiver accepts streams in the   *)
(* order they were opened, reads all of them at once and returns one that  *)
(* is complete, whichever that is.                                         *)
(***************************************************************************)
EXTENDS Naturals, Sequences

CONSTANTS
    Media,     \* what may be sent
    Garbled,   \* messages the receiver cannot decode
    MediaLen,  \* encoded length of a message
    MaxMedia   \* bound on the messages sent

ASSUME MediaAssumption == Garbled \subseteq Media /\ MediaLen \in [Media -> Nat]
ASSUME MaxMediaAssumption == MaxMedia \in Nat

VARIABLES
    sending,    \* the step of the sender: "idle", "gate", "open" or "transmit"
    msg,        \* the message being sent
    opened,     \* the streams opened: their message, and whether its bytes were sent
    connected,  \* is the connection up?
    accepted,   \* how many streams the receiver has accepted
    rx_streams, \* accepted streams not returned, with the bytes read of each
    rx_call,    \* "idle" or "receiving"
    returned,   \* the streams returned by receive, in order, with the bytes read of each
    outcome     \* what the last call returned

mediaVars == <<sending, msg, opened, connected, accepted, rx_streams, rx_call, returned,
               outcome>>

tx == <<sending, msg, opened>>
rxs == <<accepted, rx_streams, rx_call, returned, outcome>>

StreamLen(i) == MediaLen[opened[i].msg]

MediaTypeOK ==
    /\ sending \in {"idle", "gate", "open", "transmit"}
    /\ msg \in Media
    /\ opened \in Seq([msg : Media, sent : BOOLEAN])
    /\ connected \in BOOLEAN
    /\ accepted \in 0..Len(opened)
    /\ rx_call \in {"idle", "receiving"}
    /\ DOMAIN rx_streams \subseteq 1..accepted
    /\ returned \in Seq((1..accepted) \X Nat)
    /\ outcome \in {"none", "message", "timeout", "Decode", "Accept"}

MediaInit ==
    /\ sending = "idle"
    /\ msg = CHOOSE m \in Media : TRUE
    /\ opened = << >>
    /\ connected = TRUE
    /\ accepted = 0 /\ rx_streams = << >> /\ rx_call = "idle"
    /\ returned = << >> /\ outcome = "none"

-----------------------------------------------------------------------------
(* The sender: Gated::send over AsyncSenderSimplex::send. *)

\* gate.wait(encoded_len) is called with the length of the message.
gated_send(m) ==
    /\ sending = "idle"
    /\ Len(opened) < MaxMedia
    /\ msg' = m
    /\ sending' = "gate"
    /\ UNCHANGED <<opened, connected, rxs>>

\* The gate lets the message pass, or fails: then the message is not sent.
gate_wait ==
    /\ sending = "gate"
    /\ sending' \in {"open", "idle"}
    /\ UNCHANGED <<msg, opened, connected, rxs>>

\* do_send: a stream is opened for the message.
open ==
    /\ sending = "open"
    /\ IF connected
       THEN /\ opened' = Append(opened, [msg |-> msg, sent |-> FALSE])
            /\ sending' = "transmit"
       ELSE sending' = "idle" /\ UNCHANGED opened
    /\ UNCHANGED <<msg, connected, rxs>>

\* The bytes are handed to the stream, which is dropped and so finished.
transmit ==
    /\ sending = "transmit"
    /\ sending' = "idle"
    /\ opened' = IF connected THEN [opened EXCEPT ![Len(opened)].sent = TRUE] ELSE opened
    /\ UNCHANGED <<msg, connected, rxs>>

\* The connection is closed or lost.
disconnect ==
    /\ connected
    /\ connected' = FALSE
    /\ UNCHANGED <<tx, rxs>>

-----------------------------------------------------------------------------
(* The receiver: the select! of OutOfOrderTransport::receive. *)

do_receive ==
    /\ rx_call = "idle"
    /\ rx_call' = "receiving"
    /\ UNCHANGED <<tx, connected, accepted, rx_streams, returned, outcome>>

Restricted(f, S) == [i \in DOMAIN f \cap S |-> f[i]]

\* acceptor.accept: the future that reads the stream joins rx_streams.
accept_stream ==
    /\ rx_call = "receiving"
    /\ connected
    /\ accepted < Len(opened)
    /\ accepted' = accepted + 1
    /\ rx_streams' = [i \in DOMAIN rx_streams \cup {accepted + 1} |->
                          IF i = accepted + 1 THEN 0 ELSE rx_streams[i]]
    /\ UNCHANGED <<tx, connected, rx_call, returned, outcome>>

\* A chunk of an accepted stream.
read(i) ==
    /\ rx_call = "receiving"
    /\ connected
    /\ i \in DOMAIN rx_streams
    /\ opened[i].sent
    /\ \E n \in rx_streams[i] + 1 .. StreamLen(i) : rx_streams' = [rx_streams EXCEPT ![i] = n]
    /\ UNCHANGED <<tx, connected, accepted, rx_call, returned, outcome>>

\* Mutant: a stream is returned with its first bytes.
Complete_AnyByte(i) == opened[i].sent /\ rx_streams[i] > 0

\* The stream has ended: stream.receive returned Empty.
Complete(i) == opened[i].sent /\ rx_streams[i] = StreamLen(i)

Finish(what) == rx_call' = "idle" /\ outcome' = what

\* A completed future leaves rx_streams.
Forget(i) == rx_streams' = Restricted(rx_streams, DOMAIN rx_streams \ {i})

\* rx_streams.next(): a complete stream is returned and decoded.
complete(i) ==
    /\ rx_call = "receiving"
    /\ i \in DOMAIN rx_streams
    /\ Complete(i)
    /\ Forget(i)
    /\ returned' = Append(returned, <<i, rx_streams[i]>>)
    /\ Finish(IF opened[i].msg \in Garbled THEN "Decode" ELSE "message")
    /\ UNCHANGED <<tx, connected, accepted>>

\* accept fails once the connection is gone; select! may take this branch
\* although a stream is complete.
accept_error ==
    /\ rx_call = "receiving"
    /\ ~connected
    /\ Finish("Accept")
    /\ UNCHANGED <<tx, connected, accepted, rx_streams, returned>>

\* receive_timeout, or a dropped future: the streams stay in the transport.
do_receive_timeout ==
    /\ rx_call = "receiving"
    /\ connected
    /\ accepted = Len(opened)
    /\ \A i \in DOMAIN rx_streams : ~Complete(i)
    /\ Finish("timeout")
    /\ UNCHANGED <<tx, connected, accepted, rx_streams, returned>>

-----------------------------------------------------------------------------
MediaReceive == accept_stream \/ accept_error \/ \E i \in 1..MaxMedia : read(i) \/ complete(i)

MediaNext ==
    \/ \E m \in Media : gated_send(m)
    \/ gate_wait \/ open \/ transmit \/ disconnect
    \/ do_receive \/ MediaReceive \/ do_receive_timeout

MediaSpec == MediaInit /\ [][MediaNext]_mediaVars

-----------------------------------------------------------------------------
\* A stream returned before its last byte is not the message that was sent.
Returned(r) == <<r[1], IF r[2] = StreamLen(r[1]) THEN opened[r[1]].msg ELSE "torn">>

Bag == INSTANCE MessageBag WITH
          Numbered <- (1..MaxMedia) \X Media,
          inside <- {<<i, opened[i].msg>> : i \in {j \in DOMAIN opened : opened[j].sent}},
          outside <- [k \in DOMAIN returned |-> Returned(returned[k])]

\* The transport implements the bag: a message comes out whole, once, and only
\* if it was sent, in whatever order streams are accepted and completed.
ImplementsBag == Bag!Spec
=============================================================================
