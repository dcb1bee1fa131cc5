--------------------------- MODULE InOrderChannel ---------------------------
(***************************************************************************)
(* The in-order codec over a QUIC stream (codec/in_order.rs over           *)
(* transport/stream.rs): one direction of a control, event or tunnel       *)
(* channel.  A message is a length delimiter and a body; the stream        *)
(* delivers the bytes in chunks that respect no message; the receiver      *)
(* keeps what it has read in receive_buf across calls, whether a call      *)
(* returns a message, runs into its timeout or is dropped at an await.     *)
(*                                                                         *)
(* A byte is represented by its position in the stream.  The receive       *)
(* buffer is the interval consumed + 1 .. arrived.                         *)
(***************************************************************************)
EXTENDS Naturals, Sequences

CONSTANTS
    Messages,     \* what may be sent
    Incomplete,   \* messages of the wire type that lack a field the API's type needs
    Undecodable,  \* messages that are not of the receiver's wire type
    DelimLen,     \* length of a message's length delimiter
    BodyLen,      \* length of its body
    MaxSends,     \* bound on the messages sent
    Pipelined     \* may the peer send again before an async duplex is split?

ASSUME MessagesAssumption == Incomplete \subseteq Messages /\ Undecodable \subseteq Messages
ASSUME SizesAssumption ==
    /\ DelimLen \in [Messages -> Nat \ {0}]
    /\ BodyLen \in [Messages -> Nat]
ASSUME MaxSendsAssumption == MaxSends \in Nat
ASSUME PipelinedAssumption == Pipelined \in BOOLEAN

VARIABLES
    kind,      \* "sync": Duplex and its halves; "async": AsyncDuplex and its halves
    split,     \* has the receiving end been split into its halves?
    sent,      \* every message sent, in order
    ends,      \* where each of them ends in the stream
    stream,    \* "open", "finished" by the sender, or "closed" with the connection
    readable,  \* bytes that have reached the receiver's host
    arrived,   \* bytes that receive has appended to the buffer
    consumed,  \* bytes removed from the buffer
    rx,        \* "idle", or "receiving": a call of receive is waiting
    taken,     \* messages consumed
    received,  \* messages given to the application
    result     \* what the last call of receive returned

inOrderVars == <<kind, split, sent, ends, stream, readable, arrived, consumed, rx, taken,
                 received, result>>

sender == <<sent, ends>>
receive_buf == <<arrived, consumed>>

-----------------------------------------------------------------------------
RxError == {"Quic", "Empty", "Decode", "MissingField"}

Results == {"none", "message", "timeout"} \cup RxError

InOrderTypeOK ==
    /\ kind \in {"sync", "async"}
    /\ split \in BOOLEAN
    /\ sent \in Seq(Messages)
    /\ ends \in Seq(Nat)
    /\ Len(ends) = Len(sent)
    /\ stream \in {"open", "finished", "closed"}
    /\ readable \in Nat /\ arrived \in Nat /\ consumed \in Nat /\ taken \in Nat
    /\ rx \in {"idle", "receiving"}
    /\ received \in Seq(Messages)
    /\ result \in Results

-----------------------------------------------------------------------------
(* The stream's bytes. *)

\* encode: the delimiter and the body in one piece.
Size(m) == DelimLen[m] + BodyLen[m]

Written == IF ends = << >> THEN 0 ELSE ends[Len(ends)]

Start(i) == IF i = 1 THEN 0 ELSE ends[i - 1]

Buffered == arrived - consumed

\* The message whose delimiter is at the head of the buffer.
AtHead(i) == i \in DOMAIN sent /\ Start(i) = consumed

\* receive_internal, async receive: the delimiter is tried on one more byte
\* until it decodes, then the buffer is filled up to the message's end.
HasMessage(i) ==
    /\ AtHead(i)
    /\ Buffered >= DelimLen[sent[i]]
    /\ Buffered >= Size(sent[i])

NeedsBytes == ~\E i \in DOMAIN sent : HasMessage(i)

-----------------------------------------------------------------------------
InOrderInit ==
    /\ kind \in {"sync", "async"}
    /\ split = FALSE
    /\ sent = << >> /\ ends = << >>
    /\ stream = "open"
    /\ readable = 0 /\ arrived = 0 /\ consumed = 0
    /\ rx = "idle"
    /\ taken = 0 /\ received = << >>
    /\ result = "none"

(* The sender. *)

\* The peer of an async duplex (a client's control channel) sends its ClientInit and
\* waits for the ServerInit.  The server sends that once it has the ClientInit,
\* still on the duplex, and receives no more before it splits it: what the client
\* sends in between is read after the split, as if it were sent then.
MaySend == Pipelined \/ kind = "sync" \/ split \/ sent = << >>

\* send: encode, then transmit.
send(m) ==
    /\ stream = "open"
    /\ Len(sent) < MaxSends
    /\ MaySend
    /\ sent' = Append(sent, m)
    /\ ends' = Append(ends, Written + Size(m))
    /\ UNCHANGED <<kind, split, stream, readable, arrived, consumed, rx, taken, received, result>>

\* A client (whose server receives with an AsyncDuplex) splits its channels
\* before it sends; a server's first message may precede its split.
SenderSimplex_send(m) == kind = "async" /\ send(m)
AsyncDuplex_send(m) == kind = "sync" /\ sent = << >> /\ send(m)
AsyncSenderSimplex_send(m) == kind = "sync" /\ send(m)

\* The sender drops its end, which finishes the stream.
finish ==
    /\ stream = "open"
    /\ stream' = "finished"
    /\ UNCHANGED <<kind, split, sent, ends, readable, arrived, consumed, rx, taken, received, result>>

\* Either side closes the connection, or it is lost: what has not reached
\* the receiver never will.
close ==
    /\ stream # "closed"
    /\ stream' = "closed"
    /\ UNCHANGED <<kind, split, sent, ends, readable, arrived, consumed, rx, taken, received, result>>

\* The network delivers bytes of the stream in order.
network ==
    /\ stream # "closed"
    /\ \E n \in readable + 1 .. Written : readable' = n
    /\ UNCHANGED <<kind, split, sent, ends, stream, arrived, consumed, rx, taken, received, result>>

-----------------------------------------------------------------------------
(* The receiver. *)

\* A call of receive, receive_timeout or the async receive.
call ==
    /\ rx = "idle"
    /\ rx' = "receiving"
    /\ UNCHANGED <<kind, split, sent, ends, stream, readable, arrived, consumed, taken, received, result>>

\* transport.receive: the next chunk, of any length.
take_chunk ==
    /\ rx = "receiving"
    /\ NeedsBytes
    /\ stream # "closed"
    /\ \E n \in arrived + 1 .. readable : arrived' = n
    /\ UNCHANGED <<kind, split, sent, ends, stream, readable, consumed, rx, taken, received, result>>

Return(what) == rx' = "idle" /\ result' = what

\* RM::decode fails: the buffer is left as it is.
DecodeError(i) ==
    /\ sent[i] \in Undecodable
    /\ Return("Decode")
    /\ UNCHANGED <<consumed, taken, received>>

\* The buffer is rotated, wiped and truncated.
Consume(i) == consumed' = consumed + Size(sent[i]) /\ taken' = taken + 1

\* receive_with_len: the message is removed, then converted to the API's type.
Convert(i) ==
    /\ sent[i] \notin Undecodable
    /\ Consume(i)
    /\ IF sent[i] \in Incomplete
       THEN Return("MissingField") /\ UNCHANGED received
       ELSE Return("message") /\ received' = Append(received, sent[i])

\* A call finds a whole message in the buffer.
receive_with_len ==
    /\ rx = "receiving"
    /\ \E i \in DOMAIN sent : HasMessage(i) /\ (DecodeError(i) \/ Convert(i))
    /\ UNCHANGED <<kind, split, sent, ends, stream, readable, arrived>>

Duplex_receive == kind = "sync" /\ ~split /\ receive_with_len
ReceiverSimplex_receive == kind = "sync" /\ split /\ receive_with_len
AsyncDuplex_receive == kind = "async" /\ ~split /\ receive_with_len
AsyncReceiverSimplex_receive == kind = "async" /\ split /\ receive_with_len

\* The transport has nothing more: the stream was finished (Empty) or the
\* connection is gone.
receive_error ==
    /\ rx = "receiving"
    /\ NeedsBytes
    /\ \/ stream = "closed" /\ Return("Quic")
       \/ stream = "finished" /\ arrived = Written /\ Return("Empty")
    /\ UNCHANGED <<kind, split, sent, ends, stream, readable, arrived, consumed, taken, received>>

\* Mutant: the buffer is local to the call.
KeepBuffer_Local == consumed' = arrived /\ UNCHANGED arrived

\* receive_buf belongs to the channel, not to the call.
KeepBuffer == UNCHANGED receive_buf

\* AsyncReceiverSimplex::new: an empty receive_buf.
DropBuffer == consumed' = arrived /\ UNCHANGED arrived

\* receive_timeout: nothing was readable until the deadline.  The buffer is
\* kept for the next call.
receive_timeout ==
    /\ rx = "receiving"
    /\ kind = "sync"
    /\ NeedsBytes
    /\ stream # "closed"
    /\ arrived = readable
    /\ Return("timeout")
    /\ KeepBuffer
    /\ UNCHANGED <<kind, split, sent, ends, stream, readable, taken, received>>

\* The future of an async receive is dropped: by a select! that took another
\* branch, or because it was polled once and was not ready.
cancel ==
    /\ rx = "receiving"
    /\ kind = "async"
    /\ rx' = "idle"
    /\ KeepBuffer
    /\ UNCHANGED <<kind, split, sent, ends, stream, readable, taken, received, result>>

\* A duplex is split before it is used or when it has delivered a message.
MaySplit == ~split /\ rx = "idle" /\ (arrived = 0 \/ taken > 0)

\* Duplex::split moves receive_buf into the receive half.
Duplex_split ==
    /\ kind = "sync"
    /\ MaySplit
    /\ split' = TRUE
    /\ KeepBuffer
    /\ UNCHANGED <<kind, sent, ends, stream, readable, rx, taken, received, result>>

\* AsyncDuplex::split makes a new receive half, whose buffer is empty.
AsyncDuplex_split ==
    /\ kind = "async"
    /\ MaySplit
    /\ split' = TRUE
    /\ DropBuffer
    /\ UNCHANGED <<kind, sent, ends, stream, readable, rx, taken, received, result>>

-----------------------------------------------------------------------------
ReceiverStep ==
    \/ take_chunk
    \/ Duplex_receive \/ ReceiverSimplex_receive
    \/ AsyncDuplex_receive \/ AsyncReceiverSimplex_receive
    \/ receive_error

InOrderNext ==
    \/ \E m \in Messages :
          SenderSimplex_send(m) \/ AsyncDuplex_send(m) \/ AsyncSenderSimplex_send(m)
    \/ finish \/ close \/ network
    \/ call \/ ReceiverStep \/ receive_timeout \/ cancel
    \/ Duplex_split \/ AsyncDuplex_split

InOrderSpec == InOrderInit /\ [][InOrderNext]_inOrderVars

-----------------------------------------------------------------------------
Queue == INSTANCE MessageQueue

\* The codec implements the message queue: whatever chunks the stream is
\* delivered in and wherever calls time out or are dropped, messages are taken
\* in the order of sending, none is lost, repeated or torn.
ImplementsQueue == Queue!Spec

=============================================================================
