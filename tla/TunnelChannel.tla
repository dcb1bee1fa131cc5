--------------------------- MODULE TunnelChannel ---------------------------
(***************************************************************************)
(* What the two ends of the tunnel channel share: the streams, the         *)
(* messages, the channel itself (in order and reliable, one QUIC stream    *)
(* each way) and the TCP sockets at each end.                              *)
(*                                                                         *)
(* A stream carries pieces of data, numbered from one in the order its     *)
(* local peer sends them.  Its id stands for a tunnel id and a stream id:  *)
(* the end whose listener accepts the connection counts the latter up.     *)
(***************************************************************************)
EXTENDS Naturals, Sequences

CONSTANTS
  Streams,       \* the ids of the streams
  MaxToClient,   \* bound: pieces the server's peer sends on a stream
  MaxToServer    \* bound: pieces the client's peer sends on a stream

ASSUME BoundsAssumption == MaxToClient \in Nat /\ MaxToServer \in Nat

VARIABLES
  server_bound,  \* the streams accepted by a listener of the server, the others
                 \* by one of the client: fixed when the tunnels are allocated
  to_client,     \* the messages on their way to the client
  to_server      \* the messages on their way to the server

channel == <<server_bound, to_client, to_server>>

Message == [kind : {"OpenTcp", "CloseTcp", "TcpData"}, id : Streams, data : Nat]

open_tcp_stream(id) == [kind |-> "OpenTcp", id |-> id, data |-> 0]
close_tcp_stream(id) == [kind |-> "CloseTcp", id |-> id, data |-> 0]
tcp_data(id, data) == [kind |-> "TcpData", id |-> id, data |-> data]

-----------------------------------------------------------------------------
(* A socket: how much its peer has sent and closed, how much of that has   *)
(* been read, and what has been written to the peer.                       *)

Socket == [sent : Nat, peer : {"open", "closed"}, read : Nat, written : Seq(Nat)]

NewSocket == [sent |-> 0, peer |-> "open", read |-> 0, written |-> << >>]

PeerSends(s) == [s EXCEPT !.sent = @ + 1]
PeerCloses(s) == [s EXCEPT !.peer = "closed"]

CanRead(s) == s.read < s.sent
Read(s) == [s EXCEPT !.read = @ + 1]

\* A peer that closes may have reset the connection: the reads may end before
\* all is read, and writes may fail.
CanEnd(s) == s.peer = "closed"
CanFail(s) == s.peer = "closed"
Write(s, data) == [s EXCEPT !.written = @ \o data]

\* The numbers of s never fall, and never repeat.
Increasing(s) == \A i, j \in DOMAIN s : i < j => s[i] < s[j]

=============================================================================
