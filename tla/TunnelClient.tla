---------------------------- MODULE TunnelClient ----------------------------
(***************************************************************************)
(* The client's end of the tunnel channel                                  *)
(* (aperturec-client/src/channels/tunnel.rs): tc-main with its map of      *)
(* stream states, a thread that connects a stream the server has opened,   *)
(* a thread that accepts connections, and for every stream a read and a    *)
(* write thread.                                                           *)
(*                                                                         *)
(* These threads tell tc-main of a stream's start and of their end over a  *)
(* channel of capacity zero, so they wait until it takes the message.      *)
(* tc-quic-tx and tc-quic-rx do nothing but pass messages on: a send to    *)
(* the one puts the message on the channel to the server, and what the     *)
(* other hands to tc-main is the first on the channel to the client.       *)
(***************************************************************************)
EXTENDS TunnelChannel

VARIABLES
  streams,      \* stream -> its State in the map, or "none"
  queued,       \* stream -> what came for it before its socket was there, then
                \* what its write thread writes
  starter,      \* stream -> the thread that connects or accepts it
  reader,       \* stream -> its read thread
  writer,       \* stream -> its write thread
  buffer,       \* stream -> the channel to its write thread, of capacity one
  main,         \* tc-main
  client_sock   \* stream -> the socket its threads share

client == <<streams, queued, starter, reader, writer, buffer, main, client_sock>>

\* tc-main is in its select, or hands data to the write thread of a stream.
Idle == [pc |-> "select"]
Sending == [pc : {"send"}, id : Streams, data : Nat]

ClientTypeOK ==
  /\ streams \in [Streams -> {"none", "Opening", "Opened", "HalfClosed", "FullyClosed"}]
  /\ queued \in [Streams -> Seq(Nat)]
  /\ starter \in [Streams -> {"none", "connect", "failed", "started", "done"}]
  /\ reader \in [Streams -> {"none", "read", "finished", "done"}]
  /\ writer \in [Streams -> {"none", "write", "receive", "finished", "done"}]
  /\ buffer \in [Streams -> Seq(Nat)]
  /\ \A id \in Streams : Len(buffer[id]) <= 1
  /\ main = Idle \/ main \in Sending
  /\ client_sock \in [Streams -> Socket]

ClientInit ==
  /\ streams = [id \in Streams |-> "none"]
  /\ queued = [id \in Streams |-> << >>]
  /\ starter = [id \in Streams |-> "none"]
  /\ reader = [id \in Streams |-> "none"]
  /\ writer = [id \in Streams |-> "none"]
  /\ buffer = [id \in Streams |-> << >>]
  /\ main = Idle
  /\ client_sock = [id \in Streams |-> NewSocket]

-----------------------------------------------------------------------------
(* tc-main takes a message of the server.                                  *)

TakesMessage(kind) ==
  /\ main = Idle
  /\ to_client # << >>
  /\ Head(to_client).kind = kind
  /\ to_client' = Tail(to_client)

FromServer == Head(to_client)

handle_open_from_server ==
  LET id == FromServer.id IN
    /\ TakesMessage("OpenTcp")
    /\ IF id \in server_bound /\ streams[id] = "none"
         THEN /\ streams' = [streams EXCEPT ![id] = "Opening"]
              /\ starter' = [starter EXCEPT ![id] = "connect"]
              /\ UNCHANGED to_server
         ELSE /\ to_server' = Append(to_server, close_tcp_stream(id))
              /\ UNCHANGED <<streams, starter>>
    /\ UNCHANGED <<queued, reader, writer, buffer, main, client_sock, server_bound>>

\* The server has closed a stream: the state advances by one.  With Opened goes
\* the sender to the write thread, with Opening what is queued.
AfterClose(state) ==
  CASE state \in {"Opening", "Opened"} -> "HalfClosed"
    [] state = "HalfClosed" -> "FullyClosed"
    [] state \in {"FullyClosed", "none"} -> "none"

handle_close_from_server ==
  LET id == FromServer.id IN
    /\ TakesMessage("CloseTcp")
    /\ streams' = [streams EXCEPT ![id] = AfterClose(@)]
    /\ queued' = IF streams[id] = "Opening" THEN [queued EXCEPT ![id] = << >>] ELSE queued
    /\ UNCHANGED <<starter, reader, writer, buffer, main, client_sock, server_bound, to_server>>

\* Mutant: what is queued is put in front of what already is.
handle_data_from_server_Prepends ==
  LET id   == FromServer.id
      data == FromServer.data
      s    == streams[id]
  IN  /\ TakesMessage("TcpData")
      /\ main' = IF s = "Opened" THEN [pc |-> "send", id |-> id, data |-> data] ELSE Idle
      /\ queued' = IF s = "Opening" THEN [queued EXCEPT ![id] = <<data>> \o @] ELSE queued
      /\ to_server' = IF s = "FullyClosed" THEN Append(to_server, close_tcp_stream(id)) ELSE to_server
      /\ UNCHANGED <<streams, starter, reader, writer, buffer, client_sock, server_bound>>

\* Data is handed to the write thread, queued, answered by a close or dropped.
handle_data_from_server ==
  LET id   == FromServer.id
      data == FromServer.data
      s    == streams[id]
  IN  /\ TakesMessage("TcpData")
      /\ main' = IF s = "Opened" THEN [pc |-> "send", id |-> id, data |-> data] ELSE Idle
      /\ queued' = IF s = "Opening" THEN [queued EXCEPT ![id] = Append(@, data)] ELSE queued
      /\ to_server' = IF s = "FullyClosed" THEN Append(to_server, close_tcp_stream(id)) ELSE to_server
      /\ UNCHANGED <<streams, starter, reader, writer, buffer, client_sock, server_bound>>

\* The send to the write thread waits while the channel is full.  It never
\* fails: the thread ends by telling tc-main, which then leaves Opened.
SendToWriter ==
  /\ main # Idle
  /\ buffer[main.id] = << >>
  /\ buffer' = [buffer EXCEPT ![main.id] = <<main.data>>]
  /\ main' = Idle
  /\ UNCHANGED <<streams, queued, starter, reader, writer, client_sock, channel>>

-----------------------------------------------------------------------------
(* tc-main takes a message of a stream's thread.                           *)

\* A connection is established.  It starts the threads of a stream that was
\* opening, or that the client accepted and now opens; a stream closed in the
\* meantime is forgotten and its connection dropped.
handle_new_stream_established(id) ==
  /\ main = Idle
  /\ starter[id] = "started"
  /\ starter' = [starter EXCEPT ![id] = "done"]
  /\ \/ /\ streams[id] = "Opening" \/ (streams[id] = "none" /\ id \notin server_bound)
        /\ streams' = [streams EXCEPT ![id] = "Opened"]
        /\ reader' = [reader EXCEPT ![id] = "read"]
        /\ writer' = [writer EXCEPT ![id] = "write"]
        /\ to_server' = IF streams[id] = "none" THEN Append(to_server, open_tcp_stream(id))
                        ELSE to_server
     \/ /\ streams[id] # "Opening" /\ (streams[id] = "none" => id \in server_bound)
        /\ streams' = [streams EXCEPT ![id] = "none"]
        /\ UNCHANGED <<reader, writer, to_server>>
  /\ UNCHANGED <<queued, buffer, main, client_sock, server_bound, to_client>>

\* Mutant: the stream is forgotten when its second half closes.
AfterResult_Forgets(state) ==
  CASE state = "Opened" -> "HalfClosed"
    [] state # "Opened" -> "none"

\* A thread of the stream has ended: the state advances by one, and the last
\* step tells the server.
AfterResult(state) ==
  CASE state = "Opened" -> "HalfClosed"
    [] state = "HalfClosed" -> "FullyClosed"
    [] state \in {"Opening", "FullyClosed", "none"} -> "none"

handle_stream_result(id) ==
  /\ main = Idle
  /\ \/ /\ reader[id] = "finished"
        /\ reader' = [reader EXCEPT ![id] = "done"]
        /\ UNCHANGED writer
     \/ /\ writer[id] = "finished"
        /\ writer' = [writer EXCEPT ![id] = "done"]
        /\ UNCHANGED reader
  /\ streams' = [streams EXCEPT ![id] = AfterResult(@)]
  /\ to_server' = IF streams[id] = "FullyClosed" THEN Append(to_server, close_tcp_stream(id))
                  ELSE to_server
  /\ UNCHANGED <<queued, starter, buffer, main, client_sock, server_bound, to_client>>

-----------------------------------------------------------------------------
(* The other threads.                                                      *)

AcceptAtClient(id) ==
  /\ id \notin server_bound
  /\ starter[id] = "none"
  /\ starter' = [starter EXCEPT ![id] = "started"]
  /\ UNCHANGED <<streams, queued, reader, writer, buffer, main, client_sock, channel>>

\* The connection is made, or the server is told that it cannot be.
Connect(id) ==
  /\ starter[id] = "connect"
  /\ \/ starter' = [starter EXCEPT ![id] = "started"] /\ UNCHANGED to_server
     \/ /\ starter' = [starter EXCEPT ![id] = "failed"]
        /\ to_server' = Append(to_server, close_tcp_stream(id))
  /\ UNCHANGED <<streams, queued, reader, writer, buffer, main, client_sock, server_bound, to_client>>

\* A socket that was connected is blocking.  One that mio's listener accepted is not:
\* a read that finds nothing, and a write the peer has no room for, return an error.
Blocking(id) == id \in server_bound

ReadThread(id) ==
  /\ reader[id] = "read"
  /\ \/ /\ CanRead(client_sock[id])
        /\ client_sock' = [client_sock EXCEPT ![id] = Read(@)]
        /\ to_server' = Append(to_server, tcp_data(id, client_sock'[id].read))
        /\ UNCHANGED reader
     \/ /\ CanEnd(client_sock[id]) \/ (~Blocking(id) /\ ~CanRead(client_sock[id]))
        /\ reader' = [reader EXCEPT ![id] = "finished"]
        /\ UNCHANGED <<client_sock, to_server>>
  /\ UNCHANGED <<streams, queued, starter, writer, buffer, main, server_bound, to_client>>

\* Mutant: the write thread returns after what was queued.
WriteReturns_QueuedOnly(id) ==
  /\ writer[id] = "write"
  /\ queued' = [queued EXCEPT ![id] = << >>]
  /\ client_sock' = [client_sock EXCEPT ![id] = Write(@, queued[id])]
  /\ writer' = [writer EXCEPT ![id] = "done"]
  /\ UNCHANGED <<streams, starter, reader, buffer, main, channel>>

\* write_all returns: all is written, or it fails.  The thread begins with what was
\* queued.  Until the peer has read enough, or closes, a blocking write is waiting.
WriteReturns(id) ==
  /\ writer[id] = "write"
  /\ queued' = [queued EXCEPT ![id] = << >>]
  /\ \/ /\ client_sock' = [client_sock EXCEPT ![id] = Write(@, queued[id])]
        /\ writer' = [writer EXCEPT ![id] = "receive"]
     \/ /\ queued[id] # << >>
        /\ CanFail(client_sock[id]) \/ ~Blocking(id)
        /\ writer' = [writer EXCEPT ![id] = "finished"]
        /\ UNCHANGED client_sock
  /\ UNCHANGED <<streams, starter, reader, buffer, main, channel>>

\* Then it takes what tc-main hands to it, until the sender, which is part of the
\* state Opened, is gone.
WriterReceives(id) ==
  /\ writer[id] = "receive"
  /\ buffer[id] # << >>
  /\ queued' = [queued EXCEPT ![id] = buffer[id]]
  /\ buffer' = [buffer EXCEPT ![id] = << >>]
  /\ writer' = [writer EXCEPT ![id] = "write"]
  /\ UNCHANGED <<streams, starter, reader, main, client_sock, channel>>

WriteThreadEnds(id) ==
  /\ writer[id] = "receive"
  /\ buffer[id] = << >>
  /\ streams[id] # "Opened"
  /\ writer' = [writer EXCEPT ![id] = "finished"]
  /\ UNCHANGED <<streams, queued, starter, reader, buffer, main, client_sock, channel>>

\* What the client's peer does.
ClientPeer(id) ==
  /\ starter[id] \in {"started", "done"}
  /\ client_sock[id].peer = "open"
  /\ \/ /\ client_sock[id].sent < MaxToServer
        /\ client_sock' = [client_sock EXCEPT ![id] = PeerSends(@)]
     \/ client_sock' = [client_sock EXCEPT ![id] = PeerCloses(@)]
  /\ UNCHANGED <<streams, queued, starter, reader, writer, buffer, main, channel>>

-----------------------------------------------------------------------------
TcMain ==
  \/ handle_open_from_server
  \/ handle_close_from_server
  \/ handle_data_from_server
  \/ SendToWriter
  \/ \E id \in Streams : handle_new_stream_established(id) \/ handle_stream_result(id)

WriteThread(id) == WriteReturns(id) \/ WriterReceives(id) \/ WriteThreadEnds(id)

\* The write of a blocking socket whose peer neither reads nor closes: nothing else
\* keeps a write thread.
AtThePeersMercy(id) ==
  writer[id] = "write" /\ queued[id] # << >> /\ Blocking(id) /\ client_sock[id].peer = "open"

ClientNext ==
  \/ TcMain
  \/ \E id \in Streams : \/ Connect(id) \/ ReadThread(id) \/ WriteThread(id)
                          \/ AcceptAtClient(id) \/ ClientPeer(id)

=============================================================================
