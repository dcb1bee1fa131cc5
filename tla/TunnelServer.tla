---------------------------- MODULE TunnelServer ----------------------------
(***************************************************************************)
(* The server's end of the tunnel channel                                  *)
(* (aperturec-server/src/task/tunnel_channel_handler.rs): a task that      *)
(* accepts connections, a task that receives from the client, a task per   *)
(* stream, and the dispatch task, whose biased select joins them through   *)
(* unbounded queues.                                                       *)
(*                                                                         *)
(* The select polls its branches one after the other and takes the first   *)
(* that is ready, so that a branch may be taken although an earlier one    *)
(* has become ready since it was polled: `poll' is the branch polled next. *)
(***************************************************************************)
EXTENDS TunnelChannel

VARIABLES
  task,              \* stream -> its task
  queue,             \* queue -> its streams or messages
  txs,               \* the streams whose writer channel the dispatch task has
  slot,              \* stream -> its writer channel, of capacity one
  closed_by_client,  \* the streams the client has closed
  poll,              \* the branch of the select polled next
  server_sock        \* stream -> the socket of its task

server == <<task, queue, txs, slot, closed_by_client, poll, server_sock>>

\* Mutant: closes are sent before data.
Branches_ClosesFirst ==
  <<"opens_from_client", "new_tcp_streams", "stream_tasks", "closes_to_client", "data_to_client",
    "data_from_client", "closes_from_client", "opens_to_client">>

\* The branches of the select in order; all but stream_tasks are queues.
Branches ==
  <<"opens_from_client", "new_tcp_streams", "stream_tasks", "data_to_client", "data_from_client",
    "closes_from_client", "closes_to_client", "opens_to_client">>

Queues == {Branches[i] : i \in DOMAIN Branches} \ {"stream_tasks"}

ServerTypeOK ==
  /\ task \in [Streams -> {"none", "accepted", "running", "finished", "joined"}]
  /\ queue \in [Queues -> Seq(Message)]
  /\ txs \subseteq Streams
  /\ slot \in [Streams -> Seq(Nat)]
  /\ \A id \in Streams : Len(slot[id]) <= 1
  /\ closed_by_client \subseteq Streams
  /\ poll \in DOMAIN Branches
  /\ server_sock \in [Streams -> Socket]

ServerInit ==
  /\ task = [id \in Streams |-> "none"]
  /\ queue = [q \in Queues |-> << >>]
  /\ txs = {}
  /\ slot = [id \in Streams |-> << >>]
  /\ closed_by_client = {}
  /\ poll = 1
  /\ server_sock = [id \in Streams |-> NewSocket]

-----------------------------------------------------------------------------
(* The tasks beside the dispatch task.                                     *)

\* A listener accepts a connection.
AcceptAtServer(id) ==
  /\ id \in server_bound
  /\ task[id] = "none"
  /\ task' = [task EXCEPT ![id] = "accepted"]
  /\ queue' = [queue EXCEPT !["new_tcp_streams"] = Append(@, open_tcp_stream(id))]
  /\ UNCHANGED <<txs, slot, closed_by_client, poll, server_sock, channel>>

\* A message of the client is received and queued by its kind.
ReceiveFromClient ==
  /\ to_server # << >>
  /\ to_server' = Tail(to_server)
  /\ LET m == Head(to_server)
         q == CASE m.kind = "OpenTcp"  -> "opens_from_client"
                [] m.kind = "CloseTcp" -> "closes_from_client"
                [] m.kind = "TcpData"  -> "data_from_client"
     IN  queue' = [queue EXCEPT ![q] = Append(@, m)]
  /\ UNCHANGED <<task, txs, slot, closed_by_client, poll, server_sock, server_bound, to_client>>

\* The task of a stream writes what it is handed; when that fails it ends, and
\* with it its end of the writer channel.
TaskWrite(id) ==
  /\ task[id] = "running"
  /\ slot[id] # << >>
  /\ slot' = [slot EXCEPT ![id] = << >>]
  /\ \/ /\ server_sock' = [server_sock EXCEPT ![id] = Write(@, slot[id])]
        /\ UNCHANGED task
     \/ /\ CanFail(server_sock[id])
        /\ task' = [task EXCEPT ![id] = "finished"]
        /\ UNCHANGED server_sock
  /\ UNCHANGED <<queue, txs, closed_by_client, poll, channel>>

\* It ends as well once the dispatch task has dropped the writer channel.
TaskWriterClosed(id) ==
  /\ task[id] = "running"
  /\ slot[id] = << >>
  /\ id \notin txs
  /\ task' = [task EXCEPT ![id] = "finished"]
  /\ UNCHANGED <<queue, txs, slot, closed_by_client, poll, server_sock, channel>>

\* Otherwise it reads, and queues the data for the client; at its end, or on an
\* error, the task ends.
TaskRead(id) ==
  /\ task[id] = "running"
  /\ CanRead(server_sock[id])
  /\ server_sock' = [server_sock EXCEPT ![id] = Read(@)]
  /\ queue' = [queue EXCEPT !["data_to_client"] = Append(@, tcp_data(id, server_sock'[id].read))]
  /\ UNCHANGED <<task, txs, slot, closed_by_client, poll, channel>>

TaskReadEnds(id) ==
  /\ task[id] = "running"
  /\ CanEnd(server_sock[id])
  /\ task' = [task EXCEPT ![id] = "finished"]
  /\ slot' = [slot EXCEPT ![id] = << >>]
  /\ UNCHANGED <<queue, txs, closed_by_client, poll, server_sock, channel>>

-----------------------------------------------------------------------------
(* The dispatch task.  Every branch it takes ends the round of polls.      *)

\* The branch polled next has a message, which is taken off its queue.
Takes(branch) ==
  /\ Branches[poll] = branch
  /\ queue[branch] # << >>
  /\ poll' = 1

First(branch) == Head(queue[branch])
Popped(branch) == [queue EXCEPT ![branch] = Tail(@)]
Pushed(from, to, m) == [queue EXCEPT ![from] = Tail(@), ![to] = Append(@, m)]

Finished == {id \in Streams : task[id] = "finished"}

BranchReady(branch) ==
  IF branch = "stream_tasks" THEN Finished # {} ELSE queue[branch] # << >>

\* The branch polled next is not ready.  After the last the task sleeps until
\* one is.
PollNext ==
  /\ ~BranchReady(Branches[poll])
  /\ IF poll < Len(Branches) THEN poll' = poll + 1
     ELSE poll' = 1 /\ \E i \in DOMAIN Branches : BranchReady(Branches[i])
  /\ UNCHANGED <<task, queue, txs, slot, closed_by_client, server_sock, channel>>

\* The client opens a stream: it is connected, or closed.
OpenFromClient ==
  LET m == First("opens_from_client") IN
    /\ Takes("opens_from_client")
    /\ \/ /\ m.id \notin server_bound
          /\ task' = [task EXCEPT ![m.id] = "accepted"]
          /\ queue' = Pushed("opens_from_client", "new_tcp_streams", m)
       \/ /\ queue' = Pushed("opens_from_client", "closes_to_client", close_tcp_stream(m.id))
          /\ UNCHANGED task
    /\ UNCHANGED <<txs, slot, closed_by_client, server_sock, channel>>

\* A connection becomes a stream with a task of its own; the client is told if
\* the server accepted it.
NewTcpStream ==
  LET m == First("new_tcp_streams") IN
    /\ Takes("new_tcp_streams")
    /\ task' = [task EXCEPT ![m.id] = "running"]
    /\ txs' = txs \union {m.id}
    /\ queue' = IF m.id \in server_bound
                  THEN Pushed("new_tcp_streams", "opens_to_client", open_tcp_stream(m.id))
                  ELSE Popped("new_tcp_streams")
    /\ UNCHANGED <<slot, closed_by_client, server_sock, channel>>

\* The task of a stream has ended: the client is told unless it closed it.
JoinTask(id) ==
  /\ Branches[poll] = "stream_tasks"
  /\ id \in Finished
  /\ poll' = 1
  /\ task' = [task EXCEPT ![id] = "joined"]
  /\ txs' = txs \ {id}
  /\ closed_by_client' = closed_by_client \ {id}
  /\ queue' = IF id \in closed_by_client THEN queue
              ELSE [queue EXCEPT !["closes_to_client"] = Append(@, close_tcp_stream(id))]
  /\ UNCHANGED <<slot, server_sock, channel>>

\* Three of the queues are sent to the client.
SendToClient ==
  \E branch \in {"data_to_client", "closes_to_client", "opens_to_client"} :
    /\ Takes(branch)
    /\ queue' = Popped(branch)
    /\ to_client' = Append(to_client, First(branch))
    /\ UNCHANGED <<task, txs, slot, closed_by_client, server_sock, server_bound, to_server>>

\* Data of the client waits until the stream's task has taken the last, and is
\* dropped when the task is gone.
DataFromClient ==
  LET m == First("data_from_client") IN
    /\ Takes("data_from_client")
    /\ m.id \in txs /\ task[m.id] = "running" => slot[m.id] = << >>
    /\ slot' = IF m.id \in txs /\ task[m.id] = "running"
                 THEN [slot EXCEPT ![m.id] = <<m.data>>] ELSE slot
    /\ queue' = Popped("data_from_client")
    /\ UNCHANGED <<task, txs, closed_by_client, server_sock, channel>>

\* The client closes a stream: its writer channel is dropped.
CloseFromClient ==
  LET m == First("closes_from_client") IN
    /\ Takes("closes_from_client")
    /\ txs' = txs \ {m.id}
    /\ closed_by_client' = closed_by_client \union ({m.id} \intersect txs)
    /\ queue' = Popped("closes_from_client")
    /\ UNCHANGED <<task, slot, server_sock, channel>>

-----------------------------------------------------------------------------
\* What the server's peer does.
ServerPeer(id) ==
  /\ task[id] \in {"accepted", "running"}
  /\ server_sock[id].peer = "open"
  /\ \/ /\ server_sock[id].sent < MaxToClient
        /\ server_sock' = [server_sock EXCEPT ![id] = PeerSends(@)]
     \/ server_sock' = [server_sock EXCEPT ![id] = PeerCloses(@)]
  /\ UNCHANGED <<task, queue, txs, slot, closed_by_client, poll, channel>>

StreamTask(id) == TaskWrite(id) \/ TaskWriterClosed(id) \/ TaskRead(id) \/ TaskReadEnds(id)

Dispatch ==
  \/ PollNext
  \/ OpenFromClient
  \/ NewTcpStream
  \/ \E id \in Streams : JoinTask(id)
  \/ SendToClient
  \/ DataFromClient
  \/ CloseFromClient

ServerNext ==
  \/ \E id \in Streams : AcceptAtServer(id) \/ ServerPeer(id) \/ StreamTask(id)
  \/ ReceiveFromClient
  \/ Dispatch

=============================================================================
