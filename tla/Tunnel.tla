------------------------------- MODULE Tunnel -------------------------------
(***************************************************************************)
(* The tunnel channel: the server's and the client's end with the streams  *)
(* between them.                                                           *)
(***************************************************************************)
EXTENDS TunnelServer, TunnelClient

vars == <<server, client, channel>>

TypeOK ==
  /\ server_bound \subseteq Streams
  /\ to_client \in Seq(Message) /\ to_server \in Seq(Message)
  /\ ServerTypeOK
  /\ ClientTypeOK

Init ==
  /\ server_bound \in SUBSET Streams
  /\ to_client = << >> /\ to_server = << >>
  /\ ServerInit
  /\ ClientInit

Next ==
  \/ ServerNext /\ UNCHANGED client
  \/ ClientNext /\ UNCHANGED server

Spec == Init /\ [][Next]_vars

\* tc-main and the write threads run when they can.  Nothing is assumed of the server,
\* and nothing of the TCP peers: a write may wait for ever for one that does not read.
Fairness ==
  /\ WF_vars(TcMain /\ UNCHANGED server)
  /\ \A id \in Streams :
       WF_vars(WriteThread(id) /\ ~AtThePeersMercy(id) /\ UNCHANGED server)

FairSpec == Spec /\ Fairness

-----------------------------------------------------------------------------
\* A stream delivers each piece of data at most once and in order, both ways.
DataInOrder ==
  \A id \in Streams : Increasing(client_sock[id].written) /\ Increasing(server_sock[id].written)

\* On the channel no data of a stream follows its close: the close waits until the
\* data that was queued before it has gone.
DataBeforeClose ==
  \A i, j \in DOMAIN to_client :
    i < j /\ to_client[i].kind = "CloseTcp" /\ to_client[j].kind = "TcpData" =>
      to_client[i].id # to_client[j].id

\* Either side keeps track of a stream for as long as the stream has work to do:
\* the server's mark of one that the client closed lasts until its task ends, is
\* not left behind and not meant for a stream that is still written to, and one
\* that tc-main has forgotten has no thread left.
StreamsTracked ==
  /\ \A id \in closed_by_client : id \notin txs /\ task[id] \in {"running", "finished"}
  /\ \A id \in Streams : streams[id] = "none" /\ starter[id] = "done" =>
       reader[id] \in {"none", "done"} /\ writer[id] \in {"none", "done"}

\* tc-main waits for room in the channel to a write thread that waits for tc-main to
\* take its result: neither ever goes on, and no stream of the client does.
Deadlocked ==
  main # Idle /\ writer[main.id] = "finished" /\ buffer[main.id] # << >>

\* As long as every write to a TCP peer returns, tc-main comes back to its select
\* from handing data over; the only other thing that keeps it is Deadlocked.
MainReturns ==
  (\A id \in Streams : []<>(writer[id] # "write"))
     => (main # Idle ~> main = Idle \/ Deadlocked)

=============================================================================
