---------------------------- MODULE SessionTasks ----------------------------
(***************************************************************************)
(* The tasks of the server's active session (aperturec-server/src/task):   *)
(* the control and event channel handlers, each a receiving and a sending  *)
(* task, the backend task, and the workers, of which only how they end     *)
(* matters here.  They are cancelled together when the session's loop      *)
(* starts its clean-up; a handler also cancels itself once one of its two  *)
(* tasks has ended.  ServerSession has that loop and the server around it. *)
(*                                                                         *)
(* The client keeps to the protocol: what fails is its connection.  Events *)
(* and replies are left out but for the waits they cause; time is, so the  *)
(* inactivity timer may run out whenever it is armed.                      *)
(***************************************************************************)
EXTENDS Naturals, Sequences

CONSTANTS
  Workers,     \* the tasks besides the handlers and the backend task
  HasTimeout   \* an inactivity timeout is configured

ASSUME TasksAssumption ==
  /\ Workers \subseteq {"mc", "tc", "rl", "fs", "mt", "enc"}
  /\ HasTimeout \in BOOLEAN

VARIABLES
  conn,        \* the connection of the session's client
  told,        \* the control messages sent to that client
  root,        \* the root program
  program,     \* the program the client asked for
  cleanup,     \* cleanup_started: every task is cancelled
  task,        \* task -> running, or how it ended
  ec_at,       \* ec_rx: receiving, or waiting for room in the queue of events
  backend_at,  \* backend: in its select!, or in one of its branches
  to_send,     \* control messages queued for cc_tx (capacity 1)
  inactive     \* the oneshot channel of the inactivity timeout

Tasks == {"cc_rx", "cc_tx", "ec_rx", "ec_tx", "backend"} \union Workers

Runs(t) == task[t] = "run"
Ends(t, how) == task' = [task EXCEPT ![t] = how]

\* A client that said goodbye ("leaving") can still be reached.
Reachable == conn # "lost"
Tell(msg) == told' = IF Reachable THEN Append(told, msg) ELSE told

CcCancelled == cleanup \/ ~Runs("cc_rx") \/ ~Runs("cc_tx")
EcCancelled == cleanup \/ ~Runs("ec_rx") \/ ~Runs("ec_tx")

\* SwapableBackend derefs to the client's program if there is one.
Served == IF program # "none" THEN program ELSE root

-----------------------------------------------------------------------------
(* The control channel handler.  Both select! are biased: what is received *)
(* or queued goes before the cancellation.                                 *)

CcRx ==
  /\ Runs("cc_rx")
  /\ \/ conn = "leaving" /\ Ends("cc_rx", "ok")
     \/ ~Reachable /\ Ends("cc_rx", "err")
     \/ CcCancelled /\ conn = "open" /\ Ends("cc_rx", "ok")
  /\ UNCHANGED <<told, ec_at, backend_at, to_send, inactive>>

CcTxSend ==
  /\ Runs("cc_tx") /\ to_send # <<>>
  /\ Tell(Head(to_send))
  /\ to_send' = Tail(to_send)
  /\ IF Reachable THEN UNCHANGED task ELSE Ends("cc_tx", "err")
  /\ UNCHANGED <<ec_at, backend_at, inactive>>

\* Mutant: the cancellation goes before what is queued.
CcTxStops_Unbiased ==
  /\ Runs("cc_tx") /\ CcCancelled
  /\ Ends("cc_tx", "ok")
  /\ UNCHANGED <<told, ec_at, backend_at, to_send, inactive>>

\* The flush that ends it has a timeout of its own.
CcTxStops ==
  /\ Runs("cc_tx") /\ CcCancelled /\ to_send = <<>>
  /\ Ends("cc_tx", "ok")
  /\ UNCHANGED <<told, ec_at, backend_at, to_send, inactive>>

-----------------------------------------------------------------------------
(* The event channel handler.                                              *)

\* client_inactive_tx is dropped with the task.
EcRxEnds(how) ==
  /\ Ends("ec_rx", how)
  /\ inactive' = IF inactive = "pending" THEN "dropped" ELSE inactive

EcRxTimeout ==
  /\ HasTimeout /\ Runs("ec_rx") /\ ec_at = "recv" /\ inactive = "pending"
  /\ inactive' = "sent"
  /\ UNCHANGED <<told, task, ec_at, backend_at, to_send>>

EcRxReceive ==
  /\ Runs("ec_rx") /\ ec_at = "recv" /\ conn = "open"
  /\ ec_at' = "send"
  /\ UNCHANGED <<told, task, backend_at, to_send, inactive>>

\* event_tx.send: the backend task makes room between two events, and has dropped
\* the queue when it has ended.  The drain after the cancellation ignores that.
EcRxForward ==
  /\ Runs("ec_rx") /\ ec_at = "send"
  /\ \/ /\ Runs("backend") /\ backend_at = "select"
        /\ ec_at' = "recv" /\ UNCHANGED <<task, inactive>>
     \/ /\ ~Runs("backend") /\ EcCancelled
        /\ ec_at' = "recv" /\ UNCHANGED <<task, inactive>>
     \/ /\ ~Runs("backend")
        /\ EcRxEnds("err") /\ UNCHANGED ec_at
  /\ UNCHANGED <<told, backend_at, to_send>>

EcRxStops ==
  /\ Runs("ec_rx") /\ ec_at = "recv"
  /\ \/ ~Reachable /\ EcRxEnds("err")
     \/ EcCancelled /\ EcRxEnds("ok")
  /\ UNCHANGED <<told, ec_at, backend_at, to_send>>

\* A send fails when the connection is lost; otherwise what is queued goes first.
EcTx ==
  /\ Runs("ec_tx")
  /\ \/ ~Reachable /\ Ends("ec_tx", "err")
     \/ EcCancelled /\ Ends("ec_tx", "ok")
  /\ UNCHANGED <<told, ec_at, backend_at, to_send, inactive>>

-----------------------------------------------------------------------------
(* The backend task.  It looks at its cancellation only between two        *)
(* events: inside one it waits for other tasks.                            *)

BackendSelects == Runs("backend") /\ backend_at = "select"

\* Cancelled, or the program has exited, with success or without.
BackendStops ==
  /\ BackendSelects
  /\ \/ cleanup /\ Ends("backend", "ok")
     \/ ~cleanup /\ Served = "exited" /\ \E how \in {"ok", "err"} : Ends("backend", how)
  /\ UNCHANGED <<told, ec_at, backend_at, to_send, inactive>>

\* An event, damage or a change of the cursor.
BackendEvent ==
  /\ BackendSelects /\ ~cleanup /\ Served = "run"
  /\ backend_at' = "event"
  /\ UNCHANGED <<told, task, ec_at, to_send, inactive>>

\* It ends, with an error if it sends to a task that has ended: ec_tx, frame
\* synchronisation or an encoder.
BackendEventEnds ==
  /\ Runs("backend") /\ backend_at = "event"
  /\ \/ backend_at' = "select" /\ UNCHANGED task
     \/ /\ \E t \in Tasks \intersect {"ec_tx", "enc", "fs"} : ~Runs(t)
        /\ Ends("backend", "err") /\ UNCHANGED backend_at
  /\ UNCHANGED <<told, ec_at, to_send, inactive>>

\* notify_event fails; or the task panics, when the displays cannot be
\* partitioned over the encoders.
BackendFails ==
  /\ Runs("backend") /\ backend_at = "event"
  /\ \E how \in {"err", "panic"} : Ends("backend", how)
  /\ UNCHANGED <<told, ec_at, backend_at, to_send, inactive>>

-----------------------------------------------------------------------------
(* The workers: the media and tunnel channel handlers, rate limiter, frame *)
(* synchronisation, malloc_trim and the encoders.                          *)

\* Only the tunnel handler ends without an error of its own accord.
WorkerEnds(w) ==
  /\ Runs(w)
  /\ \/ w # "mt" /\ Ends(w, "err")
     \/ w = "tc" /\ Ends(w, "ok")
  /\ UNCHANGED <<told, ec_at, backend_at, to_send, inactive>>

WorkerStops(w) ==
  /\ Runs(w) /\ cleanup
  /\ Ends(w, "ok")
  /\ UNCHANGED <<told, ec_at, backend_at, to_send, inactive>>

-----------------------------------------------------------------------------
\* The futures of task_results: a handler has failed when one of its tasks has,
\* and succeeded when both have (try_join).
Futures == {"cc", "ec"} \union Workers

Joined(rx, tx) ==
  IF task[rx] = "err" \/ task[tx] = "err" THEN "err"
  ELSE IF task[rx] = "ok" /\ task[tx] = "ok" THEN "ok"
  ELSE "run"

Outcome(f) ==
  CASE f = "cc" -> Joined("cc_rx", "cc_tx")
    [] f = "ec" -> Joined("ec_rx", "ec_tx")
    [] OTHER    -> task[f]

=============================================================================
