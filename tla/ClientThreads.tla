--------------------------- MODULE ClientThreads ---------------------------
(***************************************************************************)
(* The threads of a connected client (aperturec-client/src/lib.rs and      *)
(* aperturec-client/src/channels): the application that owns the           *)
(* Connection, the primary thread, and for the control, event, media and   *)
(* tunnel channels a main thread and a network thread.                     *)
(*                                                                         *)
(* They talk over channels of capacity zero: a send blocks until the       *)
(* receiver takes the message, and fails only when the receiver has been   *)
(* dropped, which happens when the thread that owns it ends.  A message is *)
(* therefore part of its sender's state, and its transfer a joint step of  *)
(* two threads.  Only the events to the application are buffered.          *)
(*                                                                         *)
(* A select! that finds several messages waiting may take any: its bias is *)
(* a sequence of tries that a sender can slip into.                        *)
(***************************************************************************)
EXTENDS Naturals, Sequences

CONSTANTS
  MaxInputs,     \* bound: inputs of the application
  MaxReceived,   \* bound: messages received from the server
  MaxDraws       \* bound: draws that one media message completes

ASSUME BoundsAssumption == MaxInputs \in Nat /\ MaxReceived \in Nat /\ MaxDraws \in Nat

Workers == {"cc", "ec", "mc", "tc"}

\* The order in which the primary thread terminates them.
TerminationOrder == <<"cc", "ec", "mc", "tc">>

VARIABLES
  app,         \* the application: what it does with its Connection
  pt,          \* the primary thread
  main,        \* worker -> its main thread
  net,         \* worker -> its network thread
  conn,        \* the QUIC connection
  inputs,      \* the inputs so far
  received,    \* the messages received so far
  events,      \* the events queued for the application so far
  quit,        \* the reason of the Quit event, once queued
  goodbye      \* whether disconnect has asked for, and cc-main sent, a goodbye

vars == <<app, pt, main, net, conn, inputs, received, events, quit, goodbye>>

FromPrimary == {"Goodbye", "UserEvent", "DisplayConfiguration"}
ToPrimary == {"ServerInit", "ServerGoodbye", "DisplayConfiguration", "Cursor", "Draw", "Error"}

\* `to' and `msg' are those of a blocked send (nothing is forwarded to the
\* tunnel channel), and `next' the position of the next worker to terminate.
PrimaryType ==
  [pc : {"select", "send", "terminate", "done"}, to : {"cc", "ec", "mc"}, msg : FromPrimary,
   next : 1 .. 5]

\* `out' is what the thread has still to send to the primary thread, and
\* `after' where it goes once that is sent.
MainType ==
  [pc : {"select", "send", "join", "done"}, out : Seq(ToPrimary), after : {"select", "join"}]

\* What a network thread can receive on each channel; Err ends it.
Incoming(w) ==
  CASE w = "cc" -> {"ServerInit", "ServerGoodbye"}
    [] w = "ec" -> {"DisplayConfiguration", "Cursor"}
    [] w = "mc" -> {"Media"}
    [] w = "tc" -> {"Tunnel"}

NetType(w) == {"receive", "done", "Err"} \union Incoming(w)

\* Every variable has its type, and a main thread sends while it has to.
TypeOK ==
  /\ app \in {"running", "input", "goodbye", "drop", "join", "gone"}
  /\ pt \in PrimaryType
  /\ main \in [Workers -> MainType]
  /\ \A w \in Workers : main[w].pc = "send" <=> main[w].out # << >>
  /\ net \in [Workers -> UNION {NetType(w) : w \in Workers}]
  /\ \A w \in Workers : net[w] \in NetType(w)
  /\ conn \in {"up", "lost", "closed"}
  /\ inputs \in Nat /\ received \in Nat /\ events \in Nat
  /\ quit \in {"none", "ServerGoodbye", "UnrecoverableError"}
  /\ goodbye \in {"none", "asked", "sent", "failed"}

-----------------------------------------------------------------------------
(* The application.                                                        *)

\* pointer_move, key_press, ..., request_display_change: a send on pt_tx.
SendInput ==
  /\ app = "running"
  /\ inputs < MaxInputs
  /\ app' = "input"
  /\ inputs' = inputs + 1
  /\ UNCHANGED <<pt, main, net, conn, received, events, quit, goodbye>>

\* is_active: the primary thread is still in its loop.
IsActive == pt.pc \in {"select", "send"}

\* disconnect sends a goodbye if the connection is active, and drops it.
Disconnect ==
  /\ app = "running"
  /\ app' = IF IsActive THEN "goodbye" ELSE "drop"
  /\ goodbye' = IF IsActive THEN "asked" ELSE goodbye
  /\ UNCHANGED <<pt, main, net, conn, inputs, received, events, quit>>

\* The Connection is dropped without disconnect.
DropConnection ==
  /\ app = "running"
  /\ app' = "drop"
  /\ UNCHANGED <<pt, main, net, conn, inputs, received, events, quit, goodbye>>

\* What follows each of the application's sends: drop joins the primary thread.
AfterSend == CASE app = "input" -> "running" [] app = "goodbye" -> "drop" [] app = "drop" -> "join"

\* Mutant: the receiver of inputs outlives the primary thread.
SendFails_NotOfInput ==
  /\ app \in {"goodbye", "drop"}
  /\ pt.pc = "done"
  /\ app' = AfterSend
  /\ UNCHANGED <<pt, main, net, conn, inputs, received, events, quit, goodbye>>

\* The send fails: the primary thread has ended.
SendFails ==
  /\ app \in {"input", "goodbye", "drop"}
  /\ pt.pc = "done"
  /\ app' = AfterSend
  /\ UNCHANGED <<pt, main, net, conn, inputs, received, events, quit, goodbye>>

Joined ==
  /\ app = "join"
  /\ pt.pc = "done"
  /\ app' = "gone"
  /\ UNCHANGED <<pt, main, net, conn, inputs, received, events, quit, goodbye>>

-----------------------------------------------------------------------------
(* The primary thread.                                                     *)

Leave == [pt EXCEPT !.pc = "terminate"]
Forward(w, m) == [pt EXCEPT !.pc = "send", !.to = w, !.msg = m]

\* It takes what the application sends: Terminate ends its loop, anything else
\* it forwards, blocking until the worker takes it.
TakeFromApp ==
  /\ pt.pc = "select"
  /\ app \in {"input", "goodbye", "drop"}
  /\ app' = AfterSend
  /\ pt' = CASE app = "input"   -> Forward("ec", "UserEvent")
             [] app = "goodbye" -> Forward("cc", "Goodbye")
             [] app = "drop"    -> Leave
  /\ UNCHANGED <<main, net, conn, inputs, received, events, quit, goodbye>>

\* It ends its loop and queues the Quit event.
Quit(reason) ==
  /\ pt' = Leave
  /\ quit' = reason
  /\ UNCHANGED events

\* It queues any other event, or none.
Queue(n) ==
  /\ events' = events + n
  /\ UNCHANGED <<pt, quit>>

\* w's main thread has sent the first message of `out'.
Sent(w) ==
  LET rest == Tail(main[w].out)
  IN  [main EXCEPT ![w] = [pc    |-> IF rest = << >> THEN main[w].after ELSE "send",
                           out   |-> rest,
                           after |-> main[w].after]]

\* Mutant: the loop goes on after the server's goodbye.
TakeFromMain_GoesOn(w) ==
  /\ pt.pc = "select"
  /\ main[w].pc = "send"
  /\ main' = Sent(w)
  /\ LET m == Head(main[w].out)
     IN  \/ m = "ServerGoodbye" /\ quit' = m /\ UNCHANGED <<pt, events>>
         \/ m = "Error" /\ w # "tc" /\ Quit("UnrecoverableError")
         \/ m = "Error" /\ w = "tc" /\ Queue(0)
         \/ m = "ServerInit" /\ Queue(0)
         \/ m \in {"Cursor", "Draw"} /\ Queue(1)
         \/ /\ m = "DisplayConfiguration"
            /\ pt' = Forward("mc", "DisplayConfiguration")
            /\ UNCHANGED <<events, quit>>
  /\ UNCHANGED <<app, net, conn, inputs, received, goodbye>>

\* It takes a message of w's main thread.
TakeFromMain(w) ==
  /\ pt.pc = "select"
  /\ main[w].pc = "send"
  /\ main' = Sent(w)
  /\ LET m == Head(main[w].out)
     IN  \/ m = "ServerGoodbye" /\ Quit("ServerGoodbye")
         \/ m = "Error" /\ w # "tc" /\ Quit("UnrecoverableError")
         \/ m = "Error" /\ w = "tc" /\ Queue(0)
         \/ m = "ServerInit" /\ Queue(0)
         \/ m \in {"Cursor", "Draw"} /\ Queue(1)
         \/ /\ m = "DisplayConfiguration"
            /\ pt' = Forward("mc", "DisplayConfiguration")
            /\ UNCHANGED <<events, quit>>
  /\ UNCHANGED <<app, net, conn, inputs, received, goodbye>>

\* Once a display configuration is with the media thread, the application is
\* told of it.
Forwarded ==
  /\ pt' = [pt EXCEPT !.pc = "select"]
  /\ events' = IF pt.msg = "DisplayConfiguration" THEN events + 1 ELSE events

Failed(w) == [main EXCEPT ![w] = [pc |-> "send", out |-> <<"Error">>, after |-> "select"]]

\* The worker takes what is forwarded.  The event and the control channel send
\* it to the server, and report an error if they cannot.
TakeFromPrimary ==
  /\ pt.pc = "send"
  /\ main[pt.to].pc = "select"
  /\ Forwarded
  /\ main' = IF conn = "up" \/ pt.to = "mc" THEN main ELSE Failed(pt.to)
  /\ goodbye' = IF pt.msg # "Goodbye" THEN goodbye ELSE IF conn = "up" THEN "sent" ELSE "failed"
  /\ UNCHANGED <<app, net, conn, inputs, received, quit>>

NextToTerminate == TerminationOrder[pt.next]

\* Mutant: the worker that has already ended is waited for.
TerminateWorker_WaitsForAll ==
  /\ pt.pc = "terminate"
  /\ pt.next <= 4
  /\ main[NextToTerminate].pc = "select"
  /\ main' = [main EXCEPT ![NextToTerminate].pc = "join"]
  /\ pt' = [pt EXCEPT !.next = @ + 1]
  /\ UNCHANGED <<app, net, conn, inputs, received, events, quit, goodbye>>

\* Mutant: the termination is sent without waiting for the worker to take it.
TerminateWorker_DoesNotWait ==
  /\ pt.pc = "terminate"
  /\ pt.next <= 4
  /\ main' = IF main[NextToTerminate].pc = "select"
               THEN [main EXCEPT ![NextToTerminate].pc = "join"] ELSE main
  /\ pt' = [pt EXCEPT !.next = @ + 1]
  /\ UNCHANGED <<app, net, conn, inputs, received, events, quit, goodbye>>

\* Out of its loop, it terminates the workers one after the other; a worker
\* that takes the message leaves its own loop.
TerminateWorker ==
  /\ pt.pc = "terminate"
  /\ pt.next <= 4
  /\ main[NextToTerminate].pc \in {"select", "done"}
  /\ main' = IF main[NextToTerminate].pc = "select"
               THEN [main EXCEPT ![NextToTerminate].pc = "join"] ELSE main
  /\ pt' = [pt EXCEPT !.next = @ + 1]
  /\ UNCHANGED <<app, net, conn, inputs, received, events, quit, goodbye>>

\* Then it closes the connection and ends.
CloseConnection ==
  /\ pt.pc = "terminate"
  /\ pt.next = 5
  /\ conn' = "closed"
  /\ pt' = [pt EXCEPT !.pc = "done"]
  /\ UNCHANGED <<app, main, net, inputs, received, events, quit, goodbye>>

-----------------------------------------------------------------------------
(* The worker threads.                                                     *)

\* The network thread receives a message, or an error once there is no
\* connection; either it hands to the main thread.
NetReceive(w, m) ==
  /\ net[w] = "receive"
  /\ conn = "up"
  /\ received < MaxReceived
  /\ received' = received + 1
  /\ net' = [net EXCEPT ![w] = m]
  /\ UNCHANGED <<app, pt, main, conn, inputs, events, quit, goodbye>>

NetError(w) ==
  /\ net[w] = "receive"
  /\ conn # "up"
  /\ net' = [net EXCEPT ![w] = "Err"]
  /\ UNCHANGED <<app, pt, main, conn, inputs, received, events, quit, goodbye>>

\* What the main thread sends to the primary thread for a message.  A display
\* configuration may be invalid, a cursor only cached or missing in the cache,
\* a media message may complete no draw or several.
Replies(w, m) ==
  CASE m = "Err" -> {<<"Error">>}
    [] m # "Err" /\ w = "cc" -> {<<m>>}
    [] m # "Err" /\ w = "ec" -> {<< >>, <<m>>}
    [] m # "Err" /\ w = "mc" -> {[i \in 1 .. n |-> "Draw"] : n \in 0 .. MaxDraws}
    [] m # "Err" /\ w = "tc" -> {<< >>}

\* The main thread takes it from the network thread.  The control thread ends
\* its loop after an error; the others find out that the network thread ended.
TakeFromNet(w) ==
  /\ main[w].pc = "select"
  /\ net[w] \notin {"receive", "done"}
  /\ net' = [net EXCEPT ![w] = IF @ = "Err" THEN "done" ELSE "receive"]
  /\ \E out \in Replies(w, net[w]) :
       main' = [main EXCEPT ![w] = [pc    |-> IF out = << >> THEN "select" ELSE "send",
                                    out   |-> out,
                                    after |-> IF w = "cc" /\ net[w] = "Err"
                                                THEN "join" ELSE "select"]]
  /\ UNCHANGED <<app, pt, conn, inputs, received, events, quit, goodbye>>

NetIsGone(w) ==
  /\ main[w].pc = "select"
  /\ net[w] = "done"
  /\ main' = [main EXCEPT ![w].pc = "join"]
  /\ UNCHANGED <<app, pt, net, conn, inputs, received, events, quit, goodbye>>

\* The join of the network thread, after which the main thread ends.  tc-main
\* joins tc-quic-tx too, which (with no stream open) receives until the sender
\* that tc-main itself owns is dropped: that join never returns.
MainJoined(w) ==
  /\ main[w].pc = "join"
  /\ net[w] = "done"
  /\ w # "tc"
  /\ main' = [main EXCEPT ![w].pc = "done"]
  /\ UNCHANGED <<app, pt, net, conn, inputs, received, events, quit, goodbye>>

\* The server closes the connection, or it times out.
LoseConnection ==
  /\ conn = "up"
  /\ conn' = "lost"
  /\ UNCHANGED <<app, pt, main, net, inputs, received, events, quit, goodbye>>

-----------------------------------------------------------------------------
Init ==
  /\ app = "running"
  /\ pt = [pc |-> "select", to |-> "ec", msg |-> "UserEvent", next |-> 1]
  /\ main = [w \in Workers |-> [pc |-> "select", out |-> << >>, after |-> "select"]]
  /\ net = [w \in Workers |-> "receive"]
  /\ conn = "up"
  /\ inputs = 0
  /\ received = 0
  /\ events = 0
  /\ quit = "none"
  /\ goodbye = "none"

Application == SendInput \/ Disconnect \/ DropConnection
Returns == SendFails \/ Joined

Primary ==
  \/ TakeFromApp
  \/ \E w \in Workers : TakeFromMain(w)
  \/ TakeFromPrimary
  \/ TerminateWorker
  \/ CloseConnection

Worker(w) ==
  \/ NetError(w)
  \/ TakeFromNet(w)
  \/ NetIsGone(w)
  \/ MainJoined(w)

Next ==
  \/ Application
  \/ Returns
  \/ Primary
  \/ \E w \in Workers : Worker(w)
  \/ \E w \in Workers : \E m \in Incoming(w) : NetReceive(w, m)
  \/ LoseConnection

Spec == Init /\ [][Next]_vars

\* Every thread takes its next step when it can.  What the application, the
\* server and the network do is theirs to decide.
Fairness ==
  /\ WF_vars(Returns)
  /\ WF_vars(Primary)
  /\ \A w \in Workers : WF_vars(Worker(w))

FairSpec == Spec /\ Fairness

-----------------------------------------------------------------------------
\* The primary thread is blocked in a send to w.
SendsTo(w) ==
  \/ pt.pc = "send" /\ pt.to = w
  \/ pt.pc = "terminate" /\ pt.next <= 4 /\ NextToTerminate = w

\* A wait that never ends: the primary thread sends to a worker that itself
\* sends to the primary thread, or to the tunnel worker after its loop.
Deadlocked ==
  \E w \in Workers : SendsTo(w) /\ (main[w].pc = "send" \/ (main[w].pc = "join" /\ w = "tc"))

\* The primary thread ends, and closes the connection, only when every worker
\* is out of its loop; so no worker is left to receive from, or to send to, a
\* primary thread that is gone.
ClosedAfterWorkers == pt.pc = "done" => \A w \in Workers : main[w].pc \in {"join", "done"}

\* While the primary thread is in its loop, no worker has ended: it reaches
\* neither its "terminated unexpectedly" branches, which tell the application
\* nothing, nor a failing send_or_warn of what it forwards.
NoneEndsUnexpectedly == IsActive => \A w \in Workers : main[w].pc # "done"

\* Quit is the last event of the connection, and there is one reason for it.
QuitIsLast == [][quit # "none" => events' = events /\ quit' = quit]_vars

\* "Sends a goodbye message to the server [...], then closes the connection": a
\* connection that disconnect closed has sent the goodbye, unless it was over
\* for another reason.
GoodbyeBeforeClose ==
  conn = "closed" /\ goodbye = "asked" => quit # "none"

\* "Automatically disconnects when dropped": the connection does not outlive its drop.
\* It does when the primary thread, out of its loop, sends Terminate to a worker
\* that has a message of its own to send to it.
DropDisconnects == app = "drop" ~> conn # "up"

\* Dropping the connection closes it unless the primary thread waits for a
\* worker for ever: these waits are all there is in its way.
DropDisconnectsOrDeadlock == app = "drop" ~> conn = "closed" \/ Deadlocked

\* An input returns to the application, unless the primary thread waits for a
\* worker for ever.
InputReturns == app = "input" ~> app # "input" \/ Deadlocked

=============================================================================
