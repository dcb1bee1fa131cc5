--------------------------- MODULE ServerSession ---------------------------
(***************************************************************************)
(* The life cycle of the server (aperturec-server/src/server.rs), driven   *)
(* by the main task of main.rs: it starts the backend, waits for an        *)
(* authenticated client, configures and runs its session, and returns to   *)
(* waiting until it is stopped or its program has exited.                  *)
(*                                                                         *)
(* The loop of an active session is one biased select!.  A branch is an    *)
(* action whose guard says that no earlier branch is ready: what makes one *)
(* ready later commutes with the action.                                   *)
(*                                                                         *)
(* Clients are numbered in the order of their logins.  What a ClientInit   *)
(* asks for, and with which status a program exited, is chosen where the   *)
(* server looks at it.                                                     *)
(***************************************************************************)
EXTENDS SessionTasks

CONSTANTS
  MaxLogins,   \* bound: authenticated clients
  MaxFaults    \* bound: faults of clients, programs and tasks

ASSUME ServerAssumption == MaxLogins \in Nat /\ MaxFaults \in Nat

VARIABLES
  phase,           \* the state of the Server, and its steps towards a session
  exit,            \* how the main task ended
  stopped,         \* the server's cancellation_token
  logins,          \* clients that session_stream has authenticated
  peeked,          \* the client held by the Peekable stream
  session,         \* the client of the session
  faults,          \* connections lost or left, programs exited, tasks failed
  ct,              \* the session's own cancellation token
  gb_reason,       \* the reason for the ServerGoodbye
  results,         \* the futures left in task_results
  backend_result,  \* the end of the backend task, once seen by the loop
  polled,          \* client_inactive_rx has completed
  panicked         \* client_inactive_rx was polled after it had completed

taskVars == <<task, ec_at, backend_at, to_send, inactive>>
progVars == <<root, program>>
lifeVars == <<phase, exit, stopped, logins, peeked, session>>
loopVars == <<ct, gb_reason, results, backend_result, polled, panicked>>
vars == <<conn, told, progVars, cleanup, taskVars, lifeVars, loopVars, faults>>

NoClient == 0
NoReason == "none"

Reasons == {"ShuttingDown", "ProcessExited", "InternalError", "InvalidConfiguration",
            "ProcessLaunchFailed", "ClientExecDisallowed", "OtherLogin", "InactiveTimeout"}

Phases == {"Created", "BackendInitialized", "SessionInactive", "Starting", "Configuring",
           "Spawning", "SessionActive", "SessionTerminated", "SessionUnresumable"}

TypeOK ==
  /\ conn \in {"open", "leaving", "lost"}
  /\ told \in Seq({"ServerInit"} \union Reasons)
  /\ root \in {"run", "exited"} /\ program \in {"none", "run", "exited"}
  /\ task \in [Tasks -> {"run", "ok", "err", "panic"}]
  /\ ec_at \in {"recv", "send"} /\ backend_at \in {"select", "event"}
  /\ to_send \in Seq(Reasons) /\ Len(to_send) <= 1
  /\ inactive \in {"pending", "sent", "dropped"}
  /\ phase \in Phases /\ exit \in {"none", "ok", "error"}
  /\ logins \in 0 .. MaxLogins /\ peeked \in 0 .. MaxLogins /\ session \in 0 .. MaxLogins
  /\ stopped \in BOOLEAN /\ cleanup \in BOOLEAN /\ ct \in BOOLEAN
  /\ polled \in BOOLEAN /\ panicked \in BOOLEAN
  /\ gb_reason \in Reasons \union {NoReason}
  /\ results \subseteq Futures /\ faults \in 0 .. MaxFaults
  /\ backend_result \in {"none", "ok", "err", "panic"}

NewTasks == [t \in Tasks |-> "run"]

Init ==
  /\ conn = "open" /\ told = <<>> /\ root = "run" /\ program = "none" /\ cleanup = FALSE
  /\ task = NewTasks /\ ec_at = "recv" /\ backend_at = "select"
  /\ to_send = <<>> /\ inactive = "pending"
  /\ phase = "Created" /\ exit = "none" /\ stopped = FALSE
  /\ logins = 0 /\ peeked = NoClient /\ session = NoClient
  /\ ct = FALSE /\ gb_reason = NoReason /\ results = {} /\ backend_result = "none"
  /\ polled = FALSE /\ panicked = FALSE /\ faults = 0

-----------------------------------------------------------------------------
(* Clients, programs and signals.                                          *)

Fault == faults < MaxFaults /\ faults' = faults + 1

\* The client says goodbye, or its connection breaks.
Leave(how) ==
  /\ phase \in {"Starting", "Configuring", "Spawning", "SessionActive"}
  /\ conn # how /\ conn # "lost" /\ Fault
  /\ conn' = how
  /\ UNCHANGED <<told, progVars, cleanup, taskVars, lifeVars, loopVars>>

ProgramExits ==
  /\ phase # "Created" /\ exit = "none" /\ Fault
  /\ \/ root = "run" /\ root' = "exited" /\ UNCHANGED program
     \/ program = "run" /\ program' = "exited" /\ UNCHANGED root
  /\ UNCHANGED <<conn, told, cleanup, taskVars, lifeVars, loopVars>>

\* SIGHUP, SIGTERM or SIGINT.
Stop ==
  /\ ~stopped /\ exit = "none"
  /\ stopped' = TRUE
  /\ UNCHANGED <<conn, told, progVars, cleanup, taskVars, phase, exit, logins, peeked, session, loopVars, faults>>

\* session_stream authenticates a client.  It advances only while it is polled:
\* by next in SessionInactive, by peek in SessionActive.
Login ==
  /\ phase = "SessionInactive" \/ (phase = "SessionActive" /\ ~cleanup)
  /\ peeked = NoClient /\ logins < MaxLogins
  /\ logins' = logins + 1 /\ peeked' = logins + 1
  /\ UNCHANGED <<conn, told, progVars, cleanup, taskVars, phase, exit, stopped, session, loopVars, faults>>

-----------------------------------------------------------------------------
(* The main task: its states up to SessionInactive and its end.            *)

\* An error is one of the process only if nobody asked it to stop.
Exit(error) ==
  /\ phase' = "SessionUnresumable"
  /\ exit' = IF error /\ ~stopped THEN "error" ELSE "ok"
  /\ program' = "none" /\ session' = NoClient

InitializeBackend ==
  /\ phase = "Created"
  /\ \/ Exit(TRUE)
     \/ phase' = "BackendInitialized" /\ UNCHANGED <<exit, program, session>>
  /\ UNCHANGED <<conn, told, root, cleanup, taskVars, stopped, logins, peeked, loopVars, faults>>

Listen ==
  /\ phase = "BackendInitialized"
  /\ \/ Exit(TRUE)
     \/ ~stopped /\ phase' = "SessionInactive" /\ UNCHANGED <<exit, program, session>>
  /\ UNCHANGED <<conn, told, root, cleanup, taskVars, stopped, logins, peeked, loopVars, faults>>

NextSession ==
  /\ phase = "SessionInactive" /\ peeked # NoClient
  /\ phase' = "Starting"
  /\ session' = peeked /\ peeked' = NoClient /\ conn' = "open" /\ told' = <<>>
  /\ UNCHANGED <<progVars, cleanup, taskVars, exit, stopped, logins, loopVars, faults>>

\* The root program exited or the server was stopped.
NoSession ==
  /\ phase = "SessionInactive" /\ (root = "exited" \/ stopped)
  /\ phase' = "SessionTerminated"
  /\ UNCHANGED <<conn, told, progVars, cleanup, taskVars, exit, stopped, logins, peeked, session, loopVars, faults>>

-----------------------------------------------------------------------------
(* From SessionInactive to SessionActive.                                  *)

\* Every failure drops the client's connection and program and leads to
\* SessionTerminated with the root backend.
Recover == phase' = "SessionTerminated" /\ program' = "none" /\ session' = NoClient

Refuse(reason) == Tell(reason) /\ Recover

\* ClientInit is invalid, or asks for the root program, or for another that is
\* launched if the server allows it: what it allows is chosen here too.
Starting ==
  /\ phase = "Starting"
  /\ \/ \E reason \in {"InvalidConfiguration", "ClientExecDisallowed", "ProcessLaunchFailed"} :
          Refuse(reason)
     \/ /\ phase' = "Configuring" /\ program' \in {program, "run"}
        /\ UNCHANGED <<told, session>>
  /\ UNCHANGED <<conn, root, cleanup, taskVars, exit, stopped, logins, peeked, loopVars, faults>>

\* The displays are set and partitioned, the lock state is set, and unless the
\* server was stopped meanwhile, ServerInit is sent and flushed.
Configuring ==
  /\ phase = "Configuring"
  /\ \/ Refuse("InternalError")
     \/ Recover /\ UNCHANGED told
     \/ stopped /\ Refuse("ShuttingDown")
     \/ /\ ~stopped /\ Reachable
        /\ Tell("ServerInit")
        /\ phase' = "Spawning" /\ UNCHANGED <<program, session>>
  /\ UNCHANGED <<conn, root, cleanup, taskVars, exit, stopped, logins, peeked, loopVars, faults>>

\* The tasks are made and started, unless an encoder or the backend's streams
\* cannot be made: then the session ends with the backend as it is.
Spawn ==
  /\ phase = "Spawning"
  /\ \/ phase' = "SessionActive" /\ results' = Futures
     \/ phase' = "SessionTerminated" /\ UNCHANGED results
  /\ UNCHANGED <<conn, told, progVars, cleanup, taskVars, exit, stopped, logins, peeked, session,
                 ct, gb_reason, backend_result, polled, panicked, faults>>

-----------------------------------------------------------------------------
(* The loop of the active session.                                         *)

Looping == phase = "SessionActive"

OrElse(reason) == IF gb_reason = NoReason THEN reason ELSE gb_reason

\* The branches after that of client_inactive_rx have polled it, unless the
\* clean-up has disabled it; it completes, with an error, when its sender is
\* dropped.
PollInactive ==
  /\ polled' = (polled \/ (~cleanup /\ inactive = "dropped"))
  /\ panicked' = (panicked \/ (~cleanup /\ polled))

loopUnchanged == <<conn, told, progVars, task, ec_at, backend_at, inactive, phase, exit, stopped,
                   logins, session, faults>>

\* The goodbye is queued before the tasks are cancelled: the queue is empty.
LoopCancelled ==
  /\ Looping /\ ct /\ ~cleanup
  /\ to_send' = IF gb_reason # NoReason /\ Runs("cc_tx") THEN Append(to_send, gb_reason) ELSE to_send
  /\ cleanup' = TRUE
  /\ UNCHANGED <<peeked, loopVars, loopUnchanged>>

\* Mutant: the branch forgets to cancel the session.
LoopStopped_NoCancel ==
  /\ Looping /\ ~cleanup /\ ~ct /\ stopped
  /\ gb_reason' = OrElse("ShuttingDown")
  /\ UNCHANGED <<ct, to_send, cleanup, results, backend_result, polled, panicked, peeked, loopUnchanged>>

LoopStopped ==
  /\ Looping /\ ~cleanup /\ ~ct /\ stopped
  /\ gb_reason' = OrElse("ShuttingDown") /\ ct' = TRUE
  /\ UNCHANGED <<to_send, cleanup, results, backend_result, polled, panicked, peeked, loopUnchanged>>

\* Mutant: the branch forgets to cancel the session.
LoopNewSession_NoCancel ==
  /\ Looping /\ ~cleanup /\ ~ct /\ ~stopped /\ peeked # NoClient
  /\ gb_reason' = OrElse("OtherLogin")
  /\ UNCHANGED <<ct, to_send, cleanup, results, backend_result, polled, panicked, peeked, loopUnchanged>>

LoopNewSession ==
  /\ Looping /\ ~cleanup /\ ~ct /\ ~stopped /\ peeked # NoClient
  /\ gb_reason' = OrElse("OtherLogin") /\ ct' = TRUE
  /\ UNCHANGED <<to_send, cleanup, results, backend_result, polled, panicked, peeked, loopUnchanged>>

LoopInactive ==
  /\ Looping /\ ~cleanup /\ ~ct /\ ~stopped /\ peeked = NoClient /\ inactive = "sent"
  /\ gb_reason' = OrElse("InactiveTimeout") /\ ct' = TRUE
  /\ UNCHANGED <<to_send, cleanup, results, backend_result, polled, panicked, peeked, loopUnchanged>>

\* No branch before task_results is ready.
NothingBefore == cleanup \/ (~ct /\ ~stopped /\ peeked = NoClient /\ inactive # "sent")

\* Mutant: the branch forgets to cancel the session.
LoopTask_NoCancel(f) ==
  /\ Looping /\ NothingBefore /\ f \in results /\ Outcome(f) # "run"
  /\ results' = results \ {f}
  /\ gb_reason' = IF ~cleanup /\ Outcome(f) = "err" THEN OrElse("InternalError") ELSE gb_reason
  /\ PollInactive
  /\ UNCHANGED <<ct, to_send, cleanup, backend_result, peeked, loopUnchanged>>

LoopTask(f) ==
  /\ Looping /\ NothingBefore /\ f \in results /\ Outcome(f) # "run"
  /\ results' = results \ {f}
  /\ gb_reason' = IF ~cleanup /\ Outcome(f) = "err" THEN OrElse("InternalError") ELSE gb_reason
  /\ ct' = TRUE
  /\ PollInactive
  /\ UNCHANGED <<to_send, cleanup, backend_result, peeked, loopUnchanged>>

\* The error of the backend task is the exit of its program if that has exited.
\* A reason set after the clean-up has started is never read, and left out.
LoopBackend ==
  /\ Looping /\ NothingBefore /\ \A f \in results : Outcome(f) = "run"
  /\ backend_result = "none" /\ ~Runs("backend")
  /\ backend_result' = task["backend"]
  /\ gb_reason' = IF ~cleanup /\ task["backend"] = "err"
                    THEN OrElse(IF Served = "exited" THEN "ProcessExited" ELSE "InternalError")
                    ELSE gb_reason
  /\ ct' = TRUE
  /\ PollInactive
  /\ UNCHANGED <<to_send, cleanup, results, peeked, loopUnchanged>>

\* All that belongs to the session is dropped, but the backend; that is None
\* after the panic of its task.
LoopEnds ==
  /\ Looping /\ cleanup /\ results = {} /\ backend_result # "none"
  /\ phase' = "SessionTerminated"
  /\ backend_result' = IF backend_result = "panic" THEN "panic" ELSE "none"
  /\ cleanup' = FALSE /\ ct' = FALSE /\ gb_reason' = NoReason /\ polled' = FALSE
  /\ task' = NewTasks /\ ec_at' = "recv" /\ backend_at' = "select"
  /\ to_send' = <<>> /\ inactive' = "pending" /\ conn' = "open" /\ told' = <<>>
  /\ UNCHANGED <<progVars, exit, stopped, logins, peeked, session, results, panicked, faults>>

-----------------------------------------------------------------------------
(* From SessionTerminated back to SessionInactive, or to the end.          *)

Unrecoverable == backend_result = "panic"

\* Mutant: the client's program is kept.
Resume_KeepsProgram ==
  /\ phase = "SessionTerminated" /\ ~stopped /\ ~Unrecoverable /\ Served = "run"
  /\ phase' = "SessionInactive" /\ session' = NoClient
  /\ UNCHANGED <<conn, told, progVars, cleanup, taskVars, exit, stopped, logins, peeked, loopVars, faults>>

Resume ==
  /\ phase = "SessionTerminated" /\ ~stopped /\ ~Unrecoverable /\ Served = "run"
  /\ phase' = "SessionInactive" /\ session' = NoClient /\ program' = "none"
  /\ UNCHANGED <<conn, told, root, cleanup, taskVars, exit, stopped, logins, peeked, loopVars, faults>>

\* Stopped; or the backend is gone; or its program exited, which is an error
\* unless it exited with success.
CannotResume ==
  /\ phase = "SessionTerminated"
  /\ \/ stopped /\ Exit(FALSE)
     \/ ~stopped /\ Unrecoverable /\ Exit(TRUE)
     \/ ~stopped /\ ~Unrecoverable /\ Served = "exited" /\ \E failed \in BOOLEAN : Exit(failed)
  /\ UNCHANGED <<conn, told, root, cleanup, taskVars, stopped, logins, peeked, loopVars, faults>>

-----------------------------------------------------------------------------
MainTask ==
  \/ InitializeBackend \/ Listen \/ NextSession \/ NoSession
  \/ Starting \/ Configuring \/ Spawn
  \/ LoopCancelled \/ LoopStopped \/ LoopNewSession \/ LoopInactive
  \/ \E f \in Futures : LoopTask(f)
  \/ LoopBackend \/ LoopEnds \/ Resume \/ CannotResume

SessionStep == Looping /\ UNCHANGED <<conn, progVars, cleanup, lifeVars, loopVars>>
SessionRuns == SessionStep /\ UNCHANGED faults

CcReceiver == SessionRuns /\ CcRx
CcSender == SessionRuns /\ (CcTxSend \/ CcTxStops)
EcForwards == SessionRuns /\ EcRxForward
EcStops == SessionRuns /\ EcRxStops
EcSender == SessionRuns /\ EcTx
BackendTask == SessionRuns /\ (BackendStops \/ BackendEventEnds)
WorkerTask(w) == SessionRuns /\ WorkerStops(w)

\* What the tasks meet: events, and a timer that runs out or a failure.
Events == SessionRuns /\ (EcRxReceive \/ BackendEvent)
TaskFails == SessionStep /\ Fault /\ (EcRxTimeout \/ BackendFails \/ \E w \in Workers : WorkerEnds(w))

Next ==
  \/ MainTask
  \/ CcReceiver \/ CcSender \/ EcForwards \/ EcStops \/ EcSender \/ BackendTask
  \/ \E w \in Workers : WorkerTask(w)
  \/ Events \/ TaskFails
  \/ \E how \in {"leaving", "lost"} : Leave(how)
  \/ ProgramExits \/ Stop \/ Login

Spec == Init /\ [][Next]_vars

\* The main task and the tasks it awaits take their next step when they can: an
\* await on the network, the X server or a program returns.  ec_rx finds no
\* event waiting again and again.
Fairness ==
  /\ WF_vars(MainTask)
  /\ WF_vars(CcReceiver) /\ WF_vars(CcSender)
  /\ WF_vars(EcForwards) /\ SF_vars(EcStops) /\ WF_vars(EcSender)
  /\ WF_vars(BackendTask)
  /\ \A w \in Workers : WF_vars(WorkerTask(w))

FairSpec == Spec /\ Fairness

-----------------------------------------------------------------------------
\* A client that is still there when its session ends has been told why: the
\* goodbye queued by the loop gets out before cc_tx obeys its cancellation.
FarewellTold ==
  [][Looping /\ phase' # phase /\ gb_reason # NoReason /\ conn = "open"
       => told = <<"ServerInit", gb_reason>>]_vars

\* client_inactive_rx is not polled after it has completed, which would panic:
\* whatever branch follows its completion cancels the session, and the biased
\* select! then disables it.
ReceiverPolledOnce == ~panicked

\* "a new instance of the specified program, which will be killed on client
\* disconnect" (aperturec-client/src/args.rs): it lives as long as the session
\* it was launched for.
ProgramEndsWithSession == session = NoClient => program = "none"

\* A server that is asked to stop ends, whatever its session is doing.
StopExits == stopped ~> exit # "none"

\* A client that logs in takes over from the session before it, unless the
\* server ends.
LoginServed == \A c \in 1 .. MaxLogins : peeked = c ~> (session = c \/ exit # "none")

=============================================================================
