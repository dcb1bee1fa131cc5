---------------------------- MODULE ServerProofs ----------------------------
(***************************************************************************)
(* The server.                                                             *)
(*                                                                         *)
(* Its life cycle, for any number of logins and faults and any choice of   *)
(* workers: a program ends with the session it was launched for, the       *)
(* inactivity receiver is never polled twice, and a client that is still   *)
(* there has been told why its session ended.                              *)
(*                                                                         *)
(* Its X backend, for any number of CRTCs, any requests and any refusals:  *)
(* the displays that are reported are those that are shown, a request that *)
(* fits is granted, no mode and no screen is left behind, and the keyboard *)
(* is handed over from one session to the next.                            *)
(***************************************************************************)
EXTENDS ServerSession, XBackend, SequenceTheorems, WellFoundedInduction, TLAPS

\* Outside the loop of an active session nothing is left of one.
AtRest ==
  ~Looping =>
    /\ ~cleanup /\ ~ct /\ ~polled
    /\ gb_reason = NoReason
    /\ task = NewTasks /\ to_send = << >>

\* Whatever has completed the inactivity receiver has cancelled the session.
Receiver == ~panicked /\ (polled => ct)

\* A session is started for a client that has logged in.
Launch == phase = "Starting" => session # NoClient

\* What the client has been told on the way to an active session.
Greeting ==
  /\ phase \in {"Starting", "Configuring"} => told = << >>
  /\ phase = "Spawning" => told = <<"ServerInit">>
  /\ Looping /\ ~cleanup => told = <<"ServerInit">>
  /\ ~cleanup => to_send = << >>

\* The control channel handler of a client that is still there ends without
\* an error, and not before the loop cancels it.
Handler ==
  /\ conn = "open" => task["cc_rx"] \in {"run", "ok"} /\ task["cc_tx"] \in {"run", "ok"}
  /\ conn = "open" /\ ~cleanup => Runs("cc_rx") /\ Runs("cc_tx")
  /\ Looping /\ "cc" \notin results => Outcome("cc") # "run"

\* The goodbye is queued for a running cc_tx, or it has been sent.
Queued == to_send = <<gb_reason>> /\ told = <<"ServerInit">> /\ Runs("cc_tx")
Sent == to_send = << >> /\ told = <<"ServerInit", gb_reason>>
Goodbye == cleanup /\ gb_reason # NoReason /\ conn = "open" => Queued \/ Sent

IInv ==
  TypeOK /\ AtRest /\ Receiver /\ Launch /\ ProgramEndsWithSession /\ Greeting /\ Handler /\ Goodbye

-----------------------------------------------------------------------------
(* Types.                                                                  *)

LEMMA TaskNames ==
  /\ {"cc_rx", "cc_tx", "ec_rx", "ec_tx", "backend"} \subseteq Tasks
  /\ Workers \subseteq Tasks
  /\ \A w \in Workers : w \notin {"cc_rx", "cc_tx", "ec_rx", "ec_tx", "backend", "cc", "ec"}
  BY TasksAssumption DEF Tasks

LEMMA OneElement ==
  ASSUME NEW S, NEW s \in Seq(S), s # << >>, Len(s) <= 1
  PROVE  \E m \in S : s = <<m>>
<1>1. Len(s) = 1 /\ s[1] \in S
  OBVIOUS
<1>2. s = <<s[1]>>
  BY <1>1
<1> QED BY <1>1, <1>2

LEMMA SameSeq ==
  ASSUME NEW S, NEW s \in Seq(S), NEW t \in Seq(S), Len(s) = Len(t),
         \A i \in 1 .. Len(s) : s[i] = t[i]
  PROVE  s = t
  OBVIOUS

LEMMA AppendToOne ==
  ASSUME NEW a, NEW b
  PROVE  Append(<<a>>, b) = <<a, b>>
<1> DEFINE S == {a, b}
<1>1. <<a>> \in Seq(S) /\ <<a, b>> \in Seq(S) /\ Append(<<a>>, b) \in Seq(S)
  OBVIOUS
<1>2. Len(Append(<<a>>, b)) = 2 /\ Len(<<a, b>>) = 2
  BY <1>1
<1>3. \A i \in 1 .. 2 : Append(<<a>>, b)[i] = <<a, b>>[i]
  BY <1>1
<1> QED BY <1>1, <1>2, <1>3, SameSeq


\* Every step of a task ends tasks that run, and changes nothing else that
\* the loop has a type for.
TaskStep ==
  /\ task' \in [Tasks -> {"run", "ok", "err", "panic"}]
  /\ \A t \in Tasks : ~Runs(t) => task'[t] = task[t]
  /\ ec_at' \in {"recv", "send"} /\ backend_at' \in {"select", "event"}
  /\ inactive' \in {"pending", "sent", "dropped"}

Handlers == {"cc_rx", "cc_tx"}

LEMMA TellType ==
  ASSUME TypeOK, NEW msg \in {"ServerInit"} \union Reasons, Tell(msg)
  PROVE  told' \in Seq({"ServerInit"} \union Reasons)
<1>1. told \in Seq({"ServerInit"} \union Reasons)
  BY DEF TypeOK
<1>2. Append(told, msg) \in Seq({"ServerInit"} \union Reasons)
  BY <1>1
<1> QED BY <1>1, <1>2 DEF Tell

LEMMA EndsType ==
  ASSUME TypeOK, NEW t \in Tasks, NEW how \in {"ok", "err", "panic"}, Runs(t), Ends(t, how)
  PROVE  /\ task' \in [Tasks -> {"run", "ok", "err", "panic"}]
         /\ task'[t] = how
         /\ \A u \in Tasks : u # t => task'[u] = task[u]
         /\ \A u \in Tasks : ~Runs(u) => task'[u] = task[u]
  BY DEF TypeOK, Ends, Runs

\* A step of the control channel's receiver.
LEMMA CcRxStep ==
  ASSUME TypeOK, CcRx
  PROVE  TaskStep
<1> USE TaskNames
<1>1. \E how \in {"ok", "err", "panic"} : Ends("cc_rx", how)
  BY DEF CcRx
<1> QED
  BY <1>1, EndsType DEF CcRx, TaskStep, TypeOK

LEMMA CcTxStep ==
  ASSUME TypeOK, CcTxSend \/ CcTxStops
  PROVE  TaskStep
<1> USE TaskNames
<1>1. UNCHANGED task \/ \E how \in {"ok", "err", "panic"} : Ends("cc_tx", how)
  BY DEF CcTxSend, CcTxStops
<1> QED
  BY <1>1, EndsType DEF CcTxSend, CcTxStops, TaskStep, TypeOK

\* A step of any other task leaves the control channel handler alone.
OtherTask ==
  /\ TaskStep
  /\ \A t \in Handlers : task'[t] = task[t]
  /\ UNCHANGED <<told, to_send>>

LEMMA EcStep ==
  ASSUME TypeOK, EcRxTimeout \/ EcRxReceive \/ EcRxForward \/ EcRxStops \/ EcTx
  PROVE  OtherTask
<1> USE TaskNames
<1>1. CASE EcRxTimeout \/ EcRxReceive
  BY <1>1 DEF EcRxTimeout, EcRxReceive, OtherTask, TaskStep, Handlers, TypeOK
<1>2. CASE EcRxForward \/ EcRxStops
  <2>1. \/ UNCHANGED <<task, inactive>> /\ Runs("ec_rx") /\ ec_at' = "recv"
        \/ UNCHANGED ec_at /\ Runs("ec_rx") /\ \E how \in {"ok", "err", "panic"} : EcRxEnds(how)
    BY <1>2 DEF EcRxForward, EcRxStops
  <2>2. UNCHANGED <<told, backend_at, to_send>>
    BY <1>2 DEF EcRxForward, EcRxStops
  <2>3. CASE UNCHANGED <<task, inactive>> /\ ec_at' = "recv"
    BY <2>2, <2>3 DEF OtherTask, TaskStep, Handlers, TypeOK
  <2>4. ASSUME NEW how \in {"ok", "err", "panic"}, EcRxEnds(how), Runs("ec_rx"), UNCHANGED ec_at
        PROVE  OtherTask
    <3>1. Ends("ec_rx", how)
      BY <2>4 DEF EcRxEnds
    <3>2. inactive' \in {"pending", "sent", "dropped"}
      BY <2>4 DEF EcRxEnds, TypeOK
    <3> QED
      BY <2>2, <2>4, <3>1, <3>2, EndsType DEF OtherTask, TaskStep, Handlers, TypeOK
  <2> QED BY <2>1, <2>3, <2>4
<1>3. CASE EcTx
  <2>1. \E how \in {"ok", "err", "panic"} : Ends("ec_tx", how)
    BY <1>3 DEF EcTx
  <2> QED
    BY <1>3, <2>1, EndsType DEF EcTx, OtherTask, TaskStep, Handlers, TypeOK
<1> QED BY <1>1, <1>2, <1>3

LEMMA BackendStep ==
  ASSUME TypeOK, BackendStops \/ BackendEvent \/ BackendEventEnds \/ BackendFails
  PROVE  OtherTask
<1> USE TaskNames
<1>1. CASE UNCHANGED task
  BY <1>1 DEF BackendStops, BackendEvent, BackendEventEnds, BackendFails, OtherTask, TaskStep, Handlers, TypeOK
<1>2. CASE \E how \in {"ok", "err", "panic"} : Ends("backend", how)
  <2>1. Runs("backend")
    BY DEF BackendStops, BackendEvent, BackendEventEnds, BackendFails, BackendSelects
  <2>2. UNCHANGED <<told, ec_at, to_send, inactive>> /\ backend_at' \in {"select", "event"}
    BY DEF BackendStops, BackendEvent, BackendEventEnds, BackendFails, TypeOK
  <2> QED
    BY <1>2, <2>1, <2>2, EndsType DEF OtherTask, TaskStep, Handlers, TypeOK
<1>3. UNCHANGED task \/ \E how \in {"ok", "err", "panic"} : Ends("backend", how)
  BY DEF BackendStops, BackendEvent, BackendEventEnds, BackendFails
<1> QED BY <1>1, <1>2, <1>3

LEMMA WorkerStep ==
  ASSUME TypeOK, NEW w \in Workers, WorkerEnds(w) \/ WorkerStops(w)
  PROVE  OtherTask
<1> USE TaskNames
<1>1. \E how \in {"ok", "err", "panic"} : Ends(w, how)
  BY DEF WorkerEnds, WorkerStops
<1>2. w \in Tasks /\ w \notin Handlers
  BY DEF Handlers
<1> QED
  BY <1>1, <1>2, EndsType DEF WorkerEnds, WorkerStops, OtherTask, TaskStep, Handlers, TypeOK

-----------------------------------------------------------------------------
(* The tasks of the session.                                               *)

\* What a step of a task leaves to be shown.
LEMMA SessionStepTypes ==
  ASSUME TypeOK, SessionStep, TaskStep, Fault \/ UNCHANGED faults,
         told' \in Seq({"ServerInit"} \union Reasons),
         to_send' \in Seq(Reasons) /\ Len(to_send') <= 1
  PROVE  TypeOK'
<1>1. faults' \in 0 .. MaxFaults
  BY ServerAssumption DEF TypeOK, Fault
<1> QED
  BY <1>1 DEF TypeOK, SessionStep, TaskStep, progVars, lifeVars, loopVars

LEMMA OutcomeLasts ==
  ASSUME TaskStep, Outcome("cc") # "run"
  PROVE  Outcome("cc")' # "run"
<1> USE TaskNames
<1>1. \A t \in Handlers : task[t] # "run" => task'[t] = task[t]
  BY DEF TaskStep, Handlers, Runs
<1> QED
  BY <1>1 DEF Outcome, Joined, Handlers

LEMMA SessionStepFrame ==
  ASSUME SessionStep
  PROVE  /\ Looping /\ Looping'
         /\ UNCHANGED <<conn, cleanup, phase, session, program, results, gb_reason, ct, polled, panicked>>
  BY DEF SessionStep, Looping, progVars, lifeVars, loopVars

LEMMA OtherTaskKeeps ==
  ASSUME IInv, SessionStep, OtherTask, Fault \/ UNCHANGED faults
  PROVE  IInv'
<1>1. TypeOK'
  BY SessionStepTypes DEF IInv, OtherTask, TypeOK
<1>2. /\ Looping /\ Looping'
      /\ UNCHANGED <<conn, cleanup, phase, session, program, results, gb_reason, ct, polled, panicked>>
  BY SessionStepFrame
<1>3. UNCHANGED <<told, to_send>> /\ task'["cc_rx"] = task["cc_rx"] /\ task'["cc_tx"] = task["cc_tx"]
  BY DEF OtherTask, Handlers
<1>4. AtRest' /\ Receiver' /\ Launch' /\ ProgramEndsWithSession' /\ Greeting'
  BY <1>2, <1>3 DEF IInv, AtRest, Receiver, Launch, ProgramEndsWithSession, Greeting
<1>5. Handler'
  BY <1>2, <1>3 DEF IInv, Handler, Runs, Outcome, Joined
<1>6. Goodbye'
  BY <1>2, <1>3 DEF IInv, Goodbye, Queued, Sent, Runs
<1> QED BY <1>1, <1>4, <1>5, <1>6 DEF IInv

LEMMA CcReceiverKeeps ==
  ASSUME IInv, CcReceiver
  PROVE  IInv'
<1> USE TaskNames
<1>1. SessionStep /\ CcRx /\ UNCHANGED faults /\ TaskStep
  BY CcRxStep DEF CcReceiver, SessionRuns, IInv
<1>2. /\ Looping /\ Looping'
      /\ UNCHANGED <<conn, cleanup, phase, session, program, results, gb_reason, ct, polled, panicked>>
  BY <1>1, SessionStepFrame
<1>3. UNCHANGED <<told, to_send>> /\ task'["cc_tx"] = task["cc_tx"]
  <2>1. UNCHANGED <<told, to_send>> /\ Runs("cc_rx")
    BY <1>1 DEF CcRx
  <2>2. \E how \in {"ok", "err", "panic"} : Ends("cc_rx", how)
    BY <1>1 DEF CcRx
  <2> QED BY <2>1, <2>2, EndsType DEF IInv
<1>4. TypeOK'
  BY <1>1, <1>3, SessionStepTypes DEF IInv, TypeOK
<1>5. AtRest' /\ Receiver' /\ Launch' /\ ProgramEndsWithSession' /\ Greeting'
  BY <1>2, <1>3 DEF IInv, AtRest, Receiver, Launch, ProgramEndsWithSession, Greeting
<1>6. conn = "open" => cleanup /\ task'["cc_rx"] = "ok"
  <2> SUFFICES ASSUME conn = "open" PROVE cleanup /\ task'["cc_rx"] = "ok"
    OBVIOUS
  <2>1. CcCancelled /\ Ends("cc_rx", "ok") /\ Runs("cc_rx")
    BY <1>1 DEF CcRx, Reachable
  <2>2. cleanup
    BY <2>1 DEF CcCancelled, IInv, Handler
  <2> QED BY <2>1, <2>2, EndsType DEF IInv
<1>7. Handler'
  <2>1. ("cc" \notin results => Outcome("cc") # "run")'
    BY <1>1, <1>2, OutcomeLasts DEF IInv, Handler
  <2> QED BY <1>2, <1>3, <1>6, <2>1 DEF IInv, Handler, Runs
<1>8. Goodbye'
  BY <1>2, <1>3 DEF IInv, Goodbye, Queued, Sent, Runs
<1> QED BY <1>4, <1>5, <1>7, <1>8 DEF IInv

LEMMA CcSenderKeeps ==
  ASSUME IInv, CcSender
  PROVE  IInv'
<1> USE TaskNames
<1>1. SessionStep /\ (CcTxSend \/ CcTxStops) /\ UNCHANGED faults /\ TaskStep
  BY CcTxStep DEF CcSender, SessionRuns, IInv
<1>2. /\ Looping /\ Looping'
      /\ UNCHANGED <<conn, cleanup, phase, session, program, results, gb_reason, ct, polled, panicked>>
  BY <1>1, SessionStepFrame
<1>3. Runs("cc_tx")
  BY <1>1 DEF CcTxSend, CcTxStops
<1>4. TypeOK /\ to_send \in Seq(Reasons) /\ Len(to_send) <= 1
  BY DEF IInv, TypeOK
<1>a. ("cc" \notin results => Outcome("cc") # "run")'
  BY <1>1, <1>2, OutcomeLasts DEF IInv, Handler
<1>5. CASE CcTxSend
  <2>1. to_send # << >> /\ Tell(Head(to_send)) /\ to_send' = Tail(to_send)
    BY <1>5 DEF CcTxSend
  <2>2. PICK m \in Reasons : to_send = <<m>>
    BY <1>4, <2>1, OneElement
  <2>3. to_send' = << >> /\ Head(to_send) = m
    BY <2>1, <2>2
  <2>4. told' \in Seq({"ServerInit"} \union Reasons)
    BY <1>4, <2>1, <2>3, TellType
  <2>5. TypeOK'
    BY <1>1, <1>4, <2>3, <2>4, SessionStepTypes
  <2>6. cleanup
    BY <2>1 DEF IInv, Greeting
  <2>7. AtRest' /\ Receiver' /\ Launch' /\ ProgramEndsWithSession' /\ Greeting'
    BY <1>2, <2>3, <2>6 DEF IInv, AtRest, Receiver, Launch, ProgramEndsWithSession, Greeting, Looping
  <2>8. task'["cc_rx"] = task["cc_rx"] /\ (conn = "open" => UNCHANGED task)
    <3>1. CASE Reachable
      BY <1>5, <3>1 DEF CcTxSend
    <3>2. CASE ~Reachable
      BY <1>3, <1>4, <1>5, <3>2, EndsType DEF CcTxSend, Reachable
    <3> QED BY <3>1, <3>2
  <2>9. Handler'
    BY <1>2, <1>a, <2>6, <2>8 DEF IInv, Handler, Runs
  <2>10. ASSUME gb_reason # NoReason, conn = "open"
         PROVE  told' = <<"ServerInit", gb_reason>>
    <3>1. Queued
      BY <2>1, <2>6, <2>10 DEF IInv, Goodbye, Sent
    <3>2. told' = Append(told, Head(to_send))
      BY <2>1, <2>10 DEF Tell, Reachable
    <3>3. told = <<"ServerInit">> /\ Head(to_send) = gb_reason
      BY <3>1 DEF Queued
    <3> QED BY <3>2, <3>3, AppendToOne
  <2>11. Goodbye'
    BY <1>2, <2>3, <2>10 DEF Goodbye, Sent
  <2> QED BY <2>5, <2>7, <2>9, <2>11 DEF IInv
<1>6. CASE CcTxStops
  <2>1. UNCHANGED <<told, to_send>> /\ to_send = << >> /\ CcCancelled /\ Ends("cc_tx", "ok")
    BY <1>6 DEF CcTxStops
  <2>2. TypeOK'
    BY <1>1, <1>4, <2>1, SessionStepTypes DEF TypeOK
  <2>3. AtRest' /\ Receiver' /\ Launch' /\ ProgramEndsWithSession' /\ Greeting'
    BY <1>2, <2>1 DEF IInv, AtRest, Receiver, Launch, ProgramEndsWithSession, Greeting, Looping
  <2>4. task'["cc_rx"] = task["cc_rx"] /\ task'["cc_tx"] = "ok"
    BY <1>3, <1>4, <2>1, EndsType
  <2>5. conn = "open" => cleanup
    BY <2>1 DEF CcCancelled, IInv, Handler
  <2>6. Handler'
    BY <1>2, <1>a, <2>4, <2>5 DEF IInv, Handler, Runs
  <2>7. ASSUME cleanup, gb_reason # NoReason, conn = "open"
        PROVE  Sent
    <3>1. ~Queued
      BY <2>1 DEF Queued
    <3> QED BY <2>7, <3>1 DEF IInv, Goodbye
  <2>8. Goodbye'
    BY <1>2, <2>1, <2>7 DEF Goodbye, Sent
  <2> QED BY <2>2, <2>3, <2>6, <2>8 DEF IInv
<1> QED BY <1>1, <1>5, <1>6

LEMMA TasksKeep ==
  ASSUME IInv,
         \/ CcReceiver \/ CcSender \/ EcForwards \/ EcStops \/ EcSender \/ BackendTask
         \/ \E w \in Workers : WorkerTask(w)
         \/ Events \/ TaskFails
  PROVE  IInv'
<1>1. TypeOK
  BY DEF IInv
<1>2. CASE EcForwards \/ EcStops \/ EcSender
  BY <1>1, <1>2, EcStep, OtherTaskKeeps DEF EcForwards, EcStops, EcSender, SessionRuns
<1>3. CASE BackendTask
  BY <1>1, <1>3, BackendStep, OtherTaskKeeps DEF BackendTask, SessionRuns
<1>4. CASE \E w \in Workers : WorkerTask(w)
  BY <1>1, <1>4, WorkerStep, OtherTaskKeeps DEF WorkerTask, SessionRuns
<1>5. CASE Events
  BY <1>1, <1>5, EcStep, BackendStep, OtherTaskKeeps DEF Events, SessionRuns
<1>6. CASE TaskFails
  BY <1>1, <1>6, EcStep, BackendStep, WorkerStep, OtherTaskKeeps DEF TaskFails
<1> QED BY <1>2, <1>3, <1>4, <1>5, <1>6, CcReceiverKeeps, CcSenderKeeps
-----------------------------------------------------------------------------
(* Clients, programs and signals.                                          *)

LEMMA EnvironmentKeeps ==
  ASSUME IInv, \/ \E how \in {"leaving", "lost"} : Leave(how)
               \/ ProgramExits \/ Stop \/ Login
  PROVE  IInv'
<1> USE ServerAssumption
<1>1. ASSUME NEW how \in {"leaving", "lost"}, Leave(how)
      PROVE  IInv'
  <2>1. conn' = how /\ conn' # "open" /\ Fault
    BY <1>1 DEF Leave
  <2>2. UNCHANGED <<told, progVars, cleanup, taskVars, lifeVars, loopVars>>
    BY <1>1 DEF Leave
  <2>3. TypeOK'
    BY <2>1, <2>2 DEF IInv, TypeOK, Fault, progVars, taskVars, lifeVars, loopVars
  <2>4. AtRest' /\ Receiver' /\ Launch' /\ ProgramEndsWithSession' /\ Greeting'
    BY <2>2 DEF IInv, AtRest, Receiver, Launch, ProgramEndsWithSession, Greeting, Looping,
                progVars, taskVars, lifeVars, loopVars
  <2>5. Handler' /\ Goodbye'
    BY <2>1, <2>2 DEF IInv, Handler, Goodbye, Looping, Outcome, Joined, taskVars, lifeVars, loopVars
  <2> QED BY <2>3, <2>4, <2>5 DEF IInv
<1>2. CASE ProgramExits
  <2>1. /\ Fault /\ root' \in {root, "exited"}
        /\ UNCHANGED program \/ (program = "run" /\ program' = "exited")
    BY <1>2 DEF ProgramExits
  <2>2. UNCHANGED <<conn, told, cleanup, taskVars, lifeVars, loopVars>>
    BY <1>2 DEF ProgramExits
  <2>3. TypeOK'
    BY <2>1, <2>2 DEF IInv, TypeOK, Fault, taskVars, lifeVars, loopVars
  <2>4. AtRest' /\ Receiver' /\ Launch' /\ ProgramEndsWithSession' /\ Greeting'
    BY <2>1, <2>2 DEF IInv, AtRest, Receiver, Launch, ProgramEndsWithSession, Greeting, Looping,
                      taskVars, lifeVars, loopVars
  <2>5. Handler' /\ Goodbye'
    BY <2>2 DEF IInv, Handler, Goodbye, Queued, Sent, Runs, Looping, Outcome, Joined,
                taskVars, lifeVars, loopVars
  <2> QED BY <2>3, <2>4, <2>5 DEF IInv
<1>3. CASE Stop \/ Login
  <2>1. UNCHANGED <<conn, told, progVars, cleanup, taskVars, phase, exit, session, loopVars, faults>>
    BY <1>3 DEF Stop, Login
  <2>2. stopped' \in BOOLEAN
    BY <1>3, Zenon DEF Stop, Login, IInv, TypeOK
  <2>a. logins' \in 0 .. MaxLogins /\ peeked' \in 0 .. MaxLogins
    BY <1>3 DEF Stop, Login, IInv, TypeOK
  <2>3. TypeOK'
    BY <2>1, <2>2, <2>a DEF IInv, TypeOK, progVars, taskVars, loopVars
  <2>4. AtRest' /\ Receiver' /\ Launch' /\ ProgramEndsWithSession' /\ Greeting'
    BY <2>1 DEF IInv, AtRest, Receiver, Launch, ProgramEndsWithSession, Greeting, Looping,
                progVars, taskVars, loopVars
  <2>5. Handler' /\ Goodbye'
    BY <2>1 DEF IInv, Handler, Goodbye, Queued, Sent, Runs, Looping, Outcome, Joined, taskVars, loopVars
  <2> QED BY <2>3, <2>4, <2>5 DEF IInv
<1> QED BY <1>1, <1>2, <1>3

-----------------------------------------------------------------------------
(* The main task outside the loop.                                         *)

\* What a step of the main task between two phases without a loop keeps.
Between == /\ ~Looping
           /\ UNCHANGED <<cleanup, taskVars, ct, gb_reason, polled, panicked, backend_result, faults>>

LEMMA BetweenKeeps ==
  ASSUME IInv, Between, TypeOK', ProgramEndsWithSession', Greeting', Launch'
  PROVE  ("cc" \in results' \/ ~Looping') => IInv'
<1> SUFFICES ASSUME "cc" \in results' \/ ~Looping' PROVE IInv'
  OBVIOUS
<1>1. task["cc_rx"] = "run" /\ task["cc_tx"] = "run" /\ ~cleanup /\ ~polled /\ ~ct
  BY TaskNames DEF IInv, Between, AtRest, NewTasks
<1>2. AtRest' /\ Receiver'
  BY DEF IInv, Between, AtRest, Receiver, NewTasks, taskVars
<1>3. Handler'
  BY <1>1 DEF Between, Handler, Runs, taskVars
<1>4. Goodbye'
  BY <1>1 DEF Between, Goodbye
<1> QED BY <1>2, <1>3, <1>4 DEF IInv

LEMMA MainTaskBetweenKeeps ==
  ASSUME IInv, \/ InitializeBackend \/ Listen \/ NextSession \/ NoSession
               \/ Starting \/ Configuring \/ Spawn \/ Resume \/ CannotResume
  PROVE  IInv'
<1> USE ServerAssumption
<1>1. TypeOK /\ (Looping \/ to_send = << >>) /\ told \in Seq({"ServerInit"} \union Reasons)
  BY DEF IInv, AtRest, TypeOK
<1>2. CASE InitializeBackend \/ Listen \/ CannotResume
  <2>1. Between
    BY <1>2 DEF InitializeBackend, Listen, CannotResume, Between, Looping, taskVars, loopVars
  <2>2. \/ (\E error \in BOOLEAN : Exit(error))
        \/ phase' \in {"BackendInitialized", "SessionInactive"} /\ UNCHANGED <<exit, program, session>>
    BY <1>2 DEF InitializeBackend, Listen, CannotResume
  <2>3. /\ phase' \in {"BackendInitialized", "SessionInactive", "SessionUnresumable"}
        /\ exit' \in {"none", "ok", "error"}
        /\ UNCHANGED <<program, session>> \/ (program' = "none" /\ session' = NoClient)
    BY <1>1, <2>2 DEF Exit, TypeOK
  <2>4. UNCHANGED <<conn, told, root, cleanup, taskVars, stopped, logins, peeked, loopVars, faults>>
    BY <1>2 DEF InitializeBackend, Listen, CannotResume
  <2>5. TypeOK'
    BY <1>1, <2>3, <2>4 DEF TypeOK, Phases, NoClient, taskVars, loopVars
  <2>6. ProgramEndsWithSession' /\ Launch' /\ ~Looping'
    BY <2>3 DEF IInv, ProgramEndsWithSession, Launch, Looping
  <2>7. Greeting'
    BY <2>3, <2>4 DEF IInv, Greeting, Looping, taskVars
  <2> QED BY <2>1, <2>5, <2>6, <2>7, BetweenKeeps
<1>3. CASE NextSession
  <2>1. Between /\ phase' = "Starting" /\ session' # NoClient /\ session' = peeked /\ told' = << >>
    BY <1>3 DEF NextSession, Between, Looping, taskVars, loopVars
  <2>2. TypeOK'
    BY <1>1, <1>3 DEF NextSession, TypeOK, Phases, NoClient, progVars, taskVars, loopVars
  <2>3. ProgramEndsWithSession' /\ Launch' /\ ~Looping' /\ Greeting'
    BY <1>1, <2>1 DEF ProgramEndsWithSession, Launch, Looping, Greeting, Between, taskVars
  <2> QED BY <2>1, <2>2, <2>3, BetweenKeeps
<1>4. CASE NoSession
  <2>1. Between /\ phase' = "SessionTerminated" /\ UNCHANGED <<program, session>>
    BY <1>4 DEF NoSession, Between, Looping, taskVars, loopVars, progVars
  <2>2. TypeOK'
    BY <1>1, <1>4 DEF NoSession, TypeOK, Phases, progVars, taskVars, loopVars
  <2>3. ProgramEndsWithSession' /\ Launch' /\ ~Looping' /\ Greeting'
    BY <1>1, <2>1 DEF IInv, ProgramEndsWithSession, Launch, Looping, Greeting, Between, taskVars
  <2> QED BY <2>1, <2>2, <2>3, BetweenKeeps
<1>5. CASE Starting
  <2>1. Between /\ phase = "Starting" /\ session # NoClient /\ told = << >>
    BY <1>5 DEF Starting, Between, Looping, taskVars, loopVars, IInv, Launch, Greeting
  <2>2. \/ Recover /\ told' \in Seq({"ServerInit"} \union Reasons)
        \/ phase' = "Configuring" /\ program' \in {program, "run"} /\ UNCHANGED <<told, session>>
    BY <1>1, <1>5, TellType DEF Starting, Refuse, Reasons
  <2>3. TypeOK'
    <3>1. UNCHANGED <<conn, root, cleanup, taskVars, exit, stopped, logins, peeked, loopVars, faults>>
      BY <1>5 DEF Starting
    <3>2. /\ phase' \in Phases /\ program' \in {"none", "run", "exited"} /\ session' \in 0 .. MaxLogins
          /\ told' \in Seq({"ServerInit"} \union Reasons)
      BY <1>1, <2>2 DEF Recover, TypeOK, Phases, NoClient
    <3> QED BY <1>1, <3>1, <3>2 DEF TypeOK, taskVars, loopVars
  <2>4. ProgramEndsWithSession' /\ Launch' /\ ~Looping' /\ Greeting'
    BY <1>1, <2>1, <2>2 DEF Recover, ProgramEndsWithSession, Launch, Looping, Greeting, Between, taskVars
  <2> QED BY <2>1, <2>3, <2>4, BetweenKeeps
<1>6. CASE Configuring
  <2>1. Between /\ told = << >>
    BY <1>6 DEF Configuring, Between, Looping, taskVars, loopVars, IInv, Greeting
  <2>2. \/ Recover /\ told' \in Seq({"ServerInit"} \union Reasons)
        \/ phase' = "Spawning" /\ told' = <<"ServerInit">> /\ UNCHANGED <<program, session>>
    <3>1. CASE \E reason \in Reasons : Refuse(reason)
      BY <1>1, <3>1, TellType DEF Refuse
    <3>2. CASE Recover /\ UNCHANGED told
      BY <1>1, <3>2
    <3>3. CASE /\ Reachable /\ Tell("ServerInit")
               /\ phase' = "Spawning" /\ UNCHANGED <<program, session>>
      BY <2>1, <3>3 DEF Tell
    <3> QED BY <1>6, <3>1, <3>2, <3>3 DEF Configuring, Reasons
  <2>3. TypeOK'
    <3>1. UNCHANGED <<conn, root, cleanup, taskVars, exit, stopped, logins, peeked, loopVars, faults>>
      BY <1>6 DEF Configuring
    <3>2. <<"ServerInit">> \in Seq({"ServerInit"} \union Reasons)
      OBVIOUS
    <3>3. phase' \in Phases /\ program' \in {"none", "run", "exited"} /\ session' \in 0 .. MaxLogins
      BY <1>1, <2>2 DEF Recover, TypeOK, Phases, NoClient
    <3>4. told' \in Seq({"ServerInit"} \union Reasons)
      BY <2>2, <3>2, Zenon
    <3> QED BY <1>1, <3>1, <3>3, <3>4 DEF TypeOK, taskVars, loopVars
  <2>4. ProgramEndsWithSession' /\ Launch' /\ ~Looping' /\ Greeting'
    BY <1>1, <2>1, <2>2 DEF IInv, Recover, ProgramEndsWithSession, Launch, Looping, Greeting, Between, taskVars
  <2> QED BY <2>1, <2>3, <2>4, BetweenKeeps
<1>7. CASE Spawn
  <2>1. Between /\ UNCHANGED <<program, session, told>> /\ told = <<"ServerInit">>
    BY <1>7 DEF Spawn, Between, Looping, taskVars, progVars, IInv, Greeting
  <2>2. \/ phase' = "SessionActive" /\ results' = Futures
        \/ phase' = "SessionTerminated" /\ UNCHANGED results
    BY <1>7 DEF Spawn
  <2>3. TypeOK'
    BY <1>1, <1>7, <2>2 DEF Spawn, TypeOK, Phases, progVars, taskVars
  <2>4. ProgramEndsWithSession' /\ Launch' /\ Greeting'
    BY <1>1, <2>1, <2>2 DEF IInv, ProgramEndsWithSession, Launch, Looping, Greeting, Between, taskVars
  <2>5. "cc" \in results' \/ ~Looping'
    BY <2>2 DEF Futures, Looping
  <2> QED BY <2>1, <2>3, <2>4, <2>5, BetweenKeeps
<1>8. CASE Resume
  <2>1. Between /\ phase' = "SessionInactive" /\ session' = NoClient /\ program' = "none"
    BY <1>8 DEF Resume, Between, Looping, taskVars, loopVars
  <2>2. TypeOK'
    BY <1>1, <1>8 DEF Resume, TypeOK, Phases, NoClient, taskVars, loopVars
  <2>3. ProgramEndsWithSession' /\ Launch' /\ ~Looping' /\ Greeting'
    BY <1>1, <2>1 DEF ProgramEndsWithSession, Launch, Looping, Greeting, Between, taskVars
  <2> QED BY <2>1, <2>2, <2>3, BetweenKeeps
<1> QED BY <1>2, <1>3, <1>4, <1>5, <1>6, <1>7, <1>8
-----------------------------------------------------------------------------
(* The loop of the active session.                                         *)

\* A branch of the loop changes nothing of the client, the tasks and the
\* phase.
LEMMA LoopFrame ==
  ASSUME Looping, UNCHANGED loopUnchanged
  PROVE  /\ Looping'
         /\ UNCHANGED <<conn, told, root, program, task, ec_at, backend_at, inactive, phase, exit,
                        stopped, logins, session, faults>>
  BY DEF Looping, loopUnchanged, progVars

LEMMA LoopCancelledKeeps ==
  ASSUME IInv, LoopCancelled
  PROVE  IInv'
<1>1. Looping /\ Looping' /\ ct /\ ~cleanup /\ cleanup' /\ UNCHANGED <<peeked, loopVars>>
  BY LoopFrame DEF LoopCancelled
<1>2. UNCHANGED <<conn, told, root, program, task, ec_at, backend_at, inactive, phase, exit,
                  stopped, logins, session, faults>>
  BY LoopFrame DEF LoopCancelled
<1>3. to_send = << >> /\ told = <<"ServerInit">>
  BY <1>1 DEF IInv, Greeting
<1>4. /\ gb_reason # NoReason /\ Runs("cc_tx") => to_send' = <<gb_reason>>
      /\ ~(gb_reason # NoReason /\ Runs("cc_tx")) => to_send' = << >>
  BY <1>3 DEF LoopCancelled
<1>5. TypeOK'
  <2>1. gb_reason # NoReason => <<gb_reason>> \in Seq(Reasons) /\ Len(<<gb_reason>>) = 1
    BY DEF IInv, TypeOK
  <2>2. << >> \in Seq(Reasons) /\ Len(<< >>) = 0
    OBVIOUS
  <2>3. to_send' \in Seq(Reasons) /\ Len(to_send') <= 1
    <3>1. CASE gb_reason # NoReason /\ Runs("cc_tx")
      <4>1. to_send' \in Seq(Reasons) /\ Len(to_send') = 1
        BY <1>4, <2>1, <3>1, Zenon
      <4> QED BY <4>1
    <3>2. CASE ~(gb_reason # NoReason /\ Runs("cc_tx"))
      BY <1>4, <2>2, <3>2
    <3> QED BY <3>1, <3>2
  <2>4. cleanup' \in BOOLEAN
    BY DEF LoopCancelled
  <2> QED BY <1>1, <1>2, <2>3, <2>4 DEF IInv, TypeOK, loopVars
<1>6. AtRest' /\ Receiver' /\ Launch' /\ ProgramEndsWithSession' /\ Greeting'
  BY <1>1, <1>2 DEF IInv, AtRest, Receiver, Launch, ProgramEndsWithSession, Greeting, Looping, loopVars
<1>7. Handler'
  BY <1>1, <1>2 DEF IInv, Handler, Runs, Outcome, Joined, loopVars
<1>8. Goodbye'
  <2> SUFFICES ASSUME gb_reason # NoReason, conn = "open"
               PROVE  Queued'
    BY <1>1, <1>2 DEF Goodbye, loopVars
  <2>1. Runs("cc_tx")
    BY <1>1 DEF IInv, Handler
  <2> QED BY <1>1, <1>2, <1>3, <1>4, <2>1 DEF Queued, Runs, loopVars
<1> QED BY <1>5, <1>6, <1>7, <1>8 DEF IInv

\* A branch that cancels the session for a reason of its own.
LEMMA LoopCancelsKeeps ==
  ASSUME IInv, LoopStopped \/ LoopNewSession \/ LoopInactive
  PROVE  IInv'
<1>1. Looping /\ Looping' /\ ~cleanup /\ ct'
  BY LoopFrame DEF LoopStopped, LoopNewSession, LoopInactive
<1>2. UNCHANGED <<conn, told, root, program, task, ec_at, backend_at, inactive, phase, exit,
                  stopped, logins, session, faults>>
  BY LoopFrame DEF LoopStopped, LoopNewSession, LoopInactive
<1>3. UNCHANGED <<to_send, cleanup, results, backend_result, polled, panicked, peeked>>
  BY DEF LoopStopped, LoopNewSession, LoopInactive
<1>4. gb_reason' \in Reasons /\ ct' \in BOOLEAN
  BY DEF LoopStopped, LoopNewSession, LoopInactive, OrElse, Reasons, IInv, TypeOK
<1>5. TypeOK'
  BY <1>2, <1>3, <1>4 DEF IInv, TypeOK
<1>6. AtRest' /\ Receiver' /\ Launch' /\ ProgramEndsWithSession' /\ Greeting'
  BY <1>1, <1>2, <1>3 DEF IInv, AtRest, Receiver, Launch, ProgramEndsWithSession, Greeting, Looping
<1>7. Handler' /\ Goodbye'
  BY <1>1, <1>2, <1>3 DEF IInv, Handler, Goodbye, Runs, Outcome, Joined
<1> QED BY <1>5, <1>6, <1>7 DEF IInv

\* The branches that come after the inactivity receiver in the biased select!:
\* they poll it only before the session is cancelled, so before it completes.
LEMMA PolledOnce ==
  ASSUME IInv, Looping, NothingBefore, PollInactive, ct'
  PROVE  Receiver' /\ polled' \in BOOLEAN /\ panicked' \in BOOLEAN
<1>1. ~panicked /\ (cleanup \/ ~polled)
  BY Zenon DEF IInv, Receiver, NothingBefore
<1>2. ~panicked'
  BY <1>1, Zenon DEF PollInactive
<1> QED BY <1>2, Zenon DEF Receiver, PollInactive, IInv, TypeOK

LEMMA LoopResultKeeps ==
  ASSUME IInv, LoopBackend \/ \E f \in Futures : LoopTask(f)
  PROVE  IInv'
<1>1. Looping /\ Looping' /\ NothingBefore /\ PollInactive /\ ct' /\ ct' \in BOOLEAN
  BY LoopFrame DEF LoopBackend, LoopTask
<1>2. UNCHANGED <<conn, told, root, program, task, ec_at, backend_at, inactive, phase, exit,
                  stopped, logins, session, faults>>
  BY LoopFrame DEF LoopBackend, LoopTask
<1>3. UNCHANGED <<to_send, cleanup, peeked>>
  BY DEF LoopBackend, LoopTask
<1>4. gb_reason' \in Reasons \union {NoReason} /\ (cleanup => gb_reason' = gb_reason)
  BY DEF LoopBackend, LoopTask, OrElse, Reasons, IInv, TypeOK
<1>5. backend_result' \in {"none", "ok", "err", "panic"}
  BY TaskNames DEF LoopBackend, LoopTask, Runs, IInv, TypeOK
<1>6. results' \subseteq Futures /\ ("cc" \notin results' => "cc" \notin results \/ Outcome("cc") # "run")
  BY DEF LoopBackend, LoopTask, IInv, TypeOK
<1>7. Receiver' /\ polled' \in BOOLEAN /\ panicked' \in BOOLEAN
  BY <1>1, PolledOnce
<1>8. TypeOK'
  BY <1>1, <1>2, <1>3, <1>4, <1>5, <1>6, <1>7 DEF IInv, TypeOK
<1>9. AtRest' /\ Launch' /\ ProgramEndsWithSession' /\ Greeting'
  BY <1>1, <1>2, <1>3 DEF IInv, AtRest, Launch, ProgramEndsWithSession, Greeting, Looping
<1>10. Handler'
  BY <1>1, <1>2, <1>3, <1>6 DEF IInv, Handler, Runs, Outcome, Joined
<1>11. Goodbye'
  BY <1>2, <1>3, <1>4 DEF IInv, Goodbye, Queued, Sent, Runs
<1> QED BY <1>7, <1>8, <1>9, <1>10, <1>11 DEF IInv

LEMMA LoopEndsKeeps ==
  ASSUME IInv, LoopEnds
  PROVE  IInv'
<1>1. /\ phase' = "SessionTerminated" /\ ~Looping'
      /\ ~cleanup' /\ ~ct' /\ ~polled' /\ gb_reason' = NoReason
      /\ task' = NewTasks /\ to_send' = << >>
  BY DEF LoopEnds, Looping
<1>2. UNCHANGED <<program, session, panicked>>
  BY DEF LoopEnds, progVars
<1>3. TypeOK'
  <2>1. NewTasks \in [Tasks -> {"run", "ok", "err", "panic"}]
    BY DEF NewTasks
  <2>2. << >> \in Seq(Reasons) /\ Len(<< >>) = 0 /\ << >> \in Seq({"ServerInit"} \union Reasons)
    OBVIOUS
  <2>3. /\ to_send' \in Seq(Reasons) /\ Len(to_send') <= 1
        /\ told' \in Seq({"ServerInit"} \union Reasons)
    BY <2>2 DEF LoopEnds
  <2>4. task' \in [Tasks -> {"run", "ok", "err", "panic"}]
    BY <1>1, <2>1
  <2>5. /\ cleanup' \in BOOLEAN /\ ct' \in BOOLEAN /\ polled' \in BOOLEAN
        /\ panicked' \in BOOLEAN /\ stopped' \in BOOLEAN
    BY Zenon DEF LoopEnds, IInv, TypeOK
  <2> QED BY <2>3, <2>4, <2>5 DEF LoopEnds, IInv, TypeOK, Phases, progVars
<1>4. AtRest' /\ Receiver' /\ Launch' /\ ProgramEndsWithSession' /\ Greeting'
  BY <1>1, <1>2 DEF IInv, AtRest, Receiver, Launch, ProgramEndsWithSession, Greeting, NewTasks
<1>5. Handler' /\ Goodbye'
  BY <1>1, TaskNames DEF Handler, Goodbye, Runs, NewTasks
<1> QED BY <1>3, <1>4, <1>5 DEF IInv

-----------------------------------------------------------------------------
(* The invariant and what follows from it.                                 *)

LEMMA InitEstablishes ==
  ASSUME Init
  PROVE  IInv
<1>1. TypeOK
  <2>1. << >> \in Seq(Reasons) /\ Len(<< >>) = 0 /\ << >> \in Seq({"ServerInit"} \union Reasons)
    OBVIOUS
  <2>2. to_send \in Seq(Reasons) /\ Len(to_send) <= 1 /\ told \in Seq({"ServerInit"} \union Reasons)
    BY <2>1 DEF Init
  <2>3. task \in [Tasks -> {"run", "ok", "err", "panic"}]
    BY DEF Init, NewTasks
  <2>4. /\ stopped \in BOOLEAN /\ cleanup \in BOOLEAN /\ ct \in BOOLEAN
        /\ polled \in BOOLEAN /\ panicked \in BOOLEAN
    BY DEF Init
  <2> QED BY <2>2, <2>3, <2>4, ServerAssumption DEF Init, TypeOK, Phases, NoClient
<1>2. AtRest /\ Receiver /\ Launch /\ ProgramEndsWithSession /\ Greeting
  BY DEF Init, AtRest, Receiver, Launch, ProgramEndsWithSession, Greeting, Looping
<1>3. Handler /\ Goodbye
  BY TaskNames DEF Init, Handler, Goodbye, Runs, NewTasks, Looping
<1> QED BY <1>1, <1>2, <1>3 DEF IInv

LEMMA StutterKeeps ==
  ASSUME IInv, UNCHANGED vars
  PROVE  IInv'
<1> USE DEF vars, progVars, taskVars, lifeVars, loopVars
<1>1. TypeOK'
  BY DEF IInv, TypeOK
<1>2. AtRest' /\ Receiver' /\ Launch' /\ ProgramEndsWithSession' /\ Greeting'
  BY DEF IInv, AtRest, Receiver, Launch, ProgramEndsWithSession, Greeting, Looping, NewTasks
<1>3. Handler' /\ Goodbye'
  BY DEF IInv, Handler, Goodbye, Queued, Sent, Runs, Outcome, Joined, Looping
<1> QED BY <1>1, <1>2, <1>3 DEF IInv

LEMMA NextKeeps ==
  ASSUME IInv, [Next]_vars
  PROVE  IInv'
<1>1. CASE MainTask
  BY <1>1, MainTaskBetweenKeeps, LoopCancelledKeeps, LoopCancelsKeeps, LoopResultKeeps, LoopEndsKeeps
     DEF MainTask
<1>2. CASE Next /\ ~MainTask
  BY <1>2, TasksKeep, EnvironmentKeeps DEF Next
<1> QED BY <1>1, <1>2, StutterKeeps

\* Every variable of the server's life cycle keeps its type: to_send, the queue
\* of capacity 1 to cc_tx, is never found full by the loop's goodbye.
THEOREM ServerTypes == Spec => []TypeOK
<1>1. Spec => []IInv
  BY InitEstablishes, NextKeeps, PTL DEF Spec
<1>2. IInv => TypeOK
  BY DEF IInv
<1> QED BY <1>1, <1>2, PTL

\* The oneshot receiver of the inactivity timeout is never polled after it has
\* completed, which would panic the main task: every branch that follows its
\* completion in the biased select! cancels the session.
THEOREM InactivityPolledOnce == Spec => []ReceiverPolledOnce
<1>1. Spec => []IInv
  BY InitEstablishes, NextKeeps, PTL DEF Spec
<1>2. IInv => ReceiverPolledOnce
  BY DEF IInv, Receiver, ReceiverPolledOnce
<1> QED BY <1>1, <1>2, PTL

\* The program launched for a client is gone when its session is, on every path
\* back to SessionInactive and on every way out of the server.
THEOREM ProgramKilled == Spec => []ProgramEndsWithSession
<1>1. Spec => []IInv
  BY InitEstablishes, NextKeeps, PTL DEF Spec
<1>2. IInv => ProgramEndsWithSession
  BY DEF IInv
<1> QED BY <1>1, <1>2, PTL

\* Only LoopEnds leaves an active session, and only once the control channel
\* handler has returned.
LEMMA FarewellStep ==
  ASSUME IInv, [Next]_vars, Looping, phase' # phase, gb_reason # NoReason, conn = "open"
  PROVE  told = <<"ServerInit", gb_reason>>
<1>1. LoopEnds
  <2>1. phase = "SessionActive" /\ Next
    BY DEF Looping, vars, lifeVars
  <2>2. ~(\E w \in Workers : WorkerTask(w)) /\ ~CcReceiver /\ ~CcSender /\ ~EcForwards /\ ~EcStops
          /\ ~EcSender /\ ~BackendTask /\ ~Events /\ ~TaskFails
    BY DEF WorkerTask, CcReceiver, CcSender, EcForwards, EcStops, EcSender, BackendTask, Events,
           TaskFails, SessionRuns, SessionStep, lifeVars
  <2>3. ~(\E how \in {"leaving", "lost"} : Leave(how)) /\ ~ProgramExits /\ ~Stop /\ ~Login
    BY DEF Leave, ProgramExits, Stop, Login, lifeVars
  <2>4. MainTask
    BY <2>1, <2>2, <2>3 DEF Next
  <2>5. /\ ~InitializeBackend /\ ~Listen /\ ~NextSession /\ ~NoSession /\ ~Starting /\ ~Configuring
        /\ ~Spawn /\ ~Resume /\ ~CannotResume
    BY <2>1 DEF InitializeBackend, Listen, NextSession, NoSession, Starting, Configuring, Spawn,
                Resume, CannotResume
  <2>6. /\ ~LoopCancelled /\ ~LoopStopped /\ ~LoopNewSession /\ ~LoopInactive /\ ~LoopBackend
        /\ ~(\E f \in Futures : LoopTask(f))
    BY DEF LoopCancelled, LoopStopped, LoopNewSession, LoopInactive, LoopBackend, LoopTask,
           loopUnchanged
  <2> QED BY <2>4, <2>5, <2>6 DEF MainTask
<1>2. cleanup /\ Outcome("cc") # "run"
  BY <1>1 DEF LoopEnds, IInv, Handler
<1>3. ~Runs("cc_tx")
  BY <1>2 DEF IInv, Handler, Runs, Outcome, Joined
<1> QED BY <1>2, <1>3 DEF IInv, Goodbye, Queued, Sent

\* A client that is connected to the end of its session has received the
\* ServerInit and then the reason for the goodbye, and nothing else: cc_tx obeys
\* its cancellation only when its queue is empty, and the loop waits for it.
THEOREM GoodbyeReachesClient == Spec => FarewellTold
<1>1. Spec => []IInv
  BY InitEstablishes, NextKeeps, PTL DEF Spec
<1>2. IInv /\ [Next]_vars =>
        [Looping /\ phase' # phase /\ gb_reason # NoReason /\ conn = "open"
           => told = <<"ServerInit", gb_reason>>]_vars
  BY FarewellStep
<1> QED BY <1>1, <1>2, PTL DEF Spec, FarewellTold
-----------------------------------------------------------------------------
(* The X backend.                                                          *)

Steps ==
  {"none", "grab", "expand", "set", "mode", "add", "config", "delete", "destroy",
   "get", "trim", "return"}

\* The steps that set the display at hand.
Setting == {"set", "mode", "add", "config", "delete", "destroy", "get"}

Call ==
  [at : Steps, by : {"none", "initialize", "session", "event"}, req : Seq(Display), id : Nat,
   old : Display, final : Seq(Display), of : Seq(Nat), errors : BOOLEAN, changed : BOOLEAN,
   from : Nat]

XBackendTypeOK ==
  /\ screen \in (1..MaxWidth) \X (1..MaxHeight)
  /\ crtcs \in [Ids -> Display]
  /\ default_mode \in Nat \X Nat
  /\ modes \subseteq Nat \X Nat
  /\ outputs \in [Ids -> SUBSET (Nat \X Nat)]
  /\ refusals \in Nat
  /\ support \in {"sized", "plain", "none"}
  /\ call \in Call
  /\ counts \in [calls : Nat, inputs : Nat, resizes : Nat, errors : Nat]

\* How far a call of set_displays is.
Progress ==
  /\ call.at = "none" => call = NoCall
  /\ call.at \in {"grab", "expand"} =>
       call.id = 0 /\ call.final = << >> /\ ~call.errors /\ ~call.changed
  /\ call.at \notin {"none", "grab"} => Len(call.req) = max_display_count
  /\ call.at \in Setting => call.id < max_display_count
  /\ call.at \in {"trim", "return"} => call.id = max_display_count
  /\ Len(call.final) <= call.id
  /\ Len(call.of) = Len(call.final)
  /\ call.from <= refusals

CallOK == XBackendTypeOK /\ Progress

\* The displays settled so far are on their CRTCs, unless the status of their
\* SetCrtcConfig said otherwise.
Reported ==
  /\ \A i \in 1..Len(call.final) :
       /\ call.of[i] \in 0..call.id - 1
       /\ call.of[i] \in unset \/ Shows(crtcs[call.of[i]], call.final[i])
  /\ call.at \in {"delete", "destroy"} => call.id \in unset \/ Shows(crtcs[call.id], Wanted)
  /\ ReportedIsActual

\* A step of the display at hand leaves the other ones alone ...
OthersKept ==
  \A id \in Ids : id # call.id => crtcs'[id] = crtcs[id] /\ (id \in unset' <=> id \in unset)

\* ... and makes it d, unless the status said otherwise.
Becomes(d) == call.id \in unset' \/ Shows(crtcs'[call.id], d)

\* The CRTCs are on the screen.
Contained ==
  \A id \in Ids : OnScreen(screen, crtcs[id])

Fits(req) == \A i \in DOMAIN req : Converts(req[i]) /\ (req[i].on => InBounds(req[i]))

\* Nothing stands in the way of the call so far.
Grantable == call.at \notin {"none", "grab"} /\ refusals = call.from /\ Fits(call.req)

\* The call does as it is asked.
Granting ==
  /\ grabbed
  /\ call.at # "get"
  /\ ~call.errors
  /\ call.at \in Setting => \A i \in DOMAIN call.req : OnScreen(screen, call.req[i])
  /\ Len(call.final) = call.id
  /\ \A i \in 1..call.id : call.final[i] = call.req[i]

Honoured == (Grantable => Granting) /\ RequestHonoured

Ranged == {l \in DOMAIN LockKey : LockKey[l] > MinKeycode /\ LockKey[l] < MaxKeycode}

Lock == CHOOSE l \in todo : TRUE

Stages == {"none", "reset", "locks", "press", "release", "active", "keys"}

Differs(l) == ~((l \in locks) <=> (l \in asked))

\* Where a session is, and what it may hold down and still has to do.
Keyboard ==
  /\ stage \in Stages
  /\ life \in {"xvfb", "connect", "setup"} => stage = "none" /\ call = NoCall
  /\ call.by \in {"initialize", "session"} => stage = "none"
  /\ asked \subseteq DOMAIN LockKey
  /\ locks \subseteq DOMAIN LockKey
  /\ down \subseteq MinKeycode..MaxKeycode
  /\ stage \in {"press", "release"} => todo \subseteq Ranged
  /\ stage = "release" => todo # {}
  /\ stage = "keys" => todo \subseteq Nat

\* What is down, and which locks are as asked, when nothing was refused.
KeysInOrder ==
  /\ stage \in {"none", "locks", "press"} => down = {}
  /\ stage = "release" => down = {LockKey[Lock]}
  /\ stage = "keys" => down = todo
  /\ stage = "press" => \A l \in Ranged : l \in todo <=> Differs(l)
  /\ stage = "release" => \A l \in Ranged : l \in todo \ {Lock} <=> Differs(l)

KeyboardIInv == Keyboard /\ (refusals = 0 => KeysInOrder)

\* The modes of a display.
Listed(d) == (IF d.on THEN {SizeOf(d)} ELSE {}) \ {default_mode}

\* The mode that a call has created and not used yet, or left and not deleted.
Spare ==
  CASE call.at \in {"add", "config"} -> Listed(Wanted)
    [] call.at \in {"delete", "destroy"} -> {SizeOf(call.old)}
    [] OTHER -> {}

InUse == UNION {Listed(crtcs[id]) : id \in Ids}

\* The modes that exist are in use, but for a spare one; `lists' says whether
\* the output at hand still lists it.
Exact(spare, lists) ==
  /\ modes = InUse \union spare
  /\ \A id \in Ids :
       outputs[id] = Listed(crtcs[id]) \union (IF lists /\ id = call.id THEN spare ELSE {})

Faultless == refusals = 0 /\ counts.errors = 0 /\ ~call.errors /\ call.at # "get"

Tidy ==
  /\ call.at \in {"mode", "add"} => Wanted.on
  /\ call.at \in {"mode", "add", "config"} => call.old = crtcs[call.id]
  /\ Faultless =>
       /\ Exact(Spare, call.at \in {"config", "delete"})
       /\ call.at \in {"delete", "destroy"} =>
            SizeOf(call.old) \notin Listed(crtcs[call.id]) \union {default_mode}

\* What is on has a size, and is one of the displays that calls set.
Sized ==
  /\ \A id \in Ids : crtcs[id].on =>
       crtcs[id].w > 0 /\ crtcs[id].h > 0 /\ id < max_display_count
  /\ call.at \in {"mode", "add", "config"} /\ Wanted.on => InBounds(Wanted)

\* The list of a call has every display so far, in its place.
Whole ==
  /\ Len(call.final) = call.id
  /\ \A i \in 1..call.id : call.of[i] = i - 1
  /\ unset = {}

\* The screen is trimmed to the displays.
Fitted ==
  /\ refusals = 0 => Whole
  /\ (call.at = "return" /\ refusals = 0 /\ counts.resizes = 0 /\ call.changed
      /\ Enabled(call.final) # {}) => screen = derive_extent(call.final)
  /\ (HasReturned /\ refusals = 0 /\ counts.resizes = 0 /\ returned.changed
      /\ Enabled(returned.displays) # {}) => screen = derive_extent(returned.displays)

-----------------------------------------------------------------------------
(* The steps of the X backend, sorted by what they leave alone.            *)

\* A step that does not touch the displays.
Quiet ==
  /\ UNCHANGED <<screen, default_mode, randrVars, grabbed, support, call, returned>>
  /\ Granted \/ Refused
  /\ counts' \in [calls : Nat, inputs : Nat, resizes : Nat, errors : Nat]
  /\ counts'.errors = counts.errors /\ counts'.resizes = counts.resizes

MinimalRequest == <<[on |-> TRUE, x |-> 0, y |-> 0, w |-> MinWidth, h |-> MinHeight]>>

\* A step that calls set_displays.
Calls ==
  /\ life = "setup" \/ call = NoCall
  /\ \E by \in {"initialize", "session", "event"}, req \in Requests \union {MinimalRequest} :
       SetDisplaysCall(by, req)
  /\ UNCHANGED <<screen, default_mode, randrVars, grabbed, support, returned, refusals>>
  /\ counts' \in [calls : Nat, inputs : Nat, resizes : Nat, errors : Nat]
  /\ counts'.errors = counts.errors /\ counts'.resizes = counts.resizes

\* A step of the call.
InCall ==
  \/ GrabServer \/ ExpandScreen \/ ReadCrtc \/ FindMode \/ AddMode \/ SetCrtcConfig
  \/ DeleteMode \/ DestroyMode \/ GetDisplay \/ TrimScreen \/ Return

LEMMA SortSteps ==
  ASSUME CallOK, [XBackendNext]_backendVars
  PROVE  Quiet \/ Calls \/ InCall \/ Resizes
<1>0. counts \in [calls : Nat, inputs : Nat, resizes : Nat, errors : Nat]
  BY DEF CallOK, XBackendTypeOK
<1>1. CASE UNCHANGED backendVars
  BY <1>0, <1>1 DEF backendVars, xVars, randrVars, callVars, Quiet, Granted
<1>2. CASE StartXvfb \/ SetupExtensions
  BY <1>0, <1>2 DEF StartXvfb, SetupExtensions, xVars, randrVars, callVars, Quiet, Granted
<1>3. CASE SetupDisplays
  <2>1. /\ UNCHANGED <<screen, default_mode, randrVars, grabbed, support, returned, refusals>>
        /\ counts' = counts
    BY <1>3 DEF SetupDisplays, xVars
  <2>2. CASE UNCHANGED call
    BY <1>0, <2>1, <2>2 DEF Quiet, Granted
  <2>3. CASE ~UNCHANGED call
    <3>1. SetDisplaysCall("initialize", MinimalRequest)
      BY <1>3, <2>3 DEF SetupDisplays, MinimalRequest
    <3>2. life = "setup"
      BY <1>3 DEF SetupDisplays
    <3> QED
      BY <1>0, <2>1, <3>1, <3>2 DEF Calls
  <2> QED
    BY <2>2, <2>3
<1>4. ASSUME NEW req \in Requests, NEW wanted, NewSession(req, wanted)
      PROVE  Calls
  <2>1. SetDisplaysCall("session", req)
    BY <1>4 DEF NewSession
  <2>0. call = NoCall
    BY <1>4 DEF NewSession, Idle
  <2>2. /\ UNCHANGED <<screen, default_mode, randrVars, grabbed, support, returned, refusals>>
        /\ counts' = [counts EXCEPT !.calls = @ + 1]
    BY <1>4 DEF NewSession, xVars
  <2> QED
    BY <1>0, <2>0, <2>1, <2>2 DEF Calls
<1>5. ASSUME NEW req \in Requests, DisplayEvent(req)
      PROVE  Calls
  <2>1. SetDisplaysCall("event", req)
    BY <1>5 DEF DisplayEvent
  <2>0. call = NoCall
    BY <1>5 DEF DisplayEvent, Idle
  <2>2. /\ UNCHANGED <<screen, default_mode, randrVars, grabbed, support, returned, refusals>>
        /\ counts' = [counts EXCEPT !.calls = @ + 1]
    BY <1>5 DEF DisplayEvent, xVars
  <2> QED
    BY <1>0, <2>0, <2>1, <2>2 DEF Calls
<1>6. CASE QueryLocks
  BY <1>0, <1>6 DEF QueryLocks, randrVars, callVars, Quiet
<1>7. CASE PressLock
  BY <1>0, <1>7 DEF PressLock, randrVars, callVars, Quiet, Granted
<1>8. CASE ReleaseLock
  BY <1>0, <1>8 DEF ReleaseLock, randrVars, callVars, Quiet
<1>9. ASSUME NEW key \in Keys, NEW pressed \in BOOLEAN, KeyEvent(key, pressed)
      PROVE  Quiet
  <2>1. /\ UNCHANGED <<screen, default_mode, randrVars, grabbed, support, call, returned>>
        /\ Granted \/ Refused
        /\ counts' = [counts EXCEPT !.inputs = @ + 1]
    BY <1>9 DEF KeyEvent, randrVars, callVars, Granted
  <2> QED
    BY <1>0, <2>1 DEF Quiet
<1>10. ASSUME NEW held \in SUBSET Buttons, NEW states \in [held -> BOOLEAN],
              PointerEvent(states)
       PROVE  Quiet
  <2>1. /\ UNCHANGED <<screen, default_mode, randrVars, grabbed, support, call, returned>>
        /\ Granted \/ Refused
        /\ counts' = [counts EXCEPT !.inputs = @ + 1]
    BY <1>10 DEF PointerEvent, randrVars, callVars, Granted
  <2> QED
    BY <1>0, <2>1 DEF Quiet
<1>11. CASE EndSession
  BY <1>0, <1>11 DEF EndSession, xVars, randrVars, callVars, Quiet, Granted
<1>12. CASE QueryKeymap
  BY <1>0, <1>12 DEF QueryKeymap, randrVars, callVars, Quiet
<1>13. CASE ReleaseHeld
  BY <1>0, <1>13 DEF ReleaseHeld, randrVars, callVars, Quiet
<1>14. CASE InCall \/ Resizes
  BY <1>14
<1> QED
  BY <1>1, <1>2, <1>3, <1>4, <1>5, <1>6, <1>7, <1>8, <1>9, <1>10, <1>11, <1>12, <1>13, <1>14
  DEF XBackendNext, InCall

-----------------------------------------------------------------------------
(* Types, and how far a call is.                                           *)

LEMMA CountIsPositive ==
  ASSUME CallOK
  PROVE  max_display_count \in 1..CrtcCount /\ CrtcCount \in Nat
  BY BackendAssumption DEF max_display_count

LEMMA OffIsDisplay == Off \in Display
  BY DEF Off, Display

\* The list of a call has one entry for every display.
LEMMA PaddedIsList ==
  ASSUME CallOK, NEW req \in Seq(Display)
  PROVE  /\ Padded(req) \in Seq(Display)
         /\ Len(Padded(req)) = max_display_count
<1>1. max_display_count \in Nat
  BY CountIsPositive
<1>2. PICK n \in Nat : n = max_display_count
  BY <1>1
<1>3. \A i \in 1..n : (IF i <= Len(req) THEN req[i] ELSE Off) \in Display
  BY OffIsDisplay
<1>4. Padded(req) = [i \in 1..n |-> IF i <= Len(req) THEN req[i] ELSE Off]
  BY <1>2 DEF Padded
<1>5. Padded(req) \in [1..n -> Display]
  BY <1>3, <1>4
<1> QED
  BY <1>2, <1>5

\* The display at hand.
LEMMA WantedIsDisplay ==
  ASSUME CallOK, call.at \in Setting
  PROVE  /\ Wanted \in Display
         /\ call.id \in Ids /\ call.id \in Nat /\ call.id < max_display_count
         /\ call.id + 1 \in DOMAIN call.req
         /\ WantedMode \in Nat \X Nat
<1>1. /\ call.req \in Seq(Display) /\ call.id \in Nat
      /\ Len(call.req) = max_display_count /\ call.id < max_display_count
  BY DEF CallOK, XBackendTypeOK, Call, Progress, Setting
<1>2. max_display_count \in 1..CrtcCount /\ CrtcCount \in Nat
  BY CountIsPositive
<1>3. call.id \in Ids /\ call.id + 1 \in 1..Len(call.req)
  BY <1>1, <1>2 DEF Ids
<1>4. Wanted \in Display
  BY <1>1, <1>3 DEF Wanted
<1> QED
  BY <1>1, <1>3, <1>4 DEF WantedMode, SizeOf, Display

\* What a push makes of a list.
LEMMA PushedLast ==
  ASSUME NEW s \in Seq(Display), NEW d \in Display
  PROVE  /\ Len(s \o <<d>>) = Len(s) + 1
         /\ \A i \in 1..Len(s) : (s \o <<d>>)[i] = s[i]
         /\ (s \o <<d>>)[Len(s) + 1] = d
<1>1. <<d>> \in Seq(Display) /\ Len(<<d>>) = 1 /\ <<d>>[1] = d
  OBVIOUS
<1>2. /\ Len(s \o <<d>>) = Len(s) + Len(<<d>>)
      /\ \A i \in 1..Len(s) + Len(<<d>>) : (s \o <<d>>)[i] =
           IF i <= Len(s) THEN s[i] ELSE <<d>>[i - Len(s)]
  BY <1>1, ConcatProperties
<1> QED
  BY <1>1, <1>2

LEMMA PushedId ==
  ASSUME NEW s \in Seq(Nat), NEW n \in Nat
  PROVE  /\ s \o <<n>> \in Seq(Nat)
         /\ Len(s \o <<n>>) = Len(s) + 1
         /\ \A i \in 1..Len(s) : (s \o <<n>>)[i] = s[i]
         /\ (s \o <<n>>)[Len(s) + 1] = n
<1> DEFINE T == Nat
           t == <<n>>
<1>1. s \in Seq(T) /\ t \in Seq(T) /\ Len(t) = 1 /\ t[1] = n
  OBVIOUS
<1> HIDE DEF T, t
<1>2. /\ s \o t \in Seq(T)
      /\ Len(s \o t) = Len(s) + Len(t)
      /\ \A i \in 1..Len(s) + Len(t) : (s \o t)[i] = IF i <= Len(s) THEN s[i] ELSE t[i - Len(s)]
  BY <1>1, ConcatProperties
<1>3. Len(s) \in Nat
  OBVIOUS
<1>4. /\ Len(s \o t) = Len(s) + 1
      /\ \A i \in 1..Len(s) : (s \o t)[i] = s[i]
      /\ (s \o t)[Len(s) + 1] = n
  BY <1>1, <1>2, <1>3
<1> QED
  BY <1>2, <1>4 DEF T, t

\* What Settle makes of the call.
LEMMA Settled ==
  ASSUME CallOK, call.at \in Setting,
         NEW pushed, pushed = << >> \/ (\E d \in Display : pushed = <<d>>),
         NEW changed \in BOOLEAN, NEW errors \in BOOLEAN, Settle(pushed, changed, errors),
         support' = support, refusals' \in Nat, refusals' >= refusals
  PROVE  /\ call' \in Call /\ Progress'
         /\ call'.id = call.id + 1
         /\ call'.at \in {"set", "trim"}
         /\ call'.final = call.final \o pushed
         /\ call'.of = call.of \o (IF pushed = << >> THEN << >> ELSE <<call.id>>)
         /\ call'.req = call.req /\ call'.from = call.from /\ call'.by = call.by
         /\ call'.changed = (call.changed \/ changed)
         /\ call'.errors = (call.errors \/ errors)
         /\ returned' = returned
<1> DEFINE ids == IF pushed = << >> THEN << >> ELSE <<call.id>>
<1>1. call \in Call /\ call.id < max_display_count
      /\ Len(call.req) = max_display_count /\ Len(call.final) <= call.id
      /\ Len(call.of) = Len(call.final)
      /\ call.from <= refusals /\ refusals \in Nat
  BY DEF CallOK, XBackendTypeOK, Progress, Setting
<1>2. max_display_count \in Nat /\ max_display_count' = max_display_count
  BY CountIsPositive DEF max_display_count
<1>3. /\ call.final \o pushed \in Seq(Display)
      /\ Len(call.final \o pushed) <= Len(call.final) + 1
      /\ call.of \o ids \in Seq(Nat)
      /\ Len(call.of \o ids) = Len(call.final \o pushed)
  <2>0. call.final \in Seq(Display) /\ call.of \in Seq(Nat) /\ call.id \in Nat
    BY <1>1 DEF Call
  <2>1. CASE pushed = << >>
    <3>1. call.final \o pushed = call.final /\ call.of \o ids = call.of
      BY <2>0, <2>1, ConcatEmptySeq
    <3> HIDE DEF ids
    <3> QED
      BY <1>1, <2>0, <3>1
  <2>2. ASSUME NEW d \in Display, pushed = <<d>>
        PROVE  /\ call.final \o pushed \in Seq(Display)
               /\ Len(call.final \o pushed) <= Len(call.final) + 1
               /\ call.of \o ids \in Seq(Nat)
               /\ Len(call.of \o ids) = Len(call.final \o pushed)
    <3>1. pushed # << >> /\ pushed \in Seq(Display) /\ Len(pushed) = 1
      BY <2>2
    <3>2. ids = <<call.id>>
      BY <3>1
    <3> HIDE DEF ids
    <3>4. /\ call.final \o pushed \in Seq(Display)
          /\ Len(call.final \o pushed) = Len(call.final) + 1
      BY <2>0, <3>1, ConcatProperties
    <3>5. call.of \o ids \in Seq(Nat) /\ Len(call.of \o ids) = Len(call.of) + 1
      BY <2>0, <3>2, PushedId
    <3> QED
      BY <1>1, <2>0, <3>4, <3>5
  <2> QED
    BY <2>1, <2>2
<1>4. call' = [call EXCEPT
        !.at = IF call.id + 1 = max_display_count THEN "trim" ELSE "set",
        !.id = call.id + 1,
        !.final = call.final \o pushed,
        !.of = call.of \o ids,
        !.changed = call.changed \/ changed,
        !.errors = call.errors \/ errors]
  BY DEF Settle
<1>5. /\ call'.id = call.id + 1
      /\ call'.at = IF call.id + 1 = max_display_count THEN "trim" ELSE "set"
      /\ call'.final = call.final \o pushed
      /\ call'.of = call.of \o ids
      /\ call'.req = call.req /\ call'.from = call.from /\ call'.by = call.by
      /\ call'.changed = (call.changed \/ changed)
      /\ call'.errors = (call.errors \/ errors)
  <2> HIDE DEF ids
  <2> QED
    BY <1>1, <1>4 DEF Call
<1>6. call' \in Call
  <2>1. /\ call.id + 1 \in Nat /\ (call.changed \/ changed) \in BOOLEAN
        /\ (call.errors \/ errors) \in BOOLEAN
        /\ (IF call.id + 1 = max_display_count THEN "trim" ELSE "set") \in Steps
    BY <1>1 DEF Call, Steps
  <2> HIDE DEF ids
  <2> QED
    BY <1>1, <1>3, <1>4, <2>1 DEF Call
<1>7. Progress'
  <2> HIDE DEF ids
  <2>1. /\ call'.id \in Nat /\ call'.id <= max_display_count
        /\ (call'.at = "set" /\ call'.id < max_display_count)
             \/ (call'.at = "trim" /\ call'.id = max_display_count)
        /\ Len(call'.final) <= call'.id
    <3>1. call.id \in Nat /\ Len(call.final) \in Nat /\ Len(call.final \o pushed) \in Nat
      BY <1>1, <1>3 DEF Call
    <3>2. Len(call.final \o pushed) <= Len(call.final) + 1 /\ Len(call.final) <= call.id
      BY <1>1, <1>3
    <3>3. call'.id = call.id + 1 /\ Len(call'.final) = Len(call.final \o pushed)
      BY <1>5
    <3>4. Len(call'.final) <= call'.id
      BY <3>1, <3>2, <3>3
    <3>5. call'.at = IF call'.id = max_display_count THEN "trim" ELSE "set"
      BY <1>5
    <3>6. call'.id \in Nat /\ call'.id <= max_display_count
      BY <1>1, <1>2, <3>1, <3>3
    <3>7. (call'.at = "set" /\ call'.id < max_display_count)
             \/ (call'.at = "trim" /\ call'.id = max_display_count)
      BY <1>1, <1>2, <3>5, <3>6
    <3> QED
      BY <3>4, <3>6, <3>7
  <2>2. call'.from <= refusals'
    BY <1>1, <1>5 DEF Call
  <2>3. Len(call'.of) = Len(call'.final)
    BY <1>3, <1>5
  <2> QED
    BY <1>1, <1>2, <1>5, <2>1, <2>2, <2>3 DEF Progress, Setting
<1> QED
  BY <1>5, <1>6, <1>7 DEF Settle

\* What Continue makes of the call, within a display.
LEMMA Continued ==
  ASSUME CallOK, call.at \in Setting, NEW step \in Setting, Continue(step),
         support' = support, refusals' \in Nat, refusals' >= refusals
  PROVE  /\ call' \in Call /\ Progress'
         /\ call' = [call EXCEPT !.at = step]
         /\ call'.at = step
         /\ call'.req = call.req /\ call'.id = call.id /\ call'.old = call.old
         /\ call'.final = call.final /\ call'.of = call.of /\ call'.errors = call.errors
         /\ call'.changed = call.changed /\ call'.from = call.from /\ call'.by = call.by
         /\ returned' = returned
<1>1. call \in Call /\ call' = [call EXCEPT !.at = step] /\ returned' = returned
  BY DEF CallOK, XBackendTypeOK, Continue
<1>2. max_display_count' = max_display_count
  BY DEF max_display_count
<1>3. /\ call'.at = step
      /\ call'.req = call.req /\ call'.id = call.id /\ call'.old = call.old
      /\ call'.final = call.final /\ call'.of = call.of /\ call'.errors = call.errors
      /\ call'.changed = call.changed /\ call'.from = call.from /\ call'.by = call.by
  BY <1>1 DEF Call
<1>4. call' \in Call
  BY <1>1 DEF Call, Setting, Steps
<1>5. call.from <= refusals'
  BY DEF CallOK, XBackendTypeOK, Call, Progress
<1> QED
  BY <1>1, <1>2, <1>3, <1>4, <1>5 DEF CallOK, Progress, Setting

\* The size that an accepted resize gives the screen.
LEMMA ResizeKeepsSize ==
  ASSUME CallOK, NEW w, NEW h, ResizeScreen(<<w, h>>)
  PROVE  screen' \in (1..MaxWidth) \X (1..MaxHeight)
<1>1. screen \in (1..MaxWidth) \X (1..MaxHeight)
  BY DEF CallOK, XBackendTypeOK
<1>2. CASE screen' = screen
  BY <1>1, <1>2
<1>3. CASE AcceptsScreenSize(<<w, h>>) /\ screen' = <<w, h>>
  BY <1>3 DEF AcceptsScreenSize
<1> QED
  BY <1>2, <1>3 DEF ResizeScreen

\* A request is granted or refused; either way the count stays a count.
LEMMA RefusalsGrow ==
  ASSUME CallOK, Granted \/ Refused
  PROVE  refusals' \in Nat /\ refusals' >= refusals /\ (refusals' = 0 => refusals = 0)
  BY DEF CallOK, XBackendTypeOK, Granted, Refused

\* Every variable of the displays keeps its type, and the call its place.
LEMMA CallInit ==
  ASSUME XBackendInit
  PROVE  CallOK
<1>1. /\ MinWidth \in Nat \ {0} /\ MaxWidth \in Nat /\ MinWidth <= MaxWidth
      /\ MinHeight \in Nat \ {0} /\ MaxHeight \in Nat /\ MinHeight <= MaxHeight
  BY BackendAssumption
<1>2. PICK size \in {<<MinWidth, MinHeight>>, <<MaxWidth, MaxHeight>>},
           mode \in {<<MinWidth, MinHeight>>, <<MaxWidth, MaxHeight>>} :
        XStarts(size, mode)
  BY DEF XBackendInit
<1>3. /\ size \in (1..MaxWidth) \X (1..MaxHeight)
      /\ mode \in Nat \X Nat /\ mode[1] \in Nat /\ mode[2] \in Nat
  BY <1>1
<1>4. crtcs \in [Ids -> Display]
  <2>1. [on |-> TRUE, x |-> 0, y |-> 0, w |-> mode[1], h |-> mode[2]] \in Display
    BY <1>3 DEF Display
  <2> QED
    BY <1>2, <2>1, OffIsDisplay DEF XStarts
<1>5. /\ screen = size /\ default_mode = mode /\ modes = {} /\ refusals = 0
      /\ outputs = [id \in Ids |-> {}]
  BY <1>2 DEF XStarts
<1>6. support \in {"sized", "plain", "none"} /\ call = NoCall
      /\ counts = [calls |-> 0, inputs |-> 0, resizes |-> 0, errors |-> 0]
  BY DEF XBackendInit
<1>7. call \in Call
  BY <1>6, OffIsDisplay DEF NoCall, Call, Steps
<1>8. Progress
  BY <1>5, <1>6 DEF NoCall, Progress, Setting
<1> QED
  BY <1>3, <1>4, <1>5, <1>6, <1>7, <1>8 DEF CallOK, XBackendTypeOK

\* The variables of the screen and its modes, in a step that has no other.
LEMMA DisplaysKeep ==
  ASSUME CallOK, InCall
  PROVE  /\ screen' \in (1..MaxWidth) \X (1..MaxHeight)
         /\ crtcs' \in [Ids -> Display]
         /\ default_mode' = default_mode
         /\ modes' \subseteq Nat \X Nat
         /\ outputs' \in [Ids -> SUBSET (Nat \X Nat)]
         /\ refusals' \in Nat /\ refusals' >= refusals /\ (refusals' = 0 => refusals = 0)
         /\ support' = support
         /\ Return \/ UNCHANGED counts
<1>1. /\ screen \in (1..MaxWidth) \X (1..MaxHeight)
      /\ crtcs \in [Ids -> Display]
      /\ modes \subseteq Nat \X Nat
      /\ outputs \in [Ids -> SUBSET (Nat \X Nat)]
  BY DEF CallOK, XBackendTypeOK
<1>2. Granted \/ Refused
  BY DEF InCall, GrabServer, ExpandScreen, ReadCrtc, FindMode, AddMode, SetCrtcConfig,
    DeleteMode, DestroyMode, GetDisplay, TrimScreen, Return, ResizeScreen, Granted
<1>3. /\ default_mode' = default_mode /\ support' = support
      /\ Return \/ UNCHANGED counts
  BY DEF InCall, GrabServer, ExpandScreen, ReadCrtc, FindMode, AddMode, SetCrtcConfig,
    DeleteMode, DestroyMode, GetDisplay, TrimScreen, Return, NotInCall
<1>4. screen' \in (1..MaxWidth) \X (1..MaxHeight)
  <2>1. CASE ExpandScreen
    BY <2>1, ResizeKeepsSize DEF ExpandScreen, Expanded
  <2>2. CASE TrimScreen
    <3>1. CASE call.changed
      BY <2>2, <3>1, ResizeKeepsSize DEF TrimScreen, Trimmed
    <3>2. CASE ~call.changed
      BY <1>1, <2>2, <3>2 DEF TrimScreen, Trimmed, ResizeScreen
    <3> QED
      BY <3>1, <3>2
  <2>3. CASE ~ExpandScreen /\ ~TrimScreen
    BY <1>1, <2>3 DEF InCall, GrabServer, ReadCrtc, FindMode, AddMode, SetCrtcConfig,
      DeleteMode, DestroyMode, GetDisplay, Return
  <2> QED
    BY <2>1, <2>2, <2>3
<1>5. crtcs' \in [Ids -> Display]
  <2>1. CASE SetCrtcConfig
    <3>1. Wanted \in Display
      BY <2>1, WantedIsDisplay DEF SetCrtcConfig, At, Setting
    <3> QED
      BY <1>1, <2>1, <3>1, OffIsDisplay DEF SetCrtcConfig
  <2>2. CASE ~SetCrtcConfig
    BY <1>1, <2>2 DEF InCall, GrabServer, ExpandScreen, ReadCrtc, FindMode, AddMode,
      DeleteMode, DestroyMode, GetDisplay, TrimScreen, Return, randrVars
  <2> QED
    BY <2>1, <2>2
<1>6. modes' \subseteq Nat \X Nat
  <2>1. CASE FindMode
    <3>1. WantedMode \in Nat \X Nat
      BY <2>1, WantedIsDisplay DEF FindMode, At, Setting
    <3> QED
      BY <1>1, <2>1, <3>1 DEF FindMode
  <2>2. CASE DestroyMode
    BY <1>1, <2>2 DEF DestroyMode
  <2>3. CASE ~FindMode /\ ~DestroyMode
    BY <1>1, <2>3 DEF InCall, GrabServer, ExpandScreen, ReadCrtc, AddMode, SetCrtcConfig,
      DeleteMode, GetDisplay, TrimScreen, Return, randrVars
  <2> QED
    BY <2>1, <2>2, <2>3
<1>7. outputs' \in [Ids -> SUBSET (Nat \X Nat)]
  <2>1. CASE AddMode
    <3>1. WantedMode \in Nat \X Nat
      BY <2>1, WantedIsDisplay DEF AddMode, At, Setting
    <3> QED
      BY <1>1, <2>1, <3>1 DEF AddMode
  <2>2. CASE DeleteMode
    BY <1>1, <2>2 DEF DeleteMode
  <2>3. CASE ~AddMode /\ ~DeleteMode
    BY <1>1, <2>3 DEF InCall, GrabServer, ExpandScreen, ReadCrtc, FindMode, SetCrtcConfig,
      DestroyMode, GetDisplay, TrimScreen, Return, randrVars
  <2> QED
    BY <2>1, <2>2, <2>3
<1> QED
  BY <1>2, <1>3, <1>4, <1>5, <1>6, <1>7, RefusalsGrow

\* The call's own steps keep it in its place.
LEMMA CallKeeps ==
  ASSUME CallOK, InCall
  PROVE  CallOK'
<1>0. /\ refusals' \in Nat /\ refusals' >= refusals
      /\ support' = support
  BY DisplaysKeep
<1>1. call \in Call /\ max_display_count' = max_display_count /\ max_display_count \in 1..CrtcCount
      /\ refusals \in Nat /\ CrtcCount \in Nat
  BY <1>0, CountIsPositive DEF CallOK, XBackendTypeOK, max_display_count
<1>2. ASSUME NEW step \in Setting, Continue(step), call.at \in Setting
      PROVE  call' \in Call /\ Progress'
  BY <1>0, <1>2, Continued
<1>3. ASSUME NEW pushed, pushed = << >> \/ (\E d \in Display : pushed = <<d>>),
             NEW changed \in BOOLEAN, NEW errors \in BOOLEAN, Settle(pushed, changed, errors),
             call.at \in Setting
      PROVE  call' \in Call /\ Progress'
  BY <1>0, <1>3, Settled
<1>4. call.at \in Setting => Wanted \in Display /\ call.id \in Ids
  BY WantedIsDisplay
<1>5. CASE GrabServer
  <2>1. /\ call.at = "grab"
        /\ call' = [call EXCEPT !.at = "expand", !.req = Padded(call.req)]
    BY <1>5 DEF GrabServer, At
  <2>2. Padded(call.req) \in Seq(Display) /\ Len(Padded(call.req)) = max_display_count
    BY <1>1, PaddedIsList DEF Call
  <2>3. call' \in Call
    BY <1>1, <2>1, <2>2 DEF Call, Steps
  <2>4. /\ call'.at = "expand" /\ call'.req = Padded(call.req)
        /\ call'.id = call.id /\ call'.final = call.final /\ call'.errors = call.errors
        /\ call'.changed = call.changed /\ call'.from = call.from /\ call'.of = call.of
    BY <1>1, <2>1 DEF Call
  <2>5. call.from <= refusals'
    BY <1>0, <1>1 DEF CallOK, Progress, Call
  <2>6. Progress'
    BY <1>1, <2>1, <2>2, <2>4, <2>5 DEF CallOK, Progress, Setting
  <2> QED
    BY <1>5, <2>3, <2>6, DisplaysKeep DEF CallOK, XBackendTypeOK, GrabServer, NotInCall
<1>6. CASE ExpandScreen \/ TrimScreen
  <2>1. PICK step \in {"set", "return"} :
          /\ call.at = (IF step = "set" THEN "expand" ELSE "trim")
          /\ call' = [call EXCEPT !.at = step]
    BY <1>6 DEF ExpandScreen, TrimScreen, At, Continue
  <2>2. call' \in Call
    BY <1>1, <2>1 DEF Call, Steps
  <2>3. /\ call'.at = step /\ call'.req = call.req
        /\ call'.id = call.id /\ call'.final = call.final /\ call'.errors = call.errors
        /\ call'.changed = call.changed /\ call'.from = call.from /\ call'.of = call.of
    BY <1>1, <2>1 DEF Call
  <2>5. call.from <= refusals'
    BY <1>0, <1>1 DEF CallOK, Progress, Call
  <2>6. Progress'
    <3>1. CASE step = "set"
      BY <1>1, <2>1, <2>3, <2>5, <3>1 DEF CallOK, Progress, Setting
    <3>2. CASE step = "return"
      BY <1>1, <2>1, <2>3, <2>5, <3>2 DEF CallOK, Progress, Setting
    <3> QED
      BY <2>1, <3>1, <3>2
  <2> QED
    BY <1>6, <2>2, <2>6, DisplaysKeep
    DEF CallOK, XBackendTypeOK, ExpandScreen, TrimScreen, NotInCall
<1>7. CASE ReadCrtc
  <2>1. call.at = "set" /\ call.at \in Setting
    BY <1>7 DEF ReadCrtc, At, Setting
  <2>2. crtcs[call.id] \in Display
    BY <1>4, <2>1 DEF CallOK, XBackendTypeOK
  <2>3. ASSUME Settle(<<Wanted>>, FALSE, FALSE)
        PROVE  call' \in Call /\ Progress'
    BY <1>3, <1>4, <2>1, <2>3
  <2>4. ASSUME Continue("get")
        PROVE  call' \in Call /\ Progress'
    BY <1>2, <2>1, <2>4 DEF Setting
  <2>5. ASSUME NEW step \in {"get", "config", "mode"},
               call' = [call EXCEPT !.old = crtcs[call.id], !.at = step]
        PROVE  call' \in Call /\ Progress'
    <3>2. call' \in Call
      BY <1>1, <2>2, <2>5 DEF Call, Steps
    <3>3. /\ call'.at = step /\ call'.req = call.req
          /\ call'.id = call.id /\ call'.final = call.final /\ call'.errors = call.errors
          /\ call'.changed = call.changed /\ call'.from = call.from /\ call'.of = call.of
      BY <1>1, <2>5 DEF Call
    <3>4. call.from <= refusals'
      BY <1>0, <1>1 DEF CallOK, Progress, Call
    <3> QED
      BY <1>1, <2>1, <3>2, <3>3, <3>4 DEF CallOK, Progress, Setting
  <2>6. call' \in Call /\ Progress'
    <3>1. \/ Settle(<<Wanted>>, FALSE, FALSE)
          \/ Continue("get")
          \/ \E step \in {"get", "config", "mode"} :
               call' = [call EXCEPT !.old = crtcs[call.id], !.at = step]
      BY <1>7 DEF ReadCrtc
    <3> QED
      BY <2>3, <2>4, <2>5, <3>1
  <2> QED
    BY <1>7, <2>6, DisplaysKeep DEF CallOK, XBackendTypeOK, ReadCrtc, NotInCall
<1>8. CASE FindMode \/ AddMode
  <2>1. call.at \in Setting
    BY <1>8 DEF FindMode, AddMode, At, Setting
  <2>2. Continue("add") \/ Continue("config") \/ Continue("get")
    BY <1>8 DEF FindMode, AddMode
  <2>3. call' \in Call /\ Progress'
    BY <1>2, <2>1, <2>2 DEF Setting
  <2> QED
    BY <1>8, <2>3, DisplaysKeep DEF CallOK, XBackendTypeOK, FindMode, AddMode, NotInCall
<1>9. CASE SetCrtcConfig \/ DeleteMode \/ DestroyMode
  <2>1. call.at \in Setting
    BY <1>9 DEF SetCrtcConfig, DeleteMode, DestroyMode, At, Setting
  <2>2. \/ Continue("delete") \/ Continue("destroy") \/ Continue("get")
        \/ Settle(<<Wanted>>, TRUE, FALSE)
    BY <1>9 DEF SetCrtcConfig, DeleteMode, DestroyMode
  <2>3. ASSUME Continue("delete") \/ Continue("destroy") \/ Continue("get")
        PROVE  call' \in Call /\ Progress'
    BY <1>2, <2>1, <2>3 DEF Setting
  <2>4. ASSUME Settle(<<Wanted>>, TRUE, FALSE)
        PROVE  call' \in Call /\ Progress'
    BY <1>3, <1>4, <2>1, <2>4
  <2> QED
    BY <1>9, <2>2, <2>3, <2>4, DisplaysKeep
    DEF CallOK, XBackendTypeOK, SetCrtcConfig, DeleteMode, DestroyMode, NotInCall
<1>10. CASE GetDisplay
  <2>1. call.at \in Setting
    BY <1>10 DEF GetDisplay, At, Setting
  <2>2. crtcs[call.id] \in Display
    BY <1>4, <2>1 DEF CallOK, XBackendTypeOK
  <2>3. ASSUME Settle(<<Current(call.id)>>, FALSE, TRUE)
        PROVE  call' \in Call /\ Progress'
    BY <1>3, <2>1, <2>2, <2>3 DEF Current
  <2>4. ASSUME Settle(<< >>, FALSE, TRUE)
        PROVE  call' \in Call /\ Progress'
    BY <1>3, <2>1, <2>4
  <2> QED
    BY <1>10, <2>3, <2>4, DisplaysKeep DEF CallOK, XBackendTypeOK, GetDisplay, NotInCall
<1>11. CASE Return
  <2>1. call' = NoCall
    BY <1>11 DEF Return
  <2>2. call' \in Call
    BY <2>1, OffIsDisplay DEF NoCall, Call, Steps
  <2>3. Progress'
    BY <1>0, <2>1 DEF NoCall, Progress, Setting
  <2>4. counts' \in [calls : Nat, inputs : Nat, resizes : Nat, errors : Nat]
    BY <1>11 DEF Return, CallOK, XBackendTypeOK
  <2> QED
    BY <2>2, <2>3, <2>4, DisplaysKeep DEF CallOK, XBackendTypeOK
<1> QED
  BY <1>5, <1>6, <1>7, <1>8, <1>9, <1>10, <1>11 DEF InCall

LEMMA CallStep ==
  ASSUME CallOK, [XBackendNext]_backendVars
  PROVE  CallOK'
<1>1. CASE Quiet
  <2>1. /\ refusals' \in Nat /\ refusals' >= refusals
        /\ call' = call /\ max_display_count' = max_display_count
    BY <1>1, RefusalsGrow DEF Quiet, max_display_count
  <2>2. call.from <= refusals'
    BY <2>1 DEF CallOK, XBackendTypeOK, Progress, Call
  <2> QED
    BY <1>1, <2>1, <2>2 DEF Quiet, randrVars, CallOK, XBackendTypeOK, Progress
<1>2. CASE Calls
  <2>1. PICK by \in {"initialize", "session", "event"},
             req \in Requests \union {MinimalRequest} :
          call' = [NoCall EXCEPT !.at = "grab", !.by = by, !.req = req, !.from = refusals]
    BY <1>2 DEF Calls, SetDisplaysCall
  <2>2. req \in Seq(Display)
    <3>1. [on |-> TRUE, x |-> 0, y |-> 0, w |-> MinWidth, h |-> MinHeight] \in Display
      BY BackendAssumption DEF Display
    <3>2. MinimalRequest \in Seq(Display)
      BY <3>1 DEF MinimalRequest
    <3> QED
      BY <3>2, BackendAssumption
  <2>3. refusals \in Nat /\ refusals' = refusals
    BY <1>2 DEF Calls, CallOK, XBackendTypeOK
  <2>4. call' \in Call
    <3>1. call' = [at |-> "grab", by |-> by, req |-> req, id |-> 0, old |-> Off,
                   final |-> << >>, of |-> << >>, errors |-> FALSE, changed |-> FALSE, from |-> refusals]
      BY <2>1 DEF NoCall
    <3>2. << >> \in Seq(Display) /\ << >> \in Seq(Nat)
      OBVIOUS
    <3> QED
      BY <2>2, <2>3, <3>1, <3>2, OffIsDisplay DEF Call, Steps
  <2>5. /\ call'.at = "grab" /\ call'.id = 0 /\ call'.final = << >> /\ ~call'.errors
        /\ ~call'.changed /\ call'.from = refusals /\ call'.of = << >>
    BY <2>1 DEF NoCall
  <2>6. Progress'
    BY <2>3, <2>5 DEF Progress, Setting
  <2> QED
    BY <1>2, <2>4, <2>6 DEF Calls, randrVars, CallOK, XBackendTypeOK
<1>3. CASE InCall
  BY <1>3, CallKeeps
<1>4. CASE Resizes
  <2>1. PICK w \in 1..MaxWidth, h \in 1..MaxHeight : OtherClientResizes(<<w, h>>)
    BY <1>4 DEF Resizes
  <2>2. screen' = <<w, h>> /\ UNCHANGED <<default_mode, crtcs, modes, outputs, refusals>>
    BY <2>1 DEF OtherClientResizes, randrVars
  <2>3. counts' \in [calls : Nat, inputs : Nat, resizes : Nat, errors : Nat]
    BY <1>4 DEF Resizes, CallOK, XBackendTypeOK
  <2>4. UNCHANGED <<call, support>> /\ max_display_count' = max_display_count
    BY <1>4 DEF Resizes, callVars, max_display_count
  <2> QED
    BY <2>2, <2>3, <2>4 DEF CallOK, XBackendTypeOK, Progress
<1> QED
  BY <1>1, <1>2, <1>3, <1>4, SortSteps

-----------------------------------------------------------------------------
(* What set_displays reports.                                              *)

\* Nothing has returned while a call is under way.
LEMMA BusyHasNotReturned ==
  ASSUME call'.at # "none"
  PROVE  ~HasReturned'
  BY DEF HasReturned, NoCall

LEMMA SettledIds ==
  ASSUME CallOK, call.at \in Setting
  PROVE  \A id \in 0..call.id - 1 : id \in Ids /\ id # call.id
<1>1. call.id \in Nat /\ call.id < max_display_count
  BY WantedIsDisplay
<1>2. max_display_count \in 1..CrtcCount /\ CrtcCount \in Nat
  BY CountIsPositive
<1> QED
  BY <1>1, <1>2 DEF Ids

\* A display is settled as its CRTC shows it, or left out.
LEMMA SettleReports ==
  ASSUME CallOK, Reported, call.at \in Setting, NEW pushed,
         pushed = << >> \/ (\E d \in Display : pushed = <<d>> /\ Becomes(d)),
         NEW changed \in BOOLEAN, NEW errors \in BOOLEAN, Settle(pushed, changed, errors),
         support' = support, refusals' \in Nat, refusals' >= refusals, OthersKept
  PROVE  Reported'
<1>1. /\ call'.id = call.id + 1 /\ call'.at \in {"set", "trim"}
      /\ call'.final = call.final \o pushed
      /\ call'.of = call.of \o (IF pushed = << >> THEN << >> ELSE <<call.id>>)
  BY Settled
<1>2. /\ call.final \in Seq(Display) /\ call.of \in Seq(Nat) /\ call.id \in Nat
      /\ Len(call.of) = Len(call.final) /\ Len(call.final) \in Nat
  BY DEF CallOK, XBackendTypeOK, Call, Progress
<1>3. ReportedIsActual'
  BY <1>1, BusyHasNotReturned DEF ReportedIsActual
<1>4. ASSUME NEW i \in 1..Len(call.final)
      PROVE  /\ call.of[i] \in 0..call'.id - 1
             /\ call.of[i] \in unset' \/ Shows(crtcs'[call.of[i]], call.final[i])
  <2>1. /\ call.of[i] \in 0..call.id - 1
        /\ call.of[i] \in unset \/ Shows(crtcs[call.of[i]], call.final[i])
    BY DEF Reported
  <2>2. call.of[i] \in Ids /\ call.of[i] # call.id
    BY <2>1, SettledIds
  <2>3. /\ crtcs'[call.of[i]] = crtcs[call.of[i]]
        /\ call.of[i] \in unset' <=> call.of[i] \in unset
    BY <2>2 DEF OthersKept
  <2>4. call.of[i] \in 0..call'.id - 1
    BY <1>1, <1>2, <2>1
  <2> QED
    BY <2>1, <2>3, <2>4
<1>5. CASE pushed = << >>
  <2>1. call'.final = call.final /\ call'.of = call.of
    BY <1>1, <1>2, <1>5, ConcatEmptySeq
  <2> QED
    BY <1>1, <1>3, <1>4, <2>1 DEF Reported
<1>6. ASSUME NEW d \in Display, pushed = <<d>>, Becomes(d)
      PROVE  Reported'
  <2>1. /\ Len(call'.final) = Len(call.final) + 1
        /\ \A i \in 1..Len(call.final) : call'.final[i] = call.final[i]
        /\ call'.final[Len(call.final) + 1] = d
    BY <1>1, <1>2, <1>6, PushedLast
  <2>2. /\ \A i \in 1..Len(call.of) : call'.of[i] = call.of[i]
        /\ call'.of[Len(call.of) + 1] = call.id
    <3>1. pushed # << >>
      BY <1>6
    <3>2. call'.of = call.of \o <<call.id>>
      BY <1>1, <3>1
    <3>3. /\ \A i \in 1..Len(call.of) : (call.of \o <<call.id>>)[i] = call.of[i]
          /\ (call.of \o <<call.id>>)[Len(call.of) + 1] = call.id
      BY <1>2, PushedId, Zenon
    <3> QED
      BY <3>2, <3>3, Zenon
  <2>3. ASSUME NEW i \in 1..Len(call'.final)
        PROVE  /\ call'.of[i] \in 0..call'.id - 1
               /\ call'.of[i] \in unset' \/ Shows(crtcs'[call'.of[i]], call'.final[i])
    <3>1. CASE i = Len(call.final) + 1
      <4>1. call'.of[i] = call.id /\ call'.final[i] = d
        BY <1>2, <2>1, <2>2, <3>1
      <4>2. call.id \in 0..call'.id - 1
        BY <1>1, <1>2
      <4> QED
        BY <1>6, <4>1, <4>2 DEF Becomes
    <3>2. CASE i # Len(call.final) + 1
      <4>1. i \in 1..Len(call.final)
        BY <1>2, <2>1, <2>3, <3>2
      <4>2. call'.of[i] = call.of[i] /\ call'.final[i] = call.final[i]
        BY <1>2, <2>1, <2>2, <4>1
      <4> QED
        BY <1>4, <4>1, <4>2
    <3> QED
      BY <3>1, <3>2
  <2> QED
    BY <1>1, <1>3, <2>3 DEF Reported
<1> QED
  BY <1>5, <1>6

\* A step within a display leaves those settled before it alone.
LEMMA ContinueReports ==
  ASSUME CallOK, Reported, call.at \in Setting, NEW step \in Setting, Continue(step),
         support' = support, refusals' \in Nat, refusals' >= refusals, OthersKept,
         step \in {"delete", "destroy"} => Becomes(Wanted)
  PROVE  Reported'
<1>1. /\ call'.at = step /\ call'.req = call.req /\ call'.id = call.id
      /\ call'.final = call.final /\ call'.of = call.of
  BY Continued
<1>2. ReportedIsActual'
  BY <1>1, BusyHasNotReturned DEF ReportedIsActual, Setting
<1>3. Wanted' = Wanted
  BY <1>1 DEF Wanted
<1>4. ASSUME NEW i \in 1..Len(call.final)
      PROVE  /\ call.of[i] \in 0..call.id - 1
             /\ call.of[i] \in unset' \/ Shows(crtcs'[call.of[i]], call.final[i])
  <2>1. /\ call.of[i] \in 0..call.id - 1
        /\ call.of[i] \in unset \/ Shows(crtcs[call.of[i]], call.final[i])
    BY DEF Reported
  <2>2. call.of[i] \in Ids /\ call.of[i] # call.id
    BY <2>1, SettledIds
  <2> QED
    BY <2>1, <2>2 DEF OthersKept
<1> QED
  BY <1>1, <1>2, <1>3, <1>4 DEF Reported, Becomes

\* The call goes from one part of its work to the next.
LEMMA MovesReport ==
  ASSUME CallOK, Reported, crtcs' = crtcs, unset' = unset \/ call.final = << >>,
         call'.id = call.id, call'.final = call.final, call'.of = call.of,
         call'.at \notin {"none", "delete", "destroy"}
  PROVE  Reported'
<1>1. ReportedIsActual'
  BY BusyHasNotReturned DEF ReportedIsActual
<1>2. CASE unset' = unset
  BY <1>1, <1>2 DEF Reported
<1>3. CASE call.final = << >>
  <2>1. 1..Len(call.final) = {}
    BY <1>3
  <2> QED
    BY <1>1, <2>1 DEF Reported
<1> QED
  BY <1>2, <1>3

LEMMA ReportedInit ==
  ASSUME XBackendInit
  PROVE  Reported
<1>1. call = NoCall /\ returned = NothingReturned
  BY DEF XBackendInit
<1>2. ~HasReturned
  BY <1>1 DEF HasReturned
<1>3. call.final = << >> /\ call.at = "none"
  BY <1>1 DEF NoCall
<1>4. 1..Len(call.final) = {}
  BY <1>3
<1> QED
  BY <1>2, <1>3, <1>4 DEF Reported, ReportedIsActual

LEMMA ReportedInCall ==
  ASSUME CallOK, Reported, InCall
  PROVE  Reported'
<1>0. /\ refusals' \in Nat /\ refusals' >= refusals /\ support' = support
      /\ call \in Call
  BY DisplaysKeep DEF CallOK, XBackendTypeOK
<1>1. call.at \in Setting => Wanted \in Display /\ call.id \in Ids /\ crtcs[call.id] \in Display
  BY WantedIsDisplay DEF CallOK, XBackendTypeOK
<1>2. CASE GrabServer \/ ExpandScreen \/ TrimScreen
  <2>1. /\ call'.id = call.id /\ call'.final = call.final /\ call'.of = call.of
        /\ call'.at \in {"expand", "set", "return"}
    BY <1>0, <1>2 DEF GrabServer, ExpandScreen, TrimScreen, Continue, Call
  <2>2. crtcs' = crtcs
    BY <1>2 DEF GrabServer, ExpandScreen, TrimScreen, randrVars
  <2>3. unset' = unset \/ call.final = << >>
    BY <1>2 DEF GrabServer, ExpandScreen, TrimScreen, randrVars, At, CallOK, Progress
  <2> QED
    BY <2>1, <2>2, <2>3, MovesReport
<1>3. CASE ReadCrtc
  <2>1. call.at = "set" /\ call.at \in Setting /\ crtcs' = crtcs /\ unset' = unset
    BY <1>3 DEF ReadCrtc, At, Setting, randrVars
  <2>2. ASSUME Unchanged(crtcs[call.id]), Settle(<<Wanted>>, FALSE, FALSE)
        PROVE  Reported'
    <3>1. Becomes(Wanted) /\ OthersKept
      BY <2>1, <2>2 DEF Unchanged, Shows, Becomes, OthersKept
    <3> QED
      BY <1>0, <1>1, <2>1, <2>2, <3>1, SettleReports
  <2>3. ASSUME NEW step \in {"get", "config", "mode"},
               call' = [call EXCEPT !.old = crtcs[call.id], !.at = step]
        PROVE  Reported'
    <3>1. /\ call'.id = call.id /\ call'.final = call.final /\ call'.of = call.of /\ call'.at = step
      BY <1>0, <2>3 DEF Call
    <3> QED
      BY <2>1, <3>1, MovesReport
  <2>4. ASSUME Continue("get")
        PROVE  Reported'
    <3>1. /\ call'.id = call.id /\ call'.final = call.final /\ call'.of = call.of /\ call'.at = "get"
      BY <1>0, <2>4 DEF Call, Continue
    <3> QED
      BY <2>1, <3>1, MovesReport
  <2>5. \/ Unchanged(crtcs[call.id]) /\ Settle(<<Wanted>>, FALSE, FALSE)
        \/ Continue("get")
        \/ \E step \in {"get", "config", "mode"} :
             call' = [call EXCEPT !.old = crtcs[call.id], !.at = step]
    BY <1>3 DEF ReadCrtc
  <2> QED
    BY <2>2, <2>3, <2>4, <2>5
<1>4. CASE FindMode \/ AddMode
  <2>1. call.at \in Setting /\ crtcs' = crtcs /\ unset' = unset
    BY <1>4 DEF FindMode, AddMode, At, Setting
  <2>2. PICK step \in {"add", "config", "get"} : Continue(step)
    BY <1>4 DEF FindMode, AddMode
  <2>3. /\ call'.id = call.id /\ call'.final = call.final /\ call'.of = call.of /\ call'.at = step
    BY <1>0, <2>2 DEF Call, Continue
  <2> QED
    BY <2>1, <2>3, MovesReport
<1>5. CASE SetCrtcConfig
  <2> DEFINE config == IF Wanted.on THEN Wanted ELSE Off
  <2>1. call.at = "config" /\ call.at \in Setting
    BY <1>5 DEF SetCrtcConfig, At, Setting
  <2> DEFINE sets == crtcs' = [crtcs EXCEPT ![call.id] = config] /\ unset' = unset
  <2> DEFINE refuses == crtcs' = crtcs /\ unset' = unset \union {call.id}
  <2>2. ASSUME sets \/ refuses
        PROVE  Becomes(Wanted) /\ OthersKept
    <3>1. crtcs \in [Ids -> Display]
      BY DEF CallOK, XBackendTypeOK
    <3>2. CASE sets
      BY <1>1, <2>1, <3>1, <3>2 DEF Shows, Off, Becomes, OthersKept
    <3>3. CASE refuses
      BY <3>3 DEF Becomes, OthersKept
    <3> QED
      BY <2>2, <3>2, <3>3
  <2>3. \/ (sets \/ refuses) /\ Continue("delete")
        \/ (sets \/ refuses) /\ Settle(<<Wanted>>, TRUE, FALSE)
        \/ crtcs' = crtcs /\ unset' = unset /\ Continue("get")
    BY <1>5 DEF SetCrtcConfig
  <2> HIDE DEF sets, refuses
  <2>4. CASE (sets \/ refuses) /\ Continue("delete")
    BY <1>0, <2>1, <2>2, <2>4, ContinueReports DEF Setting
  <2>5. CASE (sets \/ refuses) /\ Settle(<<Wanted>>, TRUE, FALSE)
    BY <1>0, <1>1, <2>1, <2>2, <2>5, SettleReports
  <2>6. CASE crtcs' = crtcs /\ unset' = unset /\ Continue("get")
    <3>1. OthersKept
      BY <2>6 DEF OthersKept
    <3> QED
      BY <1>0, <2>1, <2>6, <3>1, ContinueReports DEF Setting
  <2> QED
    BY <2>3, <2>4, <2>5, <2>6
<1>6. CASE DeleteMode \/ DestroyMode
  <2>1. /\ call.at \in {"delete", "destroy"} /\ call.at \in Setting
        /\ crtcs' = crtcs /\ unset' = unset
    BY <1>6 DEF DeleteMode, DestroyMode, At, Setting
  <2>2. Becomes(Wanted) /\ OthersKept
    BY <2>1 DEF Reported, Becomes, OthersKept
  <2>3. CASE Continue("destroy")
    BY <1>0, <2>1, <2>2, <2>3, ContinueReports DEF Setting
  <2>4. CASE Settle(<<Wanted>>, TRUE, FALSE)
    BY <1>0, <1>1, <2>1, <2>2, <2>4, SettleReports
  <2> QED
    BY <1>6, <2>3, <2>4 DEF DeleteMode, DestroyMode
<1>7. CASE GetDisplay
  <2>1. /\ call.at \in Setting /\ crtcs' = crtcs /\ unset' = unset
    BY <1>7 DEF GetDisplay, At, Setting, randrVars
  <2>0. OthersKept
    BY <2>1 DEF OthersKept
  <2>2. CASE Settle(<<Current(call.id)>>, FALSE, TRUE)
    <3>1. Current(call.id) \in Display /\ Becomes(Current(call.id))
      BY <1>1, <2>1 DEF Current, Shows, Becomes
    <3> QED
      BY <1>0, <2>0, <2>1, <2>2, <3>1, SettleReports
  <2>3. CASE Settle(<< >>, FALSE, TRUE)
    BY <1>0, <2>0, <2>1, <2>3, SettleReports
  <2> QED
    BY <1>7, <2>2, <2>3 DEF GetDisplay
<1>8. CASE Return
  <2>1. /\ call' = NoCall
        /\ returned'.displays = call.final
        /\ returned'.of = call.of
        /\ crtcs' = crtcs /\ unset' = unset
    BY <1>8 DEF Return, randrVars
  <2>2. DOMAIN call.final = 1..Len(call.final)
    BY <1>0 DEF Call
  <2>3. ReportedIsActual'
    BY <2>1, <2>2 DEF Reported, ReportedIsActual
  <2>4. call'.final = << >> /\ call'.at = "none"
    BY <2>1 DEF NoCall
  <2>5. 1..Len(call'.final) = {}
    BY <2>4
  <2> QED
    BY <2>3, <2>4, <2>5 DEF Reported
<1> QED
  BY <1>2, <1>3, <1>4, <1>5, <1>6, <1>7, <1>8 DEF InCall

LEMMA ReportedStep ==
  ASSUME CallOK, Reported, [XBackendNext]_backendVars
  PROVE  Reported'
<1>1. CASE Quiet \/ Resizes
  <2>1. UNCHANGED <<crtcs, unset, call, returned>>
    BY <1>1 DEF Quiet, Resizes, OtherClientResizes, randrVars, callVars
  <2> QED
    BY <2>1 DEF Reported, ReportedIsActual, HasReturned, Wanted
<1>2. CASE Calls
  <2>1. call'.at = "grab" /\ call'.final = << >>
    BY <1>2 DEF Calls, SetDisplaysCall, NoCall
  <2>2. 1..Len(call'.final) = {}
    BY <2>1
  <2> QED
    BY <2>1, <2>2, BusyHasNotReturned DEF Reported, ReportedIsActual
<1>3. CASE InCall
  BY <1>3, ReportedInCall
<1> QED
  BY <1>1, <1>2, <1>3, SortSteps

\* The type invariant of the X backend.
THEOREM XBackendTypes == XBackendSpec => []CallOK
<1>1. CallOK /\ [XBackendNext]_backendVars => CallOK'
  BY CallStep
<1>2. XBackendInit => CallOK
  BY CallInit
<1> QED
  BY <1>1, <1>2, PTL DEF XBackendSpec

\* set_displays reports what the CRTCs show, whichever requests are answered with
\* an error; only a SetCrtcConfig refused by its status goes unnoticed.
THEOREM DisplaysAsReported == XBackendSpec => []ReportedIsActual
<1>1. CallOK /\ Reported /\ [XBackendNext]_backendVars => Reported'
  BY ReportedStep
<1>2. XBackendInit => Reported
  BY ReportedInit
<1>3. Reported => ReportedIsActual
  BY DEF Reported
<1> QED
  BY <1>1, <1>2, <1>3, XBackendTypes, PTL DEF XBackendSpec

-----------------------------------------------------------------------------
(* The screen.                                                             *)

LEMMA NatLeast ==
  ASSUME NEW S, S \subseteq Nat, S # {}
  PROVE  \E x \in S : \A y \in S : x <= y
<1>1. PICK R : R = OpToRel(<, Nat)
  OBVIOUS
<1>2. IsWellFoundedOn(R, Nat)
  BY <1>1, NatLessThanWellFounded
<1>3. PICK x \in S : \A y \in S : ~(<<y, x>> \in R)
  BY <1>2, WFMin
<1>4. \A y \in S : ~(y < x)
  <2> SUFFICES ASSUME NEW y \in S, y < x PROVE FALSE
    OBVIOUS
  <2>1. <<y, x>> \in R
    BY <1>1 DEF OpToRel
  <2> QED BY <1>3, <2>1
<1> QED BY <1>4

LEMMA MinIsLeast ==
  ASSUME NEW S, S \subseteq Nat, S # {}
  PROVE  Min(S) \in S /\ \A y \in S : Min(S) <= y
  BY NatLeast DEF Min

LEMMA MaxIsGreatest ==
  ASSUME NEW n \in Nat, NEW S, S \subseteq 0..n, S # {}
  PROVE  Max(S) \in S /\ \A y \in S : y <= Max(S)
<1> DEFINE T == {n - s : s \in S}
<1>1. T \subseteq Nat /\ T # {}
  <2>1. \A s \in S : n - s \in Nat
    OBVIOUS
  <2>2. PICK s \in S : TRUE
    OBVIOUS
  <2>3. n - s \in T
    OBVIOUS
  <2> QED
    BY <2>1, <2>3
<1>2. PICK t \in T : \A u \in T : t <= u
  BY <1>1, NatLeast
<1>3. PICK x \in S : t = n - x
  OBVIOUS
<1>4. \A y \in S : x >= y
  BY <1>2, <1>3
<1>5. \E z \in S : \A y \in S : z >= y
  BY <1>4
<1>6. Max(S) \in S /\ \A y \in S : Max(S) >= y
  BY <1>5 DEF Max
<1> QED
  BY <1>6

\* The extent of displays that are within a screen: one of them reaches it, on
\* either side, and none goes beyond.
LEMMA ExtentReached ==
  ASSUME NEW width \in Nat, NEW height \in Nat, NEW displays \in Seq(Display),
         \A d \in Enabled(displays) : d.x + d.w <= width /\ d.y + d.h <= height,
         Enabled(displays) # {}
  PROVE  /\ \E d \in Enabled(displays) : derive_extent(displays)[1] = d.x + d.w
         /\ \E d \in Enabled(displays) : derive_extent(displays)[2] = d.y + d.h
         /\ \A d \in Enabled(displays) :
              d.x + d.w <= derive_extent(displays)[1] /\ d.y + d.h <= derive_extent(displays)[2]
         /\ derive_extent(displays) \in (0..width) \X (0..height)
<1> DEFINE Right == {d.x + d.w : d \in Enabled(displays)}
           Low == {d.y + d.h : d \in Enabled(displays)}
<1>1. Enabled(displays) \subseteq Display
  <2>1. Range(displays) \subseteq Display
    BY DEF Range
  <2> QED
    BY <2>1 DEF Enabled
<1>2. Right \subseteq 0..width /\ Right # {} /\ Low \subseteq 0..height /\ Low # {}
  BY <1>1 DEF Display
<1>3. derive_extent(displays) = <<Max(Right), Max(Low)>>
  BY DEF derive_extent
<1>4. Max(Right) \in Right /\ \A y \in Right : y <= Max(Right)
  BY <1>2, MaxIsGreatest
<1>5. Max(Low) \in Low /\ \A y \in Low : y <= Max(Low)
  BY <1>2, MaxIsGreatest
<1>6. derive_extent(displays)[1] = Max(Right) /\ derive_extent(displays)[2] = Max(Low)
  BY <1>3
<1>7. /\ \E d \in Enabled(displays) : Max(Right) = d.x + d.w
      /\ \A d \in Enabled(displays) : d.x + d.w <= Max(Right)
  BY <1>4
<1>8. /\ \E d \in Enabled(displays) : Max(Low) = d.y + d.h
      /\ \A d \in Enabled(displays) : d.y + d.h <= Max(Low)
  BY <1>5
<1>9. Max(Right) \in 0..width /\ Max(Low) \in 0..height
  BY <1>2, <1>4, <1>5
<1> HIDE DEF Right, Low
<1> QED
  BY <1>3, <1>6, <1>7, <1>8, <1>9

LEMMA ContainedInit ==
  ASSUME XBackendInit
  PROVE  Contained
<1>1. /\ MinWidth \in Nat \ {0} /\ MaxWidth \in Nat /\ MinWidth <= MaxWidth
      /\ MinHeight \in Nat \ {0} /\ MaxHeight \in Nat /\ MinHeight <= MaxHeight
  BY BackendAssumption
<1>2. PICK size \in {<<MinWidth, MinHeight>>, <<MaxWidth, MaxHeight>>},
           mode \in {<<MinWidth, MinHeight>>, <<MaxWidth, MaxHeight>>} :
        XStarts(size, mode) /\ (mode = size \/ mode = <<MinWidth, MinHeight>>)
  BY DEF XBackendInit
<1>3. mode[1] \in Nat /\ mode[2] \in Nat /\ mode[1] <= size[1] /\ mode[2] <= size[2]
  <2>1. CASE mode = size
    BY <1>1, <2>1
  <2>2. CASE mode = <<MinWidth, MinHeight>>
    BY <1>1, <2>2
  <2> QED
    BY <1>2, <2>1, <2>2
<1>4. ASSUME NEW id \in Ids
      PROVE  OnScreen(screen, crtcs[id])
  <2>1. /\ screen = size
        /\ crtcs[id] = IF id = 0
                         THEN [on |-> TRUE, x |-> 0, y |-> 0, w |-> mode[1], h |-> mode[2]]
                         ELSE Off
    BY <1>2 DEF XStarts
  <2>2. CASE id = 0
    BY <1>3, <2>1, <2>2 DEF OnScreen
  <2>3. CASE id # 0
    BY <2>1, <2>3 DEF OnScreen, Off
  <2> QED
    BY <2>2, <2>3
<1> QED
  BY <1>4 DEF Contained

\* The server refuses what would take a CRTC off the screen.
LEMMA ContainedStep ==
  ASSUME CallOK, Contained, [XBackendNext]_backendVars
  PROVE  Contained'
<1>1. CASE UNCHANGED <<screen, crtcs>>
  BY <1>1 DEF Contained
<1>2. ASSUME NEW size, AcceptsScreenSize(size), screen' = size, crtcs' = crtcs
      PROVE  Contained'
  BY <1>2 DEF AcceptsScreenSize, Contained
<1>3. CASE ExpandScreen \/ TrimScreen
  <2>1. crtcs' = crtcs
    BY <1>3 DEF ExpandScreen, TrimScreen, randrVars
  <2>2. PICK size : ResizeScreen(size)
    BY <1>3 DEF ExpandScreen, TrimScreen
  <2> QED
    BY <1>1, <1>2, <2>1, <2>2 DEF ResizeScreen
<1>4. CASE SetCrtcConfig
  <2> DEFINE config == IF Wanted.on THEN Wanted ELSE Off
  <2>1. screen' = screen /\ call.id \in Ids /\ crtcs \in [Ids -> Display]
    BY <1>4, WantedIsDisplay DEF SetCrtcConfig, At, Setting, CallOK, XBackendTypeOK
  <2>2. CASE OnScreen(screen, config) /\ crtcs' = [crtcs EXCEPT ![call.id] = config]
    <3>1. \A id \in Ids : crtcs'[id] = IF id = call.id THEN config ELSE crtcs[id]
      BY <2>1, <2>2
    <3> HIDE DEF config
    <3> QED
      BY <2>1, <2>2, <3>1 DEF Contained
  <2> QED
    BY <1>1, <1>4, <2>1, <2>2 DEF SetCrtcConfig, AcceptsCrtcConfig
<1>5. CASE InCall /\ ~ExpandScreen /\ ~TrimScreen /\ ~SetCrtcConfig
  <2>1. UNCHANGED <<screen, crtcs>>
    BY <1>5 DEF InCall, GrabServer, ReadCrtc, FindMode, AddMode,
      DeleteMode, DestroyMode, GetDisplay, Return, randrVars
  <2> QED
    BY <1>1, <2>1
<1>6. CASE Quiet \/ Calls
  BY <1>1, <1>6 DEF Quiet, Calls, randrVars
<1>7. CASE Resizes
  BY <1>2, <1>7 DEF Resizes, OtherClientResizes, randrVars
<1> QED
  BY <1>3, <1>4, <1>5, <1>6, <1>7, SortSteps

-----------------------------------------------------------------------------
(* Requests that fit.                                                      *)

\* The screen that is asked for first is large enough, and is not refused.
LEMMA ExpandedHolds ==
  ASSUME CallOK, Contained, Fits(call.req)
  PROVE  /\ AcceptsScreenSize(Expanded)
         /\ \A i \in DOMAIN call.req : OnScreen(Expanded, call.req[i])
<1> DEFINE displays == call.req
           A == {e[1] : e \in Extents(displays)}
           B == {e[2] : e \in Extents(displays)}
<1>1. /\ screen[1] \in 1..MaxWidth /\ screen[2] \in 1..MaxHeight
      /\ displays \in Seq(Display)
      /\ crtcs \in [Ids -> Display]
      /\ MaxWidth \in Nat /\ MaxHeight \in Nat
  BY BackendAssumption DEF CallOK, XBackendTypeOK, Call
<1>2. \A d \in Enabled(displays) : /\ d \in Display /\ d.on
                                   /\ d.x + d.w <= MaxWidth /\ d.y + d.h <= MaxHeight
  <2>1. SUFFICES ASSUME NEW i \in DOMAIN displays, displays[i].on
                 PROVE  /\ displays[i] \in Display
                        /\ displays[i].x + displays[i].w <= MaxWidth
                        /\ displays[i].y + displays[i].h <= MaxHeight
    BY DEF Enabled, Range
  <2> QED
    BY <1>1, <2>1 DEF Fits, InBounds
<1> HIDE DEF displays
<1>3. /\ A \subseteq 0..MaxWidth /\ B \subseteq 0..MaxHeight
      /\ screen[1] \in A /\ screen[2] \in B
      /\ \A d \in Enabled(displays) : \E a \in A, b \in B : d.x + d.w <= a /\ d.y + d.h <= b
  <2>1. CASE Enabled(displays) = {}
    <3>1. Extents(displays) = {screen}
      BY <2>1 DEF Extents
    <3> QED
      BY <1>1, <2>1, <3>1
  <2>2. CASE Enabled(displays) # {}
    <3> DEFINE ext == derive_extent(displays)
    <3>1. Extents(displays) = {screen, ext}
      BY <2>2 DEF Extents
    <3>2. /\ ext[1] \in 0..MaxWidth /\ ext[2] \in 0..MaxHeight
          /\ \A d \in Enabled(displays) : d.x + d.w <= ext[1] /\ d.y + d.h <= ext[2]
      BY <1>1, <1>2, <2>2, ExtentReached
    <3> HIDE DEF ext
    <3>3. A = {screen[1], ext[1]} /\ B = {screen[2], ext[2]}
      BY <3>1
    <3> HIDE DEF A, B
    <3>4. A \subseteq 0..MaxWidth /\ B \subseteq 0..MaxHeight
      <4>1. screen[1] \in 0..MaxWidth /\ screen[2] \in 0..MaxHeight
        BY <1>1
      <4> QED
        BY <3>2, <3>3, <4>1
    <3>5. ext[1] \in A /\ ext[2] \in B /\ screen[1] \in A /\ screen[2] \in B
      BY <3>3
    <3> QED
      BY <3>2, <3>4, <3>5
  <2> QED
    BY <2>1, <2>2
<1>4. Expanded = <<Max(A), Max(B)>>
  BY DEF Expanded, displays
<1> HIDE DEF A, B
<1>5. Max(A) \in A /\ \A a \in A : a <= Max(A)
  BY <1>1, <1>3, MaxIsGreatest
<1>6. Max(B) \in B /\ \A b \in B : b <= Max(B)
  BY <1>1, <1>3, MaxIsGreatest
<1>7. /\ Expanded[1] \in 1..MaxWidth /\ Expanded[2] \in 1..MaxHeight
      /\ screen[1] <= Expanded[1] /\ screen[2] <= Expanded[2]
  <2>1. Expanded[1] = Max(A) /\ Expanded[2] = Max(B)
    BY <1>4
  <2>2. Max(A) \in 0..MaxWidth /\ screen[1] <= Max(A)
    BY <1>3, <1>5
  <2>3. Max(B) \in 0..MaxHeight /\ screen[2] <= Max(B)
    BY <1>3, <1>6
  <2> QED
    BY <1>1, <2>1, <2>2, <2>3
<1>8. \A id \in Ids : OnScreen(Expanded, crtcs[id])
  <2> SUFFICES ASSUME NEW id \in Ids, crtcs[id].on
               PROVE  /\ crtcs[id].x + crtcs[id].w <= Expanded[1]
                      /\ crtcs[id].y + crtcs[id].h <= Expanded[2]
    BY DEF OnScreen
  <2>1. /\ crtcs[id].x + crtcs[id].w <= screen[1] /\ crtcs[id].y + crtcs[id].h <= screen[2]
    BY DEF Contained, OnScreen
  <2>2. crtcs[id] \in Display
    BY <1>1
  <2> QED
    BY <1>1, <1>7, <2>1, <2>2 DEF Display
<1>9. ASSUME NEW i \in DOMAIN displays
      PROVE  OnScreen(Expanded, displays[i])
  <2> SUFFICES ASSUME displays[i].on
               PROVE  /\ displays[i].x + displays[i].w <= Expanded[1]
                      /\ displays[i].y + displays[i].h <= Expanded[2]
    BY DEF OnScreen
  <2>1. displays[i] \in Enabled(displays) /\ displays[i] \in Display
    BY <1>1, <1>9 DEF Enabled, Range
  <2>2. PICK a \in A, b \in B : displays[i].x + displays[i].w <= a /\ displays[i].y + displays[i].h <= b
    BY <1>3, <2>1
  <2>3. a <= Expanded[1] /\ b <= Expanded[2] /\ a \in Nat /\ b \in Nat
    BY <1>3, <1>4, <1>5, <1>6
  <2>4. /\ displays[i].x + displays[i].w \in Nat /\ displays[i].y + displays[i].h \in Nat
        /\ Expanded[1] \in Nat /\ Expanded[2] \in Nat
    <3>1. /\ displays[i].x \in Nat /\ displays[i].w \in Nat
          /\ displays[i].y \in Nat /\ displays[i].h \in Nat
      BY <2>1 DEF Display
    <3>2. Expanded[1] \in Nat /\ Expanded[2] \in Nat
      BY <1>1, <1>7
    <3> QED
      BY <3>1, <3>2
  <2> QED
    BY <2>2, <2>3, <2>4
<1> QED
  BY <1>7, <1>8, <1>9 DEF AcceptsScreenSize, displays

LEMMA HonouredInit ==
  ASSUME XBackendInit
  PROVE  Honoured
<1>1. call = NoCall /\ returned = NothingReturned
  BY DEF XBackendInit
<1>2. ~HasReturned
  BY <1>1 DEF HasReturned
<1>3. call.at = "none"
  BY <1>1 DEF NoCall
<1> QED
  BY <1>2, <1>3 DEF Honoured, Grantable, RequestHonoured

\* A step of a call under way that may still be granted was granted.
LEMMA WasGrantable ==
  ASSUME CallOK, Grantable', call.at \notin {"none", "grab"},
         Granted \/ Refused, call'.req = call.req, call'.from = call.from
  PROVE  Grantable /\ refusals' = refusals /\ Fits(call.req)
<1>1. call.from <= refusals /\ refusals \in Nat /\ call.from \in Nat
  BY DEF CallOK, XBackendTypeOK, Progress, Call
<1>2. refusals' = call.from
  BY DEF Grantable
<1>3. Fits(call.req)
  BY DEF Grantable, Fits, Converts, InBounds
<1> QED
  BY <1>1, <1>2, <1>3 DEF Grantable, Granted, Refused

\* A display that is settled as it was asked for.
LEMMA SettleGrants ==
  ASSUME CallOK, Honoured, call.at \in Setting, Granted \/ Refused,
         Settle(<<Wanted>>, TRUE, FALSE) \/ Settle(<<Wanted>>, FALSE, FALSE),
         UNCHANGED <<screen, grabbed, support>>
  PROVE  Honoured'
<1>1. /\ call'.id = call.id + 1 /\ call'.at \in {"set", "trim"}
      /\ call'.final = call.final \o <<Wanted>>
      /\ call'.req = call.req /\ call'.from = call.from
      /\ call'.errors = call.errors
  <2>0. /\ refusals' \in Nat /\ refusals' >= refusals
        /\ Wanted \in Display /\ call.errors \in BOOLEAN
    BY RefusalsGrow, WantedIsDisplay DEF CallOK, XBackendTypeOK, Call
  <2>1. CASE Settle(<<Wanted>>, TRUE, FALSE)
    BY <2>0, <2>1, Settled
  <2>2. CASE Settle(<<Wanted>>, FALSE, FALSE)
    BY <2>0, <2>2, Settled
  <2> QED
    BY <2>1, <2>2
<1>2. RequestHonoured'
  BY <1>1, BusyHasNotReturned DEF RequestHonoured
<1>3. ASSUME Grantable'
      PROVE  Granting'
  <2>1. Granting
    BY <1>1, <1>3, WasGrantable DEF Honoured, Setting
  <2>2. /\ call.final \in Seq(Display) /\ call.id \in Nat
        /\ Len(call.final) = call.id /\ Wanted \in Display
    BY <2>1, WantedIsDisplay DEF Granting, CallOK, XBackendTypeOK, Call
  <2>3. Wanted = call.req[call.id + 1]
    BY DEF Wanted
  <2>4. /\ Len(call'.final) = call.id + 1
        /\ \A i \in 1..call.id : call'.final[i] = call.final[i]
        /\ call'.final[call.id + 1] = Wanted
    BY <1>1, <2>2, PushedLast
  <2>5. \A i \in 1..call'.id : call'.final[i] = call'.req[i]
    <3> SUFFICES ASSUME NEW i \in 1..call.id + 1
                 PROVE  call'.final[i] = call.req[i]
      BY <1>1
    <3>1. CASE i = call.id + 1
      BY <2>3, <2>4, <3>1
    <3>2. CASE i # call.id + 1
      <4>1. i \in 1..call.id
        BY <2>2, <3>2
      <4> QED
        BY <2>1, <2>4, <4>1 DEF Granting
    <3> QED
      BY <3>1, <3>2
  <2>6. \A i \in DOMAIN call'.req : OnScreen(screen', call'.req[i])
    BY <1>1, <2>1 DEF Granting
  <2> QED
    BY <1>1, <2>1, <2>4, <2>5, <2>6 DEF Granting
<1> QED
  BY <1>2, <1>3 DEF Honoured

\* Any other step that goes on with the same display.
LEMMA ContinueGrants ==
  ASSUME CallOK, Honoured, call.at \in Setting, Granted \/ Refused,
         UNCHANGED <<screen, grabbed>>,
         call'.at \in Setting, call'.at # "get" \/ ~Grantable',
         call'.id = call.id, call'.final = call.final, call'.req = call.req,
         call'.from = call.from, call'.errors = call.errors
  PROVE  Honoured'
<1>1. RequestHonoured'
  BY BusyHasNotReturned DEF RequestHonoured, Setting
<1>2. ASSUME Grantable'
      PROVE  Granting'
  <2>1. Granting
    BY <1>2, WasGrantable DEF Honoured, Setting
  <2> QED
    BY <1>2, <2>1 DEF Granting
<1> QED
  BY <1>1, <1>2 DEF Honoured

LEMMA HonouredInCall ==
  ASSUME CallOK, Contained, Honoured, InCall
  PROVE  Honoured'
<1>0. /\ call \in Call /\ refusals \in Nat /\ call.from \in Nat /\ call.from <= refusals
  BY DEF CallOK, XBackendTypeOK, Call, Progress
<1>1. call.at \in Setting => Wanted \in Display /\ call.id + 1 \in DOMAIN call.req
  BY WantedIsDisplay
<1>2. ASSUME Refused, call'.from = call.from
      PROVE  ~Grantable'
  BY <1>0, <1>2 DEF Refused, Grantable
<1>3. CASE GrabServer
  <2>1. /\ call.at = "grab"
        /\ call'.at = "expand" /\ call'.id = call.id /\ call'.final = call.final
        /\ call'.errors = call.errors /\ call'.from = call.from
    BY <1>0, <1>3 DEF GrabServer, At, Call
  <2>2. RequestHonoured'
    BY <2>1, BusyHasNotReturned DEF RequestHonoured
  <2>3. call.id = 0 /\ call.final = << >> /\ ~call.errors
    BY <2>1 DEF CallOK, Progress
  <2>4. ASSUME Grantable' PROVE grabbed'
    BY <1>2, <1>3, <2>1, <2>4 DEF GrabServer, Grabs
  <2> QED
    BY <2>1, <2>2, <2>3, <2>4 DEF Honoured, Granting, Setting
<1>4. CASE ExpandScreen
  <2>1. /\ call.at = "expand" /\ call'.at = "set"
        /\ call'.id = call.id /\ call'.final = call.final /\ call'.req = call.req
        /\ call'.errors = call.errors /\ call'.from = call.from
        /\ grabbed' = grabbed
        /\ ResizeScreen(Expanded)
    BY <1>0, <1>4 DEF ExpandScreen, At, Continue, Call
  <2>2. RequestHonoured'
    BY <2>1, BusyHasNotReturned DEF RequestHonoured
  <2>3. ASSUME Grantable' PROVE Granting'
    <3>1. Granted \/ Refused
      BY <2>1 DEF ResizeScreen
    <3>2. Grantable /\ refusals' = refusals /\ Fits(call.req)
      BY <2>1, <2>3, <3>1, WasGrantable
    <3>3. Granting
      BY <3>2 DEF Honoured
    <3>4. /\ AcceptsScreenSize(Expanded)
          /\ \A i \in DOMAIN call.req : OnScreen(Expanded, call.req[i])
      BY <3>2, ExpandedHolds
    <3>5. screen' = Expanded
      BY <1>2, <2>1, <2>3, <3>4 DEF ResizeScreen
    <3> QED
      BY <2>1, <3>3, <3>4, <3>5 DEF Granting
  <2> QED
    BY <2>2, <2>3 DEF Honoured
<1>5. CASE ReadCrtc
  <2>1. /\ call.at = "set" /\ call.at \in Setting /\ (Granted \/ Refused)
        /\ UNCHANGED <<screen, grabbed, support>>
    BY <1>5 DEF ReadCrtc, At, Setting, NotInCall
  <2>2. CASE Settle(<<Wanted>>, FALSE, FALSE)
    BY <2>1, <2>2, SettleGrants
  <2>3. CASE Refused /\ Continue("get")
    <3>1. /\ call'.id = call.id /\ call'.final = call.final /\ call'.at = "get"
          /\ call'.req = call.req /\ call'.from = call.from /\ call'.errors = call.errors
      BY <1>0, <2>3 DEF Call, Continue
    <3> QED
      BY <1>2, <2>1, <2>3, <3>1, ContinueGrants DEF Setting
  <2>4. ASSUME NEW step \in {"get", "config", "mode"},
               call' = [call EXCEPT !.old = crtcs[call.id], !.at = step],
               step = "get" => ~Converts(Wanted) \/ (Wanted.on /\ ~InBounds(Wanted))
        PROVE  Honoured'
    <3>1. /\ call'.id = call.id /\ call'.final = call.final /\ call'.at = step
          /\ call'.req = call.req /\ call'.from = call.from /\ call'.errors = call.errors
      BY <1>0, <2>4 DEF Call
    <3>2. step # "get" \/ ~Grantable'
      <4>1. ASSUME Grantable', step = "get" PROVE FALSE
        <5>1. Fits(call.req)
          BY <2>1, <3>1, <4>1, WasGrantable
        <5>2. Converts(Wanted) /\ (Wanted.on => InBounds(Wanted))
          BY <1>1, <2>1, <5>1 DEF Fits, Wanted
        <5> QED
          BY <2>4, <4>1, <5>2
      <4> QED
        BY <4>1
    <3> QED
      BY <2>1, <3>1, <3>2, ContinueGrants DEF Setting
  <2>5. \/ Settle(<<Wanted>>, FALSE, FALSE)
        \/ Refused /\ Continue("get")
        \/ \E step \in {"get", "config", "mode"} :
             /\ call' = [call EXCEPT !.old = crtcs[call.id], !.at = step]
             /\ step = "get" => ~Converts(Wanted) \/ (Wanted.on /\ ~InBounds(Wanted))
    <3>1. CASE ~Converts(Wanted)
      BY <1>5, <3>1 DEF ReadCrtc
    <3>2. CASE Converts(Wanted) /\ ~Wanted.on
      BY <1>5, <3>2 DEF ReadCrtc
    <3>3. CASE Converts(Wanted) /\ Wanted.on /\ InBounds(Wanted)
      BY <1>5, <3>3 DEF ReadCrtc
    <3>4. CASE Converts(Wanted) /\ Wanted.on /\ ~InBounds(Wanted)
      BY <1>5, <3>4 DEF ReadCrtc
    <3> QED
      BY <3>1, <3>2, <3>3, <3>4
  <2> QED
    BY <2>2, <2>3, <2>4, <2>5
<1>6. CASE FindMode \/ AddMode
  <2>1. /\ call.at \in Setting /\ (Granted \/ Refused)
        /\ UNCHANGED <<screen, grabbed>>
    BY <1>6 DEF FindMode, AddMode, At, Setting
  <2>2. PICK step \in {"add", "config", "get"} : Continue(step) /\ (step = "get" => Refused)
    BY <1>6 DEF FindMode, AddMode
  <2>3. /\ call'.id = call.id /\ call'.final = call.final /\ call'.at = step
        /\ call'.req = call.req /\ call'.from = call.from /\ call'.errors = call.errors
    BY <1>0, <2>2 DEF Call, Continue
  <2> QED
    BY <1>2, <2>1, <2>2, <2>3, ContinueGrants DEF Setting
<1>7. CASE SetCrtcConfig
  <2> DEFINE config == IF Wanted.on THEN Wanted ELSE Off
  <2>1. /\ call.at \in Setting /\ (Granted \/ Refused)
        /\ UNCHANGED <<screen, grabbed, support>>
    BY <1>7 DEF SetCrtcConfig, At, Setting, NotInCall
  <2>2. CASE Settle(<<Wanted>>, TRUE, FALSE)
    BY <2>1, <2>2, SettleGrants
  <2>3. ASSUME NEW step \in {"delete", "get"}, Continue(step),
               step = "get" => Refused \/ ~AcceptsCrtcConfig(config)
        PROVE  Honoured'
    <3>1. /\ call'.id = call.id /\ call'.final = call.final /\ call'.at = step
          /\ call'.req = call.req /\ call'.from = call.from /\ call'.errors = call.errors
      BY <1>0, <2>3 DEF Call, Continue
    <3>2. step # "get" \/ ~Grantable'
      <4>1. ASSUME Grantable', step = "get" PROVE FALSE
        <5>1. Granting
          BY <2>1, <3>1, <4>1, WasGrantable DEF Honoured, Setting
        <5>2. OnScreen(screen, Wanted)
          BY <1>1, <2>1, <5>1 DEF Granting, Wanted
        <5>3. AcceptsCrtcConfig(config)
          BY <5>2 DEF AcceptsCrtcConfig, OnScreen, Off
        <5> QED
          BY <1>2, <2>3, <3>1, <4>1, <5>3
      <4> QED
        BY <4>1
    <3> QED
      BY <2>1, <3>1, <3>2, ContinueGrants DEF Setting
  <2>4. \/ Settle(<<Wanted>>, TRUE, FALSE)
        \/ Continue("delete")
        \/ Continue("get") /\ (Refused \/ ~AcceptsCrtcConfig(config))
    BY <1>7 DEF SetCrtcConfig
  <2> QED
    BY <2>2, <2>3, <2>4
<1>8. CASE DeleteMode \/ DestroyMode
  <2>1. /\ call.at \in Setting /\ (Granted \/ Refused)
        /\ UNCHANGED <<screen, grabbed, support>>
    BY <1>8 DEF DeleteMode, DestroyMode, At, Setting, NotInCall
  <2>2. CASE Settle(<<Wanted>>, TRUE, FALSE)
    BY <2>1, <2>2, SettleGrants
  <2>3. CASE Continue("destroy")
    <3>1. /\ call'.id = call.id /\ call'.final = call.final /\ call'.at = "destroy"
          /\ call'.req = call.req /\ call'.from = call.from /\ call'.errors = call.errors
      BY <1>0, <2>3 DEF Call, Continue
    <3> QED
      BY <2>1, <3>1, ContinueGrants DEF Setting
  <2> QED
    BY <1>8, <2>2, <2>3 DEF DeleteMode, DestroyMode
<1>9. CASE GetDisplay
  <2>1. /\ call.at = "get" /\ (Granted \/ Refused)
    BY <1>9 DEF GetDisplay, At
  <2>2. /\ call'.at \in {"set", "trim"} /\ call'.req = call.req /\ call'.from = call.from
    BY <1>0, <1>9 DEF GetDisplay, Settle, Call
  <2>3. RequestHonoured'
    BY <2>2, BusyHasNotReturned DEF RequestHonoured
  <2>4. ~Grantable'
    BY <2>1, <2>2, WasGrantable DEF Honoured, Granting
  <2> QED
    BY <2>3, <2>4 DEF Honoured
<1>10. CASE TrimScreen
  <2>1. /\ call.at = "trim" /\ call'.at = "return"
        /\ call'.id = call.id /\ call'.final = call.final /\ call'.req = call.req
        /\ call'.errors = call.errors /\ call'.from = call.from
        /\ grabbed' = grabbed /\ (Granted \/ Refused)
    BY <1>0, <1>10 DEF TrimScreen, At, Continue, Call, ResizeScreen
  <2>2. RequestHonoured'
    BY <2>1, BusyHasNotReturned DEF RequestHonoured
  <2>3. Grantable' => Granting
    BY <2>1, WasGrantable DEF Honoured
  <2> QED
    BY <2>1, <2>2, <2>3 DEF Honoured, Granting, Setting
<1>11. CASE Return
  <2>1. /\ call.at = "return" /\ call' = NoCall
        /\ returned'.displays = call.final /\ returned'.req = call.req
        /\ returned'.ok = ~call.errors
        /\ returned'.clean = (refusals = call.from)
    BY <1>11 DEF Return, At
  <2>2. ASSUME returned'.clean,
               \A i \in DOMAIN call.req : call.req[i].on => InBounds(call.req[i]) /\ Converts(call.req[i]),
               \A i \in DOMAIN call.req : Converts(call.req[i])
        PROVE  ~call.errors /\ call.final = call.req
    <3>1. Granting
      BY <2>1, <2>2 DEF Honoured, Grantable, Fits
    <3>2. /\ call.final \in Seq(Display) /\ call.req \in Seq(Display)
          /\ Len(call.final) = call.id /\ Len(call.req) = call.id
      BY <2>1, <3>1 DEF Granting, CallOK, XBackendTypeOK, Call, Progress
    <3>3. call.final = call.req
      BY <3>1, <3>2, SameSeq DEF Granting
    <3> QED
      BY <3>1, <3>3 DEF Granting
  <2>3. RequestHonoured'
    BY <2>1, <2>2 DEF RequestHonoured, InBounds, Converts
  <2>4. call'.at = "none"
    BY <2>1 DEF NoCall
  <2> QED
    BY <2>3, <2>4 DEF Honoured, Grantable
<1> QED
  BY <1>3, <1>4, <1>5, <1>6, <1>7, <1>8, <1>9, <1>10, <1>11 DEF InCall

LEMMA HonouredStep ==
  ASSUME CallOK, Contained, Honoured, [XBackendNext]_backendVars
  PROVE  Honoured'
<1>1. CASE Quiet
  <2>1. UNCHANGED <<call, returned, screen, grabbed>> /\ (Granted \/ Refused)
    BY <1>1 DEF Quiet
  <2>2. RequestHonoured'
    BY <2>1 DEF Honoured, RequestHonoured, HasReturned, InBounds, Converts
  <2>3. Grantable' => Granting
    <3>1. CASE call.at \in {"none", "grab"}
      BY <2>1, <3>1 DEF Grantable
    <3>2. CASE call.at \notin {"none", "grab"}
      BY <2>1, <3>2, WasGrantable DEF Honoured
    <3> QED
      BY <3>1, <3>2
  <2> QED
    BY <2>1, <2>2, <2>3 DEF Honoured, Granting
<1>2. CASE Calls
  <2>1. call'.at = "grab"
    BY <1>2 DEF Calls, SetDisplaysCall, NoCall
  <2> QED
    BY <2>1, BusyHasNotReturned DEF Honoured, Grantable, RequestHonoured
<1>3. CASE InCall
  BY <1>3, HonouredInCall
<1>4. CASE Resizes
  <2>1. UNCHANGED <<call, returned, refusals>> /\ ~grabbed
    BY <1>4 DEF Resizes, OtherClientResizes, callVars
  <2>2. RequestHonoured'
    BY <2>1 DEF Honoured, RequestHonoured, HasReturned, InBounds, Converts
  <2>3. ~Grantable
    BY <2>1 DEF Honoured, Granting
  <2>4. ~Grantable'
    BY <2>1, <2>3 DEF Grantable, Fits, InBounds, Converts
  <2> QED
    BY <2>2, <2>4 DEF Honoured
<1> QED
  BY <1>1, <1>2, <1>3, <1>4, SortSteps

\* A request that fits is granted in full, whatever other clients of the X
\* server do, unless the server refuses a request for reasons of its own.
THEOREM FittingRequestGranted == XBackendSpec => []RequestHonoured
<1>1. CallOK /\ Contained /\ [XBackendNext]_backendVars => Contained'
  BY ContainedStep
<1>2. CallOK /\ Contained /\ Honoured /\ [XBackendNext]_backendVars => Honoured'
  BY HonouredStep
<1>3. XBackendInit => Contained /\ Honoured
  BY ContainedInit, HonouredInit
<1>4. Honoured => RequestHonoured
  BY DEF Honoured
<1> QED
  BY <1>1, <1>2, <1>3, <1>4, XBackendTypes, PTL DEF XBackendSpec

-----------------------------------------------------------------------------
(* The keyboard.                                                           *)

\* A step that leaves the keyboard and the session's calls alone.
LEMMA KeyboardAside ==
  ASSUME CallOK, KeyboardIInv, UNCHANGED <<keyVars, sessionVars>>, Granted \/ Refused,
         life' \in {"xvfb", "connect", "setup"} => stage = "none" /\ call' = NoCall,
         call'.by \in {"initialize", "session"} => stage = "none"
  PROVE  KeyboardIInv'
<1>1. Keyboard'
  BY DEF KeyboardIInv, Keyboard, keyVars, sessionVars, Ranged
<1>2. refusals' = 0 => refusals = 0
  BY RefusalsGrow
<1>3. KeysInOrder => KeysInOrder'
  BY DEF KeysInOrder, keyVars, sessionVars, Ranged, Lock, Differs
<1> QED
  BY <1>1, <1>2, <1>3 DEF KeyboardIInv

LEMMA KeyboardInit ==
  ASSUME XBackendInit
  PROVE  KeyboardIInv
<1>1. /\ stage = "none" /\ asked = {} /\ call = NoCall /\ down = {} /\ locks = {}
  BY DEF XBackendInit, XStarts
<1> QED
  BY <1>1 DEF KeyboardIInv, Keyboard, KeysInOrder, Stages

\* The calls of set_displays do not reach the keyboard.
LEMMA KeyboardInCall ==
  ASSUME CallOK, KeyboardIInv, InCall
  PROVE  KeyboardIInv'
<1>0. call \in Call /\ call # NoCall
  <2>1. call.at # "none"
    BY DEF InCall, GrabServer, ExpandScreen, ReadCrtc, FindMode, AddMode,
      SetCrtcConfig, DeleteMode, DestroyMode, GetDisplay, TrimScreen, Return, At
  <2>2. NoCall.at = "none"
    BY DEF NoCall
  <2> QED
    BY <2>1, <2>2 DEF CallOK, XBackendTypeOK
<1>1. life \notin {"xvfb", "connect", "setup"}
  BY <1>0 DEF KeyboardIInv, Keyboard
<1>2. CASE ~Return
  <2>1. call'.by = call.by
    BY <1>0, <1>2 DEF InCall, GrabServer, ExpandScreen, ReadCrtc, FindMode, AddMode,
      SetCrtcConfig, DeleteMode, DestroyMode, GetDisplay, TrimScreen, Continue, Settle, Call
  <2>2. UNCHANGED <<keyVars, sessionVars, life>>
    BY <1>2 DEF InCall, GrabServer, ExpandScreen, ReadCrtc, FindMode, AddMode,
      SetCrtcConfig, DeleteMode, DestroyMode, GetDisplay, TrimScreen, NotInCall
  <2>3. Granted \/ Refused
    BY <1>2 DEF InCall, GrabServer, ExpandScreen, ReadCrtc, FindMode, AddMode,
      SetCrtcConfig, DeleteMode, DestroyMode, GetDisplay, TrimScreen, ResizeScreen
  <2> QED
    BY <1>1, <2>1, <2>2, <2>3, KeyboardAside DEF KeyboardIInv, Keyboard
<1>3. CASE Return
  <2>1. /\ UNCHANGED <<keyVars, refusals, asked, todo>> /\ call' = NoCall
        /\ call'.by = "none"
    BY <1>3 DEF Return, NoCall
  <2>2. \/ call.by = "initialize" /\ life' \in {"failed", "ready"} /\ stage' \in {"none", "reset"}
        \/ call.by = "session" /\ life' = life /\ stage' \in {"none", "locks"}
        \/ UNCHANGED <<life, stage>>
    <3>1. CASE call.by = "initialize"
      BY <1>3, <3>1 DEF Return
    <3>2. CASE call.by = "session"
      BY <1>3, <3>2 DEF Return
    <3>3. CASE call.by \notin {"initialize", "session"}
      BY <1>3, <3>3 DEF Return
    <3> QED
      BY <3>1, <3>2, <3>3
  <2>3. CASE UNCHANGED <<life, stage>>
    BY <1>1, <2>1, <2>3, KeyboardAside DEF sessionVars, Granted
  <2>4. CASE /\ call.by \in {"initialize", "session"} /\ life' \in {"failed", "ready", life}
             /\ stage' \in {"none", "reset", "locks"}
    <3>1. stage = "none" /\ stage' \in Stages
      BY <2>4 DEF KeyboardIInv, Keyboard, Stages
    <3>2. Keyboard'
      BY <1>1, <2>1, <2>4, <3>1 DEF KeyboardIInv, Keyboard, keyVars, Ranged
    <3>3. KeysInOrder => KeysInOrder'
      BY <2>1, <2>4, <3>1 DEF KeysInOrder, keyVars
    <3> QED
      BY <2>1, <3>2, <3>3 DEF KeyboardIInv
  <2> QED
    BY <2>2, <2>3, <2>4
<1> QED
  BY <1>2, <1>3

\* The first lock to toggle has a key of its own.
LEMMA LockHasKey ==
  ASSUME todo # {}, todo \subseteq Ranged
  PROVE  /\ Lock \in todo /\ Lock \in DOMAIN LockKey
         /\ LockKey[Lock] \in MinKeycode..MaxKeycode
         /\ \A l \in DOMAIN LockKey : LockKey[l] = LockKey[Lock] => l = Lock
<1>1. Lock \in todo
  BY DEF Lock
<1>2. Lock \in DOMAIN LockKey /\ LockKey[Lock] > MinKeycode /\ LockKey[Lock] < MaxKeycode
  BY <1>1 DEF Ranged
<1>3. LockKey[Lock] \in Nat /\ MinKeycode \in Nat /\ MaxKeycode \in Nat
  BY <1>2, BackendAssumption
<1>4. LockKey[Lock] # 0
  BY <1>2, <1>3
<1> QED
  BY <1>1, <1>2, <1>3, <1>4, BackendAssumption

\* set_lock_state asks for the locks that differ, and toggles them one by one.
LEMMA KeyboardLocks ==
  ASSUME CallOK, KeyboardIInv, QueryLocks \/ PressLock \/ ReleaseLock
  PROVE  KeyboardIInv'
<1>0. /\ refusals' = 0 => refusals = 0
      /\ life' = life /\ call' = call /\ asked' = asked
      /\ life = "ready" /\ call = NoCall /\ call.by = "none"
  <2>1. Granted \/ Refused
    BY DEF QueryLocks, PressLock, ReleaseLock, Granted
  <2>2. /\ life' = life /\ call' = call /\ asked' = asked /\ Idle
    BY DEF QueryLocks, PressLock, ReleaseLock, callVars
  <2>3. NoCall.by = "none"
    BY DEF NoCall
  <2> QED
    BY <2>1, <2>2, <2>3, RefusalsGrow DEF Idle
<1>1. Keyboard /\ (refusals = 0 => KeysInOrder)
  BY DEF KeyboardIInv
<1>2. ASSUME stage' = "none", UNCHANGED keyVars, Refused
      PROVE  KeyboardIInv'
  <2>1. refusals' # 0
    BY <1>2 DEF Refused, CallOK, XBackendTypeOK
  <2> QED
    BY <1>0, <1>1, <1>2, <2>1 DEF KeyboardIInv, Keyboard, keyVars, Stages
<1>3. CASE QueryLocks
  <2>1. CASE Refused
    BY <1>2, <1>3, <2>1 DEF QueryLocks, Granted, Refused, CallOK, XBackendTypeOK
  <2>2. CASE Granted
    <3>1. /\ stage = "locks" /\ stage' = "press" /\ UNCHANGED keyVars
          /\ todo' = {l \in Differing : LockKey[l] > MinKeycode /\ LockKey[l] < MaxKeycode}
      BY <1>3, <2>2 DEF QueryLocks, Granted, Refused, CallOK, XBackendTypeOK
    <3>2. \A l \in DOMAIN LockKey : l \in Differing <=> Differs(l)
      BY DEF Differing, Differs
    <3>3. \A l : l \in todo' <=> l \in Ranged /\ Differs(l)
      BY <3>1, <3>2 DEF Ranged, Differing
    <3>4. Keyboard'
      BY <1>0, <1>1, <3>1, <3>3 DEF Keyboard, keyVars, Stages, Ranged
    <3>5. KeysInOrder => KeysInOrder'
      BY <1>0, <3>1, <3>3 DEF KeysInOrder, keyVars, Differs, Ranged
    <3> QED
      BY <1>0, <1>1, <3>4, <3>5 DEF KeyboardIInv
  <2> QED
    BY <1>3, <2>1, <2>2 DEF QueryLocks
<1>4. CASE PressLock
  <2>1. stage = "press" /\ todo \subseteq Ranged /\ todo' = todo
    BY <1>1, <1>4 DEF PressLock, Keyboard
  <2>2. CASE todo = {} /\ stage' = "active" /\ UNCHANGED <<keyVars, refusals>>
    BY <1>0, <1>1, <2>2 DEF KeyboardIInv, Keyboard, KeysInOrder, keyVars, Stages
  <2>3. CASE todo # {} /\ Granted /\ PressKey(LockKey[Lock]) /\ stage' = "release"
    <3> DEFINE key == LockKey[Lock]
               toggled == {l \in DOMAIN LockKey : LockKey[l] = key /\ key \notin down}
    <3>1. /\ Lock \in todo /\ Lock \in DOMAIN LockKey /\ key \in MinKeycode..MaxKeycode
          /\ \A l \in DOMAIN LockKey : LockKey[l] = key => l = Lock
      BY <2>1, <2>3, LockHasKey
    <3>2. down' = down \union {key} /\ locks' = (locks \ toggled) \union (toggled \ locks)
      BY <2>3 DEF PressKey
    <3>3. toggled \subseteq DOMAIN LockKey
      OBVIOUS
    <3>4. Keyboard'
      BY <1>0, <1>1, <2>1, <2>3, <3>1, <3>2, <3>3 DEF Keyboard, Stages, Ranged
    <3>5. ASSUME KeysInOrder PROVE KeysInOrder'
      <4>1. down = {} /\ \A l \in Ranged : l \in todo <=> Differs(l)
        BY <2>1, <3>5 DEF KeysInOrder
      <4>2. toggled = {Lock}
        BY <3>1, <4>1
      <4>3. \A l \in Ranged : l \in todo \ {Lock} <=> Differs(l)'
        <5> SUFFICES ASSUME NEW l \in Ranged
                     PROVE  l \in todo \ {Lock} <=> ~((l \in locks') <=> (l \in asked))
          BY <1>0 DEF Differs
        <5>1. CASE l = Lock
          <6>1. ~((l \in locks) <=> (l \in asked))
            BY <3>1, <4>1, <5>1 DEF Differs
          <6>2. (l \in locks') <=> (l \notin locks)
            BY <3>2, <4>2, <5>1
          <6> QED
            BY <5>1, <6>1, <6>2
        <5>2. CASE l # Lock
          <6>1. (l \in locks') <=> (l \in locks)
            BY <3>2, <4>2, <5>2
          <6> QED
            BY <4>1, <5>2, <6>1 DEF Differs
        <5> QED
          BY <5>1, <5>2
      <4>4. Lock' = Lock /\ Ranged' = Ranged
        BY <2>1 DEF Lock, Ranged
      <4>5. down' = {LockKey[Lock]}
        BY <3>2, <4>1
      <4> QED
        BY <2>1, <2>3, <4>3, <4>4, <4>5 DEF KeysInOrder
    <3> QED
      BY <1>0, <1>1, <3>4, <3>5 DEF KeyboardIInv
  <2> QED
    BY <1>2, <1>4, <2>2, <2>3 DEF PressLock, Lock
<1>5. CASE ReleaseLock
  <2>1. stage = "release" /\ todo \subseteq Ranged /\ todo # {}
    BY <1>1, <1>5 DEF ReleaseLock, Keyboard
  <2>2. CASE /\ Granted /\ ReleaseKey(LockKey[Lock]) /\ stage' = "press"
             /\ todo' = todo \ {Lock}
    <3>1. down' = down \ {LockKey[Lock]} /\ locks' = locks
      BY <2>2 DEF ReleaseKey
    <3>2. Keyboard'
      BY <1>0, <1>1, <2>1, <2>2, <3>1 DEF Keyboard, Stages, Ranged
    <3>3. KeysInOrder => KeysInOrder'
      BY <1>0, <2>1, <2>2, <3>1 DEF KeysInOrder, Differs, Ranged
    <3> QED
      BY <1>0, <1>1, <3>2, <3>3 DEF KeyboardIInv
  <2> QED
    BY <1>2, <1>5, <2>2 DEF ReleaseLock, Lock
<1> QED
  BY <1>3, <1>4, <1>5

\* The keys of a client, and their release when it has gone.
LEMMA KeyboardKeys ==
  ASSUME CallOK, KeyboardIInv,
         \/ \E key \in Keys, pressed \in BOOLEAN : KeyEvent(key, pressed)
         \/ EndSession \/ QueryKeymap \/ ReleaseHeld
  PROVE  KeyboardIInv'
<1>0. /\ refusals' = 0 => refusals = 0
      /\ life' = life /\ call' = call /\ asked' = asked
      /\ life = "ready" /\ call = NoCall /\ call.by = "none"
  <2>1. Granted \/ Refused
    BY DEF KeyEvent, EndSession, QueryKeymap, ReleaseHeld, Granted, xVars
  <2>2. /\ life' = life /\ call' = call /\ asked' = asked /\ Idle
    BY DEF KeyEvent, EndSession, QueryKeymap, ReleaseHeld, callVars
  <2>3. NoCall.by = "none"
    BY DEF NoCall
  <2> QED
    BY <2>1, <2>2, <2>3, RefusalsGrow DEF Idle
<1>1. Keyboard /\ (refusals = 0 => KeysInOrder)
  BY DEF KeyboardIInv
<1>2. ASSUME stage' = "none", UNCHANGED keyVars, Refused
      PROVE  KeyboardIInv'
  <2>1. refusals' # 0
    BY <1>2 DEF Refused, CallOK, XBackendTypeOK
  <2> QED
    BY <1>0, <1>1, <1>2, <2>1 DEF KeyboardIInv, Keyboard, keyVars, Stages
<1>3. ASSUME NEW key \in Keys, NEW pressed \in BOOLEAN, KeyEvent(key, pressed)
      PROVE  KeyboardIInv'
  <2>1. stage = "active" /\ stage' \in {"active", "reset"}
    BY <1>3 DEF KeyEvent
  <2>2. down' \subseteq MinKeycode..MaxKeycode /\ locks' \subseteq DOMAIN LockKey
    <3>0. down \subseteq MinKeycode..MaxKeycode /\ locks \subseteq DOMAIN LockKey
      BY <1>1 DEF Keyboard
    <3>1. CASE UNCHANGED keyVars
      BY <3>0, <3>1 DEF keyVars
    <3>2. CASE Keycode(key) \in MinKeycode..MaxKeycode /\ PressKey(Keycode(key))
      BY <3>0, <3>2 DEF PressKey
    <3>3. CASE ReleaseKey(Keycode(key))
      BY <3>0, <3>3 DEF ReleaseKey
    <3> QED
      BY <1>3, <3>1, <3>2, <3>3 DEF KeyEvent
  <2>3. Keyboard'
    BY <1>0, <1>1, <2>1, <2>2 DEF Keyboard, Stages
  <2> QED
    BY <2>1, <2>3 DEF KeyboardIInv, KeysInOrder
<1>4. CASE EndSession
  <2>1. stage' = "reset" /\ UNCHANGED <<keyVars, todo, refusals>>
    BY <1>4 DEF EndSession, xVars
  <2> QED
    BY <1>0, <1>1, <2>1 DEF KeyboardIInv, Keyboard, KeysInOrder, keyVars, Stages
<1>5. CASE QueryKeymap
  <2>1. CASE Granted /\ todo' = HeldKeys /\ stage' = "keys" /\ UNCHANGED keyVars
    <3>1. MinKeycode \in Nat /\ MaxKeycode \in Nat /\ down \subseteq MinKeycode..MaxKeycode
      BY <1>1, BackendAssumption DEF Keyboard
    <3>2. todo' = down /\ down \subseteq Nat
      <4>1. \A k \in down : k \in Nat /\ k >= MinKeycode /\ k <= MaxKeycode
        BY <3>1
      <4>2. HeldKeys = down
        BY <4>1 DEF HeldKeys
      <4> QED
        BY <2>1, <4>1, <4>2
    <3> QED
      BY <1>0, <1>1, <2>1, <3>2 DEF KeyboardIInv, Keyboard, KeysInOrder, keyVars, Stages
  <2> QED
    BY <1>2, <1>5, <2>1 DEF QueryKeymap
<1>6. CASE ReleaseHeld
  <2>1. stage = "keys" /\ todo \subseteq Nat
    BY <1>1, <1>6 DEF ReleaseHeld, Keyboard
  <2>2. CASE /\ todo # {} /\ ReleaseKey(Min(todo))
             /\ todo' = todo \ {Min(todo)} /\ stage' = stage
    <3>1. down' = down \ {Min(todo)} /\ locks' = locks
      BY <2>2 DEF ReleaseKey
    <3> QED
      BY <1>0, <1>1, <2>1, <2>2, <3>1 DEF KeyboardIInv, Keyboard, KeysInOrder
  <2>3. CASE todo = {} /\ stage' = "none" /\ UNCHANGED <<keyVars, todo>>
    BY <1>0, <1>1, <2>1, <2>3 DEF KeyboardIInv, Keyboard, KeysInOrder, keyVars, Stages
  <2> QED
    BY <1>2, <1>6, <2>2, <2>3 DEF ReleaseHeld
<1> QED
  BY <1>3, <1>4, <1>5, <1>6

LEMMA KeyboardStep ==
  ASSUME CallOK, KeyboardIInv, [XBackendNext]_backendVars
  PROVE  KeyboardIInv'
<1>0. Keyboard
  BY DEF KeyboardIInv
<1>1. CASE UNCHANGED backendVars
  BY <1>0, <1>1, KeyboardAside DEF backendVars, xVars, callVars, Granted, Keyboard
<1>2. CASE StartXvfb \/ SetupExtensions
  <2>1. UNCHANGED <<keyVars, sessionVars, call, refusals>>
    BY <1>2 DEF StartXvfb, SetupExtensions, xVars, callVars
  <2>2. life \in {"xvfb", "connect"}
    BY <1>2 DEF StartXvfb, SetupExtensions
  <2> QED
    BY <1>0, <2>1, <2>2, KeyboardAside DEF Granted, Keyboard
<1>3. CASE SetupDisplays
  <2>1. /\ life = "setup" /\ life' \in {"failed", "ready", "minimal"}
        /\ UNCHANGED <<keyVars, asked, todo, refusals>>
    BY <1>3 DEF SetupDisplays, xVars
  <2>2. stage = "none" /\ call = NoCall /\ NoCall.by = "none"
    BY <1>0, <2>1 DEF Keyboard, NoCall
  <2>3. CASE stage' = stage
    BY <2>1, <2>2, <2>3, KeyboardAside DEF Granted, sessionVars
  <2>4. CASE stage' = "reset" /\ call' = call
    BY <1>0, <2>1, <2>2, <2>4 DEF KeyboardIInv, Keyboard, KeysInOrder, keyVars, Stages
  <2> QED
    BY <1>3, <2>3, <2>4 DEF SetupDisplays
<1>4. ASSUME NEW req \in Requests, NEW wanted \in SUBSET DOMAIN LockKey, NewSession(req, wanted)
      PROVE  KeyboardIInv'
  <2>1. /\ stage = "none" /\ life = "ready" /\ life' = life /\ asked' = wanted
        /\ UNCHANGED <<keyVars, stage, todo, refusals>>
    BY <1>4 DEF NewSession, Idle, xVars
  <2> QED
    BY <1>0, <2>1 DEF KeyboardIInv, Keyboard, KeysInOrder, keyVars, Stages
<1>5. ASSUME NEW req \in Requests, DisplayEvent(req)
      PROVE  KeyboardIInv'
  <2>1. /\ life = "ready" /\ life' = life
        /\ UNCHANGED <<keyVars, sessionVars, refusals>>
    BY <1>5 DEF DisplayEvent, Idle, xVars
  <2>2. call'.by = "event"
    BY <1>5 DEF DisplayEvent, SetDisplaysCall, NoCall
  <2> QED
    BY <2>1, <2>2, KeyboardAside DEF Granted
<1>6. CASE QueryLocks \/ PressLock \/ ReleaseLock
  BY <1>6, KeyboardLocks
<1>7. CASE \/ \E key \in Keys, pressed \in BOOLEAN : KeyEvent(key, pressed)
           \/ EndSession \/ QueryKeymap \/ ReleaseHeld
  BY <1>7, KeyboardKeys
<1>8. ASSUME NEW held \in SUBSET Buttons, NEW states \in [held -> BOOLEAN],
             PointerEvent(states)
      PROVE  KeyboardIInv'
  <2>1. /\ stage = "active" /\ stage' \in {"active", "reset"}
        /\ UNCHANGED <<down, locks, asked, todo, call>>
        /\ life = "ready" /\ life' = life
    BY <1>8 DEF PointerEvent, FakeButtons, callVars, Idle
  <2> QED
    BY <1>0, <2>1 DEF KeyboardIInv, Keyboard, KeysInOrder, Stages
<1>9. CASE Resizes
  <2>1. UNCHANGED <<keyVars, sessionVars, life, call, refusals>>
    BY <1>9 DEF Resizes, OtherClientResizes, callVars
  <2> QED
    BY <1>0, <2>1, KeyboardAside DEF Granted, Keyboard
<1>10. CASE InCall
  BY <1>10, KeyboardInCall
<1> QED
  BY <1>1, <1>2, <1>3, <1>4, <1>5, <1>6, <1>7, <1>8, <1>9, <1>10 DEF XBackendNext, InCall

\* Nothing is down when a session starts, and the locks that have a key are as
\* its client asked, for every keyboard and every order of events.
THEOREM KeyboardIsHandedOver == XBackendSpec => []KeyboardHandedOver
<1>1. CallOK /\ KeyboardIInv /\ [XBackendNext]_backendVars => KeyboardIInv'
  BY KeyboardStep
<1>2. XBackendInit => KeyboardIInv
  BY KeyboardInit
<1>3. KeyboardIInv => KeyboardHandedOver
  <2> SUFFICES ASSUME KeyboardIInv, refusals = 0
               PROVE  /\ stage = "none" => down = {}
                      /\ stage = "press" /\ todo = {} =>
                           \A l \in DOMAIN LockKey :
                             LockKey[l] \in MinKeycode + 1..MaxKeycode - 1 =>
                               ((l \in locks) <=> (l \in asked))
    BY DEF KeyboardHandedOver
  <2>1. KeysInOrder
    BY DEF KeyboardIInv
  <2>2. ASSUME NEW l \in DOMAIN LockKey, LockKey[l] \in MinKeycode + 1..MaxKeycode - 1
        PROVE  l \in Ranged
    BY <2>2, BackendAssumption DEF Ranged
  <2> QED
    BY <2>1, <2>2 DEF KeysInOrder, Differs
<1> QED
  BY <1>1, <1>2, <1>3, XBackendTypes, PTL DEF XBackendSpec

-----------------------------------------------------------------------------
(* The modes.                                                              *)

LEMMA SpareIs ==
  /\ call.at \in {"add", "config"} => Spare = Listed(Wanted)
  /\ call.at \in {"delete", "destroy"} => Spare = {SizeOf(call.old)}
  /\ call.at \notin {"add", "config", "delete", "destroy"} => Spare = {}
<1>1. CASE call.at \in {"add", "config"}
  BY <1>1 DEF Spare
<1>2. CASE call.at \in {"delete", "destroy"}
  BY <1>2 DEF Spare
<1>3. CASE call.at \notin {"add", "config", "delete", "destroy"}
  BY <1>3 DEF Spare
<1> QED
  BY <1>1, <1>2, <1>3

LEMMA SpareIsNext ==
  /\ call'.at \in {"add", "config"} => Spare' = Listed(Wanted)'
  /\ call'.at \in {"delete", "destroy"} => Spare' = {SizeOf(call'.old)}
  /\ call'.at \notin {"add", "config", "delete", "destroy"} => Spare' = {}
<1>1. CASE call'.at \in {"add", "config"}
  BY <1>1 DEF Spare
<1>2. CASE call'.at \in {"delete", "destroy"}
  BY <1>2 DEF Spare, SizeOf
<1>3. CASE call'.at \notin {"add", "config", "delete", "destroy"}
  BY <1>3 DEF Spare
<1> QED
  BY <1>1, <1>2, <1>3

LEMMA TidyInit ==
  ASSUME XBackendInit
  PROVE  Tidy
<1>1. /\ call = NoCall /\ modes = {} /\ outputs = [id \in Ids |-> {}]
  BY DEF XBackendInit, XStarts
<1>2. call.at = "none"
  BY <1>1 DEF NoCall
<1>3. PICK size, mode : XStarts(size, mode)
        /\ size \in {<<MinWidth, MinHeight>>, <<MaxWidth, MaxHeight>>}
        /\ mode \in {<<MinWidth, MinHeight>>, <<MaxWidth, MaxHeight>>}
  BY DEF XBackendInit
<1>4. \A id \in Ids : Listed(crtcs[id]) = {}
  <2> SUFFICES ASSUME NEW id \in Ids
               PROVE  Listed(crtcs[id]) = {}
    OBVIOUS
  <2>1. /\ default_mode = mode /\ mode = <<mode[1], mode[2]>>
        /\ crtcs[id] = IF id = 0
                         THEN [on |-> TRUE, x |-> 0, y |-> 0, w |-> mode[1], h |-> mode[2]]
                         ELSE Off
    BY <1>3 DEF XStarts
  <2>2. CASE id = 0
    BY <2>1, <2>2 DEF Listed, SizeOf
  <2>3. CASE id # 0
    BY <2>1, <2>3 DEF Listed, Off
  <2> QED
    BY <2>2, <2>3
<1>5. InUse = {}
  BY <1>4 DEF InUse
<1>6. Spare = {}
  BY <1>2, SpareIs
<1> QED
  BY <1>1, <1>2, <1>4, <1>5, <1>6 DEF Tidy, Exact

\* A step that leaves the CRTCs and modes alone and has no spare mode.
LEMMA TidyAside ==
  ASSUME CallOK, Tidy, UNCHANGED <<crtcs, modes, outputs, default_mode>>,
         Faultless' => Faultless,
         call.at \notin {"add", "config", "delete", "destroy"},
         call'.at \notin {"mode", "add", "config", "delete", "destroy"}
  PROVE  Tidy'
<1> SUFFICES ASSUME Faultless' PROVE Exact(Spare, call.at \in {"config", "delete"})'
  BY DEF Tidy
<1>1. Exact(Spare, call.at \in {"config", "delete"}) /\ Spare = {}
  BY SpareIs DEF Tidy
<1>2. Spare' = {}
  BY SpareIsNext
<1>4. InUse' = InUse /\ \A id \in Ids : Listed(crtcs[id])' = Listed(crtcs[id])
  BY DEF InUse, Listed
<1> QED
  BY <1>1, <1>2, <1>4 DEF Exact

\* A call that is faultless after a step was so before it.
LEMMA FaultlessBefore ==
  ASSUME CallOK, Faultless', Granted \/ Refused, counts' = counts,
         call'.errors = call.errors, call.at # "get"
  PROVE  Faultless /\ Granted
<1>1. refusals' = 0 /\ refusals \in Nat /\ counts.errors = 0
  BY DEF Faultless, CallOK, XBackendTypeOK
<1>2. refusals = 0 /\ Granted
  BY <1>1 DEF Granted, Refused
<1>3. ~call.errors
  BY DEF Faultless
<1> QED
  BY <1>1, <1>2, <1>3 DEF Faultless

\* The display at hand does not change within a display.
LEMMA WantedStays ==
  ASSUME call'.req = call.req, call'.id = call.id, default_mode' = default_mode
  PROVE  Wanted' = Wanted /\ Listed(Wanted)' = Listed(Wanted)
  BY DEF Wanted, Listed

\* set_display: a mode is found or created, and added to the output.
LEMMA TidyModes ==
  ASSUME CallOK, Tidy, FindMode \/ AddMode
  PROVE  Tidy'
<1>0. /\ call \in Call /\ call.at \in {"mode", "add"} /\ call.at \in Setting
      /\ UNCHANGED <<crtcs, default_mode, counts>> /\ (Granted \/ Refused)
  BY DEF FindMode, AddMode, At, Setting, NotInCall, CallOK, XBackendTypeOK
<1>1. PICK step \in {"add", "config", "get"} : Continue(step)
  BY DEF FindMode, AddMode
<1>2. /\ call'.id = call.id /\ call'.at = step /\ call'.req = call.req
      /\ call'.errors = call.errors /\ call'.old = call.old
  BY <1>0, <1>1 DEF Call, Continue
<1>3. Wanted' = Wanted /\ Listed(Wanted)' = Listed(Wanted)
  BY <1>0, <1>2, WantedStays
<1>4. InUse' = InUse /\ \A id \in Ids : Listed(crtcs[id])' = Listed(crtcs[id])
  BY <1>0 DEF InUse, Listed
<1>5. Wanted.on /\ call.old = crtcs[call.id]
  BY <1>0 DEF Tidy
<1>6. Listed(Wanted) = {WantedMode} \ {default_mode}
  BY <1>5 DEF Listed, WantedMode
<1>7. ASSUME Faultless'
      PROVE  Exact(Spare, call.at \in {"config", "delete"})' /\ step # "get"
  <2>1. Faultless /\ Granted /\ call'.at # "get"
    BY <1>0, <1>2, <1>7, FaultlessBefore DEF Faultless
  <2>2. Exact(Spare, call.at \in {"config", "delete"})
    BY <2>1 DEF Tidy
  <2>3. CASE FindMode
    <3>1. /\ call.at = "mode" /\ step = "add" /\ UNCHANGED outputs
          /\ modes' = IF Known(WantedMode) THEN modes ELSE modes \union {WantedMode}
      BY <1>0, <1>2, <2>1, <2>3 DEF FindMode, At, Granted, Refused, CallOK, XBackendTypeOK, Continue, Call
    <3>2. Spare = {} /\ Spare' = Listed(Wanted)
      BY <1>2, <1>3, <3>1, SpareIs, SpareIsNext
    <3>3. modes = InUse /\ \A id \in Ids : outputs[id] = Listed(crtcs[id])
      BY <2>2, <3>1, <3>2 DEF Exact
    <3>4. default_mode \notin InUse
      BY DEF InUse, Listed
    <3>5. modes' = InUse' \union Spare'
      <4>1. CASE Known(WantedMode)
        <5>1. Listed(Wanted) \subseteq modes
          BY <1>6, <4>1 DEF Known
        <5> QED
          BY <1>4, <3>1, <3>2, <3>3, <4>1, <5>1
      <4>2. CASE ~Known(WantedMode)
        <5>1. Listed(Wanted) = {WantedMode}
          BY <1>6, <4>2 DEF Known
        <5> QED
          BY <1>4, <3>1, <3>2, <3>3, <4>2, <5>1
      <4> QED
        BY <4>1, <4>2
    <3> QED
      BY <1>2, <1>4, <3>1, <3>3, <3>5 DEF Exact
  <2>4. CASE AddMode
    <3>1. /\ call.at = "add" /\ step = "config" /\ UNCHANGED modes
          /\ outputs' = IF WantedMode = default_mode THEN outputs
                        ELSE [outputs EXCEPT ![call.id] = @ \union {WantedMode}]
      BY <1>0, <1>2, <2>1, <2>4 DEF AddMode, At, Granted, Refused, CallOK, XBackendTypeOK, Continue, Call
    <3>2. Spare = Listed(Wanted) /\ Spare' = Listed(Wanted)
      BY <1>2, <1>3, <3>1, SpareIs, SpareIsNext
    <3>3. modes = InUse \union Spare /\ \A id \in Ids : outputs[id] = Listed(crtcs[id])
      BY <2>2, <3>1 DEF Exact
    <3>4. \A id \in Ids :
            outputs'[id] = Listed(crtcs[id]) \union (IF id = call.id THEN Listed(Wanted) ELSE {})
      <4>0. outputs \in [Ids -> SUBSET (Nat \X Nat)]
        BY DEF CallOK, XBackendTypeOK
      <4>1. CASE WantedMode = default_mode
        BY <1>6, <3>1, <3>3, <4>1
      <4>2. CASE WantedMode # default_mode
        <5>1. Listed(Wanted) = {WantedMode}
          BY <1>6, <4>2
        <5>2. \A id \in Ids : outputs'[id] = IF id = call.id THEN outputs[id] \union {WantedMode}
                                             ELSE outputs[id]
          BY <3>1, <4>0, <4>2
        <5> QED
          BY <3>3, <5>1, <5>2
      <4> QED
        BY <4>1, <4>2
    <3> QED
      BY <1>2, <1>4, <3>1, <3>2, <3>3, <3>4 DEF Exact
  <2> QED
    BY <2>3, <2>4
<1> QED
  BY <1>0, <1>2, <1>3, <1>5, <1>7 DEF Tidy

\* set_display: the CRTC takes the mode of the display, and leaves the old one.
LEMMA TidyConfig ==
  ASSUME CallOK, Tidy, SetCrtcConfig
  PROVE  Tidy'
<1> DEFINE config == IF Wanted.on THEN Wanted ELSE Off
           old == call.old
<1>0. /\ call \in Call /\ call.at = "config" /\ call.at \in Setting
      /\ UNCHANGED <<modes, outputs, default_mode, counts, support>> /\ (Granted \/ Refused)
      /\ call.id \in Ids /\ Wanted \in Display
      /\ old = crtcs[call.id]
      /\ crtcs \in [Ids -> Display]
  BY WantedIsDisplay DEF SetCrtcConfig, At, Setting, NotInCall, CallOK, XBackendTypeOK, Tidy
<1>1. CASE Continue("get")
  <2>1. call'.at = "get"
    BY <1>0, <1>1 DEF Call, Continue
  <2> QED
    BY <2>1 DEF Tidy, Faultless
<1>a. CASE ~Continue("get") /\ ~Granted
  <2>1. call'.at \in {"delete", "set", "trim"}
    BY <1>0, <1>a DEF SetCrtcConfig, Continue, Settle, Call
  <2>2. refusals' # 0
    BY <1>0, <1>a DEF Refused, CallOK, XBackendTypeOK
  <2> QED
    BY <2>1, <2>2 DEF Tidy, Faultless
<1>2. CASE ~Continue("get") /\ Granted
  <2>0. ~Refused
    BY <1>2 DEF Granted, Refused, CallOK, XBackendTypeOK
  <2>1. /\ crtcs' = [crtcs EXCEPT ![call.id] = config]
        /\ \/ LeavesMode /\ Continue("delete")
           \/ ~LeavesMode /\ Settle(<<Wanted>>, TRUE, FALSE)
    BY <1>2, <2>0 DEF SetCrtcConfig
  <2>2. /\ call'.errors = call.errors /\ call'.old = call.old
        /\ call'.at \in {"delete", "set", "trim"}
        /\ call'.at = "delete" <=> LeavesMode
        /\ call'.at = "delete" => call'.id = call.id
    BY <1>0, <2>1 DEF Continue, Settle, Call
  <2>3. \A id \in Ids : crtcs'[id] = IF id = call.id THEN config ELSE crtcs[id]
    BY <1>0, <2>1
  <2>4. Listed(config) = Listed(Wanted)
    BY DEF Listed, Off
  <2> HIDE DEF config
  <2>5. \A id \in Ids : Listed(crtcs[id])' = IF id = call.id THEN Listed(Wanted) ELSE Listed(crtcs[id])
    BY <1>0, <2>3, <2>4 DEF Listed
  <2>6. ASSUME Faultless'
        PROVE  /\ Exact(Spare, call.at \in {"config", "delete"})'
               /\ call'.at = "delete" =>
                    SizeOf(call'.old) \notin Listed(crtcs[call.id])' \union {default_mode'}
    <3>1. Faultless
      BY <1>0, <2>2, <2>6, FaultlessBefore
    <3>2. Spare = Listed(Wanted)
      BY <1>0, SpareIs
    <3>3. /\ modes = InUse \union Listed(Wanted)
          /\ \A id \in Ids :
               outputs[id] = Listed(crtcs[id]) \union (IF id = call.id THEN Listed(Wanted) ELSE {})
      BY <1>0, <3>1, <3>2 DEF Tidy, Exact
    <3>4. /\ \A m : m \in InUse <=> \E id \in Ids : m \in Listed(crtcs[id])
          /\ \A m : m \in InUse' <=> \E id \in Ids : m \in Listed(crtcs[id])'
      BY DEF InUse
    <3>5. InUse' \union Listed(old) = InUse \union Listed(Wanted)
      <4>1. \A m : m \in InUse' \union Listed(old) <=> m \in InUse \union Listed(Wanted)
        BY <1>0, <2>5, <3>4
      <4> QED
        BY <4>1
    <3>6. outputs[call.id] = Listed(old) \union Listed(Wanted)
      BY <1>0, <3>3
    <3>7. CASE LeavesMode
      <4>1. /\ Listed(old) = {SizeOf(old)} /\ SizeOf(old) # default_mode
            /\ SizeOf(old) \notin Listed(Wanted)
        BY <3>7 DEF LeavesMode, Listed, WantedMode
      <4>2. call'.at = "delete" /\ Spare' = {SizeOf(old)} /\ call'.id = call.id
        BY <2>2, <3>7, SpareIsNext
      <4>3. modes' = InUse' \union Spare'
        BY <1>0, <3>3, <3>5, <4>1, <4>2
      <4>4. \A id \in Ids : outputs'[id] =
              Listed(crtcs[id])' \union (IF id = call.id THEN Spare' ELSE {})
        BY <1>0, <2>5, <3>3, <3>6, <4>1, <4>2
      <4>5. Listed(crtcs[call.id])' = Listed(Wanted)
        BY <1>0, <2>5, <4>2
      <4> QED
        BY <1>0, <2>2, <4>1, <4>2, <4>3, <4>4, <4>5 DEF Exact
    <3>8. CASE ~LeavesMode
      <4>1. Listed(old) \subseteq Listed(Wanted)
        <5>1. CASE ~old.on \/ SizeOf(old) = default_mode
          BY <5>1 DEF Listed
        <5>2. CASE old.on /\ SizeOf(old) # default_mode
          <6>1. Wanted.on /\ SizeOf(old) = WantedMode
            BY <3>8, <5>2 DEF LeavesMode
          <6> QED
            BY <6>1 DEF Listed, WantedMode
        <5> QED
          BY <5>1, <5>2
      <4>2. call'.at \in {"set", "trim"} /\ Spare' = {}
        BY <2>2, <3>8, SpareIsNext
      <4>3. modes' = InUse' \union Spare'
        <5>1. Listed(Wanted) \subseteq InUse'
          BY <1>0, <2>5, <3>4
        <5> QED
          BY <1>0, <3>3, <3>5, <4>1, <4>2, <5>1
      <4>4. ASSUME NEW id \in Ids PROVE outputs'[id] = Listed(crtcs[id])'
        <5>1. CASE id = call.id
          <6>1. outputs'[id] = Listed(old) \union Listed(Wanted)
            BY <1>0, <3>6, <5>1
          <6>2. Listed(crtcs[id])' = Listed(Wanted)
            BY <2>5, <5>1
          <6> QED
            BY <4>1, <6>1, <6>2
        <5>2. CASE id # call.id
          <6>1. outputs'[id] = Listed(crtcs[id])
            BY <1>0, <3>3, <5>2
          <6> QED
            BY <2>5, <5>2, <6>1
        <5> QED
          BY <5>1, <5>2
      <4> QED
        BY <4>2, <4>3, <4>4 DEF Exact
    <3> QED
      BY <3>7, <3>8
  <2> QED
    BY <2>2, <2>6 DEF Tidy, SizeOf
<1> QED
  BY <1>1, <1>a, <1>2

\* set_display: the mode that was left is deleted from the output, and destroyed
\* unless another output lists it.
LEMMA TidyRemoval ==
  ASSUME CallOK, Tidy, DeleteMode \/ DestroyMode
  PROVE  Tidy'
<1> DEFINE mode == SizeOf(call.old)
<1>0. /\ call \in Call /\ call.at \in {"delete", "destroy"} /\ call.at \in Setting
      /\ UNCHANGED <<crtcs, default_mode, counts, support>> /\ (Granted \/ Refused)
      /\ call.id \in Ids
  <2>1. call.at \in {"delete", "destroy"} /\ call.at \in Setting
    BY DEF DeleteMode, DestroyMode, At, Setting
  <2> QED
    BY <2>1, WantedIsDisplay DEF DeleteMode, DestroyMode, NotInCall, CallOK, XBackendTypeOK
<1>1. /\ call'.errors = call.errors /\ call'.old = call.old
      /\ call'.at \in {"destroy", "set", "trim"}
      /\ call'.at = "destroy" => call'.id = call.id /\ call'.req = call.req
  BY <1>0 DEF DeleteMode, DestroyMode, Continue, Settle, Call
<1>2. InUse' = InUse /\ \A id \in Ids : Listed(crtcs[id])' = Listed(crtcs[id])
  BY <1>0 DEF InUse, Listed
<1>3. ASSUME Faultless'
      PROVE  /\ Exact(Spare, call.at \in {"config", "delete"})'
             /\ call'.at = "destroy" => mode \notin Listed(crtcs[call.id])' \union {default_mode'}
  <2>1. Faultless /\ Granted
    BY <1>0, <1>1, <1>3, FaultlessBefore
  <2>2. /\ Exact({mode}, call.at \in {"config", "delete"})
        /\ mode \notin Listed(crtcs[call.id]) \union {default_mode}
    BY <1>0, <2>1, SpareIs DEF Tidy
  <2>3. ~Refused
    BY <2>1 DEF Granted, Refused, CallOK, XBackendTypeOK
  <2> HIDE DEF mode
  <2>4. CASE DeleteMode
    <3>0. AcceptsDeleteMode(call.id, mode)
      BY <2>2 DEF AcceptsDeleteMode, Listed
    <3>1. /\ call.at = "delete" /\ Continue("destroy") /\ modes' = modes
          /\ outputs' = [outputs EXCEPT ![call.id] = @ \ {mode}]
      BY <2>3, <2>4, <3>0 DEF DeleteMode, At, mode
    <3>2. call'.at = "destroy" /\ Spare' = {mode} /\ call'.id = call.id
      BY <1>0, <1>1, <3>1, SpareIsNext DEF Continue, Call, mode
    <3>3. /\ modes = InUse \union {mode}
          /\ \A id \in Ids :
               outputs[id] = Listed(crtcs[id]) \union (IF id = call.id THEN {mode} ELSE {})
      <4>1. Exact({mode}, TRUE)
        <5>1. (call.at \in {"config", "delete"}) = TRUE
          BY <3>1
        <5> QED
          BY <2>2, <5>1
      <4> QED
        BY <4>1 DEF Exact
    <3>4. \A id \in Ids : outputs'[id] = IF id = call.id THEN outputs[id] \ {mode} ELSE outputs[id]
      BY <3>1 DEF CallOK, XBackendTypeOK
    <3>5. ASSUME NEW id \in Ids PROVE outputs'[id] = Listed(crtcs[id])
      <4>1. CASE id = call.id
        <5>1. outputs'[id] = (Listed(crtcs[id]) \union {mode}) \ {mode}
          BY <3>3, <3>4, <4>1
        <5>2. mode \notin Listed(crtcs[id])
          BY <2>2, <4>1
        <5> QED
          BY <5>1, <5>2
      <4>2. CASE id # call.id
        <5>1. outputs'[id] = outputs[id] /\ outputs[id] = Listed(crtcs[id]) \union {}
          BY <3>3, <3>4, <4>2
        <5> QED
          BY <5>1
      <4> QED
        BY <4>1, <4>2
    <3>6. mode \notin Listed(crtcs[call.id])' \union {default_mode'}
      BY <1>0, <1>2, <2>2, <3>2
    <3> QED
      BY <1>2, <3>1, <3>2, <3>3, <3>5, <3>6 DEF Exact
  <2>5. CASE DestroyMode
    <3>1. /\ call.at = "destroy" /\ outputs' = outputs
          /\ \/ AcceptsDestroyMode(mode) /\ modes' = modes \ {mode}
             \/ ~AcceptsDestroyMode(mode) /\ modes' = modes
      BY <2>3, <2>5 DEF DestroyMode, At, mode
    <3>2. call'.at \in {"set", "trim"} /\ Spare' = {}
      <4>1. call'.at \in {"set", "trim"}
        BY <1>0, <2>5 DEF DestroyMode, Settle, Call
      <4> QED
        BY <4>1, SpareIsNext
    <3>3. /\ modes = InUse \union {mode}
          /\ \A id \in Ids : outputs[id] = Listed(crtcs[id])
      <4>1. Exact({mode}, FALSE)
        <5>1. (call.at \in {"config", "delete"}) = FALSE
          BY <3>1
        <5> QED
          BY <2>2, <5>1
      <4>2. modes = InUse \union {mode} /\ \A id \in Ids : outputs[id] = Listed(crtcs[id]) \union {}
        BY <4>1 DEF Exact
      <4> QED
        BY <4>2
    <3>4. mode \in InUse <=> \E id \in Ids : mode \in outputs[id]
      BY <3>3 DEF InUse
    <3>5. modes' = InUse
      <4>1. CASE AcceptsDestroyMode(mode) /\ modes' = modes \ {mode}
        <5>1. mode \notin InUse
          BY <3>4, <4>1 DEF AcceptsDestroyMode
        <5> QED
          BY <3>3, <4>1, <5>1
      <4>2. CASE ~AcceptsDestroyMode(mode) /\ modes' = modes
        <5>1. mode \in InUse
          BY <3>3, <3>4, <4>2 DEF AcceptsDestroyMode
        <5> QED
          BY <3>3, <4>2, <5>1
      <4> QED
        BY <3>1, <4>1, <4>2
    <3> QED
      BY <1>2, <3>1, <3>2, <3>3, <3>5 DEF Exact
  <2> QED
    BY <2>4, <2>5
<1> QED
  BY <1>1, <1>3 DEF Tidy, SizeOf

LEMMA TidyInCall ==
  ASSUME CallOK, Tidy, InCall
  PROVE  Tidy'
<1>0. call \in Call
  BY DEF CallOK, XBackendTypeOK
<1>1. CASE GrabServer \/ ExpandScreen \/ TrimScreen
  <2>1. /\ UNCHANGED <<crtcs, modes, outputs, default_mode, counts>> /\ (Granted \/ Refused)
        /\ call.at \in {"grab", "expand", "trim"} /\ call'.at \in {"expand", "set", "return"}
        /\ call'.errors = call.errors
    BY <1>0, <1>1 DEF GrabServer, ExpandScreen, TrimScreen, At, Continue, Call, ResizeScreen,
      NotInCall, randrVars
  <2>2. Faultless' => Faultless
    BY <2>1, FaultlessBefore
  <2> QED
    BY <2>1, <2>2, TidyAside
<1>2. CASE ReadCrtc
  <2>1. /\ UNCHANGED <<crtcs, modes, outputs, default_mode, counts>> /\ (Granted \/ Refused)
        /\ call.at = "set" /\ call'.errors = call.errors
    BY <1>0, <1>2 DEF ReadCrtc, At, Settle, Continue, Call, NotInCall, randrVars
  <2>2. Faultless' => Faultless
    BY <2>1, FaultlessBefore
  <2>3. CASE call'.at \in {"set", "trim", "get"}
    BY <2>1, <2>2, <2>3, TidyAside
  <2>4. ASSUME NEW step \in {"config", "mode"},
               call' = [call EXCEPT !.old = crtcs[call.id], !.at = step],
               Wanted.on <=> step = "mode"
        PROVE  Tidy'
    <3>1. /\ call'.id = call.id /\ call'.at = step /\ call'.req = call.req
          /\ call'.old = crtcs[call.id]
      BY <1>0, <2>4 DEF Call
    <3>2. Wanted' = Wanted /\ Listed(Wanted)' = Listed(Wanted)
      BY <2>1, <3>1, WantedStays
    <3>3. Spare = {} /\ Spare' = {}
      <4>1. step = "config" => Listed(Wanted) = {}
        BY <2>4 DEF Listed
      <4> QED
        BY <2>1, <3>1, <3>2, <4>1, SpareIs, SpareIsNext
    <3>4. InUse' = InUse /\ \A id \in Ids : Listed(crtcs[id])' = Listed(crtcs[id])
      BY <2>1 DEF InUse, Listed
    <3>5. ASSUME Faultless' PROVE Exact(Spare, call.at \in {"config", "delete"})'
      <4>1. Exact(Spare, call.at \in {"config", "delete"})
        BY <2>2, <3>5 DEF Tidy
      <4> QED
        BY <2>1, <3>3, <3>4, <4>1 DEF Exact
    <3> QED
      BY <2>1, <2>4, <3>1, <3>2, <3>5 DEF Tidy
  <2>5. \/ call'.at \in {"set", "trim", "get"}
        \/ \E step \in {"config", "mode"} :
             /\ call' = [call EXCEPT !.old = crtcs[call.id], !.at = step]
             /\ Wanted.on <=> step = "mode"
    <3>1. CASE \/ Settle(<<Wanted>>, FALSE, FALSE) \/ Continue("get")
      BY <1>0, <3>1 DEF Settle, Continue, Call
    <3>2. CASE ~Converts(Wanted)
      BY <1>0, <1>2, <3>1, <3>2 DEF ReadCrtc, Call
    <3>3. CASE Converts(Wanted) /\ ~Wanted.on
      BY <1>2, <3>1, <3>3 DEF ReadCrtc
    <3>4. CASE Converts(Wanted) /\ Wanted.on /\ InBounds(Wanted)
      BY <1>2, <3>1, <3>4 DEF ReadCrtc
    <3>5. CASE Converts(Wanted) /\ Wanted.on /\ ~InBounds(Wanted)
      BY <1>0, <1>2, <3>1, <3>5 DEF ReadCrtc, Call
    <3> QED
      BY <3>2, <3>3, <3>4, <3>5
  <2> QED
    BY <2>3, <2>4, <2>5
<1>3. CASE FindMode \/ AddMode
  BY <1>3, TidyModes
<1>4. CASE SetCrtcConfig
  BY <1>4, TidyConfig
<1>5. CASE DeleteMode \/ DestroyMode
  BY <1>5, TidyRemoval
<1>6. CASE GetDisplay
  <2>1. call'.errors /\ call'.at \in {"set", "trim"}
    BY <1>0, <1>6 DEF GetDisplay, Settle, Call
  <2> QED
    BY <2>1 DEF Tidy, Faultless
<1>7. CASE Return
  <2>1. /\ UNCHANGED <<crtcs, modes, outputs, default_mode, refusals>>
        /\ call.at = "return" /\ call' = NoCall
        /\ counts'.errors = counts.errors + (IF call.errors THEN 1 ELSE 0)
    BY <1>7 DEF Return, At, randrVars, CallOK, XBackendTypeOK
  <2>2. call'.at = "none" /\ counts.errors \in Nat
    BY <2>1 DEF NoCall, CallOK, XBackendTypeOK
  <2>3. Faultless' => Faultless
    <3>1. CASE call.errors
      BY <2>1, <2>2, <3>1 DEF Faultless
    <3>2. CASE ~call.errors
      BY <2>1, <2>2, <3>2 DEF Faultless
    <3> QED
      BY <3>1, <3>2
  <2> QED
    BY <2>1, <2>2, <2>3, TidyAside
<1> QED
  BY <1>1, <1>2, <1>3, <1>4, <1>5, <1>6, <1>7 DEF InCall

LEMMA TidyStep ==
  ASSUME CallOK, KeyboardIInv, Tidy, [XBackendNext]_backendVars
  PROVE  Tidy'
<1>1. CASE Quiet \/ Resizes
  <2>1. /\ UNCHANGED <<crtcs, modes, outputs, default_mode, call>>
        /\ counts'.errors = counts.errors /\ (refusals' = 0 => refusals = 0)
    <3>1. CASE Quiet
      BY <3>1, RefusalsGrow DEF Quiet, randrVars
    <3>2. CASE Resizes
      BY <3>2 DEF Resizes, OtherClientResizes, randrVars, callVars, CallOK, XBackendTypeOK
    <3> QED
      BY <1>1, <3>1, <3>2
  <2>2. Faultless' => Faultless
    BY <2>1 DEF Faultless
  <2> QED
    BY <2>1, <2>2 DEF Tidy, Exact, Spare, InUse, Listed, Wanted
<1>2. CASE Calls
  <2>1. call = NoCall
    BY <1>2 DEF Calls, KeyboardIInv, Keyboard
  <2>2. call.at = "none" /\ ~call.errors
    BY <2>1 DEF NoCall
  <2>3. call'.at = "grab"
    BY <1>2 DEF Calls, SetDisplaysCall, NoCall
  <2>4. UNCHANGED <<crtcs, modes, outputs, default_mode>> /\ (Faultless' => Faultless)
    BY <1>2, <2>2 DEF Calls, randrVars, Faultless
  <2> QED
    BY <2>2, <2>3, <2>4, TidyAside
<1>3. CASE InCall
  BY <1>3, TidyInCall
<1> QED
  BY <1>1, <1>2, <1>3, SortSteps

-----------------------------------------------------------------------------
(* The screen that a call leaves.                                          *)

LEMMA SizedInit ==
  ASSUME XBackendInit
  PROVE  Sized
<1>1. /\ MinWidth \in Nat \ {0} /\ MaxWidth \in Nat /\ MinWidth <= MaxWidth
      /\ MinHeight \in Nat \ {0} /\ MaxHeight \in Nat /\ MinHeight <= MaxHeight
  BY BackendAssumption
<1>2. PICK size, mode \in {<<MinWidth, MinHeight>>, <<MaxWidth, MaxHeight>>} : XStarts(size, mode)
  BY DEF XBackendInit
<1>3. mode[1] > 0 /\ mode[2] > 0
  BY <1>1, <1>2
<1>4. max_display_count \in 1..CrtcCount /\ CrtcCount \in Nat
  BY CallInit, CountIsPositive
<1>5. ASSUME NEW id \in Ids, crtcs[id].on
      PROVE  crtcs[id].w > 0 /\ crtcs[id].h > 0 /\ id < max_display_count
  <2>1. crtcs[id] = IF id = 0
                      THEN [on |-> TRUE, x |-> 0, y |-> 0, w |-> mode[1], h |-> mode[2]]
                      ELSE Off
    BY <1>2 DEF XStarts
  <2>2. id = 0
    BY <1>5, <2>1 DEF Off
  <2> QED
    BY <1>3, <1>4, <2>1, <2>2
<1>6. call.at = "none"
  BY DEF XBackendInit, NoCall
<1> QED
  BY <1>5, <1>6 DEF Sized

\* Only what is within the bounds is set.
LEMMA SizedInCall ==
  ASSUME CallOK, Sized, InCall
  PROVE  Sized'
<1>0. call \in Call /\ support' = support /\ max_display_count' = max_display_count
  BY DisplaysKeep DEF CallOK, XBackendTypeOK, max_display_count
<1>1. \A id \in Ids : crtcs'[id].on =>
        crtcs'[id].w > 0 /\ crtcs'[id].h > 0 /\ id < max_display_count
  <2>1. CASE crtcs' = crtcs
    BY <2>1 DEF Sized
  <2>2. CASE crtcs' # crtcs
    <3>1. SetCrtcConfig
      BY <2>2 DEF InCall, GrabServer, ExpandScreen, ReadCrtc, FindMode, AddMode, DeleteMode,
        DestroyMode, GetDisplay, TrimScreen, Return, randrVars
    <3>2. /\ call.at = "config" /\ call.at \in Setting
          /\ crtcs' = [crtcs EXCEPT ![call.id] = IF Wanted.on THEN Wanted ELSE Off]
      BY <2>2, <3>1 DEF SetCrtcConfig, At, Setting
    <3>3. /\ call.id \in Ids /\ call.id < max_display_count /\ Wanted \in Display
          /\ crtcs \in [Ids -> Display]
      BY <3>2, WantedIsDisplay DEF CallOK, XBackendTypeOK
    <3>4. ASSUME NEW id \in Ids, crtcs'[id].on
          PROVE  crtcs'[id].w > 0 /\ crtcs'[id].h > 0 /\ id < max_display_count
      <4>1. CASE id = call.id
        <5>1. Wanted.on /\ crtcs'[id] = Wanted
          BY <3>2, <3>3, <3>4, <4>1 DEF Off
        <5>2. InBounds(Wanted)
          BY <3>2, <5>1 DEF Sized
        <5>3. Wanted.w > 0 /\ Wanted.h > 0
          <6>1. Wanted.w \in Nat /\ Wanted.h \in Nat
            BY <3>3 DEF Display
          <6> QED
            BY <5>2, <6>1, BackendAssumption DEF InBounds
        <5> QED
          BY <3>3, <4>1, <5>1, <5>3
      <4>2. CASE id # call.id
        <5>1. crtcs'[id] = crtcs[id]
          BY <3>2, <3>3, <4>2
        <5> QED
          BY <3>4, <5>1 DEF Sized
      <4> QED
        BY <4>1, <4>2
    <3> QED
      BY <3>4
  <2> QED
    BY <2>1, <2>2
<1>2. ASSUME call'.at \in {"mode", "add", "config"}, Wanted'.on
      PROVE  InBounds(Wanted)'
  <2>0. call'.at \in {"mode", "add", "config"}
    BY <1>2
  <2>1. CASE ReadCrtc
    <3>1. ~Settle(<<Wanted>>, FALSE, FALSE) /\ ~Continue("get")
      BY <1>0, <2>0 DEF Settle, Continue, Call
    <3>2. call' = [call EXCEPT
             !.old = crtcs[call.id],
             !.at = CASE ~Converts(Wanted) -> "get"
                      [] Converts(Wanted) /\ ~Wanted.on -> "config"
                      [] OTHER -> IF InBounds(Wanted) THEN "mode" ELSE "get"]
      BY <2>1, <3>1 DEF ReadCrtc
    <3>3. call'.req = call.req /\ call'.id = call.id
      BY <1>0, <3>2 DEF Call
    <3>4. Wanted' = Wanted
      BY <3>3 DEF Wanted
    <3>5. call'.at = CASE ~Converts(Wanted) -> "get"
                       [] Converts(Wanted) /\ ~Wanted.on -> "config"
                       [] OTHER -> IF InBounds(Wanted) THEN "mode" ELSE "get"
      BY <1>0, <3>2 DEF Call
    <3>6. InBounds(Wanted)
      BY <1>2, <3>4, <3>5
    <3> QED
      BY <3>4, <3>6 DEF InBounds
  <2>2. CASE FindMode \/ AddMode
    <3>1. call.at \in {"mode", "add"} /\ call'.req = call.req /\ call'.id = call.id
      BY <1>0, <2>2 DEF FindMode, AddMode, At, Continue, Call
    <3>2. Wanted' = Wanted
      BY <3>1 DEF Wanted
    <3>3. InBounds(Wanted)
      BY <1>2, <3>1, <3>2 DEF Sized
    <3> QED
      BY <3>2, <3>3 DEF InBounds
  <2>3. CASE ~ReadCrtc /\ ~FindMode /\ ~AddMode
    <3>1. CASE GrabServer \/ ExpandScreen \/ TrimScreen \/ Return
      <4>1. call'.at \in {"expand", "set", "return", "none"}
        <5>1. CASE GrabServer \/ ExpandScreen \/ TrimScreen
          BY <1>0, <5>1 DEF GrabServer, ExpandScreen, TrimScreen, Continue, Call
        <5>2. CASE Return
          BY <5>2 DEF Return, NoCall
        <5> QED
          BY <3>1, <5>1, <5>2
      <4> QED
        BY <2>0, <4>1
    <3>2. CASE SetCrtcConfig \/ DeleteMode \/ DestroyMode \/ GetDisplay
      <4>1. call'.at \in {"set", "trim", "get", "delete", "destroy"}
        BY <1>0, <3>2 DEF SetCrtcConfig, DeleteMode, DestroyMode, GetDisplay, Settle, Continue, Call
      <4> QED
        BY <2>0, <4>1
    <3> QED
      BY <2>3, <3>1, <3>2 DEF InCall
  <2> QED
    BY <2>1, <2>2, <2>3
<1> QED
  BY <1>0, <1>1, <1>2 DEF Sized

LEMMA SizedStep ==
  ASSUME CallOK, Sized, [XBackendNext]_backendVars
  PROVE  Sized'
<1>1. CASE Quiet \/ Resizes
  BY <1>1 DEF Quiet, Resizes, OtherClientResizes, randrVars, callVars, Sized, Wanted, InBounds,
    max_display_count
<1>2. CASE Calls
  <2>1. call'.at = "grab" /\ UNCHANGED <<crtcs, support>>
    BY <1>2 DEF Calls, SetDisplaysCall, NoCall, randrVars
  <2> QED
    BY <2>1 DEF Sized, max_display_count
<1>3. CASE InCall
  BY <1>3, SizedInCall
<1> QED
  BY <1>1, <1>2, <1>3, SortSteps

\* The list of the displays that are set is what the CRTCs show, so its extent
\* is a size that the screen may be trimmed to.
LEMMA TrimmedToExtent ==
  ASSUME CallOK, Reported, Contained, Sized, call.at = "trim", Whole, call.changed, Enabled(call.final) # {}
  PROVE  /\ Trimmed = derive_extent(call.final)
         /\ AcceptsScreenSize(Trimmed)
<1> DEFINE final == call.final
           ext == derive_extent(final)
<1>1. /\ screen[1] \in 1..MaxWidth /\ screen[2] \in 1..MaxHeight
      /\ final \in Seq(Display) /\ crtcs \in [Ids -> Display]
      /\ MaxWidth \in Nat /\ MaxHeight \in Nat
      /\ call.id = max_display_count /\ Len(final) = max_display_count
      /\ max_display_count \in 1..CrtcCount /\ CrtcCount \in Nat
  BY BackendAssumption, CountIsPositive DEF CallOK, XBackendTypeOK, Call, Progress, Whole
<1>2. ASSUME NEW id \in 0..max_display_count - 1
      PROVE  id \in Ids /\ Shows(crtcs[id], final[id + 1])
  <2>1. id \in Ids /\ id + 1 \in 1..Len(call.final) /\ id + 1 \in 1..call.id /\ (id + 1) - 1 = id
    BY <1>1 DEF Ids
  <2>2. call.of[id + 1] = id
    BY <2>1 DEF Whole
  <2> QED
    BY <2>1, <2>2 DEF Reported, Whole
<1>3. ASSUME NEW d \in Enabled(final)
      PROVE  /\ d \in Display
             /\ d.x + d.w \in 1..screen[1] /\ d.y + d.h \in 1..screen[2]
  <2>1. PICK i \in DOMAIN final : d = final[i] /\ d.on
    BY DEF Enabled, Range
  <2>2. i \in 1..max_display_count
    BY <1>1, <2>1
  <2>3. i - 1 \in 0..max_display_count - 1 /\ (i - 1) + 1 = i
    BY <1>1, <2>2
  <2>4. crtcs[i - 1] = d /\ i - 1 \in Ids
    BY <1>2, <2>1, <2>3 DEF Shows
  <2>5. d \in Display /\ d.w > 0 /\ d.h > 0 /\ d.x + d.w <= screen[1] /\ d.y + d.h <= screen[2]
    BY <1>1, <2>1, <2>4 DEF Sized, Contained, OnScreen
  <2>6. d.x \in Nat /\ d.y \in Nat /\ d.w \in Nat /\ d.h \in Nat
    BY <2>5 DEF Display
  <2>7. screen[1] \in Nat /\ screen[2] \in Nat
    BY <1>1
  <2>8. d.x + d.w \in 1..screen[1]
    BY <2>5, <2>6, <2>7
  <2>9. d.y + d.h \in 1..screen[2]
    BY <2>5, <2>6, <2>7
  <2> QED
    BY <2>5, <2>8, <2>9
<1>4. /\ \E d \in Enabled(final) : ext[1] = d.x + d.w
      /\ \E d \in Enabled(final) : ext[2] = d.y + d.h
      /\ \A d \in Enabled(final) : d.x + d.w <= ext[1] /\ d.y + d.h <= ext[2]
      /\ ext = <<ext[1], ext[2]>>
  <2>1. \A d \in Enabled(final) : d.x + d.w <= screen[1] /\ d.y + d.h <= screen[2]
    BY <1>1, <1>3
  <2>2. ext = <<ext[1], ext[2]>>
    BY DEF derive_extent
  <2> HIDE DEF final
  <2>3. screen[1] \in Nat /\ screen[2] \in Nat /\ Enabled(final) # {}
    BY <1>1 DEF final
  <2> QED
    BY <1>1, <2>1, <2>2, <2>3, ExtentReached
<1> HIDE DEF ext
<1>5. ext[1] \in 1..screen[1] /\ ext[2] \in 1..screen[2]
  BY <1>3, <1>4
<1>6. Trimmed = ext
  <2> DEFINE A == {e[1] : e \in Extents(final)}
             B == {e[2] : e \in Extents(final)}
  <2>1. Extents(final) = {screen, ext}
    BY DEF Extents, ext
  <2>2. A = {screen[1], ext[1]} /\ B = {screen[2], ext[2]}
    BY <2>1
  <2>3. Trimmed = <<Min(A), Min(B)>>
    BY DEF Trimmed
  <2> HIDE DEF A, B
  <2>4. Min(A) = ext[1]
    <3>1. A \subseteq Nat /\ A # {}
      BY <1>1, <1>5, <2>2
    <3>2. Min(A) \in A /\ \A y \in A : Min(A) <= y
      BY <3>1, MinIsLeast
    <3>3. Min(A) \in {screen[1], ext[1]} /\ Min(A) <= ext[1]
      BY <2>2, <3>2
    <3> QED
      BY <1>1, <1>5, <3>3
  <2>5. Min(B) = ext[2]
    <3>1. B \subseteq Nat /\ B # {}
      BY <1>1, <1>5, <2>2
    <3>2. Min(B) \in B /\ \A y \in B : Min(B) <= y
      BY <3>1, MinIsLeast
    <3>3. Min(B) \in {screen[2], ext[2]} /\ Min(B) <= ext[2]
      BY <2>2, <3>2
    <3> QED
      BY <1>1, <1>5, <3>3
  <2> QED
    BY <1>4, <2>3, <2>4, <2>5
<1>7. ASSUME NEW id \in Ids, crtcs[id].on
      PROVE  crtcs[id].x + crtcs[id].w <= ext[1] /\ crtcs[id].y + crtcs[id].h <= ext[2]
  <2>1. id \in 0..max_display_count - 1
    BY <1>1, <1>7 DEF Sized, Ids
  <2>2. crtcs[id] = final[id + 1]
    BY <1>2, <1>7, <2>1 DEF Shows
  <2>3. id + 1 \in DOMAIN final
    BY <1>1, <2>1
  <2>4. crtcs[id] \in Enabled(final)
    BY <1>7, <2>2, <2>3 DEF Enabled, Range
  <2> QED
    BY <1>4, <2>4
<1>8. ext[1] \in 1..MaxWidth /\ ext[2] \in 1..MaxHeight
  BY <1>1, <1>5
<1>9. AcceptsScreenSize(ext)
  BY <1>7, <1>8 DEF AcceptsScreenSize, OnScreen
<1> QED
  BY <1>6, <1>9 DEF ext

LEMMA FittedInit ==
  ASSUME XBackendInit
  PROVE  Fitted
<1>1. call.at = "none" /\ call.id = 0 /\ call.final = << >>
  BY DEF XBackendInit, NoCall
<1>2. ~HasReturned
  BY DEF XBackendInit, HasReturned
<1>3. unset = {}
  BY DEF XBackendInit, XStarts
<1> QED
  BY <1>1, <1>2, <1>3 DEF Fitted, Whole

\* A list that gets one display more at every step has all of them.
LEMMA FittedInCall ==
  ASSUME CallOK, Reported, Contained, Sized, Fitted, InCall
  PROVE  Fitted'
<1>0. /\ call \in Call /\ call.final \in Seq(Display) /\ call.id \in Nat
      /\ call.of \in Seq(Nat) /\ Len(call.of) = Len(call.final)
      /\ (refusals' = 0 => refusals = 0) /\ refusals \in Nat
  BY DisplaysKeep DEF CallOK, XBackendTypeOK, Call, Progress
<1>1. CASE GrabServer \/ ExpandScreen
  <2>1. /\ call'.at \in {"expand", "set"} /\ call'.final = call.final /\ call'.id = call.id
        /\ call'.of = call.of
    BY <1>0, <1>1 DEF GrabServer, ExpandScreen, Continue, Call
  <2>2. unset' = {} \/ unset' = unset
    BY <1>1 DEF GrabServer, ExpandScreen, randrVars
  <2> QED
    BY <1>0, <2>1, <2>2, BusyHasNotReturned DEF Fitted, Whole
<1>2. CASE ReadCrtc \/ FindMode \/ AddMode \/ SetCrtcConfig \/ DeleteMode \/ DestroyMode \/ GetDisplay
  <2>0. call.at \in Setting
    BY <1>2 DEF ReadCrtc, FindMode, AddMode, SetCrtcConfig, DeleteMode, DestroyMode, GetDisplay,
      At, Setting
  <2>a. refusals' = 0 => unset' = unset
    <3>1. Refused => refusals' # 0
      BY <1>0 DEF Refused
    <3>2. CASE SetCrtcConfig
      BY <3>1, <3>2 DEF SetCrtcConfig
    <3>3. CASE ~SetCrtcConfig
      BY <1>2, <3>3 DEF ReadCrtc, FindMode, AddMode, DeleteMode, DestroyMode, GetDisplay, randrVars
    <3> QED
      BY <3>2, <3>3
  <2>1. CASE /\ call'.at \in Setting /\ call'.final = call.final /\ call'.id = call.id
             /\ call'.of = call.of
    BY <1>0, <2>1, <2>a, BusyHasNotReturned DEF Fitted, Whole, Setting
  <2>2. ASSUME NEW d \in Display, NEW changed, NEW errors, Settle(<<d>>, changed, errors)
        PROVE  Fitted'
    <3>1. /\ call'.at \in {"set", "trim"} /\ call'.id = call.id + 1
          /\ call'.final = call.final \o <<d>>
          /\ call'.of = call.of \o <<call.id>>
      <4>1. <<d>> # << >>
        OBVIOUS
      <4> QED
        BY <1>0, <2>2, <4>1 DEF Settle, Call
    <3>2. /\ Len(call'.final) = Len(call.final) + 1
          /\ \A i \in 1..Len(call.of) : call'.of[i] = call.of[i]
          /\ call'.of[Len(call.of) + 1] = call.id
      <4>1. Len(call'.final) = Len(call.final) + 1
        BY <1>0, <3>1, PushedLast
      <4>2. /\ \A i \in 1..Len(call.of) : (call.of \o <<call.id>>)[i] = call.of[i]
            /\ (call.of \o <<call.id>>)[Len(call.of) + 1] = call.id
        BY <1>0, PushedId, Zenon
      <4> QED
        BY <3>1, <4>1, <4>2, Zenon
    <3>3. ASSUME refusals' = 0
          PROVE  Whole'
      <4>1. Whole /\ unset' = unset
        BY <1>0, <2>a, <3>3 DEF Fitted
      <4>2. Len(call'.final) = call'.id /\ unset' = {}
        BY <1>0, <3>1, <3>2, <4>1 DEF Whole
      <4>3. ASSUME NEW i \in 1..call'.id
            PROVE  call'.of[i] = i - 1
        <5>1. CASE i = call.id + 1
          BY <1>0, <3>2, <4>1, <5>1 DEF Whole
        <5>2. CASE i # call.id + 1
          <6>1. i \in 1..call.id /\ i \in 1..Len(call.of)
            BY <1>0, <3>1, <4>1, <4>3, <5>2 DEF Whole
          <6> QED
            BY <3>2, <4>1, <6>1 DEF Whole
        <5> QED
          BY <5>1, <5>2
      <4> QED
        BY <4>2, <4>3 DEF Whole
    <3> QED
      BY <3>1, <3>3, BusyHasNotReturned DEF Fitted
  <2>3. CASE Settle(<< >>, FALSE, TRUE) /\ Refused
    <3>1. call'.at \in {"set", "trim"}
      BY <1>0, <2>3 DEF Settle, Call
    <3>2. refusals' # 0
      BY <1>0, <2>3 DEF Refused
    <3> QED
      BY <3>1, <3>2, BusyHasNotReturned DEF Fitted
  <2>4. Wanted \in Display /\ crtcs[call.id] \in Display
    BY <2>0, WantedIsDisplay DEF CallOK, XBackendTypeOK
  <2>5. \/ /\ call'.at \in Setting /\ call'.final = call.final /\ call'.id = call.id
           /\ call'.of = call.of
        \/ Settle(<<Wanted>>, TRUE, FALSE) \/ Settle(<<Wanted>>, FALSE, FALSE)
        \/ Settle(<<crtcs[call.id]>>, FALSE, TRUE)
        \/ Settle(<< >>, FALSE, TRUE) /\ Refused
    <3>1. ASSUME NEW step \in Setting, Continue(step)
          PROVE  /\ call'.at \in Setting /\ call'.final = call.final /\ call'.id = call.id
                 /\ call'.of = call.of
      BY <1>0, <3>1 DEF Continue, Call
    <3>2. CASE ReadCrtc
      <4>1. ASSUME NEW step \in {"get", "config", "mode"},
                   call' = [call EXCEPT !.old = crtcs[call.id], !.at = step]
            PROVE  /\ call'.at \in Setting /\ call'.final = call.final /\ call'.id = call.id
                   /\ call'.of = call.of
        BY <1>0, <4>1 DEF Call, Setting
      <4>2. CASE Settle(<<Wanted>>, FALSE, FALSE)
        BY <4>2
      <4>3. CASE Continue("get")
        BY <3>1, <4>3 DEF Setting
      <4>4. CASE ~Settle(<<Wanted>>, FALSE, FALSE) /\ ~Continue("get")
        <5>1. \E step \in {"get", "config", "mode"} :
                call' = [call EXCEPT !.old = crtcs[call.id], !.at = step]
          <6>1. CASE ~Converts(Wanted)
            BY <3>2, <4>4, <6>1 DEF ReadCrtc
          <6>2. CASE Converts(Wanted) /\ ~Wanted.on
            BY <3>2, <4>4, <6>2 DEF ReadCrtc
          <6>3. CASE Converts(Wanted) /\ Wanted.on /\ InBounds(Wanted)
            BY <3>2, <4>4, <6>3 DEF ReadCrtc
          <6>4. CASE Converts(Wanted) /\ Wanted.on /\ ~InBounds(Wanted)
            BY <3>2, <4>4, <6>4 DEF ReadCrtc
          <6> QED
            BY <6>1, <6>2, <6>3, <6>4
        <5> QED
          BY <4>1, <5>1
      <4> QED
        BY <4>2, <4>3, <4>4
    <3>3. CASE FindMode \/ AddMode \/ SetCrtcConfig \/ DeleteMode
      BY <3>1, <3>3 DEF FindMode, AddMode, SetCrtcConfig, DeleteMode, Setting
    <3>4. CASE DestroyMode
      BY <3>4 DEF DestroyMode
    <3>5. CASE GetDisplay
      BY <3>5 DEF GetDisplay, Current
    <3> QED
      BY <1>2, <3>2, <3>3, <3>4, <3>5
  <2> QED
    BY <2>1, <2>2, <2>3, <2>4, <2>5
<1>3. CASE TrimScreen
  <2>1. /\ call.at = "trim" /\ ResizeScreen(Trimmed) /\ counts' = counts
        /\ call'.at = "return" /\ call'.final = call.final /\ call'.id = call.id
        /\ call'.changed = call.changed /\ call'.of = call.of /\ unset' = unset
    BY <1>0, <1>3 DEF TrimScreen, At, Continue, Call, NotInCall, randrVars
  <2>2. ASSUME refusals' = 0, call.changed, Enabled(call.final) # {}
        PROVE  screen' = derive_extent(call.final)
    <3>1. Whole
      BY <1>0, <2>2 DEF Fitted
    <3>2. Trimmed = derive_extent(call.final) /\ AcceptsScreenSize(Trimmed)
      BY <2>1, <2>2, <3>1, TrimmedToExtent
    <3>3. ~Refused
      BY <1>0, <2>2 DEF Refused
    <3> QED
      BY <2>1, <3>2, <3>3 DEF ResizeScreen
  <2>3. Enabled(call.final)' = Enabled(call.final) /\ derive_extent(call.final)' = derive_extent(call.final)
    BY <2>1 DEF Enabled, derive_extent
  <2>4. refusals' = 0 => Whole'
    BY <1>0, <2>1 DEF Fitted, Whole
  <2> QED
    BY <2>1, <2>2, <2>3, <2>4, BusyHasNotReturned DEF Fitted
<1>4. CASE Return
  <2>1. /\ call' = NoCall /\ screen' = screen /\ refusals' = refusals /\ call.at = "return"
        /\ counts'.resizes = counts.resizes
        /\ returned'.changed = call.changed /\ returned'.displays = call.final
        /\ unset' = unset
    BY <1>4 DEF Return, At, CallOK, XBackendTypeOK, randrVars
  <2>2. call'.at = "none" /\ call'.id = 0 /\ call'.final = << >>
    BY <2>1 DEF NoCall
  <2>3. /\ Enabled(returned.displays)' = Enabled(call.final)
        /\ derive_extent(returned.displays)' = derive_extent(call.final)
    BY <2>1 DEF Enabled, derive_extent
  <2>4. refusals' = 0 => Whole'
    BY <2>1, <2>2 DEF Fitted, Whole
  <2> QED
    BY <2>1, <2>2, <2>3, <2>4 DEF Fitted
<1> QED
  BY <1>1, <1>2, <1>3, <1>4 DEF InCall

LEMMA FittedStep ==
  ASSUME CallOK, Reported, Contained, Sized, Fitted, [XBackendNext]_backendVars
  PROVE  Fitted'
<1>1. CASE Quiet
  <2>1. /\ UNCHANGED <<screen, call, returned, unset>> /\ (refusals' = 0 => refusals = 0)
        /\ counts'.resizes = counts.resizes
    BY <1>1, RefusalsGrow DEF Quiet, randrVars
  <2>2. HasReturned' = HasReturned
    BY <2>1 DEF HasReturned
  <2> QED
    BY <2>1, <2>2 DEF Fitted, Whole, Enabled, derive_extent
<1>2. CASE Calls
  <2>1. /\ call'.at = "grab" /\ call'.id = 0 /\ call'.final = << >>
        /\ unset' = unset /\ refusals' = refusals
    BY <1>2 DEF Calls, SetDisplaysCall, NoCall, randrVars
  <2> QED
    BY <2>1, BusyHasNotReturned DEF Fitted, Whole
<1>3. CASE InCall
  BY <1>3, FittedInCall
<1>4. CASE Resizes
  <2>1. /\ call' = call /\ refusals' = refusals /\ unset' = unset
        /\ counts'.resizes = counts.resizes + 1
    BY <1>4 DEF Resizes, OtherClientResizes, callVars, randrVars, CallOK, XBackendTypeOK
  <2>2. counts'.resizes # 0
    BY <2>1 DEF CallOK, XBackendTypeOK
  <2> QED
    BY <2>1, <2>2 DEF Fitted, Whole
<1> QED
  BY <1>1, <1>2, <1>3, <1>4, SortSteps

\* Once a call returns, the modes are those of the CRTCs that are on, each listed
\* by their outputs alone, and the screen is no larger than the displays: every
\* mode that set_display creates is used or destroyed again, and the screen is
\* trimmed after the last display is set.
THEOREM NothingIsLeftBehind == XBackendSpec => []NothingLeftBehind
<1> DEFINE Inv == CallOK /\ KeyboardIInv /\ Reported /\ Contained /\ Tidy /\ Sized /\ Fitted
<1>1. XBackendInit => Inv
  BY CallInit, KeyboardInit, ReportedInit, ContainedInit, TidyInit, SizedInit, FittedInit
<1>2. Inv /\ [XBackendNext]_backendVars => Inv'
  BY CallStep, KeyboardStep, ReportedStep, ContainedStep, TidyStep, SizedStep, FittedStep
<1>3. Inv => NothingLeftBehind
  <2> SUFFICES ASSUME Inv, HasReturned, refusals = 0, counts.errors = 0
               PROVE  /\ modes = {SizeOf(crtcs[id]) : id \in {i \in Ids : crtcs[i].on}} \ {default_mode}
                      /\ \A id \in Ids : outputs[id] = Listed(crtcs[id])
                      /\ (/\ returned.changed /\ counts.resizes = 0
                          /\ Enabled(returned.displays) # {})
                         => screen = derive_extent(returned.displays)
    BY DEF NothingLeftBehind, Listed
  <2>1. call.at = "none" /\ ~call.errors
    BY DEF HasReturned, NoCall
  <2>2. Exact({}, FALSE)
    <3>1. Faultless
      BY <2>1 DEF Faultless
    <3>2. Exact(Spare, call.at \in {"config", "delete"}) /\ Spare = {}
      BY <2>1, <3>1, SpareIs DEF Tidy
    <3>3. (call.at \in {"config", "delete"}) = FALSE
      BY <2>1
    <3> QED
      BY <3>2, <3>3
  <2>3. modes = InUse \union {} /\ \A id \in Ids : outputs[id] = Listed(crtcs[id]) \union {}
    BY <2>2 DEF Exact
  <2>4. InUse = {SizeOf(crtcs[id]) : id \in {i \in Ids : crtcs[i].on}} \ {default_mode}
    BY DEF InUse, Listed
  <2> QED
    BY <2>3, <2>4 DEF Fitted
<1> QED
  BY <1>1, <1>2, <1>3, PTL DEF XBackendSpec

=============================================================================
