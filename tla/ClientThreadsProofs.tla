------------------------ MODULE ClientThreadsProofs ------------------------
(***************************************************************************)
(* ClientThreads keeps its invariants for any number of inputs, messages   *)
(* and draws.  The strengthening says which threads have left their loops  *)
(* when the primary thread leaves its own, and why it left.                *)
(***************************************************************************)
EXTENDS ClientThreads, TLAPS

Out == {"join", "done"}

\* The workers that the primary thread has terminated are out of their loops.
Told ==
  /\ IsActive => pt.next = 1
  /\ pt.pc = "terminate" => \A i \in 1 .. 4 : i < pt.next => main[TerminationOrder[i]].pc \in Out
  /\ pt.pc = "done" => \A w \in Workers : main[w].pc \in Out

\* Only tc-main leaves its loop while the primary thread is in its own: the
\* others are still to report the error that ended their network thread.
Reporting(w) ==
  /\ main[w].pc \notin Out
  /\ net[w] = "done" => main[w].pc = "send" /\ main[w].out = <<"Error">>
  /\ main[w].pc = "send" /\ net[w] # "done" => main[w].after = "select"

Unfinished ==
  /\ IsActive => \A w \in Workers \ {"tc"} : Reporting(w)
  /\ main["tc"].pc # "done"

\* Why the primary thread left its loop, and where a goodbye is until then.
Reasons ==
  /\ quit # "none" => ~IsActive
  /\ ~IsActive /\ quit = "none" => app \in {"join", "gone"}
  /\ conn = "closed" => pt.pc = "done"
  /\ goodbye = "asked" =>
       app = "goodbye" \/ (pt.pc = "send" /\ pt.msg = "Goodbye") \/ quit # "none"

IInv == TypeOK /\ Told /\ Unfinished /\ Reasons

-----------------------------------------------------------------------------
LEMMA RepliesType ==
  ASSUME NEW w \in Workers, NEW m \in NetType(w), m \notin {"receive", "done"},
         NEW out \in Replies(w, m)
  PROVE  /\ out \in Seq(ToPrimary)
         /\ m = "Err" => out = <<"Error">>
<1> USE BoundsAssumption
<1>1. CASE m = "Err"
  <2>1. Replies(w, m) = {<<"Error">>}
    BY <1>1 DEF Replies
  <2>2. <<"Error">> \in Seq(ToPrimary)
    BY DEF ToPrimary
  <2> QED
    BY <2>1, <2>2
<1>2. CASE m # "Err" /\ w = "cc"
  <2>1. Replies(w, m) = {<<m>>}
    BY <1>2 DEF Replies
  <2>2. m \in ToPrimary
    BY <1>2 DEF NetType, Incoming, ToPrimary
  <2>3. <<m>> \in Seq(ToPrimary)
    BY <2>2
  <2>4. out = <<m>>
    BY <2>1
  <2> QED
    BY <1>2, <2>3, <2>4
<1>3. CASE m # "Err" /\ w = "ec"
  <2>1. Replies(w, m) = {<< >>, <<m>>}
    BY <1>3 DEF Replies
  <2>2. m \in ToPrimary
    BY <1>3 DEF NetType, Incoming, ToPrimary
  <2>3. << >> \in Seq(ToPrimary) /\ <<m>> \in Seq(ToPrimary)
    BY <2>2
  <2>4. out = << >> \/ out = <<m>>
    BY <2>1
  <2> QED
    BY <1>3, <2>3, <2>4
<1>4. CASE m # "Err" /\ w = "mc"
  <2>1. Replies(w, m) = {[i \in 1 .. n |-> "Draw"] : n \in 0 .. MaxDraws}
    BY <1>4 DEF Replies
  <2>2. PICK n \in 0 .. MaxDraws : out = [i \in 1 .. n |-> "Draw"]
    BY <2>1
  <2>3. "Draw" \in ToPrimary
    BY DEF ToPrimary
  <2> QED
    BY <1>4, <2>2, <2>3
<1>5. CASE m # "Err" /\ w = "tc"
  <2>1. Replies(w, m) = {<< >>}
    BY <1>5 DEF Replies
  <2>2. << >> \in Seq(ToPrimary)
    OBVIOUS
  <2>3. out = << >>
    BY <2>1
  <2> QED
    BY <1>5, <2>2, <2>3
<1> QED
  BY <1>1, <1>2, <1>3, <1>4, <1>5 DEF Workers

-----------------------------------------------------------------------------
(* Types.                                                                  *)

\* A step that leaves the typed parts alone, or changes them within type.
LEMMA PrimaryTypes ==
  ASSUME TypeOK
  PROVE  /\ Leave \in PrimaryType
         /\ \A w \in {"cc", "ec", "mc"}, m \in FromPrimary : Forward(w, m) \in PrimaryType
         /\ [pt EXCEPT !.pc = "select"] \in PrimaryType
         /\ [pt EXCEPT !.pc = "done"] \in PrimaryType
         /\ pt.next <= 4 => [pt EXCEPT !.next = @ + 1] \in PrimaryType
<1>1. pt \in PrimaryType
  BY DEF TypeOK
<1>2. /\ Leave \in PrimaryType
      /\ [pt EXCEPT !.pc = "select"] \in PrimaryType
      /\ [pt EXCEPT !.pc = "done"] \in PrimaryType
  BY <1>1 DEF PrimaryType, Leave
<1>3. \A w \in {"cc", "ec", "mc"}, m \in FromPrimary : Forward(w, m) \in PrimaryType
  BY <1>1 DEF PrimaryType, Forward
<1>4. ASSUME pt.next <= 4
      PROVE  [pt EXCEPT !.next = @ + 1] \in PrimaryType
  <2>1. pt.next \in 1 .. 5 /\ pt.next + 1 \in 1 .. 5
    BY <1>1, <1>4 DEF PrimaryType
  <2> QED
    BY <1>1, <2>1 DEF PrimaryType
<1> QED
  BY <1>2, <1>3, <1>4

\* The first message of a main thread that sends is taken.
LEMMA SentType ==
  ASSUME TypeOK, NEW w \in Workers, main[w].pc = "send"
  PROVE  /\ Sent(w) \in [Workers -> MainType]
         /\ \A v \in Workers : Sent(w)[v].pc = "send" <=> Sent(w)[v].out # << >>
         /\ \A v \in Workers : v # w => Sent(w)[v] = main[v]
         /\ Head(main[w].out) \in ToPrimary
<1>1. main \in [Workers -> MainType] /\ main[w] \in MainType
  BY DEF TypeOK
<1>2. main[w].out \in Seq(ToPrimary) /\ main[w].out # << >> /\ main[w].after \in {"select", "join"}
  BY <1>1 DEF TypeOK, MainType
<1>3. Tail(main[w].out) \in Seq(ToPrimary) /\ Head(main[w].out) \in ToPrimary
  BY <1>2
<1> DEFINE rest == Tail(main[w].out)
           new  == [pc    |-> IF rest = << >> THEN main[w].after ELSE "send",
                    out   |-> rest,
                    after |-> main[w].after]
<1>4. new \in MainType /\ (new.pc = "send" <=> new.out # << >>)
  BY <1>2, <1>3 DEF MainType
<1>5. Sent(w) = [main EXCEPT ![w] = new]
  BY DEF Sent
<1> HIDE DEF new
<1> QED
  BY <1>1, <1>3, <1>4, <1>5 DEF TypeOK

LEMMA TypeStep ==
  ASSUME TypeOK, [Next]_vars
  PROVE  TypeOK'
<1> USE BoundsAssumption
<1>1. CASE UNCHANGED vars
  BY <1>1 DEF vars, TypeOK
<1>2. CASE Application \/ Returns \/ LoseConnection
  BY <1>2 DEF Application, Returns, LoseConnection, SendInput, Disconnect, DropConnection,
              SendFails, Joined, AfterSend, TypeOK
<1>3. CASE TakeFromApp
  <2>1. app' \in {"running", "drop", "join"} /\ pt' \in PrimaryType
    BY <1>3, PrimaryTypes DEF TakeFromApp, AfterSend, FromPrimary
  <2> QED
    BY <1>3, <2>1 DEF TakeFromApp, TypeOK
<1>4. ASSUME NEW w \in Workers, TakeFromMain(w)
      PROVE  TypeOK'
  <2>1. main' = Sent(w) /\ main[w].pc = "send"
    BY <1>4 DEF TakeFromMain
  <2>2. /\ main' \in [Workers -> MainType]
        /\ \A v \in Workers : main'[v].pc = "send" <=> main'[v].out # << >>
    BY <2>1, SentType
  <2>3. /\ pt' \in PrimaryType
        /\ events' \in Nat
        /\ quit' \in {"none", "ServerGoodbye", "UnrecoverableError"}
    BY <1>4, PrimaryTypes DEF TakeFromMain, Quit, Queue, FromPrimary, TypeOK
  <2> QED
    BY <1>4, <2>2, <2>3 DEF TakeFromMain, TypeOK
<1>5. CASE TakeFromPrimary
  <2>1. pt.to \in Workers /\ pt' \in PrimaryType /\ events' \in Nat
    BY <1>5, PrimaryTypes DEF TakeFromPrimary, Forwarded, TypeOK, PrimaryType, Workers
  <2> DEFINE new == [pc |-> "send", out |-> <<"Error">>, after |-> "select"]
  <2>2. new \in MainType /\ new.pc = "send" /\ new.out # << >>
    BY DEF MainType, ToPrimary
  <2>3. main' = main \/ main' = [main EXCEPT ![pt.to] = new]
    BY <1>5 DEF TakeFromPrimary, Failed
  <2> HIDE DEF new
  <2>4. /\ main' \in [Workers -> MainType]
        /\ \A v \in Workers : main'[v].pc = "send" <=> main'[v].out # << >>
    BY <2>1, <2>2, <2>3 DEF TypeOK
  <2>5. goodbye' \in {"none", "asked", "sent", "failed"}
    BY <1>5 DEF TakeFromPrimary, TypeOK
  <2> QED
    BY <1>5, <2>1, <2>4, <2>5 DEF TakeFromPrimary, TypeOK
<1>6. CASE TerminateWorker
  <2>1. NextToTerminate \in Workers /\ pt' \in PrimaryType
    BY <1>6, PrimaryTypes DEF TerminateWorker, NextToTerminate, TerminationOrder, TypeOK,
                              PrimaryType, Workers
  <2> DEFINE w == NextToTerminate
             new == [main[w] EXCEPT !.pc = "join"]
  <2>2. main[w].pc = "select" => new \in MainType /\ new.pc = "join" /\ new.out = << >>
    BY <2>1 DEF TypeOK, MainType
  <2>3. main' = main \/ (main[w].pc = "select" /\ main' = [main EXCEPT ![w] = new])
    BY <1>6 DEF TerminateWorker
  <2> HIDE DEF w, new
  <2>4. w \in Workers
    BY <2>1 DEF w
  <2>5. /\ main' \in [Workers -> MainType]
        /\ \A v \in Workers : main'[v].pc = "send" <=> main'[v].out # << >>
    BY <2>2, <2>3, <2>4 DEF TypeOK
  <2> QED
    BY <1>6, <2>1, <2>5 DEF TerminateWorker, TypeOK
<1>7. CASE CloseConnection
  BY <1>7, PrimaryTypes DEF CloseConnection, TypeOK
<1>8. ASSUME NEW w \in Workers, NEW m \in NetType(w), m # "receive", m # "done",
             net' = [net EXCEPT ![w] = m], main' = main, received' \in Nat,
             UNCHANGED <<app, pt, conn, inputs, events, quit, goodbye>>
      PROVE  TypeOK'
  BY <1>8 DEF TypeOK
<1>9. ASSUME NEW w \in Workers, NetError(w)
      PROVE  TypeOK'
  BY <1>8, <1>9 DEF NetError, NetType, TypeOK
<1>10. ASSUME NEW w \in Workers, NEW m \in Incoming(w), NetReceive(w, m)
       PROVE  TypeOK'
  <2>1. m \in NetType(w) /\ m # "receive" /\ m # "done"
    BY DEF NetType, Incoming, Workers
  <2> QED
    BY <1>8, <1>10, <2>1 DEF NetReceive, TypeOK
<1>11. ASSUME NEW w \in Workers, TakeFromNet(w)
       PROVE  TypeOK'
  <2>1. net[w] \in NetType(w) /\ net[w] \notin {"receive", "done"}
    BY <1>11 DEF TakeFromNet, TypeOK
  <2>2. PICK out \in Replies(w, net[w]) :
          main' = [main EXCEPT ![w] = [pc    |-> IF out = << >> THEN "select" ELSE "send",
                                       out   |-> out,
                                       after |-> IF w = "cc" /\ net[w] = "Err"
                                                   THEN "join" ELSE "select"]]
    BY <1>11 DEF TakeFromNet
  <2>3. out \in Seq(ToPrimary)
    BY <2>1, RepliesType
  <2> DEFINE new == [pc    |-> IF out = << >> THEN "select" ELSE "send",
                     out   |-> out,
                     after |-> IF w = "cc" /\ net[w] = "Err" THEN "join" ELSE "select"]
  <2>4. new \in MainType /\ (new.pc = "send" <=> new.out # << >>)
    BY <2>3 DEF MainType
  <2> HIDE DEF new
  <2>5. main' = [main EXCEPT ![w] = new]
    BY <2>2 DEF new
  <2>6. /\ main' \in [Workers -> MainType]
        /\ \A v \in Workers : main'[v].pc = "send" <=> main'[v].out # << >>
    BY <2>4, <2>5 DEF TypeOK
  <2>7. \A v \in Workers : {"receive", "done"} \subseteq NetType(v)
    BY DEF NetType
  <2>8. net' = [net EXCEPT ![w] = "done"] \/ net' = [net EXCEPT ![w] = "receive"]
    BY <1>11 DEF TakeFromNet
  <2>9. /\ net' \in [Workers -> UNION {NetType(v) : v \in Workers}]
        /\ \A v \in Workers : net'[v] \in NetType(v)
    BY <2>7, <2>8 DEF TypeOK
  <2> QED
    BY <1>11, <2>6, <2>9 DEF TakeFromNet, TypeOK
<1>12. ASSUME NEW w \in Workers, NetIsGone(w) \/ MainJoined(w)
       PROVE  TypeOK'
  <2> DEFINE pc == IF NetIsGone(w) THEN "join" ELSE "done"
             new == [main[w] EXCEPT !.pc = pc]
  <2>1. main[w] \in MainType /\ main[w].pc # "send"
    BY <1>12 DEF NetIsGone, MainJoined, TypeOK
  <2>2. new \in MainType /\ new.pc # "send" /\ new.out = << >>
    BY <2>1 DEF MainType, TypeOK
  <2>3. main' = [main EXCEPT ![w] = new]
    BY <1>12 DEF NetIsGone, MainJoined
  <2> HIDE DEF new
  <2>4. /\ main' \in [Workers -> MainType]
        /\ \A v \in Workers : main'[v].pc = "send" <=> main'[v].out # << >>
    BY <2>2, <2>3 DEF TypeOK
  <2> QED
    BY <1>12, <2>4 DEF NetIsGone, MainJoined, TypeOK
<1> QED
  BY <1>1, <1>2, <1>3, <1>4, <1>5, <1>6, <1>7, <1>9, <1>10, <1>11, <1>12
     DEF Next, Primary, Worker

-----------------------------------------------------------------------------
(* The strengthening.                                                      *)

\* What the primary thread does to pt and the workers' loops in one step.
LEMMA PrimaryMoves ==
  ASSUME TypeOK, [Next]_vars
  PROVE  \/ pt' = pt
         \/ IsActive /\ pt'.pc \in {"select", "send", "terminate"} /\ pt'.next = pt.next
         \/ TerminateWorker
         \/ CloseConnection
<1>1. pt \in PrimaryType
  BY DEF TypeOK
<1>2. CASE TakeFromApp
  BY <1>1, <1>2 DEF TakeFromApp, Forward, Leave, PrimaryType, IsActive
<1>3. ASSUME NEW w \in Workers, TakeFromMain(w)
      PROVE  /\ IsActive
             /\ pt' = pt \/ (pt'.pc \in {"send", "terminate"} /\ pt'.next = pt.next)
  BY <1>1, <1>3 DEF TakeFromMain, Quit, Queue, Forward, Leave, PrimaryType, IsActive
<1>4. CASE TakeFromPrimary
  BY <1>1, <1>4 DEF TakeFromPrimary, Forwarded, PrimaryType, IsActive
<1> QED
  BY <1>2, <1>3, <1>4
     DEF Next, Primary, Worker, Application, Returns, LoseConnection, SendInput, Disconnect,
         DropConnection, SendFails, Joined, NetError, TakeFromNet, NetIsGone, MainJoined, NetReceive, vars

\* A worker that is out of its loop stays out.
LEMMA OutStays ==
  ASSUME TypeOK, [Next]_vars, NEW w \in Workers, main[w].pc \in Out
  PROVE  main'[w].pc \in Out
<1>1. main \in [Workers -> MainType]
  BY DEF TypeOK
<1>2. ASSUME NEW v \in Workers, TakeFromMain(v)
      PROVE  main'[w] = main[w]
  BY <1>2, SentType DEF TakeFromMain, Out
<1>3. CASE TakeFromPrimary
  <2>1. main[pt.to].pc = "select" /\ (main' = main \/ \E r : main' = [main EXCEPT ![pt.to] = r])
    BY <1>3 DEF TakeFromPrimary, Failed
  <2> QED
    BY <1>1, <2>1 DEF Out
<1>4. CASE TerminateWorker
  BY <1>1, <1>4 DEF TerminateWorker, Out, MainType
<1>5. ASSUME NEW v \in Workers, TakeFromNet(v)
      PROVE  main'[w] = main[w]
  <2>1. main[v].pc = "select" /\ \E r : main' = [main EXCEPT ![v] = r]
    BY <1>5 DEF TakeFromNet
  <2> QED
    BY <1>1, <2>1 DEF Out
<1>6. ASSUME NEW v \in Workers, NetIsGone(v) \/ MainJoined(v)
      PROVE  main'[w].pc \in Out
  BY <1>1, <1>6 DEF NetIsGone, MainJoined, Out, MainType
<1> QED
  BY <1>2, <1>3, <1>4, <1>5, <1>6
     DEF Next, Primary, Worker, Application, Returns, LoseConnection, SendInput, Disconnect,
         DropConnection, SendFails, Joined, TakeFromApp, CloseConnection, NetError, NetReceive, vars

LEMMA ToldStep ==
  ASSUME TypeOK, Told, [Next]_vars
  PROVE  Told'
<1>1. \A w \in Workers : main[w].pc \in Out => main'[w].pc \in Out
  BY OutStays
<1>2. \A i \in 1 .. 4 : TerminationOrder[i] \in Workers
  BY DEF TerminationOrder, Workers
<1>3. pt \in PrimaryType
  BY DEF TypeOK
<1>4. CASE pt' = pt
  BY <1>1, <1>2, <1>4 DEF Told, IsActive
<1>5. CASE IsActive /\ pt'.pc \in {"select", "send", "terminate"} /\ pt'.next = pt.next
  BY <1>5 DEF Told, IsActive
<1>6. CASE TerminateWorker
  <2>1. /\ pt.pc = "terminate" /\ pt'.pc = "terminate"
        /\ pt.next \in 1 .. 4 /\ pt'.next = pt.next + 1
    BY <1>3, <1>6 DEF TerminateWorker, PrimaryType
  <2>2. main'[TerminationOrder[pt.next]].pc \in Out
    BY <1>2, <1>6, <2>1 DEF TerminateWorker, NextToTerminate, Out, TypeOK, MainType
  <2>3. \A i \in 1 .. 4 : i < pt.next + 1 => i < pt.next \/ i = pt.next
    BY <2>1
  <2> QED
    BY <1>1, <1>2, <2>1, <2>2, <2>3 DEF Told, IsActive
<1>7. CASE CloseConnection
  <2>1. pt.pc = "terminate" /\ pt.next = 5 /\ pt'.pc = "done" /\ main' = main
    BY <1>3, <1>7 DEF CloseConnection, PrimaryType
  <2>2. \A i \in 1 .. 4 : main[TerminationOrder[i]].pc \in Out
    BY <2>1 DEF Told
  <2>3. \A w \in Workers : \E i \in 1 .. 4 : TerminationOrder[i] = w
    <3>1. /\ TerminationOrder[1] = "cc" /\ TerminationOrder[2] = "ec"
          /\ TerminationOrder[3] = "mc" /\ TerminationOrder[4] = "tc"
      BY DEF TerminationOrder
    <3> QED
      BY <3>1 DEF Workers
  <2> QED
    BY <2>1, <2>2, <2>3 DEF Told, IsActive
<1> QED
  BY <1>4, <1>5, <1>6, <1>7, PrimaryMoves

LEMMA ReasonsStep ==
  ASSUME TypeOK, Reasons, [Next]_vars
  PROVE  Reasons'
<1>1. pt \in PrimaryType
  BY DEF TypeOK
<1>2. CASE Application \/ Returns \/ LoseConnection \/ UNCHANGED vars
  BY <1>1, <1>2 DEF Reasons, IsActive, Application, Returns, LoseConnection, SendInput, Disconnect,
               DropConnection, SendFails, Joined, AfterSend, vars, PrimaryType
<1>3. CASE TakeFromApp
  BY <1>1, <1>3 DEF TakeFromApp, AfterSend, Reasons, IsActive, Forward, Leave, PrimaryType
<1>4. ASSUME NEW w \in Workers, TakeFromMain(w)
      PROVE  Reasons'
  BY <1>1, <1>4 DEF TakeFromMain, Reasons, IsActive, Quit, Queue, Forward, Leave, PrimaryType
<1>5. CASE TakeFromPrimary
  BY <1>1, <1>5 DEF TakeFromPrimary, Forwarded, Reasons, IsActive, PrimaryType
<1>6. CASE TerminateWorker \/ CloseConnection
  BY <1>1, <1>6 DEF TerminateWorker, CloseConnection, Reasons, IsActive, PrimaryType
<1>7. ASSUME NEW w \in Workers, Worker(w) \/ (\E m \in Incoming(w) : NetReceive(w, m))
      PROVE  Reasons'
  BY <1>7 DEF Worker, NetError, TakeFromNet, NetIsGone, MainJoined, NetReceive, Reasons, IsActive
<1> QED
  BY <1>2, <1>3, <1>4, <1>5, <1>6, <1>7 DEF Next, Primary

\* tc-main never ends.
LEMMA TunnelStep ==
  ASSUME TypeOK, main["tc"].pc # "done", [Next]_vars
  PROVE  main'["tc"].pc # "done"
<1>1. main \in [Workers -> MainType] /\ "tc" \in Workers
  BY DEF TypeOK, Workers
<1>2. ASSUME NEW w \in Workers, TakeFromMain(w)
      PROVE  main'["tc"].pc # "done"
  <2>1. main' = [main EXCEPT ![w] = [pc    |-> IF Tail(main[w].out) = << >> THEN main[w].after ELSE "send",
                                     out   |-> Tail(main[w].out),
                                     after |-> main[w].after]]
    BY <1>2 DEF TakeFromMain, Sent
  <2>2. main[w].after \in {"select", "join"}
    BY <1>1 DEF MainType
  <2> QED
    BY <1>1, <2>1, <2>2
<1>3. CASE TakeFromPrimary
  BY <1>1, <1>3 DEF TakeFromPrimary, Failed
<1>4. CASE TerminateWorker
  <2>1. CASE main' = main
    BY <2>1
  <2>2. CASE main' = [main EXCEPT ![NextToTerminate].pc = "join"]
    BY <1>1, <2>2 DEF MainType
  <2> QED
    BY <1>4, <2>1, <2>2 DEF TerminateWorker
<1>5. ASSUME NEW w \in Workers, Worker(w)
      PROVE  main'["tc"].pc # "done"
  <2>1. CASE NetError(w)
    BY <2>1 DEF NetError
  <2>2. CASE TakeFromNet(w)
    <3>1. PICK out, after :
            main' = [main EXCEPT ![w] = [pc    |-> IF out = << >> THEN "select" ELSE "send",
                                         out   |-> out,
                                         after |-> after]]
      BY <2>2 DEF TakeFromNet
    <3>2. CASE w # "tc"
      BY <1>1, <3>1, <3>2
    <3>3. CASE w = "tc"
      <4>1. main'["tc"].pc = IF out = << >> THEN "select" ELSE "send"
        BY <1>1, <3>1, <3>3
      <4> QED
        BY <4>1
    <3> QED
      BY <3>2, <3>3
  <2>3. CASE NetIsGone(w)
    BY <1>1, <2>3 DEF NetIsGone, MainType
  <2>4. CASE MainJoined(w)
    BY <1>1, <2>4 DEF MainJoined, MainType
  <2> QED
    BY <1>5, <2>1, <2>2, <2>3, <2>4 DEF Worker
<1> QED
  BY <1>2, <1>3, <1>4, <1>5
     DEF Next, Primary, Application, Returns, LoseConnection, SendInput, Disconnect,
         DropConnection, SendFails, Joined, TakeFromApp, CloseConnection, NetReceive, vars

\* The other main threads report before they leave.
LEMMA ReportingStep ==
  ASSUME TypeOK, Unfinished, [Next]_vars, IsActive', NEW w \in Workers \ {"tc"}
  PROVE  Reporting(w)'
<1>1. main \in [Workers -> MainType] /\ w \in Workers /\ main[w] \in MainType
  BY DEF TypeOK
<1>2. net[w] \in NetType(w) /\ DOMAIN net = Workers
  BY DEF TypeOK
<1>3. IsActive
  <2>1. pt \in PrimaryType
    BY DEF TypeOK
  <2>2. CASE TerminateWorker \/ CloseConnection
    BY <2>1, <2>2 DEF TerminateWorker, CloseConnection, IsActive, PrimaryType
  <2> QED
    BY <2>2, PrimaryMoves DEF IsActive
<1>4. Reporting(w)
  BY <1>3 DEF Unfinished
<1>5. CASE main'[w] = main[w] /\ net'[w] = net[w]
  BY <1>4, <1>5 DEF Reporting
<1>6. ASSUME NEW v \in Workers, TakeFromMain(v)
      PROVE  Reporting(w)'
  <2>1. main' = Sent(v) /\ main[v].pc = "send" /\ net' = net
    BY <1>6 DEF TakeFromMain
  <2>2. CASE v # w
    BY <1>5, <2>1, <2>2, SentType
  <2>3. CASE v = w
    <3>1. Head(main[w].out) # "Error"
      <4>1. ASSUME Head(main[w].out) = "Error"
            PROVE  pt'.pc = "terminate"
        BY <1>6, <2>3, <4>1 DEF TakeFromMain, Quit, Leave, TypeOK, PrimaryType
      <4> QED
        BY <4>1 DEF IsActive
    <3>2. net[w] # "done"
      BY <1>4, <3>1 DEF Reporting
    <3>3. main[w].after = "select"
      BY <1>4, <2>1, <2>3, <3>2 DEF Reporting
    <3>4. main' = [main EXCEPT ![w] = [pc    |-> IF Tail(main[w].out) = << >> THEN "select" ELSE "send",
                                       out   |-> Tail(main[w].out),
                                       after |-> "select"]]
      BY <2>1, <2>3, <3>3 DEF Sent
    <3>5. main'[w].pc \in {"select", "send"} /\ main'[w].after = "select"
      BY <1>1, <3>4
    <3> QED
      BY <2>1, <3>2, <3>5 DEF Reporting, Out
  <2> QED
    BY <2>2, <2>3
<1>7. CASE TakeFromPrimary
  <2>1. CASE main' = main
    BY <1>5, <1>7, <2>1 DEF TakeFromPrimary
  <2>2. CASE main' = Failed(pt.to) /\ pt.to # w
    BY <1>1, <1>5, <1>7, <2>2 DEF TakeFromPrimary, Failed
  <2>3. CASE main' = Failed(pt.to) /\ pt.to = w
    <3>1. main'[w] = [pc |-> "send", out |-> <<"Error">>, after |-> "select"] /\ net' = net
      BY <1>1, <1>7, <2>3 DEF TakeFromPrimary, Failed
    <3> QED
      BY <3>1 DEF Reporting, Out
  <2> QED
    BY <1>7, <2>1, <2>2, <2>3 DEF TakeFromPrimary
<1>8. CASE TerminateWorker \/ CloseConnection
  BY <1>3, <1>8 DEF TerminateWorker, CloseConnection, IsActive
<1>9. ASSUME NEW v \in Workers, NetError(v) \/ (\E m \in Incoming(v) : NetReceive(v, m))
      PROVE  Reporting(w)'
  <2>1. main' = main /\ net[v] = "receive" /\ \E m : m # "done" /\ net' = [net EXCEPT ![v] = m]
    BY <1>9 DEF NetError, NetReceive, Incoming, Workers
  <2> QED
    BY <1>2, <1>4, <2>1 DEF Reporting
<1>10. ASSUME NEW v \in Workers, TakeFromNet(v)
       PROVE  Reporting(w)'
  <2>1. CASE v # w
    BY <1>1, <1>2, <1>5, <1>10, <2>1 DEF TakeFromNet
  <2>2. CASE v = w
    <3>1. net[w] \notin {"receive", "done"}
      BY <1>10, <2>2 DEF TakeFromNet
    <3>2. PICK out \in Replies(w, net[w]) :
            main'[w] = [pc    |-> IF out = << >> THEN "select" ELSE "send",
                        out   |-> out,
                        after |-> IF w = "cc" /\ net[w] = "Err" THEN "join" ELSE "select"]
      BY <1>1, <1>10, <2>2 DEF TakeFromNet
    <3>3. net[w] = "Err" => out = <<"Error">>
      BY <1>1, <1>2, <3>1, RepliesType
    <3>4. net'[w] = IF net[w] = "Err" THEN "done" ELSE "receive"
      BY <1>1, <1>2, <1>10, <2>2 DEF TakeFromNet
    <3>5. <<"Error">> # << >> /\ Head(<<"Error">>) = "Error"
      OBVIOUS
    <3>6. CASE net[w] = "Err"
      <4>1. main'[w].pc = "send" /\ main'[w].out = <<"Error">> /\ net'[w] = "done"
        BY <3>2, <3>3, <3>4, <3>5, <3>6
      <4> QED
        BY <3>5, <4>1 DEF Reporting, Out
    <3>7. CASE net[w] # "Err"
      <4>1. main'[w].pc \in {"select", "send"} /\ main'[w].after = "select" /\ net'[w] = "receive"
        BY <3>2, <3>4, <3>7
      <4> QED
        BY <4>1 DEF Reporting, Out
    <3> QED
      BY <3>6, <3>7
  <2> QED
    BY <2>1, <2>2
<1>11. ASSUME NEW v \in Workers, NetIsGone(v) \/ MainJoined(v)
       PROVE  Reporting(w)'
  <2>1. v # w
    BY <1>4, <1>11 DEF NetIsGone, MainJoined, Reporting, Out
  <2> QED
    BY <1>1, <1>5, <1>11, <2>1 DEF NetIsGone, MainJoined
<1> QED
  BY <1>5, <1>6, <1>7, <1>8, <1>9, <1>10, <1>11
     DEF Next, Primary, Worker, Application, Returns, LoseConnection, SendInput, Disconnect,
         DropConnection, SendFails, Joined, TakeFromApp, vars

-----------------------------------------------------------------------------
(* The theorems.                                                           *)

LEMMA Initially ==
  ASSUME Init
  PROVE  IInv
<1>1. pt \in PrimaryType
  BY DEF Init, PrimaryType, FromPrimary
<1>2. /\ main \in [Workers -> MainType]
      /\ \A w \in Workers : main[w].pc = "send" <=> main[w].out # << >>
  BY DEF Init, MainType
<1>3. /\ net \in [Workers -> UNION {NetType(w) : w \in Workers}]
      /\ \A w \in Workers : net[w] \in NetType(w)
  <2>1. \A w \in Workers : "receive" \in NetType(w)
    BY DEF NetType
  <2> QED
    BY <2>1 DEF Init
<1>4. TypeOK
  BY <1>1, <1>2, <1>3 DEF Init, TypeOK
<1>5. Told /\ Reasons
  BY DEF Init, Told, Reasons, IsActive
<1>6. Unfinished
  BY DEF Init, Unfinished, Reporting, IsActive, Out, Workers
<1> QED
  BY <1>4, <1>5, <1>6 DEF IInv

\* The threads keep the properties below and what makes them inductive.
THEOREM ClientInvariance == Spec => []IInv
<1>1. Init => IInv
  BY Initially
<1>2. IInv /\ [Next]_vars => IInv'
  <2> SUFFICES ASSUME IInv, [Next]_vars
               PROVE  IInv'
    OBVIOUS
  <2>1. TypeOK' /\ Told' /\ Reasons'
    BY TypeStep, ToldStep, ReasonsStep DEF IInv
  <2>2. Unfinished'
    BY TunnelStep, ReportingStep DEF IInv, Unfinished
  <2> QED
    BY <2>1, <2>2 DEF IInv
<1> QED
  BY <1>1, <1>2, PTL DEF Spec

\* Every reachable state of the threads is well typed.
THEOREM ClientTypes == Spec => []TypeOK
<1>1. IInv => TypeOK
  BY DEF IInv
<1> QED
  BY <1>1, ClientInvariance, PTL

\* When handle.close() is called and the primary thread ends, every worker has
\* left its loop.
THEOREM WorkersLeaveFirst == Spec => []ClosedAfterWorkers
<1>1. IInv => ClosedAfterWorkers
  BY DEF IInv, Told, ClosedAfterWorkers, Out
<1> QED
  BY <1>1, ClientInvariance, PTL

\* The "terminated unexpectedly" branches of the primary thread's loop cannot
\* be reached: a worker reports its error before it ends.
THEOREM WorkersReportErrors == Spec => []NoneEndsUnexpectedly
<1>1. IInv => NoneEndsUnexpectedly
  BY DEF IInv, Unfinished, NoneEndsUnexpectedly, Reporting, Out
<1> QED
  BY <1>1, ClientInvariance, PTL

\* disconnect closes no connection without its goodbye, unless the connection
\* ended with a Quit event of its own.
THEOREM GoodbyeIsSent == Spec => []GoodbyeBeforeClose
<1>1. IInv => GoodbyeBeforeClose
  BY DEF IInv, Reasons, GoodbyeBeforeClose, ClosedAfterWorkers, IsActive
<1> QED
  BY <1>1, ClientInvariance, PTL

\* Nothing follows the Quit event, and it is queued once.
THEOREM NothingAfterQuit == Spec => QuitIsLast
<1>1. IInv /\ [Next]_vars => [quit # "none" => events' = events /\ quit' = quit]_vars
  <2> SUFFICES ASSUME IInv, [Next]_vars, quit # "none"
               PROVE  events' = events /\ quit' = quit
    OBVIOUS
  <2>1. ~IsActive
    BY DEF IInv, Reasons
  <2> QED
    BY <2>1 DEF IsActive, Next, Primary, Worker, Application, Returns, LoseConnection, SendInput,
         Disconnect, DropConnection, SendFails, Joined, TakeFromApp, TakeFromMain, TakeFromPrimary,
         TerminateWorker, CloseConnection, NetError, TakeFromNet, NetIsGone, MainJoined, NetReceive, vars
<1> QED
  BY <1>1, ClientInvariance, PTL DEF Spec, QuitIsLast

=============================================================================
