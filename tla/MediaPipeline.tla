--------------------------- MODULE MediaPipeline ---------------------------
(***************************************************************************)
(* From the screen to the application: the backend task                    *)
(* (aperturec-server/src/task/backend.rs), frame synchronisation, the      *)
(* encoder tasks (encoder.rs), the media channel handler                   *)
(* (media_channel_handler.rs) behind the rate limiter, the network, and    *)
(* the client's Framer (aperturec-client/src/frame.rs) between the media   *)
(* thread and the primary thread.                                          *)
(*                                                                         *)
(* There is one display of height one; a box is an interval of its         *)
(* columns.  FrameSync and DisplayFramer have the details of cutting and   *)
(* of assembling frames: here a frame is cut as one step and a fragment is *)
(* drawn once it is accepted.  The command and frame channels of an        *)
(* encoder and the channel to the handler have one slot each; the channels *)
(* between the client's threads have none.                                 *)
(***************************************************************************)
EXTENDS RateLimit, CursorCache, Partition

CONSTANTS
  EncoderCount,
  Widths,          \* the widths of the display that clients ask for
  Damages,         \* the boxes that are damaged
  Workloads        \* bound: how much of what happens in a behaviour, see MCMedia

Encoders == 0 .. EncoderCount - 1

VARIABLES
  workload,    \* what is left to happen
  backend,     \* the backend task: where it is, the configuration it makes
  extent,      \* display_extent, a width
  announced,   \* history: the last configuration sent to the client
  captured,    \* the damage channel: captured boxes not yet applied
  ndc,         \* the NewDisplayConfig in its channel, if any
  tb,          \* the tracking buffer
  slot,        \* encoder -> the frame in its channel, if any
  command,     \* encoder -> the width of the Reconfigure in its channel, or 0
  encoder,     \* encoder -> the width its area is for, the messages it has to send
  mm,          \* the channel to the handler: at most one message
  handler,     \* the media channel handler
  net,         \* media messages on their way: each travels on its own stream
  framer,      \* the client's Framer: the configuration and width it is for
  primary,     \* the DisplayConfiguration the primary thread forwards, if any
  draws,       \* the Framer's draws
  shown_config,\* the configuration of the last DisplayChange given to the application
  painted,     \* history: the last draw given to the application
  stopping     \* the session's tasks are cancelled

screen == <<backend, extent, announced, captured, ndc>>
frames == <<tb, slot, command, encoder>>
sending == <<mm, handler>>
drawing == <<framer, primary, draws, shown_config, painted>>
mediaVars == <<workload, screen, frames, sending, net, drawing, stopping>>
vars == <<mediaVars, rateVars, cursorVars, ec>>

None == <<>>         \* nothing in a slot

Columns(width) == 0 .. width - 1

\* The area of encoder e, as partition_displays makes it.
Areas ==
  [width \in Widths |-> [e \in Encoders |->
     LET box == partition(width, 1, EncoderCount)[e] IN box.x0 .. box.x1 - 1]]

AreaOf(width, e) == Areas[width][e]

\* The largest message is one and an encoder's whole area.
ASSUME MediaAssumption ==
  /\ EncoderCount \in Nat \ {0}
  /\ Widths \subseteq Nat \ {0}
  /\ Workloads \subseteq
       [width : Widths, asks : SUBSET Widths, configs : Nat, damages : Nat, frames : Nat,
        failures : Nat, stops : BOOLEAN, cursors : BOOLEAN, delivers : BOOLEAN,
        caps : [server : Nat \union {NoCap}, client : Nat]]
  /\ \A width \in Widths, e \in Encoders : Cardinality(AreaOf(width, e)) < MaxMessage

DisplayConfiguration(id, width) ==
  [kind |-> "DisplayConfiguration", id |-> id, width |-> width]

Fresh(config, width) ==
  [config |-> config, width |-> width, boxes |-> {Columns(width)}, next |-> 0]

Init ==
  \E load \in Workloads : LET width == load.width IN
    /\ workload = load
    /\ caps = load.caps
    /\ backend = [at |-> "select", id |-> 0, width |-> width, next |-> 0]
    /\ extent = width
    /\ announced = 0
    /\ captured = {}
    /\ ndc = None
    /\ tb = Fresh(0, width)
    /\ slot = [e \in Encoders |-> None]
    /\ command = [e \in Encoders |-> 0]
    /\ encoder = [e \in Encoders |-> [at |-> "run", width |-> width, out |-> <<>>]]
    /\ mm = None
    /\ handler = [at |-> "select", msg |-> None]
    /\ net = {}
    /\ framer = [config |-> 0, width |-> width]
    /\ primary = None
    /\ draws = {}
    /\ shown_config = 0
    /\ painted = {}
    /\ stopping = FALSE
    /\ RateInit /\ CursorInit

-----------------------------------------------------------------------------
(* The backend task.                                                       *)

BackendSelects == backend.at = "select" /\ ~stopping

\* A Display event: the width asked for is set, or the current one is kept;
\* the tracking buffer is told of the new configuration.  There are areas
\* for each display, so display_config_from_parts does not fail.
DisplayEvent(width) ==
  /\ BackendSelects
  /\ workload.configs > 0 /\ width \in workload.asks
  /\ workload' = [workload EXCEPT !.configs = @ - 1]
  /\ backend' = [at |-> "commands", id |-> backend.id + 1, width |-> width, next |-> 0]
  /\ ndc' = <<backend.id + 1, width>>
  /\ UNCHANGED <<extent, announced, captured, frames, sending, net, drawing, stopping,
                 rateVars, cursorVars, ec>>

\* The next encoder is told its new area, once there is room for the command.
Reconfigure ==
  /\ backend.at = "commands"
  /\ LET e == backend.next
     IN /\ encoder[e].at # "gone" /\ command[e] = 0
        /\ command' = [command EXCEPT ![e] = backend.width]
        /\ backend' = [backend EXCEPT !.next = e + 1,
                                      !.at = IF e = EncoderCount - 1 THEN "await" ELSE @]
  /\ UNCHANGED <<workload, extent, announced, captured, ndc, tb, slot, encoder, sending, net,
                 drawing, stopping, rateVars, cursorVars, ec>>

\* notify_complete_rx: the tracking buffer has the new configuration.
MayAnnounce == backend.at = "await" /\ tb.config = backend.id

\* The client is told of the new configuration.
Announce ==
  /\ MayAnnounce
  /\ ec' = Append(ec, DisplayConfiguration(backend.id, backend.width))
  /\ announced' = backend.id
  /\ extent' = backend.width
  /\ backend' = [backend EXCEPT !.at = "select"]
  /\ UNCHANGED <<workload, captured, ndc, frames, sending, net, drawing, stopping, rateVars,
                 cursorVars>>

\* A damaged box is captured, as far as it is on the display.
DamageEvent(box) ==
  /\ BackendSelects
  /\ workload.damages > 0
  /\ workload' = [workload EXCEPT !.damages = @ - 1]
  /\ captured' = captured \union ({box \intersect Columns(extent)} \ {{}})
  /\ UNCHANGED <<backend, extent, announced, ndc, frames, sending, net, drawing, stopping,
                 rateVars, cursorVars, ec>>

\* It ends when it is cancelled in its select, or when a channel it waits for
\* is dropped by a task that has ended.
BackendStops ==
  /\ \/ stopping /\ backend.at \in {"select", "await"}
     \/ backend.at = "commands" /\ encoder[backend.next].at = "gone"
  /\ backend' = [backend EXCEPT !.at = "gone"]
  /\ UNCHANGED <<workload, extent, announced, captured, ndc, frames, sending, net, drawing,
                 stopping, rateVars, cursorVars, ec>>

-----------------------------------------------------------------------------
(* Frame synchronisation: see FrameSync.                                   *)

ApplyConfig ==
  /\ ndc # None /\ ~stopping
  /\ tb' = Fresh(ndc[1], ndc[2])
  /\ ndc' = None
  /\ UNCHANGED <<workload, backend, extent, announced, captured, slot, command, encoder, sending,
                 net, drawing, stopping, rateVars, cursorVars, ec>>

ApplyDamage(box) ==
  /\ box \in captured /\ ~stopping
  /\ captured' = captured \ {box}
  /\ tb' = [tb EXCEPT !.boxes = IF Columns(tb.width) \in @ THEN @
                                ELSE @ \union ({box \intersect Columns(tb.width)} \ {{}})]
  /\ UNCHANGED <<workload, backend, extent, announced, ndc, slot, command, encoder, sending, net,
                 drawing, stopping, rateVars, cursorVars, ec>>

\* A frame is cut once every encoder has room for it.  `quiet': it is cut after
\* its configuration was announced, and not between an encoder's two polls.
CutFrame ==
  /\ ~stopping
  /\ tb.boxes # {}
  /\ workload.frames > 0
  /\ workload' = [workload EXCEPT !.frames = @ - 1]
  /\ \A e \in Encoders : encoder[e].at # "gone" /\ slot[e] = None
  /\ slot' = [e \in Encoders |->
                [config |-> tb.config, id |-> tb.next, boxes |-> tb.boxes,
                 quiet |-> announced = tb.config /\ encoder[e].at # "frames"]]
  /\ tb' = [tb EXCEPT !.boxes = {}, !.next = @ + 1]
  /\ UNCHANGED <<screen, command, encoder, sending, net, drawing, stopping, rateVars, cursorVars,
                 ec>>

-----------------------------------------------------------------------------
(* An encoder task.                                                        *)

\* The biased select polls the commands and then the frames; "frames" is between
\* the two polls.
EncoderSelects(e) == encoder[e].at = "run" /\ encoder[e].out = <<>>

TakeCommand(e) ==
  /\ EncoderSelects(e)
  /\ command[e] # 0
  /\ encoder' = [encoder EXCEPT ![e].width = command[e]]
  /\ command' = [command EXCEPT ![e] = 0]
  /\ UNCHANGED <<workload, screen, tb, slot, sending, net, drawing, stopping, rateVars,
                 cursorVars, ec>>

\* There is no command: what comes before the frames are polled is missed.
PollCommands(e) ==
  /\ EncoderSelects(e)
  /\ command[e] = 0 /\ slot[e] = None
  /\ encoder' = [encoder EXCEPT ![e].at = "frames"]
  /\ UNCHANGED <<workload, screen, tb, slot, command, sending, net, drawing, stopping, rateVars,
                 cursorVars, ec>>

\* There is no frame either: the task waits for one of the two.
PollFrames(e) ==
  /\ encoder[e].at = "frames"
  /\ slot[e] = None
  /\ encoder' = [encoder EXCEPT ![e].at = "run"]
  /\ UNCHANGED <<workload, screen, tb, slot, command, sending, net, drawing, stopping, rateVars,
                 cursorVars, ec>>

\* Mutant: a frame is taken whether or not there is a command.
MayTakeFrame_Unbiased(e) ==
  slot[e] # None /\ (EncoderSelects(e) \/ encoder[e].at = "frames")

\* A frame is taken when there was no command at its poll.  A frame that is there
\* when the commands are polled is there when the frames are.
MayTakeFrame(e) ==
  /\ slot[e] # None
  /\ \/ EncoderSelects(e) /\ command[e] = 0
     \/ encoder[e].at = "frames"

\* The parts of a frame's boxes that are in the encoder's area.
Relevant(e, frame) ==
  {box \intersect AreaOf(encoder[e].width, e) : box \in frame.boxes} \ {{}}

\* A media message about a part of a frame; `of' is the part, `at' where it
\* begins relative to the encoder's area.
Message(kind, e, frame, sequence, terminal, part) ==
  [kind |-> kind, config |-> frame.config, frame |-> frame.id, encoder |-> e,
   sequence |-> sequence, terminal |-> terminal, of |-> part,
   at |-> IF part = {} THEN 0 ELSE Min(part) - Min(AreaOf(encoder[e].width, e)),
   quiet |-> frame.quiet /\ backend.id = frame.config]

\* The messages for a frame, when the compressions of `parts' succeed in this
\* order and the others fail: a failure does not advance the sequence.
Encode(e, frame, parts) ==
  IF Relevant(e, frame) = {}
    THEN <<Message("Terminal", e, frame, 0, TRUE, {})>>
    ELSE [i \in 1 .. Len(parts) |->
            Message("Fragment", e, frame, i - 1, i = Cardinality(Relevant(e, frame)), parts[i])]

\* The orders in which some of a set are completed.
Completions(S) ==
  UNION {{p \in [1 .. n -> S] : IsInjective(p)} :
           n \in (Cardinality(S) - workload.failures) .. Cardinality(S)}

TakeFrame(e) ==
  /\ MayTakeFrame(e)
  /\ \E parts \in Completions(Relevant(e, slot[e])) :
       encoder' = [encoder EXCEPT ![e].at = "run", ![e].out = Encode(e, slot[e], parts)]
  /\ slot' = [slot EXCEPT ![e] = None]
  /\ UNCHANGED <<workload, screen, tb, command, sending, net, drawing, stopping, rateVars,
                 cursorVars, ec>>

SendMessage(e) ==
  /\ encoder[e].at = "run" /\ encoder[e].out # <<>>
  /\ mm = None /\ handler.at # "gone"
  /\ mm' = <<Head(encoder[e].out)>>
  /\ encoder' = [encoder EXCEPT ![e].out = Tail(@)]
  /\ UNCHANGED <<workload, screen, tb, slot, command, handler, net, drawing, stopping, rateVars,
                 cursorVars, ec>>

\* The task is aborted, wherever it waits, or the handler is gone that it sends to.
EncoderStops(e) ==
  /\ encoder[e].at # "gone"
  /\ stopping \/ (handler.at = "gone" /\ encoder[e].out # <<>>)
  /\ encoder' = [encoder EXCEPT ![e].at = "gone", ![e].out = <<>>]
  /\ slot' = [slot EXCEPT ![e] = None]
  /\ command' = [command EXCEPT ![e] = 0]
  /\ UNCHANGED <<workload, screen, tb, sending, net, drawing, stopping, rateVars, cursorVars, ec>>

-----------------------------------------------------------------------------
(* The media channel handler.                                              *)

\* The bytes of a message: one, and one for each column.
Size(msg) == 1 + Cardinality(msg.of)

\* A message is received: without a limit the gate is open.
HandlerReceives ==
  /\ handler.at = "select"
  /\ mm # None
  /\ handler' = [at |-> IF Limited THEN "gate" ELSE "send", msg |-> mm]
  /\ mm' = None
  /\ IF Limited THEN request_to_send(Size(mm[1])) ELSE UNCHANGED rateVars
  /\ UNCHANGED <<workload, screen, frames, net, drawing, stopping, cursorVars, ec>>

\* The gate opens.
GateOpens ==
  /\ handler.at = "gate" /\ request.at = "granted"
  /\ handler' = [handler EXCEPT !.at = "send"]
  /\ request' = NoRequest
  /\ UNCHANGED <<workload, screen, frames, mm, net, drawing, stopping, caps, bucket, limiter,
                 allowance, cursorVars, ec>>

\* Mutant: a gate that fails does not end the handler.
GateFails_Waits ==
  /\ FALSE
  /\ UNCHANGED vars

\* The limiter is gone: the error ends the handler.
GateFails ==
  /\ handler.at = "gate" /\ request.at = "refused"
  /\ handler' = [handler EXCEPT !.at = "gone"]
  /\ UNCHANGED <<workload, screen, frames, mm, net, drawing, stopping, rateVars, cursorVars, ec>>

\* The stream has the message: its credit is the client's to give.
HandlerSends ==
  /\ handler.at = "send"
  /\ net' = net \union {handler.msg[1]}
  /\ handler' = [at |-> "select", msg |-> None]
  /\ UNCHANGED <<workload, screen, frames, mm, drawing, stopping, rateVars, cursorVars, ec>>

\* The send fails: the error ends the handler.
SendFails ==
  /\ handler.at = "send" /\ workload.stops
  /\ handler' = [handler EXCEPT !.at = "gone"]
  /\ UNCHANGED <<workload, screen, frames, mm, net, drawing, stopping, rateVars, cursorVars, ec>>

\* The select is biased: the messages there are come first.
HandlerStops ==
  /\ handler.at = "select"
  /\ mm = None /\ stopping
  /\ handler' = [handler EXCEPT !.at = "gone"]
  /\ UNCHANGED <<workload, screen, frames, mm, net, drawing, stopping, rateVars, cursorVars, ec>>

-----------------------------------------------------------------------------
(* The client.                                                             *)

\* The primary thread takes a configuration from the event channel's thread.
TakeConfig ==
  /\ workload.delivers
  /\ primary = None
  /\ ec # <<>> /\ Head(ec).kind = "DisplayConfiguration"
  /\ primary' = <<Head(ec)>>
  /\ ec' = Tail(ec)
  /\ UNCHANGED <<workload, screen, frames, sending, net, framer, draws, shown_config, painted,
                 stopping, rateVars, cursorVars>>

\* It hands it to the media thread, once that has no draws to hand over: a
\* newer configuration replaces the Framer.  Then the application is told.
ForwardConfig ==
  /\ primary # None /\ draws = {}
  /\ framer' = IF primary[1].id > framer.config
                 THEN [config |-> primary[1].id, width |-> primary[1].width] ELSE framer
  /\ shown_config' = primary[1].id
  /\ primary' = None
  /\ UNCHANGED <<workload, screen, frames, sending, net, draws, painted, stopping, rateVars,
                 cursorVars, ec>>

\* Framer: older messages are ignored and newer ones refused.
Accepts(msg) == msg.config = framer.config

\* get_draws_and_reset: a fragment is placed in its decoder's area.
Placed(msg) == msg.at + Min(AreaOf(framer.width, msg.encoder))

\* The media thread takes a message, having handed its draws over.
TakeMedia(msg) ==
  /\ workload.delivers
  /\ draws = {}
  /\ msg \in net
  /\ net' = net \ {msg}
  /\ draws' = IF Accepts(msg) /\ msg.kind = "Fragment"
                THEN {[config |-> msg.config, quiet |-> msg.quiet, of |-> Min(msg.of),
                       at |-> Placed(msg)]}
                ELSE {}
  /\ UNCHANGED <<workload, screen, frames, sending, framer, primary, shown_config, painted,
                 stopping, rateVars, cursorVars, ec>>

\* The primary thread takes a draw and hands it to the application.
HandDraw ==
  /\ draws # {} /\ primary = None
  /\ painted' = {[draw |-> d, shown |-> shown_config] : d \in draws}
  /\ draws' = {}
  /\ UNCHANGED <<workload, screen, frames, sending, net, framer, primary, shown_config, stopping,
                 rateVars, cursorVars, ec>>

-----------------------------------------------------------------------------

\* The session's end cancels every task.
Stop ==
  /\ ~stopping
  /\ workload.stops
  /\ stopping' = TRUE
  /\ UNCHANGED <<workload, screen, frames, sending, net, drawing, rateVars, cursorVars, ec>>

Limiter == RateNext(stopping) /\ UNCHANGED <<mediaVars, cursorVars, ec>>

\* The cursor's messages share the event channel with the configurations.
Cursor ==
  /\ \/ workload.cursors /\ \E s \in Serials : XCursorChanges(s)
     \/ BackendSelects /\ CursorBackend
     \/ primary = None /\ TakeCursor
  /\ UNCHANGED <<mediaVars, rateVars>>

Backend ==
  \/ \E width \in Widths : DisplayEvent(width)
  \/ \E box \in Damages : DamageEvent(box)
  \/ Reconfigure \/ Announce \/ BackendStops

FrameSync == ApplyConfig \/ CutFrame \/ \E box \in captured : ApplyDamage(box)

EncoderTask(e) == TakeCommand(e) \/ TakeFrame(e) \/ PollFrames(e) \/ SendMessage(e)

Encoder(e) == EncoderTask(e) \/ PollCommands(e) \/ EncoderStops(e)

HandlerTask == HandlerReceives \/ GateOpens \/ GateFails \/ HandlerStops

Handler == HandlerTask \/ HandlerSends \/ SendFails

Client == TakeConfig \/ ForwardConfig \/ HandDraw \/ \E msg \in net : TakeMedia(msg)

Next ==
  \/ Backend \/ FrameSync \/ Handler \/ Limiter \/ Client \/ Cursor \/ Stop
  \/ \E e \in Encoders : Encoder(e)

Spec == Init /\ [][Next]_vars

\* The runtime polls every task that is ready, and the rate limiter's interval
\* ticks.  Nothing is assumed of the network, the client or the X server: a send
\* of the handler need not return.
FairSpec ==
  /\ Spec
  /\ WF_vars(Reconfigure \/ Announce \/ BackendStops)
  /\ WF_vars(FrameSync)
  /\ WF_vars(HandlerTask)
  /\ WF_vars(Limiter)
  /\ \A e \in Encoders : WF_vars(EncoderTask(e)) /\ WF_vars(EncoderStops(e))

-----------------------------------------------------------------------------

\* What the application is given to draw is the display it shows.  A draw belongs
\* to the configuration of the last DisplayChange before it, whatever order media
\* and events arrive in, since it carries none of its own (Framer::report_mm and
\* the channels between the primary and the media thread).  And a frame that no
\* reconfiguration overlaps is drawn where it was captured: its encoders have the
\* areas of its configuration, although frames and Reconfigure commands come to
\* them on two channels (encoder.rs, backend.rs).
DrawnInPlace ==
  \A p \in painted :
    /\ p.draw.config = p.shown
    /\ p.draw.quiet => p.draw.at = p.draw.of

\* Every message passes the gate, or the session ends: one that is larger than
\* the bucket waits for several ticks, while the encoders and the backend task
\* wait behind it (AsyncGate::wait, TokenBucket::get_tokens and fill).
GatePasses == handler.at = "gate" ~> handler.at # "gate"

SendsReturn == []<>(handler.at # "send")

AllGone ==
  /\ backend.at = "gone" /\ limiter = "gone" /\ handler.at = "gone"
  /\ \A e \in Encoders : encoder[e].at = "gone"

\* Once the session's tasks are cancelled all of them end, although the handler
\* looks at its messages before its cancellation and waits at a gate whose
\* keeper is cancelled too.  The handler is not aborted: this holds when its sends
\* return, with an error or not, which a client that grants no credit prevents.
TasksEnd == SendsReturn => (stopping ~> AllGone)

=============================================================================
