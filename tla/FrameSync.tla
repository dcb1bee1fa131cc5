----------------------------- MODULE FrameSync -----------------------------
(***************************************************************************)
(* The server's frame synchronisation task                                 *)
(* (aperturec-server/src/task/frame_sync.rs).  A display-configuration     *)
(* task, a damage task and one cutting task per display run concurrently   *)
(* over the tracking buffers and the assignment of encoder channels to     *)
(* displays, both behind mutexes; an action is what a task does between    *)
(* two points where another can observe it.                                *)
(*                                                                         *)
(* An encoder's frame channel is an mpsc channel of capacity one.  Its     *)
(* semaphore is fair: line[e] holds the cutting tasks that asked for the   *)
(* slot, in the order they asked, until they send or drop their permit,    *)
(* and the first of them has the permit once the slot is empty.  The       *)
(* damage watches and the revoke watch are flags, "changed since seen".    *)
(***************************************************************************)
EXTENDS Partition, TrackingBuffer, Sequences

CONSTANTS
  DisplayCount,    \* the displays of the session, enabled or not
  EncoderCount,    \* max_encoder_count
  NoPixel,         \* the pixel of a region that no frame has carried yet
  AtOrigin,        \* the displays whose area starts at the desktop's origin
  MaxConfigs,      \* bound: new display configurations
  MaxCaptures      \* bound: captured damage areas

ASSUME CountsAssumption ==
  /\ DisplayCount \in Nat \ {0}
  /\ EncoderCount \in Nat \ {0}
  /\ NoPixel \notin Pixels
  /\ MaxConfigs \in Nat /\ MaxCaptures \in Nat

Displays == 0 .. DisplayCount - 1
Encoders == 0 .. EncoderCount - 1

\* The sets of enabled displays that partition_displays accepts.
DisplaySets == {E \in SUBSET Displays : CanPartition(E, EncoderCount)}

\* frame_txs[i..end] of display d when the displays of E are enabled.
TxSubset(E, d) == DecodersOf(E, EncoderCount, d)

VARIABLES
  tb,        \* the tracking buffer of each display
  enabled,   \* the displays whose buffer has is_enabled set
  txs,       \* the encoders assigned to each display
  watch,     \* the displays whose damage watch has changed
  revoke,    \* the displays whose receiver of the revoke watch has changed
  config,    \* the configuration task
  todo,      \* the displays the current capture has not been applied to
  cut,       \* the cutting task of each display
  damaged,   \* the cutting tasks whose damage future is ready
  permits_revoked, \* the cutting tasks with permits_revoked set
  line,      \* encoder -> the cutting tasks waiting for or holding its slot
  slot,      \* encoder -> the frame in its channel, if any
  captures,  \* the captures so far
  sent,      \* history: display -> region -> its pixel in the last frame cut
  last       \* history: encoder, display -> the last frame the encoder took

tasks == <<cut, damaged, permits_revoked>>
vars == <<tb, enabled, txs, watch, revoke, config, todo, tasks, line, slot, captures, sent, last>>

NoFrame == [id |-> 0, display |-> DisplayCount, display_config |-> 0, areas |-> {}]

FrameType ==
  [id : Nat, display : Displays, display_config : Nat, areas : SUBSET Regions]

LastType == [display_config : Nat, next : Nat]

\* A cutting task: `txs' are its clones of the senders and `asked' those it has
\* called reserve_owned on.
CutterType ==
  [pc : {"clone", "join", "cut", "send"}, txs : SUBSET Encoders, asked : SUBSET Encoders,
   frame : FrameType \union {NoFrame}]

ConfigType ==
  [pc : {"idle", "resize", "assign", "revoke"}, id : Nat, enabled : DisplaySets,
   display : Displays]

TypeOK ==
  /\ tb \in [Displays -> TrackingBufferType]
  /\ enabled \in SUBSET Displays
  /\ txs \in [Displays -> SUBSET Encoders]
  /\ watch \in SUBSET Displays
  /\ revoke \in SUBSET Displays
  /\ config \in ConfigType
  /\ todo \in SUBSET Displays
  /\ cut \in [Displays -> CutterType]
  /\ damaged \in SUBSET Displays
  /\ permits_revoked \in SUBSET Displays
  /\ line \in [Encoders -> Seq(Displays)]
  /\ slot \in [Encoders -> FrameType \union {NoFrame}]
  /\ captures \in Nat
  /\ sent \in [Displays -> [Regions -> Pixels \union {NoPixel}]]
  /\ last \in [Encoders -> [Displays -> LastType]]

-----------------------------------------------------------------------------
(* The display-configuration task.                                         *)

\* A NewDisplayConfig is received.  The backend sends the next one after the
\* last has been acknowledged, and the three checks on its counts hold of what
\* partition_displays returns.
ReceiveConfig(E) ==
  /\ config.pc = "idle"
  /\ config.id < MaxConfigs
  /\ config' = [pc |-> "resize", id |-> config.id + 1, enabled |-> E, display |-> 0]
  /\ UNCHANGED <<tb, enabled, txs, watch, revoke, todo, tasks, line, slot, captures, sent, last>>

\* The next display's tracking buffer is resized, under its lock.
ResizeDisplay ==
  /\ config.pc = "resize"
  /\ LET d == config.display
     IN /\ tb' = [tb EXCEPT ![d] = resize(@, config.id)]
        /\ enabled' = (enabled \ {d}) \union ({d} \intersect config.enabled)
        /\ watch' = watch \union {d}
  /\ config' = [config EXCEPT !.pc = "assign"]
  /\ UNCHANGED <<txs, revoke, todo, tasks, line, slot, captures, sent, last>>

\* Then its encoders are assigned, under another lock.
AssignTxs ==
  /\ config.pc = "assign"
  /\ txs' = [txs EXCEPT ![config.display] = TxSubset(config.enabled, config.display)]
  /\ config' = IF config.display = DisplayCount - 1
                 THEN [config EXCEPT !.pc = "revoke"]
                 ELSE [config EXCEPT !.pc = "resize", !.display = @ + 1]
  /\ UNCHANGED <<tb, enabled, watch, revoke, todo, tasks, line, slot, captures, sent, last>>

\* Last, the permits of every cutting task are revoked and the backend is
\* notified.
RevokePermits ==
  /\ config.pc = "revoke"
  /\ revoke' = Displays
  /\ config' = [config EXCEPT !.pc = "idle"]
  /\ UNCHANGED <<tb, enabled, txs, watch, todo, tasks, line, slot, captures, sent, last>>

-----------------------------------------------------------------------------
(* The damage task.                                                        *)

\* A capture is received, once the last has been applied to every display.
ReceiveDamage ==
  /\ todo = {}
  /\ captures < MaxCaptures
  /\ captures' = captures + 1
  /\ todo' = Displays
  /\ UNCHANGED <<tb, enabled, txs, watch, revoke, config, tasks, line, slot, sent, last>>

\* It is applied to each display concurrently, under the display's lock: a
\* display that is disabled or that it does not meet is left alone.
IgnoreDamage(d) ==
  /\ d \in todo
  /\ todo' = todo \ {d}
  /\ UNCHANGED <<tb, enabled, txs, watch, revoke, config, tasks, line, slot, captures, sent, last>>

UpdateDisplay(d, area, new, cover) ==
  /\ d \in todo
  /\ d \in enabled
  /\ IsDiffCover(cover, tb[d].data, new, area)
  /\ todo' = todo \ {d}
  /\ tb' = [tb EXCEPT ![d] = update(@, new, area, cover, d \in AtOrigin)]
  /\ watch' = IF UpdateNotifies(tb[d], cover) THEN watch \union {d} ELSE watch
  /\ UNCHANGED <<enabled, txs, revoke, config, tasks, line, slot, captures, sent, last>>

-----------------------------------------------------------------------------
(* The cutting task of display d.                                          *)

\* Mutant: after a revocation the task waits for damage again.
InitiallyDamaged_No(d) == damaged \ {d}

\* The damage future of a new round is ready at once after a revocation.
InitiallyDamaged(d) ==
  IF d \in permits_revoked THEN damaged \union {d} ELSE damaged \ {d}

\* A round starts with clones of the senders assigned to the display.
CloneTxs(d) ==
  /\ cut[d].pc = "clone"
  /\ cut' = [cut EXCEPT ![d].pc = "join", ![d].txs = txs[d], ![d].asked = {}]
  /\ damaged' = InitiallyDamaged(d)
  /\ UNCHANGED <<tb, enabled, txs, watch, revoke, config, todo, permits_revoked, line, slot, captures,
                 sent, last>>

\* reserve_owned is polled on each of them in order.
AskPermit(d, e) ==
  /\ cut[d].pc = "join"
  /\ e \in cut[d].txs \ cut[d].asked
  /\ \A f \in cut[d].txs \ cut[d].asked : e <= f
  /\ line' = [line EXCEPT ![e] = Append(@, d)]
  /\ cut' = [cut EXCEPT ![d].asked = @ \union {e}]
  /\ UNCHANGED <<tb, enabled, txs, watch, revoke, config, todo, damaged, permits_revoked, slot, captures,
                 sent, last>>

\* Then wait_for_damage, which is ready when the damage watch has changed and
\* marks it seen.
SeeDamage(d) ==
  /\ cut[d].pc = "join"
  /\ cut[d].asked = cut[d].txs
  /\ d \notin damaged
  /\ d \in watch
  /\ watch' = watch \ {d}
  /\ damaged' = damaged \union {d}
  /\ UNCHANGED <<tb, enabled, txs, revoke, config, todo, cut, permits_revoked, line, slot, captures, sent,
                 last>>

\* d holds the permit of e's channel.
HasPermit(d, e) == line[e] # << >> /\ Head(line[e]) = d /\ slot[e] = NoFrame

\* The join is complete: every permit is held and there is damage.
Joined(d) ==
  /\ cut[d].pc = "join"
  /\ cut[d].asked = cut[d].txs
  /\ d \in damaged
  /\ \A e \in cut[d].txs : HasPermit(d, e)

\* The lines once d has sent or dropped its permits: it is first in each.
LineWithout(d) == [e \in Encoders |-> IF e \in cut[d].txs THEN Tail(line[e]) ELSE line[e]]

\* The revoke watch has changed: the permits are dropped and a new round starts.
DropRevoked(d) ==
  /\ Joined(d)
  /\ d \in revoke
  /\ revoke' = revoke \ {d}
  /\ line' = LineWithout(d)
  /\ cut' = [cut EXCEPT ![d].pc = "clone"]
  /\ permits_revoked' = permits_revoked \union {d}
  /\ UNCHANGED <<tb, enabled, txs, watch, config, todo, damaged, slot, captures, sent, last>>

\* It has not: the task goes on to cut.
KeepPermits(d) ==
  /\ Joined(d)
  /\ d \notin revoke
  /\ cut' = [cut EXCEPT ![d].pc = "cut"]
  /\ permits_revoked' = permits_revoked \ {d}
  /\ UNCHANGED <<tb, enabled, txs, watch, revoke, config, todo, damaged, line, slot, captures, sent, last>>

\* cut_frame, under the display's lock, returns a frame ...
CutFrame(d) ==
  /\ cut[d].pc = "cut"
  /\ HasFrame(tb[d])
  /\ tb' = [tb EXCEPT ![d] = cut_frame(@)]
  /\ cut' = [cut EXCEPT ![d].pc = "send", ![d].frame = FrameOf(tb[d], d)]
  /\ sent' = [sent EXCEPT ![d] = [r \in Regions |-> IF r \in Damaged(tb[d].damage)
                                                      THEN tb[d].data[r] ELSE @[r]]]
  /\ UNCHANGED <<enabled, txs, watch, revoke, config, todo, damaged, permits_revoked, line, slot, captures,
                 last>>

\* ... or None, and then the permits are dropped.
CutNothing(d) ==
  /\ cut[d].pc = "cut"
  /\ ~HasFrame(tb[d])
  /\ line' = LineWithout(d)
  /\ cut' = [cut EXCEPT ![d].pc = "clone"]
  /\ UNCHANGED <<tb, enabled, txs, watch, revoke, config, todo, damaged, permits_revoked, slot, captures,
                 sent, last>>

\* The frame is sent on every permit, and a new round starts.
SendFrame(d) ==
  /\ cut[d].pc = "send"
  /\ slot' = [e \in Encoders |-> IF e \in cut[d].txs THEN cut[d].frame ELSE slot[e]]
  /\ line' = LineWithout(d)
  /\ cut' = [cut EXCEPT ![d].pc = "clone", ![d].frame = NoFrame]
  /\ UNCHANGED <<tb, enabled, txs, watch, revoke, config, todo, damaged, permits_revoked, captures, sent,
                 last>>

-----------------------------------------------------------------------------
\* An encoder takes the frame in its channel (frame_rx.recv in encoder.rs).
EncoderReceive(e) ==
  /\ slot[e] # NoFrame
  /\ slot' = [slot EXCEPT ![e] = NoFrame]
  /\ last' = [last EXCEPT ![e][slot[e].display] =
                [display_config |-> slot[e].display_config, next |-> slot[e].id + 1]]
  /\ UNCHANGED <<tb, enabled, txs, watch, revoke, config, todo, tasks, line, captures, sent>>

-----------------------------------------------------------------------------
\* The task starts with some displays enabled, in configuration 0, and every
\* damage handle reports damage at once.
Init ==
  /\ \E E \in DisplaySets :
       /\ config = [pc |-> "idle", id |-> 0, enabled |-> E, display |-> 0]
       /\ enabled = E
       /\ txs = [d \in Displays |-> TxSubset(E, d)]
  /\ tb = [d \in Displays |-> Fresh(0)]
  /\ watch = Displays
  /\ revoke = {}
  /\ todo = {}
  /\ cut = [d \in Displays |-> [pc |-> "clone", txs |-> {}, asked |-> {}, frame |-> NoFrame]]
  /\ damaged = {}
  /\ permits_revoked = {}
  /\ line = [e \in Encoders |-> << >>]
  /\ slot = [e \in Encoders |-> NoFrame]
  /\ captures = 0
  /\ sent = [d \in Displays |-> [r \in Regions |-> NoPixel]]
  /\ last = [e \in Encoders |-> [d \in Displays |-> [display_config |-> 0, next |-> 0]]]

Configure == ResizeDisplay \/ AssignTxs \/ RevokePermits

ApplyDamage(d) ==
  \/ IgnoreDamage(d)
  \/ \E area \in (SUBSET Regions) \ {{}}, new \in [Regions -> Pixels] :
       \E cover \in SUBSET ((SUBSET area) \ {{}}) : UpdateDisplay(d, area, new, cover)

Cutter(d) ==
  \/ CloneTxs(d)
  \/ \E e \in Encoders : AskPermit(d, e)
  \/ SeeDamage(d)
  \/ DropRevoked(d)
  \/ KeepPermits(d)
  \/ CutFrame(d)
  \/ CutNothing(d)
  \/ SendFrame(d)

Next ==
  \/ \E E \in DisplaySets : ReceiveConfig(E)
  \/ Configure
  \/ ReceiveDamage
  \/ \E d \in Displays : ApplyDamage(d)
  \/ \E d \in Displays : Cutter(d)
  \/ \E e \in Encoders : EncoderReceive(e)

Spec == Init /\ [][Next]_vars

\* Every task is scheduled: it takes its next step when it can.  Configurations
\* and captures are the outside world's and need never come.
Fairness ==
  /\ WF_vars(Configure)
  /\ \A d \in Displays : WF_vars(ApplyDamage(d)) /\ WF_vars(Cutter(d))
  /\ \A e \in Encoders : WF_vars(EncoderReceive(e))

FairSpec == Spec /\ Fairness

-----------------------------------------------------------------------------
\* A display with damage is never left to a cutting task that sleeps: its
\* damage watch has changed, or the task has seen the damage and is past its
\* wait, or it will not wait because its permits were revoked.
NoLostWakeup ==
  \A d \in Displays : HasFrame(tb[d]) =>
    \/ d \in watch
    \/ cut[d].pc = "join" /\ d \in damaged
    \/ cut[d].pc = "cut"
    \/ cut[d].pc = "clone" /\ d \in permits_revoked

\* What the tracking buffer tracks: a region that is not damaged has, in the
\* last frame cut with it, the pixel it has now; no update is missed, whatever
\* captures and resizes come between two cuts.
UndamagedIsSent ==
  \A d \in Displays : \A r \in Regions \ Damaged(tb[d].damage) : sent[d][r] = tb[d].data[r]

\* Frame ids are compared within a configuration, and configurations first.
Before(config1, id1, config2, id2) ==
  config1 < config2 \/ (config1 = config2 /\ id1 <= id2)

\* An encoder takes the frames of a display in the order they were cut: by
\* configuration, and within one by id, never the same id twice, whichever
\* channels they took.  The client tells frames apart by these two numbers.
FramesInOrder ==
  \A e \in Encoders : slot[e] # NoFrame =>
    LET l == last[e][slot[e].display]
    IN  Before(l.display_config, l.next, slot[e].display_config, slot[e].id)

\* "Channels may have been re-assigned to other tracking buffers while awaiting
\* damage, if so, we need to reserve space on the new channels without waiting
\* for damage": a frame cut in a configuration goes to the channels that this
\* configuration assigns to its display.
SentOnAssignedChannels ==
  \A d \in Displays :
    cut[d].pc = "send" /\ cut[d].frame.display_config = config.id =>
      cut[d].txs = TxSubset(config.enabled, d)

\* Damage is eventually cut into a frame.  Of one display this holds.  Of two it
\* does not: a task that waits for the channels of an old configuration looks at the
\* revoke watch only once it has them all, and the idle display that has them now
\* keeps their permits until it is damaged itself.
DamageIsCut == \A d \in Displays : HasFrame(tb[d]) ~> ~HasFrame(tb[d])

=============================================================================
