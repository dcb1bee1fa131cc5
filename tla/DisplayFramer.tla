--------------------------- MODULE DisplayFramer ---------------------------
(***************************************************************************)
(* The client's reassembly of one display's frames out of media messages   *)
(* that arrive in any order (aperturec-client/src/frame.rs), together with *)
(* the media thread's loop that drains the finished draws before it takes  *)
(* the next message (aperturec-client/src/channels/media.rs).              *)
(*                                                                         *)
(* The sender is the set of server encoders of one display under one       *)
(* display configuration: each frame it cuts yields, for every encoder, a  *)
(* numbered run of fragments or one empty-frame terminal.  The media       *)
(* channel is reliable and unordered: `net' is a set of messages, each     *)
(* delivered exactly once, whenever the network likes.                     *)
(*                                                                         *)
(* A fragment stands for its pixels: decoding and coordinates are left     *)
(* out, except that decoding may fail.                                     *)
(***************************************************************************)
EXTENDS Integers, FiniteSets

CONSTANTS
  Decoders,           \* the display's decoders (encoder ids on the server)
  MaxFrames,          \* bound: frames the server cuts
  MaxFragments,       \* bound: fragments of one encoder in one frame
  MaxEncodeFailures,  \* bound: compressions of one encoder that fail in a frame
  MaxDecodeFailures   \* bound: fragments whose decoding fails

ASSUME BoundsAssumption ==
  /\ MaxFrames \in Nat
  /\ MaxFragments \in Nat
  /\ MaxEncodeFailures \in Nat
  /\ MaxDecodeFailures \in Nat

VARIABLES
  next_frame,   \* curr_frame_id of the tracking buffer: the next frame to cut
  layout,       \* layout[f][d]: what encoder d produces for frame f
  net,          \* messages sent and not yet delivered
  in_flight,    \* frame -> InFlightFrame, on the frames being assembled
  early_draw,   \* frame -> decoder states, on the frames drawn early
  complete,     \* frames known to be complete
  undrawn,      \* draw_state.undrawn_fragments
  drawn,        \* history: fragments handed to the primary thread
  accepted,     \* history: messages report_mm answered with Ok
  rejected,     \* history: messages report_mm answered with an error
  undecodable   \* history: fragments whose decoding failed

framer == <<in_flight, early_draw, complete, undrawn>>
vars == <<next_frame, layout, net, framer, drawn, accepted, rejected, undecodable>>

-----------------------------------------------------------------------------
(* The encoders.  Of `relevant' compressions only `encoded' succeed; the   *)
(* sequence number does not advance over a failure, and the terminal flag  *)
(* is the comparison of the sequence number with the last relevant one.    *)

Production == {p \in [relevant : 0 .. MaxFragments, encoded : 0 .. MaxFragments] :
                 /\ p.encoded <= p.relevant
                 /\ p.relevant - p.encoded <= MaxEncodeFailures}

\* The frames cut so far.  Frame ids start at 0 in every configuration.
Cut == 0 .. next_frame - 1

Fragment(f, d, p, s) ==
  [kind |-> "Fragment", frame |-> f, decoder |-> d, sequence |-> s,
   terminal |-> s = p.relevant - 1]

EmptyFrameTerminal(f, d) ==
  [kind |-> "Terminal", frame |-> f, decoder |-> d, sequence |-> 0, terminal |-> TRUE]

\* The messages encoder d sends for frame f when it produces p.
Sends(f, d, p) ==
  IF p.relevant = 0
    THEN {EmptyFrameTerminal(f, d)}
    ELSE {Fragment(f, d, p, s) : s \in 0 .. p.encoded - 1}

\* Encoder d has produced, and the client has accepted, all there is of f.
FullyAccepted(f, d) ==
  /\ layout[f][d].encoded = layout[f][d].relevant
  /\ Sends(f, d, layout[f][d]) \subseteq accepted

-----------------------------------------------------------------------------
(* DecoderFrameState: `seqs' is `received' of InFlight and                 *)
(* `missing_sequences' of TerminatedIncomplete.                            *)

State(tag, seqs) == [tag |-> tag, seqs |-> seqs]
Default == State("InFlight", {})
Complete == State("Complete", {})

\* received.first() == Some(0) && received.ranges_len() == 1
StartsAtZeroWithoutGap(received) == \E k \in received : received = 0 .. k

\* Mutant: a duplicate terminal is refused by refusing any late fragment.
CanMarkSequence_NoLate(st, sequence, terminal) ==
  st.tag = "InFlight" /\ sequence \notin st.seqs

\* The conditions under which mark_sequence_received returns Ok.
CanMarkSequence(st, sequence, terminal) ==
  \/ st.tag = "InFlight" /\ sequence \notin st.seqs
  \/ st.tag = "TerminatedIncomplete" /\ ~terminal

mark_sequence_received(st, sequence, terminal) ==
  LET received == st.seqs \union {sequence}
      missing  == st.seqs \ {sequence}
  IN  IF st.tag = "InFlight"
        THEN IF ~terminal
               THEN State("InFlight", received)
               ELSE IF StartsAtZeroWithoutGap(received)
                      THEN Complete
                      ELSE State("TerminatedIncomplete", (0 .. sequence) \ received)
        ELSE IF missing = {}
               THEN Complete
               ELSE State("TerminatedIncomplete", missing)

\* mark_empty_frame_terminal_received returns Ok, and yields Complete.
CanMarkEmpty(st) == st = Default

-----------------------------------------------------------------------------
(* DisplayFramer.                                                          *)

NewFrame == [states |-> [d \in Decoders |-> Default], fragments |-> {}]

\* Mutant: any for all.
AllComplete_Any(states) == \E d \in Decoders : states[d].tag = "Complete"

AllComplete(states) == \A d \in Decoders : states[d].tag = "Complete"

\* for f in curr_max..frame, when some frame is in flight
GapBefore(frame) ==
  {g \in 0 .. frame - 1 :
     /\ DOMAIN in_flight # {}
     /\ \A k \in DOMAIN in_flight : k <= g}

\* Mutant: insert in place of entry().or_insert().
OrInsert_Overwrite(frames) ==
  [f \in DOMAIN in_flight \union frames |->
     IF f \in frames THEN NewFrame ELSE in_flight[f]]

\* entry(f).or_insert(InFlightFrame::new(..)) for every f in frames
OrInsert(frames) ==
  [f \in DOMAIN in_flight \union frames |->
     IF f \in DOMAIN in_flight THEN in_flight[f] ELSE NewFrame]

\* The bookkeeping when no frame completes: only the maps that changed.
Assemble(flights, early, queued) ==
  /\ in_flight' = flights
  /\ early_draw' = early
  /\ undrawn' = queued
  /\ UNCHANGED complete

\* Mutant: split_off keeps the frame just below the complete one.
OlderThan_OffByOne(flights, frame) == {g \in DOMAIN flights : g + 1 < frame}

\* in_flight.split_off(&frame): the frames that are forced out.
OlderThan(flights, frame) == {g \in DOMAIN flights : g < frame}

\* report_terminal, on the maps as the message has left them: an early-drawn
\* frame that is now whole becomes complete; an in-flight frame that is now
\* whole becomes complete and flushes every older frame in flight.
report_terminal(flights, early, queued, frame) ==
  LET older == OlderThan(flights, frame)
      whole == {g \in older : AllComplete(flights[g].states)}
      part  == older \ whole
      kept  == DOMAIN flights \ (older \union {frame})
  IN  IF frame \in DOMAIN early
        THEN IF AllComplete(early[frame])
               THEN /\ early_draw' = [g \in DOMAIN early \ {frame} |-> early[g]]
                    /\ complete' = complete \union {frame}
                    /\ in_flight' = flights
                    /\ undrawn' = queued
               ELSE Assemble(flights, early, queued)
        ELSE IF AllComplete(flights[frame].states)
               THEN /\ complete' = complete \union {frame} \union whole
                    /\ in_flight' = [g \in kept |-> flights[g]]
                    /\ early_draw' = [g \in DOMAIN early \union part |->
                                        IF g \in part THEN flights[g].states ELSE early[g]]
                    /\ undrawn' = queued \union
                         UNION {flights[g].fragments : g \in older \union {frame}}
               ELSE Assemble(flights, early, queued)

Reject(m) == rejected' = rejected \union {m} /\ UNCHANGED accepted
Accept(m) == accepted' = accepted \union {m} /\ UNCHANGED rejected

\* The media thread takes a message only after it has drained all draws.
Deliver(m) ==
  /\ undrawn = {}
  /\ m \in net
  /\ net' = net \ {m}
  /\ UNCHANGED <<next_frame, layout, drawn>>

\* A fragment of a frame that is already drawn early is drawn at once.
FragmentOfEarlyDraw(m) ==
  LET st    == early_draw[m.frame][m.decoder]
      early == [early_draw EXCEPT ![m.frame][m.decoder] =
                  mark_sequence_received(st, m.sequence, m.terminal)]
  IN  IF CanMarkSequence(st, m.sequence, m.terminal)
        THEN /\ Accept(m)
             /\ IF m.terminal
                  THEN report_terminal(in_flight, early, {m}, m.frame)
                  ELSE Assemble(in_flight, early, {m})
        ELSE Reject(m) /\ UNCHANGED framer

\* Any other fragment is held in its in-flight frame; the frames between the
\* newest one in flight and this one are put in flight as well.
FragmentInFlight(m) ==
  LET flights == OrInsert(GapBefore(m.frame) \union {m.frame})
      st      == flights[m.frame].states[m.decoder]
      added   == [flights EXCEPT
                    ![m.frame].states[m.decoder] =
                      mark_sequence_received(st, m.sequence, m.terminal),
                    ![m.frame].fragments = @ \union {m}]
  IN  IF CanMarkSequence(st, m.sequence, m.terminal)
        THEN /\ Accept(m)
             /\ IF m.terminal
                  THEN report_terminal(added, early_draw, {}, m.frame)
                  ELSE Assemble(added, early_draw, {})
        ELSE Reject(m) /\ Assemble(flights, early_draw, {})

report_fragment(m) ==
  /\ m.kind = "Fragment"
  /\ Deliver(m)
  /\ UNCHANGED undecodable
  /\ IF m.frame \in complete
       THEN Reject(m) /\ UNCHANGED framer
       ELSE IF m.frame \in DOMAIN early_draw
              THEN FragmentOfEarlyDraw(m)
              ELSE FragmentInFlight(m)

\* report_fragment when decode() fails: the fragment is dropped with a warning
\* before any bookkeeping.
report_undecodable(m) ==
  /\ m.kind = "Fragment"
  /\ m.frame \notin complete
  /\ Cardinality(undecodable) < MaxDecodeFailures
  /\ Deliver(m)
  /\ undecodable' = undecodable \union {m}
  /\ UNCHANGED <<framer, accepted, rejected>>

report_empty_frame_terminal(m) ==
  LET flights == OrInsert({m.frame})
      early   == [early_draw EXCEPT ![m.frame][m.decoder] = Complete]
      ended   == [flights EXCEPT ![m.frame].states[m.decoder] = Complete]
  IN  /\ m.kind = "Terminal"
      /\ Deliver(m)
      /\ UNCHANGED undecodable
      /\ IF m.frame \in complete
           THEN Reject(m) /\ UNCHANGED framer
           ELSE IF m.frame \in DOMAIN early_draw
                  THEN IF CanMarkEmpty(early_draw[m.frame][m.decoder])
                         THEN Accept(m) /\ report_terminal(in_flight, early, {}, m.frame)
                         ELSE Reject(m) /\ UNCHANGED framer
                  ELSE IF CanMarkEmpty(flights[m.frame].states[m.decoder])
                         THEN Accept(m) /\ report_terminal(ended, early_draw, {}, m.frame)
                         ELSE Reject(m) /\ Assemble(flights, early_draw, {})

\* The loop head of the media thread: every queued draw goes to the primary.
get_draws_and_reset ==
  /\ undrawn # {}
  /\ drawn' = drawn \union undrawn
  /\ undrawn' = {}
  /\ UNCHANGED <<next_frame, layout, net, in_flight, early_draw, complete, accepted, rejected, undecodable>>

\* The server cuts the next frame and its encoders send what they produce.
SendFrame(production) ==
  /\ next_frame < MaxFrames
  /\ next_frame' = next_frame + 1
  /\ layout' = [f \in 0 .. next_frame |-> IF f = next_frame THEN production ELSE layout[f]]
  /\ net' = net \union UNION {Sends(next_frame, d, production[d]) : d \in Decoders}
  /\ UNCHANGED <<framer, drawn, accepted, rejected, undecodable>>

Init ==
  /\ next_frame = 0
  /\ layout = [f \in {} |-> [d \in Decoders |-> [relevant |-> 0, encoded |-> 0]]]
  /\ in_flight = [f \in {} |-> NewFrame]
  /\ early_draw = [f \in {} |-> NewFrame.states]
  /\ complete = {}
  /\ undrawn = {}
  /\ net = {}
  /\ drawn = {}
  /\ accepted = {}
  /\ rejected = {}
  /\ undecodable = {}

Next ==
  \/ \E production \in [Decoders -> Production] : SendFrame(production)
  \/ \E m \in net : report_fragment(m)
  \/ \E m \in net : report_undecodable(m)
  \/ \E m \in net : report_empty_frame_terminal(m)
  \/ get_draws_and_reset

Spec == Init /\ [][Next]_vars

-----------------------------------------------------------------------------
(* Properties.                                                             *)

Frames == 0 .. MaxFrames - 1
Message == [kind : {"Fragment", "Terminal"}, frame : Nat, decoder : Decoders,
            sequence : Nat, terminal : BOOLEAN]
DecoderState == [tag : {"InFlight", "TerminatedIncomplete", "Complete"}, seqs : SUBSET Nat]
InFlightFrame == [states : [Decoders -> DecoderState], fragments : SUBSET Message]

\* Every variable has its type; the two maps are defined on frames that were cut.
TypeOK ==
  /\ next_frame \in 0 .. MaxFrames
  /\ layout \in [Cut -> [Decoders -> Production]]
  /\ net \subseteq Message
  /\ DOMAIN in_flight \subseteq Cut
  /\ in_flight \in [DOMAIN in_flight -> InFlightFrame]
  /\ DOMAIN early_draw \subseteq Cut
  /\ early_draw \in [DOMAIN early_draw -> [Decoders -> DecoderState]]
  /\ complete \subseteq Cut
  /\ undrawn \subseteq Message
  /\ drawn \subseteq Message
  /\ accepted \subseteq Message
  /\ rejected \subseteq Message
  /\ undecodable \subseteq Message

\* The fragments that are decoded and wait in an in-flight frame.
Held == UNION {in_flight[f].fragments : f \in DOMAIN in_flight}

\* However the network reorders them, none of the ensure! conditions of
\* report_fragment, report_empty_frame_terminal, mark_sequence_received and
\* mark_empty_frame_terminal_received refuses a message of a correct server.
NothingRejected == rejected = {}

\* A frame the framer counts as complete has been received in full: every
\* encoder finished it and every one of its messages was accepted.
CompleteMeansReceived ==
  \A f \in complete : \A d \in Decoders : FullyAccepted(f, d)

\* No fragment is lost or drawn twice by the moves between in_flight,
\* early_draw and complete: an accepted fragment is held, queued or drawn, and
\* only one of these.
EveryFragmentDrawnOnce ==
  /\ {m \in accepted : m.kind = "Fragment"} = Held \union undrawn \union drawn
  /\ Held \intersect (undrawn \union drawn) = {}
  /\ undrawn \intersect drawn = {}

\* When a frame completes that was not drawn early, report_terminal leaves no
\* fragment of an older frame waiting: what came of it is drawn now.
OlderFramesFlushed ==
  [][\A f \in complete' \ complete :
       f \notin DOMAIN early_draw => \A m \in Held' : m.frame > f]_vars

=============================================================================
