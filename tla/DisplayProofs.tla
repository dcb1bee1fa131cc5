--------------------------- MODULE DisplayProofs ---------------------------
(***************************************************************************)
(* The client's displays.                                                  *)
(*                                                                         *)
(* DisplayFramer, for any set of decoders, any bounds and any reordering   *)
(* of the messages.  Its invariants are not inductive: they say nothing of *)
(* what a decoder's bookkeeping means.  The strengthening is Tracks: each  *)
(* DecoderFrameState, whether its frame is in flight or drawn early, never *)
(* claims more than what has been accepted.  It may claim less, because a  *)
(* frame that is put in flight again by the gap filling restarts with an   *)
(* empty state; that is why Tracks is an inclusion.                        *)
(*                                                                         *)
(* Partition, the areas of the decoders, for displays of any size and any  *)
(* numbers of displays and decoders.  What would be an induction is the    *)
(* choice of a least element: the first line beyond a pixel, the first     *)
(* display whose block of decoders ends beyond a decoder.                  *)
(***************************************************************************)
EXTENDS DisplayFramer, MCPartition, FiniteSetTheorems, WellFoundedInduction, TLAPS

\* What a decoder state of frame f, decoder d means, given the set acc of
\* accepted messages and the production p of the encoder.
Tracks(acc, p, f, d, st) ==
  CASE st.tag = "InFlight" ->
         \A s \in st.seqs : s # p.relevant - 1 /\ s \in 0 .. p.encoded - 1
                              /\ Fragment(f, d, p, s) \in acc
    [] st.tag = "TerminatedIncomplete" ->
         /\ p.relevant > 0
         /\ p.encoded = p.relevant
         /\ Fragment(f, d, p, p.relevant - 1) \in acc
         /\ \A s \in 0 .. p.relevant - 1 :
              s \in st.seqs \/ Fragment(f, d, p, s) \in acc
    [] st.tag = "Complete" ->
         /\ p.encoded = p.relevant
         /\ Sends(f, d, p) \subseteq acc

\* Only what was sent is in the network or accepted, and never both.
Sent(acc, undelivered) ==
  /\ \A m \in acc \union undelivered :
       /\ m.frame \in Cut
       /\ m \in Sends(m.frame, m.decoder, layout[m.frame][m.decoder])
  /\ acc \intersect undelivered = {}

\* The framer's maps are well formed and claim nothing beyond acc.
Sound(flights, early, comp, acc) ==
  /\ DOMAIN flights \subseteq Cut
  /\ flights \in [DOMAIN flights -> InFlightFrame]
  /\ DOMAIN early \subseteq Cut
  /\ early \in [DOMAIN early -> [Decoders -> DecoderState]]
  /\ comp \subseteq Cut
  /\ \A f \in DOMAIN flights : \A d \in Decoders :
       Tracks(acc, layout[f][d], f, d, flights[f].states[d])
  /\ \A f \in DOMAIN early : \A d \in Decoders :
       Tracks(acc, layout[f][d], f, d, early[f][d])
  /\ \A f \in comp : \A d \in Decoders :
       /\ layout[f][d].encoded = layout[f][d].relevant
       /\ Sends(f, d, layout[f][d]) \subseteq acc

\* The inductive invariant behind NothingRejected and CompleteMeansReceived.
IInv ==
  /\ TypeOK
  /\ NothingRejected
  /\ Sent(accepted, net)
  /\ Sound(in_flight, early_draw, complete, accepted)

-----------------------------------------------------------------------------
(* Facts about single messages and states.                                 *)

\* The shape of a fragment an encoder sends.
LEMMA FragmentShape ==
  ASSUME NEW f, NEW d, NEW p \in Production,
         NEW m \in Sends(f, d, p), m.kind = "Fragment"
  PROVE  /\ m.sequence \in 0 .. p.encoded - 1
         /\ p.relevant > 0
         /\ m.terminal \in BOOLEAN
         /\ m.terminal <=> m.sequence = p.relevant - 1
         /\ m = Fragment(f, d, p, m.sequence)
         /\ m.frame = f
         /\ m.decoder = d
<1>0. p.relevant \in Nat /\ p.encoded \in Nat
  BY BoundsAssumption DEF Production
<1>1. p.relevant # 0
  BY DEF Sends, EmptyFrameTerminal
<1>2. PICK s \in 0 .. p.encoded - 1 : m = Fragment(f, d, p, s)
  BY <1>1 DEF Sends
<1>3. /\ m.sequence = s
      /\ m.frame = f
      /\ m.decoder = d
  BY <1>2 DEF Fragment
<1>4. m.terminal = (s = p.relevant - 1)
  BY <1>2 DEF Fragment
<1>5. m.terminal \in BOOLEAN
  BY <1>4
<1>6. m.terminal <=> m.sequence = p.relevant - 1
  BY <1>3, <1>4, Zenon
<1>7. p.relevant > 0
  BY <1>0, <1>1
<1> QED
  BY <1>2, <1>3, <1>5, <1>6, <1>7

\* The shape of an empty-frame terminal an encoder sends.
LEMMA TerminalShape ==
  ASSUME NEW f, NEW d, NEW p \in Production,
         NEW m \in Sends(f, d, p), m.kind = "Terminal"
  PROVE  /\ p.relevant = 0
         /\ p.encoded = 0
         /\ Sends(f, d, p) = {m}
         /\ m.frame = f
         /\ m.decoder = d
<1>1. p.relevant = 0
  BY DEF Sends, Fragment
<1>2. p.encoded = 0
  BY <1>1, BoundsAssumption DEF Production
<1>3. Sends(f, d, p) = {EmptyFrameTerminal(f, d)}
  BY <1>1 DEF Sends
<1>4. m = EmptyFrameTerminal(f, d)
  BY <1>3
<1>5. m.frame = f /\ m.decoder = d
  BY <1>4 DEF EmptyFrameTerminal
<1> QED
  BY <1>1, <1>2, <1>3, <1>4, <1>5

\* An encoder sends messages, of the frame and with the id it was asked for.
LEMMA SendsMessages ==
  ASSUME NEW f \in Nat, NEW d \in Decoders, NEW p \in Production,
         NEW m \in Sends(f, d, p)
  PROVE  /\ m \in Message
         /\ m.frame = f
         /\ m.decoder = d
<1>1. CASE p.relevant = 0
  <2>1. m = EmptyFrameTerminal(f, d)
    BY <1>1 DEF Sends
  <2>2. TRUE \in BOOLEAN
    OBVIOUS
  <2>3. m \in Message
    BY <2>1, <2>2 DEF EmptyFrameTerminal, Message
  <2>4. m.frame = f /\ m.decoder = d
    BY <2>1 DEF EmptyFrameTerminal
  <2> QED
    BY <2>3, <2>4
<1>2. CASE p.relevant # 0
  <2>1. PICK s \in 0 .. p.encoded - 1 : m = Fragment(f, d, p, s)
    BY <1>2 DEF Sends
  <2>2. s \in Nat
    BY <2>1, BoundsAssumption DEF Production
  <2>3. (s = p.relevant - 1) \in BOOLEAN
    OBVIOUS
  <2> QED
    BY <2>1, <2>2, <2>3 DEF Fragment, Message
<1> QED
  BY <1>1, <1>2

\* Accepting more messages keeps a state sound.
LEMMA TracksMonotone ==
  ASSUME NEW acc, NEW more, NEW p, NEW f, NEW d, NEW st \in DecoderState,
         Tracks(acc, p, f, d, st)
  PROVE  Tracks(acc \union more, p, f, d, st)
  BY DEF Tracks, DecoderState

\* The fresh state claims nothing.
LEMMA FreshTracks ==
  ASSUME NEW acc, NEW p, NEW f, NEW d
  PROVE  Default \in DecoderState /\ Tracks(acc, p, f, d, Default)
  BY DEF Tracks, DecoderState, Default, State

\* A fragment that was not yet accepted passes the ensure! conditions.
LEMMA FragmentPasses ==
  ASSUME NEW acc, NEW f, NEW d, NEW p \in Production, NEW st \in DecoderState,
         NEW m \in Sends(f, d, p), m.kind = "Fragment", m \notin acc,
         Tracks(acc, p, f, d, st)
  PROVE  CanMarkSequence(st, m.sequence, m.terminal)
<1>1. /\ m.sequence \in 0 .. p.encoded - 1
      /\ p.relevant > 0
      /\ (m.terminal <=> m.sequence = p.relevant - 1)
      /\ m = Fragment(f, d, p, m.sequence)
  BY FragmentShape
<1>2. CASE st.tag = "InFlight"
  BY <1>1, <1>2 DEF Tracks, CanMarkSequence
<1>3. CASE st.tag = "TerminatedIncomplete"
  BY <1>1, <1>3 DEF Tracks, CanMarkSequence
<1>4. CASE st.tag = "Complete"
  BY <1>1, <1>4 DEF Tracks
<1> QED
  BY <1>2, <1>3, <1>4 DEF DecoderState

\* mark_sequence_received keeps the state sound.
LEMMA MarkTracks ==
  ASSUME NEW acc, NEW f, NEW d, NEW p \in Production, NEW st \in DecoderState,
         NEW m \in Sends(f, d, p), m.kind = "Fragment",
         CanMarkSequence(st, m.sequence, m.terminal),
         Tracks(acc, p, f, d, st)
  PROVE  LET new == mark_sequence_received(st, m.sequence, m.terminal)
         IN  new \in DecoderState /\ Tracks(acc \union {m}, p, f, d, new)
<1> DEFINE new == mark_sequence_received(st, m.sequence, m.terminal)
           received == st.seqs \union {m.sequence}
           missing == st.seqs \ {m.sequence}
           acc2 == acc \union {m}
<1>0. p.relevant \in Nat /\ p.encoded \in Nat /\ p.encoded <= p.relevant
  BY BoundsAssumption DEF Production
<1>1. /\ m.sequence \in 0 .. p.encoded - 1
      /\ p.relevant > 0
      /\ (m.terminal <=> m.sequence = p.relevant - 1)
      /\ m = Fragment(f, d, p, m.sequence)
  BY FragmentShape
<1>t. m.terminal \in BOOLEAN
  BY FragmentShape
<1>s. Sends(f, d, p) = {Fragment(f, d, p, s) : s \in 0 .. p.encoded - 1}
  BY <1>0, <1>1 DEF Sends
<1>2. CASE st.tag = "InFlight" /\ ~m.terminal
  <2>1. new = State("InFlight", received)
    BY <1>2 DEF mark_sequence_received
  <2> QED
    BY <2>1, <1>0, <1>1, <1>2 DEF Tracks, State, DecoderState
<1>3. CASE st.tag = "InFlight" /\ m.terminal
  <2>0. m.sequence = p.relevant - 1 /\ p.encoded = p.relevant
    BY <1>0, <1>1, <1>3
  <2>1. \A s \in received : s \in 0 .. p.relevant - 1
                              /\ Fragment(f, d, p, s) \in acc2
    <3> SUFFICES ASSUME NEW s \in received
                 PROVE  s \in 0 .. p.relevant - 1
                          /\ Fragment(f, d, p, s) \in acc2
      OBVIOUS
    <3>1. CASE s = m.sequence
      BY <3>1, <2>0, <1>0, <1>1
    <3>2. CASE s \in st.seqs /\ s # m.sequence
      <4>1. s # p.relevant - 1 /\ s \in 0 .. p.encoded - 1 /\ Fragment(f, d, p, s) \in acc
        BY <3>2, <1>3 DEF Tracks
      <4> QED
        BY <4>1, <2>0
    <3> QED
      BY <3>1, <3>2
  <2>2. CASE StartsAtZeroWithoutGap(received)
    <3>1. new = State("Complete", {})
      BY <1>3, <2>2 DEF mark_sequence_received, Complete
    <3>2. PICK k \in received : received = 0 .. k
      BY <2>2 DEF StartsAtZeroWithoutGap
    <3>3. 0 .. p.relevant - 1 \subseteq received
      BY <3>2, <2>0, <2>1, <1>0, <1>1
    <3>4. Sends(f, d, p) \subseteq acc2
      BY <1>s, <2>0, <2>1, <3>3
    <3> QED
      BY <3>1, <3>4, <2>0 DEF Tracks, State, DecoderState
  <2>3. CASE ~StartsAtZeroWithoutGap(received)
    <3>1. new = State("TerminatedIncomplete", (0 .. m.sequence) \ received)
      BY <1>3, <2>3 DEF mark_sequence_received
    <3>2. Fragment(f, d, p, p.relevant - 1) \in acc2
      BY <1>1, <1>3, <2>0
    <3>3. \A s \in 0 .. p.relevant - 1 :
             s \in (0 .. m.sequence) \ received \/ Fragment(f, d, p, s) \in acc2
      BY <2>0, <2>1, <1>0
    <3>4. (0 .. m.sequence) \ received \in SUBSET Nat
      BY <1>0, <1>1
    <3> QED
      BY <3>1, <3>2, <3>3, <3>4, <2>0, <1>1 DEF Tracks, State, DecoderState
  <2> QED
    BY <2>2, <2>3
<1>4. CASE st.tag = "TerminatedIncomplete" /\ ~m.terminal
  <2>1. /\ p.encoded = p.relevant
        /\ Fragment(f, d, p, p.relevant - 1) \in acc2
        /\ \A s \in 0 .. p.relevant - 1 :
             s \in missing \/ Fragment(f, d, p, s) \in acc2
    <3>1. /\ p.encoded = p.relevant
          /\ Fragment(f, d, p, p.relevant - 1) \in acc
          /\ \A s \in 0 .. p.relevant - 1 :
               s \in st.seqs \/ Fragment(f, d, p, s) \in acc
      BY <1>4 DEF Tracks
    <3> QED
      BY <3>1, <1>1
  <2>2. CASE missing = {}
    <3>1. new = State("Complete", {})
      BY <1>4, <2>2 DEF mark_sequence_received, Complete
    <3>2. Sends(f, d, p) \subseteq acc2
      BY <1>s, <2>1, <2>2
    <3> QED
      BY <3>1, <3>2, <2>1 DEF Tracks, State, DecoderState
  <2>3. CASE missing # {}
    <3>1. new = State("TerminatedIncomplete", missing)
      BY <1>4, <2>3 DEF mark_sequence_received
    <3>2. missing \in SUBSET Nat
      BY DEF DecoderState
    <3> QED
      BY <3>1, <3>2, <2>1, <1>1 DEF Tracks, State, DecoderState
  <2> QED
    BY <2>2, <2>3
<1> QED
  BY <1>2, <1>3, <1>4, <1>t DEF CanMarkSequence

-----------------------------------------------------------------------------
(* Facts about the maps.                                                   *)

\* Accepting more messages keeps the maps sound.
LEMMA SoundMonotone ==
  ASSUME NEW flights, NEW early, NEW comp, NEW acc, NEW more,
         Sound(flights, early, comp, acc)
  PROVE  Sound(flights, early, comp, acc \union more)
<1>1. \A f \in DOMAIN flights : \A d \in Decoders :
         Tracks(acc \union more, layout[f][d], f, d, flights[f].states[d])
  <2> TAKE f \in DOMAIN flights
  <2> TAKE d \in Decoders
  <2>1. flights[f].states[d] \in DecoderState
    BY DEF Sound, InFlightFrame
  <2>2. Tracks(acc, layout[f][d], f, d, flights[f].states[d])
    BY DEF Sound
  <2> QED
    BY <2>1, <2>2, TracksMonotone
<1>2. \A f \in DOMAIN early : \A d \in Decoders :
         Tracks(acc \union more, layout[f][d], f, d, early[f][d])
  <2> TAKE f \in DOMAIN early
  <2> TAKE d \in Decoders
  <2>1. early[f][d] \in DecoderState
    BY DEF Sound
  <2>2. Tracks(acc, layout[f][d], f, d, early[f][d])
    BY DEF Sound
  <2> QED
    BY <2>1, <2>2, TracksMonotone
<1> QED
  BY <1>1, <1>2 DEF Sound

\* report_terminal keeps the maps sound: what it moves to complete is whole,
\* and what it moves to early_draw keeps its states.
LEMMA ReportTerminalSound ==
  ASSUME NEW flights, NEW early, NEW queued, NEW frame, NEW acc,
         Sound(flights, early, complete, acc),
         frame \in Cut,
         frame \in DOMAIN early \/ frame \in DOMAIN flights,
         report_terminal(flights, early, queued, frame)
  PROVE  Sound(in_flight', early_draw', complete', acc)
<1>1. CASE frame \in DOMAIN early /\ AllComplete(early[frame])
  <2>1. /\ early_draw' = [g \in DOMAIN early \ {frame} |-> early[g]]
        /\ complete' = complete \union {frame}
        /\ in_flight' = flights
    BY <1>1 DEF report_terminal
  <2>2. \A d \in Decoders : /\ layout[frame][d].encoded = layout[frame][d].relevant
                            /\ Sends(frame, d, layout[frame][d]) \subseteq acc
    BY <1>1 DEF Sound, AllComplete, Tracks
  <2> QED
    BY <2>1, <2>2 DEF Sound
<1>2. CASE \/ frame \in DOMAIN early /\ ~AllComplete(early[frame])
           \/ frame \notin DOMAIN early /\ ~AllComplete(flights[frame].states)
  BY <1>2 DEF report_terminal, Assemble
<1>3. CASE frame \notin DOMAIN early /\ AllComplete(flights[frame].states)
  <2> DEFINE older == OlderThan(flights, frame)
             whole == {g \in older : AllComplete(flights[g].states)}
             part  == older \ whole
             kept  == DOMAIN flights \ (older \union {frame})
  <2>1. /\ complete' = complete \union {frame} \union whole
        /\ in_flight' = [g \in kept |-> flights[g]]
        /\ early_draw' = [g \in DOMAIN early \union part |->
                            IF g \in part THEN flights[g].states ELSE early[g]]
    BY <1>3 DEF report_terminal
  <2>2. older \subseteq DOMAIN flights /\ frame \in DOMAIN flights
    BY <1>3 DEF OlderThan
  <2>3. \A g \in whole \union {frame} : \A d \in Decoders :
           /\ layout[g][d].encoded = layout[g][d].relevant
           /\ Sends(g, d, layout[g][d]) \subseteq acc
    BY <1>3, <2>2 DEF Sound, AllComplete, Tracks
  <2>4. \A g \in complete' : \A d \in Decoders :
           /\ layout[g][d].encoded = layout[g][d].relevant
           /\ Sends(g, d, layout[g][d]) \subseteq acc
    BY <2>1, <2>3 DEF Sound
  <2>5. /\ DOMAIN in_flight' \subseteq Cut
        /\ in_flight' \in [DOMAIN in_flight' -> InFlightFrame]
        /\ \A f \in DOMAIN in_flight' : \A d \in Decoders :
             Tracks(acc, layout[f][d], f, d, in_flight'[f].states[d])
    BY <2>1 DEF Sound
  <2>6. /\ DOMAIN early_draw' \subseteq Cut
        /\ early_draw' \in [DOMAIN early_draw' -> [Decoders -> DecoderState]]
    BY <2>1, <2>2 DEF Sound, InFlightFrame
  <2>7. \A f \in DOMAIN early_draw' : \A d \in Decoders :
          Tracks(acc, layout[f][d], f, d, early_draw'[f][d])
    BY <2>1, <2>2 DEF Sound
  <2>8. complete' \subseteq Cut
    BY <2>1, <2>2 DEF Sound
  <2> HIDE DEF older, whole, part, kept
  <2> QED
    BY <2>4, <2>5, <2>6, <2>7, <2>8 DEF Sound
<1> QED
  BY <1>1, <1>2, <1>3

\* Putting new frames in flight keeps the maps sound.
LEMMA OrInsertSound ==
  ASSUME NEW frames, frames \subseteq Cut, NEW acc,
         Sound(in_flight, early_draw, complete, acc)
  PROVE  /\ Sound(OrInsert(frames), early_draw, complete, acc)
         /\ DOMAIN OrInsert(frames) = DOMAIN in_flight \union frames
<1> DEFINE F == OrInsert(frames)
<1>1. /\ DOMAIN F = DOMAIN in_flight \union frames
      /\ \A f \in DOMAIN F : F[f] = IF f \in DOMAIN in_flight THEN in_flight[f] ELSE NewFrame
      /\ F = [f \in DOMAIN F |-> F[f]]
  BY DEF OrInsert
<1>2. /\ NewFrame \in InFlightFrame
      /\ \A d \in Decoders : NewFrame.states[d] = Default
  BY FreshTracks DEF NewFrame, InFlightFrame
<1> HIDE DEF F
<1>3. F \in [DOMAIN F -> InFlightFrame]
  BY <1>1, <1>2 DEF Sound
<1>4. \A f \in DOMAIN F : \A d \in Decoders :
         Tracks(acc, layout[f][d], f, d, F[f].states[d])
  BY <1>1, <1>2, FreshTracks DEF Sound
<1>5. Sound(F, early_draw, complete, acc)
  BY <1>1, <1>3, <1>4 DEF Sound
<1> QED
  BY <1>1, <1>5 DEF F

\* Replacing one decoder's state of an in-flight frame by a sound one, and
\* adding fragments to the frame, keeps the maps sound.
LEMMA FlightUpdateSound ==
  ASSUME NEW flights, NEW early, NEW comp, NEW acc,
         Sound(flights, early, comp, acc),
         NEW f \in DOMAIN flights, NEW d \in Decoders, NEW st \in DecoderState,
         Tracks(acc, layout[f][d], f, d, st),
         NEW frags \in SUBSET Message
  PROVE  /\ Sound([flights EXCEPT ![f].states[d] = st, ![f].fragments = @ \union frags],
                  early, comp, acc)
         /\ Sound([flights EXCEPT ![f].states[d] = st], early, comp, acc)
<1> DEFINE G1 == [flights EXCEPT ![f].states[d] = st, ![f].fragments = @ \union frags]
           G2 == [flights EXCEPT ![f].states[d] = st]
<1>1. flights \in [DOMAIN flights -> InFlightFrame]
  BY DEF Sound
<1>2. DOMAIN G1 = DOMAIN flights /\ DOMAIN G2 = DOMAIN flights
  OBVIOUS
<1>3. G1 \in [DOMAIN flights -> InFlightFrame] /\ G2 \in [DOMAIN flights -> InFlightFrame]
  BY <1>1 DEF InFlightFrame
<1>4. \A g \in DOMAIN flights : \A e \in Decoders :
         /\ G1[g].states[e] = IF g = f /\ e = d THEN st ELSE flights[g].states[e]
         /\ G2[g].states[e] = IF g = f /\ e = d THEN st ELSE flights[g].states[e]
  BY <1>1 DEF InFlightFrame
<1> HIDE DEF G1, G2
<1>5. \A g \in DOMAIN flights : \A e \in Decoders :
         /\ Tracks(acc, layout[g][e], g, e, G1[g].states[e])
         /\ Tracks(acc, layout[g][e], g, e, G2[g].states[e])
  BY <1>4 DEF Sound
<1>6. Sound(G1, early, comp, acc) /\ Sound(G2, early, comp, acc)
  BY <1>2, <1>3, <1>5 DEF Sound
<1> QED
  BY <1>6 DEF G1, G2

\* The same for an early-drawn frame.
LEMMA EarlyUpdateSound ==
  ASSUME NEW flights, NEW early, NEW comp, NEW acc,
         Sound(flights, early, comp, acc),
         NEW f \in DOMAIN early, NEW d \in Decoders, NEW st \in DecoderState,
         Tracks(acc, layout[f][d], f, d, st)
  PROVE  Sound(flights, [early EXCEPT ![f][d] = st], comp, acc)
<1> DEFINE E == [early EXCEPT ![f][d] = st]
<1>1. early \in [DOMAIN early -> [Decoders -> DecoderState]]
  BY DEF Sound
<1>2. DOMAIN E = DOMAIN early
  OBVIOUS
<1>3. E \in [DOMAIN early -> [Decoders -> DecoderState]]
  BY <1>1
<1>4. \A g \in DOMAIN early : \A e \in Decoders :
         E[g][e] = IF g = f /\ e = d THEN st ELSE early[g][e]
  BY <1>1
<1> HIDE DEF E
<1>5. \A g \in DOMAIN early : \A e \in Decoders : Tracks(acc, layout[g][e], g, e, E[g][e])
  BY <1>4 DEF Sound
<1>6. Sound(flights, E, comp, acc)
  BY <1>2, <1>3, <1>5 DEF Sound
<1> QED
  BY <1>6 DEF E

\* The state of a decoder whose empty-frame terminal was accepted.
LEMMA EmptyTracks ==
  ASSUME NEW acc, NEW f, NEW d, NEW p \in Production,
         NEW m \in Sends(f, d, p), m.kind = "Terminal"
  PROVE  Complete \in DecoderState /\ Tracks(acc \union {m}, p, f, d, Complete)
<1>1. p.relevant = 0 /\ p.encoded = 0 /\ Sends(f, d, p) = {m}
  BY TerminalShape
<1> QED
  BY <1>1 DEF Tracks, Complete, State, DecoderState

\* An empty-frame terminal that was not yet accepted finds the default state.
LEMMA EmptyPasses ==
  ASSUME NEW acc, NEW f, NEW d, NEW p \in Production, NEW st \in DecoderState,
         NEW m \in Sends(f, d, p), m.kind = "Terminal", m \notin acc,
         Tracks(acc, p, f, d, st)
  PROVE  CanMarkEmpty(st)
<1>1. p.relevant = 0 /\ p.encoded = 0 /\ Sends(f, d, p) = {m}
  BY TerminalShape
<1>a. st.tag # "Complete"
  BY <1>1 DEF Tracks
<1>b. ASSUME st.tag = "TerminatedIncomplete" PROVE FALSE
  <2>1. p.relevant > 0
    BY <1>b DEF Tracks
  <2> QED
    BY <1>1, <2>1
<1>2. st.tag = "InFlight"
  BY <1>a, <1>b DEF DecoderState
<1>3. st.seqs = {}
  BY <1>1, <1>2 DEF Tracks
<1> QED
  BY <1>2, <1>3 DEF CanMarkEmpty, Default, State, DecoderState

-----------------------------------------------------------------------------
(* Delivery of one message.                                                *)

\* What IInv says of a message that is about to be delivered.
LEMMA Delivered ==
  ASSUME IInv, NEW m \in net
  PROVE  /\ m \in Message
         /\ m.frame \in Cut
         /\ m.decoder \in Decoders
         /\ layout[m.frame][m.decoder] \in Production
         /\ m \in Sends(m.frame, m.decoder, layout[m.frame][m.decoder])
         /\ m \notin accepted
         /\ m.frame \notin complete
<1>1. /\ m \in Message
      /\ m.frame \in Cut
      /\ m \in Sends(m.frame, m.decoder, layout[m.frame][m.decoder])
      /\ m \notin accepted
  BY DEF IInv, TypeOK, Sent
<1>2. m.decoder \in Decoders
  BY <1>1 DEF Message
<1>3. layout[m.frame][m.decoder] \in Production
  BY <1>1, <1>2 DEF IInv, TypeOK
<1>4. m.frame \notin complete
  BY <1>1, <1>2 DEF IInv, Sound
<1> QED
  BY <1>1, <1>2, <1>3, <1>4

\* report_terminal queues messages only.
LEMMA ReportTerminalQueues ==
  ASSUME NEW flights, NEW early, NEW queued \in SUBSET Message, NEW frame,
         flights \in [DOMAIN flights -> InFlightFrame],
         frame \in DOMAIN early \/ frame \in DOMAIN flights,
         report_terminal(flights, early, queued, frame)
  PROVE  undrawn' \subseteq Message
<1>1. \A g \in DOMAIN flights : flights[g].fragments \subseteq Message
  BY DEF InFlightFrame
<1>2. OlderThan(flights, frame) \subseteq DOMAIN flights
  BY DEF OlderThan
<1>3. CASE frame \in DOMAIN early
  BY <1>3 DEF report_terminal, Assemble
<1>4. CASE frame \notin DOMAIN early
  <2>1. frame \in DOMAIN flights
    BY <1>4
  <2> QED
    BY <1>1, <1>2, <1>4, <2>1 DEF report_terminal, Assemble
<1> QED
  BY <1>3, <1>4

\* A fragment is accepted and the framer stays sound.
LEMMA FragmentStep ==
  ASSUME IInv, NEW m \in net, report_fragment(m)
  PROVE  /\ Accept(m)
         /\ Sound(in_flight', early_draw', complete', accepted')
         /\ undrawn' \subseteq Message
<1> DEFINE f == m.frame
           d == m.decoder
           p == layout[f][d]
           acc == accepted \union {m}
<1>0. /\ m \in Message
      /\ f \in Cut
      /\ d \in Decoders
      /\ p \in Production
      /\ m \in Sends(f, d, p)
      /\ m \notin accepted
      /\ f \notin complete
  BY Delivered
<1>1. m.kind = "Fragment"
  BY DEF report_fragment
<1>2. Sound(in_flight, early_draw, complete, accepted)
  BY DEF IInv
<1>3. CASE f \in DOMAIN early_draw
  <2> DEFINE st == early_draw[f][d]
             new == mark_sequence_received(st, m.sequence, m.terminal)
             early == [early_draw EXCEPT ![f][d] = new]
  <2>1. st \in DecoderState /\ Tracks(accepted, p, f, d, st)
    BY <1>0, <1>2, <1>3 DEF Sound
  <2>2. CanMarkSequence(st, m.sequence, m.terminal)
    BY <1>0, <1>1, <2>1, FragmentPasses
  <2>3. new \in DecoderState /\ Tracks(acc, p, f, d, new)
    BY <1>0, <1>1, <2>1, <2>2, MarkTracks
  <2>4. Sound(in_flight, early_draw, complete, acc)
    BY <1>2, SoundMonotone
  <2>5. Sound(in_flight, early, complete, acc)
    BY <1>0, <1>3, <2>3, <2>4, EarlyUpdateSound
  <2>6. FragmentOfEarlyDraw(m)
    BY <1>0, <1>3 DEF report_fragment
  <2>7. /\ Accept(m)
        /\ \/ report_terminal(in_flight, early, {m}, f)
           \/ Assemble(in_flight, early, {m})
    BY <2>2, <2>6 DEF FragmentOfEarlyDraw
  <2>8. accepted' = acc
    BY <2>7 DEF Accept
  <2>9. f \in DOMAIN early
    BY <1>3
  <2> HIDE DEF early, new, st
  <2>10. CASE report_terminal(in_flight, early, {m}, f)
    <3>1. Sound(in_flight', early_draw', complete', acc)
      BY <1>0, <2>5, <2>9, <2>10, ReportTerminalSound
    <3>2. in_flight \in [DOMAIN in_flight -> InFlightFrame] /\ {m} \in SUBSET Message
      BY <1>0, <1>2 DEF Sound
    <3>3. undrawn' \subseteq Message
      BY <2>9, <2>10, <3>2, ReportTerminalQueues
    <3> QED
      BY <2>7, <2>8, <3>1, <3>3
  <2>11. CASE Assemble(in_flight, early, {m})
    BY <1>0, <2>5, <2>7, <2>8, <2>11 DEF Assemble
  <2> QED
    BY <2>7, <2>10, <2>11
<1>4. CASE f \notin DOMAIN early_draw
  <2> DEFINE flights == OrInsert(GapBefore(f) \union {f})
             st == flights[f].states[d]
             new == mark_sequence_received(st, m.sequence, m.terminal)
             added == [flights EXCEPT ![f].states[d] = new,
                                      ![f].fragments = @ \union {m}]
  <2>0. GapBefore(f) \union {f} \subseteq Cut
    BY <1>0 DEF GapBefore, Cut, IInv, TypeOK
  <2>1. /\ Sound(flights, early_draw, complete, accepted)
        /\ f \in DOMAIN flights
    BY <1>2, <2>0, OrInsertSound
  <2> HIDE DEF flights
  <2>2. st \in DecoderState /\ Tracks(accepted, p, f, d, st)
    BY <1>0, <2>1 DEF Sound, InFlightFrame
  <2>3. CanMarkSequence(st, m.sequence, m.terminal)
    BY <1>0, <1>1, <2>2, FragmentPasses
  <2>4. new \in DecoderState /\ Tracks(acc, p, f, d, new)
    BY <1>0, <1>1, <2>2, <2>3, MarkTracks
  <2>5. Sound(flights, early_draw, complete, acc)
    BY <2>1, SoundMonotone
  <2>6. {m} \in SUBSET Message
    BY <1>0
  <2> HIDE DEF new
  <2>7. Sound(added, early_draw, complete, acc)
    BY <1>0, <2>1, <2>4, <2>5, <2>6, FlightUpdateSound
  <2>8. FragmentInFlight(m)
    BY <1>0, <1>4 DEF report_fragment
  <2>9. /\ Accept(m)
        /\ \/ report_terminal(added, early_draw, {}, f)
           \/ Assemble(added, early_draw, {})
    BY <2>3, <2>8 DEF FragmentInFlight, flights, new
  <2>10. accepted' = acc
    BY <2>9 DEF Accept
  <2>11. f \in DOMAIN added
    BY <2>1
  <2> HIDE DEF added, st
  <2>12. CASE report_terminal(added, early_draw, {}, f)
    <3>1. Sound(in_flight', early_draw', complete', acc)
      BY <1>0, <2>7, <2>11, <2>12, ReportTerminalSound
    <3>2. added \in [DOMAIN added -> InFlightFrame] /\ {} \in SUBSET Message
      BY <2>7 DEF Sound
    <3>3. undrawn' \subseteq Message
      BY <2>11, <2>12, <3>2, ReportTerminalQueues
    <3> QED
      BY <2>9, <2>10, <3>1, <3>3
  <2>13. CASE Assemble(added, early_draw, {})
    BY <2>7, <2>9, <2>10, <2>13 DEF Assemble
  <2> QED
    BY <2>9, <2>12, <2>13
<1> QED
  BY <1>3, <1>4

\* An empty-frame terminal is accepted and the framer stays sound.
LEMMA TerminalStep ==
  ASSUME IInv, NEW m \in net, report_empty_frame_terminal(m)
  PROVE  /\ Accept(m)
         /\ Sound(in_flight', early_draw', complete', accepted')
         /\ undrawn' \subseteq Message
<1> DEFINE f == m.frame
           d == m.decoder
           p == layout[f][d]
           acc == accepted \union {m}
<1>0. /\ m \in Message
      /\ f \in Cut
      /\ d \in Decoders
      /\ p \in Production
      /\ m \in Sends(f, d, p)
      /\ m \notin accepted
      /\ f \notin complete
  BY Delivered
<1>1. m.kind = "Terminal"
  BY DEF report_empty_frame_terminal
<1>2. Sound(in_flight, early_draw, complete, accepted)
  BY DEF IInv
<1>3. Complete \in DecoderState /\ Tracks(acc, p, f, d, Complete)
  BY <1>0, <1>1, EmptyTracks
<1>4. {} \in SUBSET Message
  OBVIOUS
<1>5. CASE f \in DOMAIN early_draw
  <2> DEFINE st == early_draw[f][d]
             early == [early_draw EXCEPT ![f][d] = Complete]
  <2>1. st \in DecoderState /\ Tracks(accepted, p, f, d, st)
    BY <1>0, <1>2, <1>5 DEF Sound
  <2>2. CanMarkEmpty(st)
    BY <1>0, <1>1, <2>1, EmptyPasses
  <2>3. Sound(in_flight, early_draw, complete, acc)
    BY <1>2, SoundMonotone
  <2>4. Sound(in_flight, early, complete, acc)
    BY <1>0, <1>3, <1>5, <2>3, EarlyUpdateSound
  <2>5. Accept(m) /\ report_terminal(in_flight, early, {}, f)
    BY <1>0, <1>5, <2>2 DEF report_empty_frame_terminal
  <2>6. f \in DOMAIN early
    BY <1>5
  <2> HIDE DEF early, st
  <2>7. Sound(in_flight', early_draw', complete', acc)
    BY <1>0, <2>4, <2>5, <2>6, ReportTerminalSound
  <2>8. in_flight \in [DOMAIN in_flight -> InFlightFrame]
    BY <1>2 DEF Sound
  <2>9. undrawn' \subseteq Message
    BY <1>4, <2>5, <2>6, <2>8, ReportTerminalQueues
  <2> QED
    BY <2>5, <2>7, <2>9 DEF Accept
<1>6. CASE f \notin DOMAIN early_draw
  <2> DEFINE flights == OrInsert({f})
             st == flights[f].states[d]
             ended == [flights EXCEPT ![f].states[d] = Complete]
  <2>0. {f} \subseteq Cut
    BY <1>0
  <2>1. /\ Sound(flights, early_draw, complete, accepted)
        /\ f \in DOMAIN flights
    BY <1>2, <2>0, OrInsertSound
  <2> HIDE DEF flights
  <2>2. st \in DecoderState /\ Tracks(accepted, p, f, d, st)
    BY <1>0, <2>1 DEF Sound, InFlightFrame
  <2>3. CanMarkEmpty(st)
    BY <1>0, <1>1, <2>2, EmptyPasses
  <2>4. Sound(flights, early_draw, complete, acc)
    BY <2>1, SoundMonotone
  <2>5. Sound(ended, early_draw, complete, acc)
    BY <1>0, <1>3, <1>4, <2>1, <2>4, FlightUpdateSound
  <2>6. Accept(m) /\ report_terminal(ended, early_draw, {}, f)
    BY <1>0, <1>6, <2>3 DEF report_empty_frame_terminal, flights
  <2>7. f \in DOMAIN ended
    BY <2>1
  <2> HIDE DEF ended, st
  <2>8. Sound(in_flight', early_draw', complete', acc)
    BY <1>0, <2>5, <2>6, <2>7, ReportTerminalSound
  <2>9. ended \in [DOMAIN ended -> InFlightFrame]
    BY <2>5 DEF Sound
  <2>10. undrawn' \subseteq Message
    BY <1>4, <2>6, <2>7, <2>9, ReportTerminalQueues
  <2> QED
    BY <2>6, <2>8, <2>10 DEF Accept
<1> QED
  BY <1>5, <1>6

\* A delivery that accepts its message re-establishes the invariant.
LEMMA AcceptInv ==
  ASSUME IInv, NEW m \in net, Deliver(m), Accept(m), UNCHANGED undecodable,
         Sound(in_flight', early_draw', complete', accepted'),
         undrawn' \subseteq Message
  PROVE  IInv'
<1>1. /\ next_frame' = next_frame
      /\ layout' = layout
      /\ drawn' = drawn
      /\ net' = net \ {m}
      /\ accepted' = accepted \union {m}
      /\ rejected' = rejected
      /\ undecodable' = undecodable
  BY DEF Deliver, Accept
<1>2. Cut' = Cut
  BY <1>1 DEF Cut
<1>3. Sound(in_flight, early_draw, complete, accepted)'
  BY <1>1, <1>2 DEF Sound
<1>4. TypeOK'
  BY <1>1, <1>2 DEF IInv, TypeOK, Sound
<1>5. Sent(accepted, net)'
  BY <1>1, <1>2 DEF IInv, Sent
<1> QED
  BY <1>1, <1>3, <1>4, <1>5 DEF IInv, NothingRejected

\* Cutting a new frame keeps the invariant: its messages are new.
LEMMA SendFrameInv ==
  ASSUME IInv, NEW production \in [Decoders -> Production], SendFrame(production)
  PROVE  IInv'
<1>1. /\ next_frame \in Nat
      /\ next_frame < MaxFrames
      /\ next_frame' = next_frame + 1
      /\ layout' = [f \in 0 .. next_frame |-> IF f = next_frame THEN production ELSE layout[f]]
      /\ net' = net \union UNION {Sends(next_frame, d, production[d]) : d \in Decoders}
      /\ UNCHANGED <<in_flight, early_draw, complete, undrawn, drawn, accepted, rejected, undecodable>>
  BY BoundsAssumption DEF IInv, TypeOK, SendFrame, framer
<1>2. /\ Cut' = 0 .. next_frame
      /\ Cut \subseteq Cut'
      /\ next_frame \notin Cut
      /\ next_frame \in Cut'
      /\ \A f \in Cut : layout'[f] = layout[f]
      /\ layout'[next_frame] = production
  BY <1>1 DEF Cut
<1>3. layout \in [Cut -> [Decoders -> Production]]
  BY DEF IInv, TypeOK
<1>4. layout' \in [Cut' -> [Decoders -> Production]]
  BY <1>1, <1>2, <1>3 DEF Cut
<1>5. \A d \in Decoders : \A m \in Sends(next_frame, d, production[d]) :
         m \in Message /\ m.frame = next_frame /\ m.decoder = d
  BY <1>1, SendsMessages
<1>6. net' \subseteq Message
  BY <1>1, <1>5 DEF IInv, TypeOK
<1>7. TypeOK'
  BY <1>1, <1>2, <1>4, <1>6, BoundsAssumption DEF IInv, TypeOK
<1>8. Sound(in_flight, early_draw, complete, accepted)'
  BY <1>1, <1>2 DEF IInv, Sound
<1>9. Sent(accepted, net)'
  <2>1. \A m \in accepted \union net :
           /\ m.frame \in Cut
           /\ m.frame \in Cut'
           /\ m \in Sends(m.frame, m.decoder, layout'[m.frame][m.decoder])
    BY <1>2 DEF IInv, Sent
  <2>2. \A m \in net' \ net :
           /\ m.frame = next_frame
           /\ m \in Sends(m.frame, m.decoder, layout'[m.frame][m.decoder])
    BY <1>1, <1>2, <1>5
  <2>3. accepted \intersect net' = {}
    BY <1>2, <2>1, <2>2 DEF IInv, Sent
  <2> QED
    BY <1>1, <1>2, <2>1, <2>2, <2>3 DEF Sent
<1> QED
  BY <1>1, <1>7, <1>8, <1>9 DEF IInv, NothingRejected

-----------------------------------------------------------------------------
(* The theorems.                                                           *)

\* IInv holds initially and every step of the client, the network and the
\* server preserves it.
THEOREM Invariance == Spec => []IInv
<1>1. Init => IInv
  BY BoundsAssumption DEF Init, IInv, TypeOK, NothingRejected, Sent, Sound, Cut
<1>2. IInv /\ [Next]_vars => IInv'
  <2> SUFFICES ASSUME IInv, [Next]_vars
               PROVE  IInv'
    OBVIOUS
  <2>1. ASSUME NEW production \in [Decoders -> Production], SendFrame(production)
        PROVE  IInv'
    BY <2>1, SendFrameInv
  <2>2. ASSUME NEW m \in net, report_fragment(m)
        PROVE  IInv'
    <3>1. /\ Accept(m)
          /\ Sound(in_flight', early_draw', complete', accepted')
          /\ undrawn' \subseteq Message
      BY <2>2, FragmentStep
    <3>2. Deliver(m) /\ UNCHANGED undecodable
      BY <2>2 DEF report_fragment
    <3> QED
      BY <3>1, <3>2, AcceptInv
  <2>3. ASSUME NEW m \in net, report_undecodable(m)
        PROVE  IInv'
    <3>1. m \in Message
      BY Delivered
    <3> QED
      BY <2>3, <3>1 DEF report_undecodable, Deliver, framer, IInv, TypeOK, NothingRejected,
                       Sent, Sound, Cut
  <2>4. ASSUME NEW m \in net, report_empty_frame_terminal(m)
        PROVE  IInv'
    <3>1. /\ Accept(m)
          /\ Sound(in_flight', early_draw', complete', accepted')
          /\ undrawn' \subseteq Message
      BY <2>4, TerminalStep
    <3>2. Deliver(m) /\ UNCHANGED undecodable
      BY <2>4 DEF report_empty_frame_terminal
    <3> QED
      BY <3>1, <3>2, AcceptInv
  <2>5. CASE get_draws_and_reset
    BY <2>5 DEF get_draws_and_reset, IInv, TypeOK, NothingRejected, Sent, Sound, Cut
  <2>6. CASE UNCHANGED vars
    BY <2>6 DEF vars, framer, IInv, TypeOK, NothingRejected, Sent, Sound, Cut
  <2> QED
    BY <2>1, <2>2, <2>3, <2>4, <2>5, <2>6 DEF Next
<1> QED
  BY <1>1, <1>2, PTL DEF Spec

\* The framer's variables keep their types, for every bound.
THEOREM TypeCorrect == Spec => []TypeOK
<1>1. IInv => TypeOK
  BY DEF IInv
<1> QED
  BY <1>1, Invariance, PTL

\* No reordering makes the framer refuse a message of a correct server.
THEOREM NeverRejects == Spec => []NothingRejected
<1>1. IInv => NothingRejected
  BY DEF IInv
<1> QED
  BY <1>1, Invariance, PTL

\* A frame in `complete' was received in full, however its messages arrived.
THEOREM CompleteIsReceived == Spec => []CompleteMeansReceived
<1>1. IInv => CompleteMeansReceived
  BY DEF IInv, Sound, CompleteMeansReceived, FullyAccepted
<1> QED
  BY <1>1, Invariance, PTL

-----------------------------------------------------------------------------
(* Conservation of fragments.                                              *)

\* The fragments held in a map of in-flight frames.
HeldIn(flights) == UNION {flights[f].fragments : f \in DOMAIN flights}

\* An in-flight frame holds only its own fragments.
Own(flights) ==
  \A f \in DOMAIN flights : \A h \in flights[f].fragments : h.frame = f

\* The inductive invariant behind EveryFragmentDrawnOnce.
Conserved == Own(in_flight) /\ EveryFragmentDrawnOnce

\* report_terminal moves fragments from the in-flight frames to the draw
\* queue and loses none: the two parts it makes are disjoint because a frame
\* holds only its own fragments.
LEMMA ReportTerminalConserves ==
  ASSUME NEW flights, NEW early, NEW queued, NEW frame,
         frame \in DOMAIN early \/ frame \in DOMAIN flights,
         Own(flights),
         HeldIn(flights) \intersect queued = {},
         report_terminal(flights, early, queued, frame)
  PROVE  /\ Own(in_flight')
         /\ HeldIn(in_flight') \union undrawn' = HeldIn(flights) \union queued
         /\ HeldIn(in_flight') \intersect undrawn' = {}
<1>1. CASE \/ frame \in DOMAIN early
           \/ frame \notin DOMAIN early /\ ~AllComplete(flights[frame].states)
  <2>1. in_flight' = flights /\ undrawn' = queued
    BY <1>1 DEF report_terminal, Assemble
  <2> QED
    BY <2>1
<1>2. CASE frame \notin DOMAIN early /\ AllComplete(flights[frame].states)
  <2> DEFINE gone == OlderThan(flights, frame) \union {frame}
             kept == DOMAIN flights \ gone
             moved == UNION {flights[g].fragments : g \in gone}
  <2>1. /\ in_flight' = [g \in kept |-> flights[g]]
        /\ undrawn' = queued \union moved
    BY <1>2 DEF report_terminal
  <2>2. gone \subseteq DOMAIN flights
    BY <1>2 DEF OlderThan
  <2> HIDE DEF gone
  <2>3. /\ DOMAIN in_flight' = kept
        /\ \A g \in kept : in_flight'[g] = flights[g]
    BY <2>1
  <2>4. Own(in_flight')
    BY <2>3 DEF Own
  <2>5. HeldIn(in_flight') = UNION {flights[g].fragments : g \in kept}
    BY <2>3 DEF HeldIn
  <2>6. HeldIn(flights) = HeldIn(in_flight') \union moved
    BY <2>2, <2>5 DEF HeldIn
  <2>7. HeldIn(in_flight') \intersect moved = {}
    BY <2>2, <2>5 DEF Own
  <2> QED
    BY <2>1, <2>4, <2>6, <2>7
<1> QED
  BY <1>1, <1>2

\* New frames hold nothing.
LEMMA OrInsertConserves ==
  ASSUME NEW frames, Own(in_flight)
  PROVE  Own(OrInsert(frames)) /\ HeldIn(OrInsert(frames)) = Held
<1> DEFINE F == OrInsert(frames)
<1>1. /\ DOMAIN F = DOMAIN in_flight \union frames
      /\ \A f \in DOMAIN F : F[f] = IF f \in DOMAIN in_flight THEN in_flight[f] ELSE NewFrame
  BY DEF OrInsert
<1>2. NewFrame.fragments = {}
  BY DEF NewFrame
<1> HIDE DEF F
<1>3. \A f \in DOMAIN F : F[f].fragments = IF f \in DOMAIN in_flight THEN in_flight[f].fragments ELSE {}
  BY <1>1, <1>2
<1>4. Own(F)
  BY <1>3 DEF Own
<1>5. HeldIn(F) = Held
  BY <1>1, <1>3 DEF HeldIn, Held
<1> QED
  BY <1>4, <1>5 DEF F

\* G is flights with the fragments frags added to frame f.
Adds(G, flights, f, frags) ==
  /\ DOMAIN G = DOMAIN flights
  /\ f \in DOMAIN flights
  /\ \A h \in frags : h.frame = f
  /\ \A g \in DOMAIN flights :
       G[g].fragments = IF g = f THEN flights[g].fragments \union frags ELSE flights[g].fragments

\* Adding a frame's own fragments to it.
LEMMA AddsConserves ==
  ASSUME NEW flights, NEW G, NEW f, NEW frags, Adds(G, flights, f, frags), Own(flights)
  PROVE  Own(G) /\ HeldIn(G) = HeldIn(flights) \union frags /\ f \in DOMAIN G
<1>1. Own(G)
  BY DEF Own, Adds
<1>2. /\ \A h : h \in HeldIn(G) <=> \E g \in DOMAIN flights : h \in G[g].fragments
      /\ \A h : h \in HeldIn(flights) <=> \E g \in DOMAIN flights : h \in flights[g].fragments
  BY DEF HeldIn, Adds
<1>3. \A h : h \in HeldIn(G) <=> h \in HeldIn(flights) \union frags
  BY <1>2 DEF Adds
<1> QED
  BY <1>1, <1>3 DEF Adds

\* What the fragment invariant becomes when a delivery accepts a message:
\* `got' is the message if it is a fragment.
LEMMA AcceptConserves ==
  ASSUME IInv, Conserved, NEW m \in net, Deliver(m), Accept(m), NEW got,
         got = IF m.kind = "Fragment" THEN {m} ELSE {},
         Own(in_flight'),
         HeldIn(in_flight') \union undrawn' = Held \union got,
         HeldIn(in_flight') \intersect undrawn' = {}
  PROVE  Conserved'
<1>1. undrawn = {} /\ drawn' = drawn /\ accepted' = accepted \union {m}
  BY DEF Deliver, Accept
<1>2. Held' = HeldIn(in_flight')
  BY DEF Held, HeldIn
<1>3. m \notin accepted
  BY Delivered
<1>4. /\ {x \in accepted : x.kind = "Fragment"} = Held \union drawn
      /\ Held \intersect drawn = {}
  BY <1>1 DEF Conserved, EveryFragmentDrawnOnce
<1>5. {x \in accepted' : x.kind = "Fragment"} = Held \union drawn \union got
  BY <1>1, <1>4
<1>6. got \intersect (Held \union drawn) = {}
  BY <1>3, <1>4
<1>7. {x \in accepted' : x.kind = "Fragment"} = Held' \union undrawn' \union drawn'
  BY <1>1, <1>2, <1>5
<1>8. Held' \intersect (undrawn' \union drawn') = {} /\ undrawn' \intersect drawn' = {}
  BY <1>1, <1>2, <1>4, <1>6
<1>9. Own(in_flight)'
  BY DEF Own
<1> QED
  BY <1>7, <1>8, <1>9 DEF Conserved, EveryFragmentDrawnOnce

\* Conserved is an invariant, one step per action.
LEMMA Conservation == Spec => []Conserved
<1>1. Init => Conserved
  BY DEF Init, Conserved, Own, EveryFragmentDrawnOnce, Held
<1>2. IInv /\ Conserved /\ [Next]_vars => Conserved'
  <2> SUFFICES ASSUME IInv, Conserved, [Next]_vars
               PROVE  Conserved'
    OBVIOUS
  <2>0. /\ Own(in_flight)
        /\ Held = HeldIn(in_flight)
        /\ in_flight \in [DOMAIN in_flight -> InFlightFrame]
    BY DEF Conserved, Held, HeldIn, IInv, TypeOK
  <2>1. ASSUME NEW production \in [Decoders -> Production], SendFrame(production)
        PROVE  Conserved'
    BY <2>1 DEF SendFrame, framer, Conserved, Own, EveryFragmentDrawnOnce, Held
  <2>2. ASSUME NEW m \in net, report_fragment(m)
        PROVE  Conserved'
    <3>0. /\ m.kind = "Fragment"
          /\ m.frame \notin complete
          /\ m.frame \in Cut
          /\ Deliver(m)
          /\ Accept(m)
          /\ m \notin Held
      <4>1. m \notin accepted /\ m.frame \notin complete /\ m.frame \in Cut
        BY Delivered
      <4>2. Held \subseteq accepted
        BY DEF Conserved, EveryFragmentDrawnOnce
      <4> QED
        BY <2>2, <4>1, <4>2, FragmentStep DEF report_fragment
    <3>1. CASE m.frame \in DOMAIN early_draw
      <4> DEFINE early == [early_draw EXCEPT ![m.frame][m.decoder] =
                             mark_sequence_received(early_draw[m.frame][m.decoder],
                                                    m.sequence, m.terminal)]
      <4>1. FragmentOfEarlyDraw(m)
        BY <2>2, <3>0, <3>1 DEF report_fragment
      <4>2. \/ report_terminal(in_flight, early, {m}, m.frame)
            \/ Assemble(in_flight, early, {m})
        <5>1. CanMarkSequence(early_draw[m.frame][m.decoder], m.sequence, m.terminal)
          <6>1. /\ m.decoder \in Decoders
                /\ layout[m.frame][m.decoder] \in Production
                /\ m \in Sends(m.frame, m.decoder, layout[m.frame][m.decoder])
                /\ m \notin accepted
            BY Delivered
          <6>2. /\ early_draw[m.frame][m.decoder] \in DecoderState
                /\ Tracks(accepted, layout[m.frame][m.decoder], m.frame, m.decoder,
                          early_draw[m.frame][m.decoder])
            BY <3>1, <6>1 DEF IInv, Sound
          <6> QED
            BY <3>0, <6>1, <6>2, FragmentPasses
        <5> QED
          BY <4>1, <5>1 DEF FragmentOfEarlyDraw
      <4>3. m.frame \in DOMAIN early
        BY <3>1
      <4>4. HeldIn(in_flight) \intersect {m} = {}
        BY <2>0, <3>0
      <4> HIDE DEF early
      <4>5. /\ Own(in_flight')
            /\ HeldIn(in_flight') \union undrawn' = HeldIn(in_flight) \union {m}
            /\ HeldIn(in_flight') \intersect undrawn' = {}
        <5>1. CASE report_terminal(in_flight, early, {m}, m.frame)
          BY <2>0, <4>3, <4>4, <5>1, ReportTerminalConserves
        <5>2. CASE Assemble(in_flight, early, {m})
          BY <2>0, <4>4, <5>2 DEF Assemble
        <5> QED
          BY <4>2, <5>1, <5>2
      <4> QED
        BY <2>0, <3>0, <4>5, AcceptConserves
    <3>2. CASE m.frame \notin DOMAIN early_draw
      <4> DEFINE flights == OrInsert(GapBefore(m.frame) \union {m.frame})
                 st == flights[m.frame].states[m.decoder]
                 new == mark_sequence_received(st, m.sequence, m.terminal)
                 added == [flights EXCEPT ![m.frame].states[m.decoder] = new,
                                          ![m.frame].fragments = @ \union {m}]
      <4>1. FragmentInFlight(m)
        BY <2>2, <3>0, <3>2 DEF report_fragment
      <4>2. GapBefore(m.frame) \union {m.frame} \subseteq Cut
        BY <3>0 DEF GapBefore, Cut, IInv, TypeOK
      <4>3. /\ Sound(flights, early_draw, complete, accepted)
            /\ m.frame \in DOMAIN flights
        BY <4>2, OrInsertSound DEF IInv
      <4>4. Own(flights) /\ HeldIn(flights) = Held
        BY <2>0, OrInsertConserves
      <4> HIDE DEF flights
      <4>5. /\ CanMarkSequence(st, m.sequence, m.terminal)
            /\ new \in DecoderState
            /\ m.decoder \in Decoders
        <5>1. /\ m.decoder \in Decoders
              /\ layout[m.frame][m.decoder] \in Production
              /\ m \in Sends(m.frame, m.decoder, layout[m.frame][m.decoder])
              /\ m \notin accepted
          BY Delivered
        <5>2. /\ st \in DecoderState
              /\ Tracks(accepted, layout[m.frame][m.decoder], m.frame, m.decoder, st)
          BY <4>3, <5>1 DEF Sound, InFlightFrame
        <5>3. CanMarkSequence(st, m.sequence, m.terminal)
          BY <3>0, <5>1, <5>2, FragmentPasses
        <5>4. new \in DecoderState
          BY <3>0, <5>1, <5>2, <5>3, MarkTracks
        <5> QED
          BY <5>1, <5>3, <5>4
      <4>6. \/ report_terminal(added, early_draw, {}, m.frame)
            \/ Assemble(added, early_draw, {})
        BY <4>1, <4>5 DEF FragmentInFlight, flights
      <4> HIDE DEF new, st
      <4>7. Own(added) /\ HeldIn(added) = HeldIn(flights) \union {m} /\ m.frame \in DOMAIN added
        <5>1. flights \in [DOMAIN flights -> InFlightFrame]
          BY <4>3 DEF Sound
        <5>2. Adds(added, flights, m.frame, {m})
          BY <4>3, <5>1 DEF Adds, InFlightFrame
        <5> QED
          BY <4>4, <5>2, AddsConserves
      <4> HIDE DEF added
      <4>8. /\ Own(in_flight')
            /\ HeldIn(in_flight') \union undrawn' = Held \union {m}
            /\ HeldIn(in_flight') \intersect undrawn' = {}
        <5>1. CASE report_terminal(added, early_draw, {}, m.frame)
          BY <4>4, <4>7, <5>1, ReportTerminalConserves
        <5>2. CASE Assemble(added, early_draw, {})
          BY <4>4, <4>7, <5>2 DEF Assemble
        <5> QED
          BY <4>6, <5>1, <5>2
      <4> QED
        BY <3>0, <4>8, AcceptConserves
    <3> QED
      BY <3>1, <3>2
  <2>3. ASSUME NEW m \in net, report_undecodable(m)
        PROVE  Conserved'
    BY <2>3 DEF report_undecodable, Deliver, framer, Conserved, Own, EveryFragmentDrawnOnce, Held
  <2>4. ASSUME NEW m \in net, report_empty_frame_terminal(m)
        PROVE  Conserved'
    <3>0. /\ m.kind = "Terminal"
          /\ m.kind # "Fragment"
          /\ m.frame \notin complete
          /\ m.frame \in Cut
          /\ Deliver(m)
          /\ Accept(m)
      <4>1. m.frame \notin complete /\ m.frame \in Cut
        BY Delivered
      <4> QED
        BY <2>4, <4>1, TerminalStep DEF report_empty_frame_terminal
    <3>a. m \notin accepted
      BY Delivered
    <3>b. ~Reject(m)
      BY <3>0, <3>a DEF Accept, Reject
    <3>1. CASE m.frame \in DOMAIN early_draw
      <4> DEFINE early == [early_draw EXCEPT ![m.frame][m.decoder] = Complete]
      <4>1. report_terminal(in_flight, early, {}, m.frame)
        BY <2>4, <3>0, <3>1, <3>b DEF report_empty_frame_terminal
      <4>2. m.frame \in DOMAIN early
        BY <3>1
      <4> HIDE DEF early
      <4>3. /\ Own(in_flight')
            /\ HeldIn(in_flight') \union undrawn' = Held
            /\ HeldIn(in_flight') \intersect undrawn' = {}
        BY <2>0, <4>1, <4>2, ReportTerminalConserves
      <4> QED
        BY <3>0, <4>3, AcceptConserves
    <3>2. CASE m.frame \notin DOMAIN early_draw
      <4> DEFINE flights == OrInsert({m.frame})
                 ended == [flights EXCEPT ![m.frame].states[m.decoder] = Complete]
      <4>1. report_terminal(ended, early_draw, {}, m.frame)
        BY <2>4, <3>0, <3>2, <3>b DEF report_empty_frame_terminal
      <4>2. /\ Sound(flights, early_draw, complete, accepted)
            /\ m.frame \in DOMAIN flights
        BY <3>0, OrInsertSound DEF IInv
      <4>3. Own(flights) /\ HeldIn(flights) = Held
        BY <2>0, OrInsertConserves
      <4> HIDE DEF flights
      <4>4. Own(ended) /\ HeldIn(ended) = Held /\ m.frame \in DOMAIN ended
        <5>1. flights \in [DOMAIN flights -> InFlightFrame]
          BY <4>2 DEF Sound
        <5>2. Adds(ended, flights, m.frame, {})
          BY <4>2, <5>1 DEF Adds, InFlightFrame
        <5> QED
          BY <4>3, <5>2, AddsConserves
      <4> HIDE DEF ended
      <4>5. /\ Own(in_flight')
            /\ HeldIn(in_flight') \union undrawn' = Held
            /\ HeldIn(in_flight') \intersect undrawn' = {}
        BY <4>1, <4>4, ReportTerminalConserves
      <4> QED
        BY <3>0, <4>5, AcceptConserves
    <3> QED
      BY <3>1, <3>2
  <2>5. CASE get_draws_and_reset
    BY <2>5 DEF get_draws_and_reset, Conserved, Own, EveryFragmentDrawnOnce, Held
  <2>6. CASE UNCHANGED vars
    BY <2>6 DEF vars, framer, Conserved, Own, EveryFragmentDrawnOnce, Held
  <2> QED
    BY <2>1, <2>2, <2>3, <2>4, <2>5, <2>6 DEF Next
<1> QED
  BY <1>1, <1>2, Invariance, PTL DEF Spec

\* Every accepted fragment is held, queued or drawn, and only one of these.
THEOREM FragmentsConserved == Spec => []EveryFragmentDrawnOnce
<1>1. Conserved => EveryFragmentDrawnOnce
  BY DEF Conserved
<1> QED
  BY <1>1, Conservation, PTL

-----------------------------------------------------------------------------
(* What a completed frame flushes.                                         *)

\* The frames that a step completes and that were not drawn early are older
\* than every frame it leaves in flight.
Flushes(early) ==
  \A f \in complete' \ complete :
    f \notin DOMAIN early => \A g \in DOMAIN in_flight' : g > f

\* report_terminal completes the frame and the whole ones below it, and keeps
\* in flight only what is above it.
LEMMA ReportTerminalFlushes ==
  ASSUME NEW flights, NEW early, NEW queued, NEW frame \in Int,
         DOMAIN flights \subseteq Int,
         report_terminal(flights, early, queued, frame)
  PROVE  Flushes(early)
<1>1. CASE frame \in DOMAIN early
  <2>1. complete' = complete \/ complete' = complete \union {frame}
    BY <1>1 DEF report_terminal, Assemble
  <2> QED
    BY <1>1, <2>1 DEF Flushes
<1>2. CASE frame \notin DOMAIN early /\ ~AllComplete(flights[frame].states)
  BY <1>2 DEF report_terminal, Assemble, Flushes
<1>3. CASE frame \notin DOMAIN early /\ AllComplete(flights[frame].states)
  <2> DEFINE older == OlderThan(flights, frame)
             kept == DOMAIN flights \ (older \union {frame})
             whole == {g \in older : AllComplete(flights[g].states)}
  <2>1. /\ complete' = complete \union {frame} \union whole
        /\ in_flight' = [g \in kept |-> flights[g]]
    BY <1>3 DEF report_terminal
  <2>2. \A f \in {frame} \union whole : f \in Int /\ f <= frame
    BY DEF OlderThan
  <2>3. \A g \in kept : g \in Int /\ g > frame
    BY DEF OlderThan
  <2> HIDE DEF kept, whole
  <2>4. DOMAIN in_flight' = kept
    BY <2>1
  <2>5. \A f \in complete' \ complete : f \in Int /\ f <= frame
    BY <2>1, <2>2
  <2> QED
    BY <2>3, <2>4, <2>5 DEF Flushes
<1> QED
  BY <1>1, <1>2, <1>3

\* A fragment that arrives, whatever report_fragment answers.
LEMMA FragmentFlushes ==
  ASSUME IInv, NEW m \in net, report_fragment(m)
  PROVE  Flushes(early_draw)
<1>1. CASE complete' = complete
  BY <1>1 DEF Flushes
<1>2. CASE complete' # complete
  <2>1. m.frame \in Cut /\ DOMAIN in_flight \subseteq Int /\ Cut \subseteq Int
    BY Delivered DEF IInv, TypeOK, Cut
  <2>2. CASE m.frame \in DOMAIN early_draw
    <3> DEFINE early == [early_draw EXCEPT ![m.frame][m.decoder] =
                           mark_sequence_received(early_draw[m.frame][m.decoder],
                                                  m.sequence, m.terminal)]
    <3>1. report_terminal(in_flight, early, {m}, m.frame)
      BY <1>2, <2>2 DEF report_fragment, FragmentOfEarlyDraw, Assemble, framer
    <3>2. DOMAIN early = DOMAIN early_draw
      OBVIOUS
    <3> HIDE DEF early
    <3>3. Flushes(early)
      BY <2>1, <3>1, ReportTerminalFlushes
    <3> QED
      BY <3>2, <3>3 DEF Flushes
  <2>3. CASE m.frame \notin DOMAIN early_draw
    <3> DEFINE flights == OrInsert(GapBefore(m.frame) \union {m.frame})
               added == [flights EXCEPT
                           ![m.frame].states[m.decoder] =
                             mark_sequence_received(flights[m.frame].states[m.decoder],
                                                    m.sequence, m.terminal),
                           ![m.frame].fragments = @ \union {m}]
    <3>1. report_terminal(added, early_draw, {}, m.frame)
      BY <1>2, <2>3 DEF report_fragment, FragmentInFlight, Assemble, framer
    <3>2. DOMAIN flights \subseteq Int
      <4>1. GapBefore(m.frame) \subseteq Int /\ m.frame \in Int
        <5>1. m.frame \in Int
          BY <2>1
        <5>2. GapBefore(m.frame) \subseteq 0 .. m.frame - 1
          BY Zenon DEF GapBefore
        <5> QED
          BY <5>1, <5>2
      <4>2. DOMAIN flights = DOMAIN in_flight \union (GapBefore(m.frame) \union {m.frame})
        BY DEF OrInsert
      <4> QED
        BY <2>1, <4>1, <4>2
    <3> HIDE DEF flights
    <3>3. DOMAIN added = DOMAIN flights
      OBVIOUS
    <3> HIDE DEF added
    <3> QED
      BY <2>1, <3>1, <3>2, <3>3, ReportTerminalFlushes
  <2> QED
    BY <2>2, <2>3
<1> QED
  BY <1>1, <1>2

\* An empty-frame terminal that arrives.
LEMMA EmptyTerminalFlushes ==
  ASSUME IInv, NEW m \in net, report_empty_frame_terminal(m)
  PROVE  Flushes(early_draw)
<1>1. CASE complete' = complete
  BY <1>1 DEF Flushes
<1>2. CASE complete' # complete
  <2>1. m.frame \in Cut /\ DOMAIN in_flight \subseteq Int /\ Cut \subseteq Int
    BY Delivered DEF IInv, TypeOK, Cut
  <2>2. CASE m.frame \in DOMAIN early_draw
    <3> DEFINE early == [early_draw EXCEPT ![m.frame][m.decoder] = Complete]
    <3>1. report_terminal(in_flight, early, {}, m.frame)
      BY <1>2, <2>2 DEF report_empty_frame_terminal, framer
    <3>2. DOMAIN early = DOMAIN early_draw
      OBVIOUS
    <3> HIDE DEF early
    <3>3. Flushes(early)
      BY <2>1, <3>1, ReportTerminalFlushes
    <3> QED
      BY <3>2, <3>3 DEF Flushes
  <2>3. CASE m.frame \notin DOMAIN early_draw
    <3> DEFINE flights == OrInsert({m.frame})
               ended == [flights EXCEPT ![m.frame].states[m.decoder] = Complete]
    <3>1. report_terminal(ended, early_draw, {}, m.frame)
      BY <1>2, <2>3 DEF report_empty_frame_terminal, Assemble, framer
    <3>2. DOMAIN flights \subseteq Int
      BY <2>1 DEF OrInsert
    <3> HIDE DEF flights
    <3>3. DOMAIN ended = DOMAIN flights
      OBVIOUS
    <3> HIDE DEF ended
    <3> QED
      BY <2>1, <3>1, <3>2, <3>3, ReportTerminalFlushes
  <2> QED
    BY <2>2, <2>3
<1> QED
  BY <1>1, <1>2

\* A frame that completes without having been drawn early leaves no fragment
\* of itself or of an older frame waiting, however the frames arrived.
THEOREM CompletionFlushes == Spec => OlderFramesFlushed
<1>1. ASSUME IInv, Conserved', [Next]_vars
      PROVE  [\A f \in complete' \ complete :
                f \notin DOMAIN early_draw => \A m \in Held' : m.frame > f]_vars
  <2>1. Flushes(early_draw)
    <3>1. ASSUME NEW production \in [Decoders -> Production], SendFrame(production)
          PROVE  complete' = complete
      BY <3>1 DEF SendFrame, framer
    <3>2. ASSUME NEW m \in net, report_fragment(m)
          PROVE  Flushes(early_draw)
      BY <1>1, <3>2, FragmentFlushes
    <3>3. ASSUME NEW m \in net, report_undecodable(m)
          PROVE  complete' = complete
      BY <3>3 DEF report_undecodable, framer
    <3>4. ASSUME NEW m \in net, report_empty_frame_terminal(m)
          PROVE  Flushes(early_draw)
      BY <1>1, <3>4, EmptyTerminalFlushes
    <3>5. CASE get_draws_and_reset
      BY <3>5 DEF get_draws_and_reset, Flushes
    <3>6. CASE UNCHANGED vars
      BY <3>6 DEF vars, framer, Flushes
    <3>7. complete' = complete => Flushes(early_draw)
      BY DEF Flushes
    <3> QED
      BY <1>1, <3>1, <3>2, <3>3, <3>4, <3>5, <3>6, <3>7 DEF Next
  <2>2. \A h \in Held' : \E g \in DOMAIN in_flight' : h.frame = g
    BY <1>1 DEF Conserved, Own, Held
  <2> QED
    BY <2>1, <2>2 DEF Flushes
<1> QED
  BY <1>1, Invariance, Conservation, PTL DEF Spec, OlderFramesFlushed

-----------------------------------------------------------------------------
(* Numbers.                                                                *)

\* A set of naturals that is not empty has a least element.
LEMMA LeastNatural ==
  ASSUME NEW S, S \subseteq Nat, S # {}
  PROVE  \E x \in S : \A y \in S : x <= y
<1>1. PICK R : R = OpToRel(<, Nat)
  OBVIOUS
<1>2. IsWellFoundedOn(R, Nat)
  BY <1>1, NatLessThanWellFounded
<1>3. PICK x \in S : \A y \in S : ~(<<y, x>> \in R)
  BY <1>2, WFMin
<1>4. \A y \in S : ~(y < x)
  <2> SUFFICES ASSUME NEW y \in S, y < x PROVE FALSE
    OBVIOUS
  <2>1. <<y, x>> \in R
    BY <1>1 DEF OpToRel
  <2> QED BY <1>3, <2>1
<1> QED BY <1>4

LEMMA ProductMonotone ==
  ASSUME NEW a \in Nat, NEW b \in Nat, NEW c \in Nat, a <= b
  PROVE  c * a <= c * b /\ a * c <= b * c /\ c * a \in Nat /\ c * b \in Nat
<1>1. PICK k \in Nat : b = a + k
  <2>1. b - a \in Nat /\ b = a + (b - a)
    OBVIOUS
  <2> QED
    BY <2>1
<1>2. c * b = c * a + c * k /\ c * k \in Nat /\ c * a \in Nat
  BY <1>1
<1>3. a * c = c * a /\ b * c = c * b
  OBVIOUS
<1> QED
  BY <1>2, <1>3

LEMMA ProductCancels ==
  ASSUME NEW a \in Nat, NEW b \in Nat, NEW c \in Nat, c * a < c * b
  PROVE  a < b
<1> SUFFICES ASSUME ~(a < b) PROVE FALSE
  OBVIOUS
<1>1. c * b <= c * a
  BY ProductMonotone
<1>2. c * a \in Nat /\ c * b \in Nat
  OBVIOUS
<1> QED
  BY <1>1, <1>2

LEMMA Quotient ==
  ASSUME NEW a \in Nat, NEW p \in Nat \ {0}
  PROVE  /\ a \div p \in Nat
         /\ p * (a \div p) <= a /\ a < p * ((a \div p) + 1)
         /\ a % p \in 0..p - 1 /\ a = p * (a \div p) + (a % p)
  OBVIOUS

LEMMA QuotientIs ==
  ASSUME NEW a \in Nat, NEW p \in Nat \ {0}, NEW q \in Nat, p * q <= a, a < p * (q + 1)
  PROVE  a \div p = q
<1> DEFINE r == a \div p
<1>1. r \in Nat /\ p * r <= a /\ a < p * (r + 1)
  BY Quotient
<1> HIDE DEF r
<1>2. /\ p * q \in Nat /\ p * r \in Nat /\ p * (q + 1) \in Nat /\ p * (r + 1) \in Nat
  BY <1>1
<1>3. p * q < p * (r + 1) /\ p * r < p * (q + 1)
  BY <1>1, <1>2
<1>4. q < r + 1 /\ r < q + 1
  BY <1>1, <1>3, ProductCancels
<1> QED
  BY <1>1, <1>4 DEF r

-----------------------------------------------------------------------------
(* A length cut into parts.                                                *)

LEMMA EdgeIsNatural ==
  ASSUME NEW length \in Nat, NEW parts \in Nat \ {0}, NEW i \in Nat
  PROVE  Edge(length, i, parts) \in Nat
<1>1. length * i \in Nat
  OBVIOUS
<1> QED
  BY <1>1, Quotient DEF Edge

LEMMA EdgesGrow ==
  ASSUME NEW length \in Nat, NEW parts \in Nat \ {0}, NEW i \in Nat, NEW j \in Nat, i <= j
  PROVE  Edge(length, i, parts) <= Edge(length, j, parts)
<1> DEFINE a == length * i
           b == length * j
           e == a \div parts
           f == b \div parts
<1>1. a \in Nat /\ b \in Nat /\ a <= b
  BY ProductMonotone
<1> HIDE DEF a, b
<1>2. e \in Nat /\ parts * e <= a
  BY <1>1, Quotient
<1>3. f \in Nat /\ b < parts * (f + 1)
  BY <1>1, Quotient
<1> HIDE DEF e, f
<1>4. parts * e < parts * (f + 1)
  <2>1. parts * e \in Nat /\ parts * (f + 1) \in Nat
    BY <1>2, <1>3
  <2> QED
    BY <1>1, <1>2, <1>3, <2>1
<1>5. e < f + 1
  BY <1>2, <1>3, <1>4, ProductCancels
<1>6. e <= f
  BY <1>2, <1>3, <1>5
<1> QED
  BY <1>6 DEF Edge, e, f, a, b

LEMMA FirstAndLastEdge ==
  ASSUME NEW length \in Nat, NEW parts \in Nat \ {0}
  PROVE  Edge(length, 0, parts) = 0 /\ Edge(length, parts, parts) = length
<1>1. 0 \div parts = 0
  BY QuotientIs
<1>2. (length * parts) \div parts = length
  <2>1. /\ length * parts \in Nat /\ parts * length = length * parts
        /\ parts * (length + 1) = parts * length + parts
    OBVIOUS
  <2>2. parts * length <= length * parts /\ length * parts < parts * (length + 1)
    BY <2>1
  <2> QED
    BY <2>1, <2>2, QuotientIs
<1>3. length * 0 = 0
  OBVIOUS
<1> QED
  BY <1>1, <1>2, <1>3 DEF Edge

\* A point is between one pair of neighbouring lines only.
LEMMA OnePart ==
  ASSUME NEW length \in Nat, NEW parts \in Nat \ {0}, NEW i \in Nat, NEW j \in Nat, NEW x \in Nat,
         Edge(length, i, parts) <= x, x < Edge(length, i + 1, parts),
         Edge(length, j, parts) <= x, x < Edge(length, j + 1, parts)
  PROVE  i = j
<1>0. /\ Edge(length, i, parts) \in Nat /\ Edge(length, i + 1, parts) \in Nat
      /\ Edge(length, j, parts) \in Nat /\ Edge(length, j + 1, parts) \in Nat
  BY EdgeIsNatural
<1>1. ~(i < j)
  <2> SUFFICES ASSUME i < j PROVE FALSE
    OBVIOUS
  <2>1. Edge(length, i + 1, parts) <= Edge(length, j, parts)
    BY EdgesGrow
  <2> QED
    BY <1>0, <2>1
<1>2. ~(j < i)
  <2> SUFFICES ASSUME j < i PROVE FALSE
    OBVIOUS
  <2>1. Edge(length, j + 1, parts) <= Edge(length, i, parts)
    BY EdgesGrow
  <2> QED
    BY <1>0, <2>1
<1> QED
  BY <1>1, <1>2

\* A point of the length is between a pair of them.
LEMMA SomePart ==
  ASSUME NEW length \in Nat, NEW parts \in Nat \ {0}, NEW x \in 0..length - 1
  PROVE  \E i \in 0..parts - 1 :
           Edge(length, i, parts) <= x /\ x < Edge(length, i + 1, parts)
<1> DEFINE Beyond == {i \in Nat : x < Edge(length, i + 1, parts)}
<1>1. parts - 1 \in Beyond
  <2>1. parts - 1 \in Nat /\ (parts - 1) + 1 = parts
    OBVIOUS
  <2>2. x < Edge(length, parts, parts)
    BY FirstAndLastEdge
  <2> QED
    BY <2>1, <2>2
<1>2. PICK i \in Beyond : \A j \in Beyond : i <= j
  BY <1>1, LeastNatural
<1>3. i \in 0..parts - 1 /\ x < Edge(length, i + 1, parts)
  BY <1>1, <1>2
<1>4. Edge(length, i, parts) <= x
  <2>1. CASE i = 0
    BY <2>1, FirstAndLastEdge
  <2>2. CASE i # 0
    <3>1. i - 1 \in Nat /\ (i - 1) + 1 = i /\ ~(i <= i - 1)
      BY <1>3, <2>2
    <3>2. ~(x < Edge(length, i, parts))
      BY <1>2, <3>1
    <3>3. Edge(length, i, parts) \in Nat
      BY <1>3, EdgeIsNatural
    <3> QED
      BY <3>2, <3>3
  <2> QED
    BY <2>1, <2>2
<1> QED
  BY <1>3, <1>4

-----------------------------------------------------------------------------
(* The layout.                                                             *)

\* Every layout has room for the boxes.
LEMMA LayoutHasRoom ==
  ASSUME NEW boxes \in Nat \ {0}, NEW rows \in 1..boxes
  PROVE  LET l == Layout(boxes, rows)
         IN  /\ l.rows = rows
             /\ l.cols \in Nat \ {0} /\ l.unused \in Nat /\ l.squareness \in Nat
             /\ l.unused = rows * l.cols - boxes
             /\ l.squareness = Distance(rows, l.cols)
<1> DEFINE cols == DivCeil(boxes, rows)
           a == boxes + rows - 1
<1>1. a \in Nat /\ rows \in Nat \ {0}
  OBVIOUS
<1>2. cols \in Nat /\ a < rows * (cols + 1)
  <2>1. cols = a \div rows
    BY DEF DivCeil
  <2> HIDE DEF cols, a
  <2> QED
    BY <1>1, <2>1, Quotient
<1>3. rows * (cols + 1) = rows * cols + rows /\ rows * cols \in Nat
  BY <1>1, <1>2
<1>4. boxes <= rows * cols
  BY <1>2, <1>3
<1>5. cols # 0
  BY <1>4
<1>6. Distance(rows, cols) \in Nat
  BY <1>1, <1>2 DEF Distance
<1>7. Layout(boxes, rows) = [rows |-> rows, cols |-> cols, unused |-> rows * cols - boxes,
                             squareness |-> Distance(rows, cols)]
  BY DEF Layout
<1> HIDE DEF cols
<1> QED
  BY <1>2, <1>3, <1>4, <1>5, <1>6, <1>7

LEMMA ScoreIsNatural ==
  ASSUME NEW boxes \in Nat \ {0}, NEW rows \in 1..boxes
  PROVE  Score(Layout(boxes, rows)) \in Nat
  BY LayoutHasRoom DEF Score

\* There is a layout with the lowest score, and it is chosen.
LEMMA BestIsBest ==
  ASSUME NEW boxes \in Nat \ {0}
  PROVE  \E rows \in 1..boxes :
           /\ BestLayout(boxes) = Layout(boxes, rows)
           /\ \A r \in 1..boxes : Score(BestLayout(boxes)) <= Score(Layout(boxes, r))
<1> DEFINE layouts == {Layout(boxes, rows) : rows \in 1..boxes}
           Scores == {Score(l) : l \in layouts}
           Better(l, m) == Score(l) < Score(m) \/ (Score(l) = Score(m) /\ l.rows <= m.rows)
<1>1. \A l \in layouts : Score(l) \in Nat /\ l.rows \in Nat
  <2> SUFFICES ASSUME NEW rows \in 1..boxes
               PROVE  Score(Layout(boxes, rows)) \in Nat /\ Layout(boxes, rows).rows \in Nat
    OBVIOUS
  <2> QED
    BY ScoreIsNatural, LayoutHasRoom
<1>2. layouts # {}
  <2>1. 1 \in 1..boxes
    OBVIOUS
  <2> QED
    BY <2>1
<1> HIDE DEF layouts
<1>3. Scores \subseteq Nat /\ Scores # {}
  BY <1>1, <1>2
<1>4. PICK s \in Scores : \A t \in Scores : s <= t
  BY <1>3, LeastNatural
<1> DEFINE Rows == {l.rows : l \in {m \in layouts : Score(m) = s}}
<1>5. Rows \subseteq Nat /\ Rows # {}
  BY <1>1
<1>6. PICK r \in Rows : \A q \in Rows : r <= q
  BY <1>5, LeastNatural
<1>7. PICK best \in layouts : Score(best) = s /\ best.rows = r
  OBVIOUS
<1>8. \A m \in layouts : Better(best, m)
  <2> SUFFICES ASSUME NEW m \in layouts PROVE Better(best, m)
    OBVIOUS
  <2>1. Score(m) \in Nat /\ s \in Nat /\ s <= Score(m)
    BY <1>1, <1>3, <1>4
  <2>2. CASE s = Score(m)
    <3>1. m.rows \in Rows
      BY <2>2
    <3> QED
      BY <1>6, <1>7, <2>2, <3>1
  <2>3. CASE s # Score(m)
    BY <1>7, <2>1, <2>3
  <2> QED
    BY <2>2, <2>3
<1>9. BestLayout(boxes) = CHOOSE l \in layouts : \A m \in layouts : Better(l, m)
  BY DEF BestLayout, layouts
<1> HIDE DEF Better
<1>10. BestLayout(boxes) \in layouts /\ \A m \in layouts : Better(BestLayout(boxes), m)
  BY <1>8, <1>9
<1>11. \A m \in layouts : Score(BestLayout(boxes)) <= Score(m)
  BY <1>1, <1>10 DEF Better
<1> QED
  BY <1>10, <1>11 DEF layouts

\* Up to sixteen boxes the layout has no cell too many: one row of them is better
\* than a grid with a cell to spare, and the grids of 12, 14, 15 and 16 are full.
LEMMA FullUpToSixteen ==
  ASSUME NEW boxes \in 1..16
  PROVE  BestLayout(boxes).unused = 0
<1>0. boxes \in Nat \ {0}
  OBVIOUS
<1>1. PICK rows \in 1..boxes :
        /\ BestLayout(boxes) = Layout(boxes, rows)
        /\ \A r \in 1..boxes : Score(BestLayout(boxes)) <= Score(Layout(boxes, r))
  BY <1>0, BestIsBest
<1> DEFINE l == Layout(boxes, rows)
<1>2. /\ l.rows = rows
      /\ l.cols \in Nat \ {0} /\ l.unused \in Nat /\ l.squareness \in Nat
      /\ l.unused = rows * l.cols - boxes
      /\ l.squareness = Distance(rows, l.cols)
  BY <1>0, LayoutHasRoom
<1>3. \A r \in 1..boxes : l.unused * 10 + l.squareness <= Score(Layout(boxes, r))
  BY <1>1 DEF Score
<1> HIDE DEF l
<1> SUFFICES ASSUME l.unused >= 1 PROVE FALSE
  BY <1>1, <1>2 DEF l
<1>4. CASE boxes \in 1..10
  <2>1. Score(Layout(boxes, 1)) = boxes - 1
    <3>1. DivCeil(boxes, 1) = boxes
      BY DEF DivCeil
    <3> QED
      BY <1>0, <3>1 DEF Layout, Score, Distance
  <2>2. l.unused * 10 + l.squareness <= boxes - 1
    BY <1>0, <1>3, <2>1
  <2> QED
    BY <1>2, <1>4, <2>2
<1>5. CASE boxes = 12
  <2>1. Score(Layout(12, 3)) = 1
    BY DEF Layout, Score, Distance, DivCeil
  <2>2. l.unused * 10 + l.squareness <= 1
    BY <1>3, <1>5, <2>1
  <2> QED
    BY <1>2, <2>2
<1>6. CASE boxes = 14
  <2>1. Score(Layout(14, 2)) = 5
    BY DEF Layout, Score, Distance, DivCeil
  <2>2. l.unused * 10 + l.squareness <= 5
    BY <1>3, <1>6, <2>1
  <2> QED
    BY <1>2, <2>2
<1>7. CASE boxes = 15
  <2>1. Score(Layout(15, 3)) = 2
    BY DEF Layout, Score, Distance, DivCeil
  <2>2. l.unused * 10 + l.squareness <= 2
    BY <1>3, <1>7, <2>1
  <2> QED
    BY <1>2, <2>2
<1>8. CASE boxes = 16
  <2>1. Score(Layout(16, 4)) = 0
    BY DEF Layout, Score, Distance, DivCeil
  <2>2. l.unused * 10 + l.squareness <= 0
    BY <1>3, <1>8, <2>1
  <2> QED
    BY <1>2, <2>2
<1>9. CASE boxes = 11
  <2>1. Score(Layout(11, 1)) = 10
    BY DEF Layout, Score, Distance, DivCeil
  <2>2. l.unused * 10 + l.squareness <= 10
    BY <1>3, <1>9, <2>1
  <2>3. l.unused = 1 /\ l.squareness = 0
    BY <1>2, <2>2
  <2>4. l.cols = rows /\ rows * l.cols = 12
    BY <1>2, <1>9, <2>3 DEF Distance
  <2> QED
    BY <1>9, <2>4
<1>10. CASE boxes = 13
  <2>1. Score(Layout(13, 1)) = 12
    BY DEF Layout, Score, Distance, DivCeil
  <2>2. l.unused * 10 + l.squareness <= 12
    BY <1>3, <1>10, <2>1
  <2>3. l.unused = 1 /\ l.squareness <= 2
    BY <1>2, <2>2
  <2>4. l.cols \in {rows - 2, rows - 1, rows, rows + 1, rows + 2} /\ rows * l.cols = 14
    BY <1>2, <1>10, <2>3 DEF Distance
  <2> QED
    BY <1>10, <2>4
<1> QED
  BY <1>4, <1>5, <1>6, <1>7, <1>8, <1>9, <1>10

-----------------------------------------------------------------------------
(* The boxes.                                                              *)

\* The k-th box is the cell in row k \div cols and column k % cols, which is one
\* of the layout's.
LEMMA BoxIsCell ==
  ASSUME NEW w \in Nat, NEW h \in Nat, NEW boxes \in Nat \ {0}
  PROVE  LET l == BestLayout(boxes)
         IN  /\ l.rows \in Nat \ {0} /\ l.cols \in Nat \ {0} /\ l.unused = l.rows * l.cols - boxes
             /\ DOMAIN partition(w, h, boxes) = 0..boxes - 1
             /\ \A k \in 0..boxes - 1 :
                  /\ k \div l.cols \in Nat /\ k % l.cols \in Nat
                  /\ k = l.cols * (k \div l.cols) + (k % l.cols)
                  /\ partition(w, h, boxes)[k] = Cell(w, h, l, k \div l.cols, k % l.cols)
<1> DEFINE l == BestLayout(boxes)
<1>1. PICK rows \in 1..boxes : l = Layout(boxes, rows)
  BY BestIsBest
<1>2. l.rows \in Nat \ {0} /\ l.cols \in Nat \ {0} /\ l.unused = l.rows * l.cols - boxes
  BY <1>1, LayoutHasRoom
<1>3. partition(w, h, boxes) = [k \in 0..boxes - 1 |-> Cell(w, h, l, k \div l.cols, k % l.cols)]
  BY DEF partition
<1> HIDE DEF l
<1>4. ASSUME NEW k \in 0..boxes - 1
      PROVE  /\ k \div l.cols \in Nat /\ k % l.cols \in Nat
             /\ k = l.cols * (k \div l.cols) + (k % l.cols)
  <2>1. k \in Nat
    OBVIOUS
  <2>2. k % l.cols \in 0..l.cols - 1
    BY <1>2, <2>1, Quotient
  <2>3. k \div l.cols \in Nat /\ k = l.cols * (k \div l.cols) + (k % l.cols)
    BY <1>2, <2>1, Quotient
  <2>4. k % l.cols \in Nat
    BY <2>2
  <2> QED
    BY <2>3, <2>4
<1> QED
  BY <1>2, <1>3, <1>4 DEF l

LEMMA InsideCell ==
  ASSUME NEW w \in Nat, NEW h \in Nat, NEW l, NEW row, NEW col, NEW x, NEW y,
         NEW box, box = Cell(w, h, l, row, col)
  PROVE  Inside(x, y, box) <=>
           /\ Edge(w, col, l.cols) <= x /\ x < Edge(w, col + 1, l.cols)
           /\ Edge(h, row, l.rows) <= y /\ y < Edge(h, row + 1, l.rows)
  BY DEF Inside, Cell

LEMMA AtMostOne ==
  ASSUME NEW S, \A k, m \in S : k = m
  PROVE  Cardinality(S) <= 1 /\ (S # {} => Cardinality(S) = 1)
<1>1. CASE S = {}
  BY <1>1, FS_EmptySet
<1>2. CASE S # {}
  <2>1. PICK k \in S : S = {k}
    BY <1>2
  <2>2. Cardinality({k}) = 1
    BY FS_Singleton
  <2> QED
    BY <2>1, <2>2
<1> QED
  BY <1>1, <1>2

\* No pixel is in two boxes, whatever the display and the number of boxes.
LEMMA BoxesDisjoint ==
  ASSUME NEW w \in Nat, NEW h \in Nat, NEW boxes \in Nat \ {0},
         NEW x \in 0..w - 1, NEW y \in 0..h - 1,
         NEW k \in 0..boxes - 1, Inside(x, y, partition(w, h, boxes)[k]),
         NEW m \in 0..boxes - 1, Inside(x, y, partition(w, h, boxes)[m])
  PROVE  k = m
<1> DEFINE l == BestLayout(boxes)
           part == partition(w, h, boxes)
           kr == k \div l.cols
           kc == k % l.cols
           mr == m \div l.cols
           mc == m % l.cols
<1>1. /\ l.rows \in Nat \ {0} /\ l.cols \in Nat \ {0}
      /\ kr \in Nat /\ kc \in Nat /\ k = l.cols * kr + kc /\ part[k] = Cell(w, h, l, kr, kc)
      /\ mr \in Nat /\ mc \in Nat /\ m = l.cols * mr + mc /\ part[m] = Cell(w, h, l, mr, mc)
  BY BoxIsCell
<1>2. Inside(x, y, part[k]) /\ Inside(x, y, part[m]) /\ x \in Nat /\ y \in Nat
  OBVIOUS
<1> HIDE DEF l, part, kr, kc, mr, mc
<1>3. /\ Edge(w, kc, l.cols) <= x /\ x < Edge(w, kc + 1, l.cols)
      /\ Edge(h, kr, l.rows) <= y /\ y < Edge(h, kr + 1, l.rows)
  BY <1>1, <1>2, InsideCell
<1>4. /\ Edge(w, mc, l.cols) <= x /\ x < Edge(w, mc + 1, l.cols)
      /\ Edge(h, mr, l.rows) <= y /\ y < Edge(h, mr + 1, l.rows)
  BY <1>1, <1>2, InsideCell
<1>5. kc = mc
  BY <1>1, <1>2, <1>3, <1>4, OnePart
<1>6. kr = mr
  BY <1>1, <1>2, <1>3, <1>4, OnePart
<1> QED
  BY <1>1, <1>5, <1>6

\* Every pixel is in a box, when the layout has no cell too many.
LEMMA BoxesReachAll ==
  ASSUME NEW w \in Nat, NEW h \in Nat, NEW boxes \in Nat \ {0}, BestLayout(boxes).unused = 0,
         NEW x \in 0..w - 1, NEW y \in 0..h - 1
  PROVE  \E k \in 0..boxes - 1 : Inside(x, y, partition(w, h, boxes)[k])
<1> DEFINE l == BestLayout(boxes)
<1>1. /\ l.rows \in Nat \ {0} /\ l.cols \in Nat \ {0} /\ l.unused = l.rows * l.cols - boxes
      /\ \A k \in 0..boxes - 1 :
           partition(w, h, boxes)[k] = Cell(w, h, l, k \div l.cols, k % l.cols)
  BY BoxIsCell
<1>2. l.unused = 0
  OBVIOUS
<1> HIDE DEF l
<1>3. PICK col \in 0..l.cols - 1 : Edge(w, col, l.cols) <= x /\ x < Edge(w, col + 1, l.cols)
  BY <1>1, SomePart
<1>4. PICK row \in 0..l.rows - 1 : Edge(h, row, l.rows) <= y /\ y < Edge(h, row + 1, l.rows)
  BY <1>1, SomePart
<1> DEFINE k == l.cols * row + col
<1>5. row \in Nat /\ col \in Nat /\ l.cols * row \in Nat /\ l.cols * (row + 1) = l.cols * row + l.cols
  BY <1>1, <1>3, <1>4
<1>6. k \in 0..boxes - 1
  <2>1. l.cols * (row + 1) <= l.cols * l.rows
    BY <1>1, <1>4, <1>5, ProductMonotone
  <2>2. l.cols * l.rows = boxes
    <3>1. l.cols * l.rows = l.rows * l.cols /\ l.rows * l.cols \in Nat
      BY <1>1
    <3> QED
      BY <1>1, <1>2, <3>1
  <2>3. k < l.cols * (row + 1)
    BY <1>1, <1>3, <1>5
  <2>4. k \in Nat
    BY <1>5
  <2> HIDE DEF k
  <2> QED
    BY <1>1, <1>5, <2>1, <2>2, <2>3, <2>4
<1>7. k \div l.cols = row /\ k % l.cols = col
  <2>1. k \in Nat /\ l.cols * row <= k /\ k < l.cols * (row + 1)
    BY <1>1, <1>3, <1>5
  <2> HIDE DEF k
  <2>2. k \div l.cols = row
    BY <1>1, <1>5, <2>1, QuotientIs
  <2>3. k = l.cols * (k \div l.cols) + (k % l.cols) /\ k % l.cols \in Nat
    <3>1. k = l.cols * (k \div l.cols) + (k % l.cols) /\ k % l.cols \in 0..l.cols - 1
      BY <1>1, <2>1, Quotient
    <3> QED
      BY <3>1
  <2>4. k = l.cols * row + col
    BY DEF k
  <2> QED
    BY <1>5, <2>2, <2>3, <2>4
<1>8. partition(w, h, boxes)[k] = Cell(w, h, l, row, col)
  BY <1>1, <1>6, <1>7
<1> HIDE DEF k
<1>9. Inside(x, y, partition(w, h, boxes)[k])
  BY <1>3, <1>4, <1>8, InsideCell
<1> QED
  BY <1>6, <1>9

LEMMA PartitionCovers ==
  ASSUME NEW w \in Nat, NEW h \in Nat, NEW boxes \in Nat \ {0}
  PROVE  /\ NoOverlap(w, h, partition(w, h, boxes))
         /\ boxes <= 16 => CoversOnce(w, h, partition(w, h, boxes))
<1> DEFINE part == partition(w, h, boxes)
<1>1. DOMAIN part = 0..boxes - 1
  BY BoxIsCell
<1>2. ASSUME NEW x \in 0..w - 1, NEW y \in 0..h - 1
      PROVE  /\ TimesCovered(x, y, part) <= 1
             /\ boxes <= 16 => TimesCovered(x, y, part) = 1
  <2> DEFINE S == {k \in DOMAIN part : Inside(x, y, part[k])}
  <2>1. \A k, m \in S : k = m
    BY <1>1, BoxesDisjoint
  <2>2. TimesCovered(x, y, part) = Cardinality(S)
    BY DEF TimesCovered
  <2>3. ASSUME boxes <= 16 PROVE S # {}
    <3>1. boxes \in 1..16
      BY <2>3
    <3>2. BestLayout(boxes).unused = 0
      BY <3>1, FullUpToSixteen
    <3>3. \E k \in 0..boxes - 1 : Inside(x, y, partition(w, h, boxes)[k])
      BY <3>2, BoxesReachAll
    <3> QED
      BY <1>1, <3>3
  <2> HIDE DEF S
  <2> QED
    BY <2>1, <2>2, <2>3, AtMostOne
<1> QED
  BY <1>2 DEF NoOverlap, CoversOnce

-----------------------------------------------------------------------------
(* The displays.                                                           *)

\* The ranks of the enabled displays number them from zero, in order.
LEMMA Ranks ==
  ASSUME NEW E, IsFiniteSet(E), E \subseteq Nat, E # {}
  PROVE  /\ Cardinality(E) \in Nat \ {0}
         /\ \A d \in E : Rank(E, d) \in 0..Cardinality(E) - 1
         /\ \A d, e \in E : d < e => Rank(E, d) < Rank(E, e)
         /\ \A r \in 0..Cardinality(E) - 1 : \E d \in E : Rank(E, d) = r
<1> DEFINE Before(d) == {x \in E : x < d}
           C == Cardinality(E)
<1>1. C \in Nat \ {0}
  BY FS_CardinalityType, FS_EmptySet
<1>2. ASSUME NEW d \in E PROVE IsFiniteSet(Before(d)) /\ Rank(E, d) \in 0..C - 1
  <2>1. Before(d) \in SUBSET E /\ Before(d) # E
    BY <1>2
  <2>2. IsFiniteSet(Before(d)) /\ Cardinality(Before(d)) <= C /\ Cardinality(Before(d)) # C
    BY <2>1, FS_Subset
  <2>3. Cardinality(Before(d)) \in Nat
    BY <2>2, FS_CardinalityType
  <2>4. Rank(E, d) = Cardinality(Before(d))
    BY DEF Rank
  <2> QED
    BY <1>1, <2>2, <2>3, <2>4
<1>3. ASSUME NEW d \in E, NEW e \in E, d < e PROVE Rank(E, d) < Rank(E, e)
  <2>1. Before(d) \in SUBSET Before(e) /\ d \in Before(e) /\ d \notin Before(d)
    <3>1. d \in Nat /\ e \in Nat /\ \A x \in E : x \in Nat
      OBVIOUS
    <3>2. \A x \in E : x < d => x < e
      BY <1>3, <3>1
    <3>3. ~(d < d)
      BY <3>1
    <3>4. Before(d) \in SUBSET Before(e)
      BY <3>2
    <3>5. d \in Before(e)
      BY <1>3
    <3>6. d \notin Before(d)
      BY <3>3
    <3> QED
      BY <3>4, <3>5, <3>6
  <2>2. Before(d) # Before(e)
    BY <2>1
  <2>3. Rank(E, d) = Cardinality(Before(d)) /\ Rank(E, e) = Cardinality(Before(e))
    BY DEF Rank
  <2>4. IsFiniteSet(Before(e)) /\ Rank(E, d) \in 0..C - 1 /\ Rank(E, e) \in 0..C - 1
    BY <1>2
  <2> HIDE DEF Before
  <2>5. Cardinality(Before(d)) <= Cardinality(Before(e)) /\ Cardinality(Before(d)) # Cardinality(Before(e))
    BY <2>1, <2>2, <2>4, FS_Subset
  <2> QED
    BY <1>1, <2>3, <2>4, <2>5
<1>4. ASSUME NEW r \in 0..C - 1 PROVE \E d \in E : Rank(E, d) = r
  <2> DEFINE f == [d \in E |-> Rank(E, d)]
  <2>1. f \in [E -> 0..C - 1]
    BY <1>2
  <2>2. \A d, e \in E : f[d] = f[e] => d = e
    <3> SUFFICES ASSUME NEW d \in E, NEW e \in E, Rank(E, d) = Rank(E, e) PROVE d = e
      OBVIOUS
    <3>1. ~(d < e) /\ ~(e < d)
      <4>1. Rank(E, d) \in Nat /\ Rank(E, e) \in Nat
        <5>1. Rank(E, d) \in 0..C - 1 /\ Rank(E, e) \in 0..C - 1
          BY <1>2
        <5> QED
          BY <5>1
      <4> QED
        BY <1>3, <4>1
    <3>2. d \in Nat /\ e \in Nat
      OBVIOUS
    <3> QED
      BY <3>1, <3>2
  <2> HIDE DEF f
  <2>3. f \in Injection(E, 0..C - 1)
    BY <2>1, <2>2 DEF Injection, IsInjective
  <2>4. IsFiniteSet(0..C - 1) /\ Cardinality(0..C - 1) = C
    <3>1. 0 \in Int /\ C - 1 \in Int /\ ~(0 > C - 1) /\ (C - 1) - 0 + 1 = C
      BY <1>1
    <3> HIDE DEF C
    <3> QED
      BY <3>1, FS_Interval
  <2>5. f \in Surjection(E, 0..C - 1)
    BY <2>3, <2>4, FS_Injection
  <2>6. \E d \in E : f[d] = r
    BY <2>5 DEF Surjection
  <2> QED
    BY <2>6 DEF f
<1> QED
  BY <1>1, <1>2, <1>3, <1>4

\* The first decoder of the display of rank r: blocks of `base' decoders, and one
\* more for each of the first `rest' displays.
Block(r, base, rest) == r * base + (IF r < rest THEN r ELSE rest)

LEMMA BlocksFollow ==
  ASSUME NEW base \in Nat, NEW rest \in Nat, NEW r \in Nat
  PROVE  /\ Block(r, base, rest) \in Nat
         /\ Block(r + 1, base, rest) = Block(r, base, rest) + base + (IF r < rest THEN 1 ELSE 0)
<1>1. r * base \in Nat /\ (r + 1) * base = r * base + base
  OBVIOUS
<1>2. CASE r < rest
  <2>1. (IF r + 1 < rest THEN r + 1 ELSE rest) = r + 1
    BY <1>2
  <2> QED
    BY <1>1, <1>2, <2>1 DEF Block
<1>3. CASE ~(r < rest)
  <2>1. (IF r + 1 < rest THEN r + 1 ELSE rest) = rest
    BY <1>3
  <2> QED
    BY <1>1, <1>3, <2>1 DEF Block
<1> QED
  BY <1>2, <1>3

LEMMA BlocksGrow ==
  ASSUME NEW base \in Nat, NEW rest \in Nat, NEW r \in Nat, NEW s \in Nat, r <= s
  PROVE  Block(r, base, rest) <= Block(s, base, rest)
<1>1. r * base <= s * base /\ r * base \in Nat /\ s * base \in Nat
  BY ProductMonotone
<1>2. (IF r < rest THEN r ELSE rest) <= (IF s < rest THEN s ELSE rest)
  OBVIOUS
<1>3. /\ (IF r < rest THEN r ELSE rest) \in Nat
      /\ (IF s < rest THEN s ELSE rest) \in Nat
  OBVIOUS
<1> QED
  BY <1>1, <1>2, <1>3 DEF Block

\* The decoders of a display are a block, those of all of them follow each other
\* from the first to the last.
LEMMA DecodersShared ==
  ASSUME NEW E, IsFiniteSet(E), E \subseteq Nat, NEW max \in Nat, CanPartition(E, max)
  PROVE  /\ UNION {DecodersOf(E, max, d) : d \in E} = 0..max - 1
         /\ \A d, e \in E : d < e =>
              \A i \in DecodersOf(E, max, d), j \in DecodersOf(E, max, e) : i < j
<1> DEFINE C == Cardinality(E)
           base == Base(E, max)
           rest == Remainder(E, max)
           B(r) == Block(r, base, rest)
<1>1. /\ C \in Nat \ {0}
      /\ \A d \in E : Rank(E, d) \in 0..C - 1
      /\ \A d, e \in E : d < e => Rank(E, d) < Rank(E, e)
      /\ \A r \in 0..C - 1 : \E d \in E : Rank(E, d) = r
  BY Ranks DEF CanPartition
<1>2. base \in Nat /\ rest \in Nat /\ rest < C /\ max = C * base + rest
  <2>1. base = max \div C /\ rest = max % C
    BY DEF Base, Remainder
  <2> HIDE DEF C, base, rest
  <2>2. base \in Nat /\ rest \in 0..C - 1 /\ max = C * base + rest
    BY <1>1, <2>1, Quotient
  <2> QED
    BY <1>1, <2>2
<1>3. ASSUME NEW d \in E
      PROVE  DecodersOf(E, max, d) = B(Rank(E, d))..B(Rank(E, d) + 1) - 1
  <2> DEFINE r == Rank(E, d)
             more == IF r < rest THEN 1 ELSE 0
  <2>0. r \in 0..C - 1
    BY <1>1
  <2>1. r \in Nat
    BY <2>0
  <2>2. FirstDecoder(E, max, d) = B(r)
    BY DEF FirstDecoder, Block
  <2>3. DecoderCount(E, max, d) = base + more
    BY <1>3 DEF DecoderCount
  <2> HIDE DEF r, base, rest
  <2>4. B(r) \in Nat /\ B(r + 1) = B(r) + base + more
    BY <1>2, <2>1, BlocksFollow
  <2>5. more \in Nat
    OBVIOUS
  <2> HIDE DEF B, more
  <2>6. B(r) + (base + more) - 1 = B(r + 1) - 1
    BY <1>2, <2>4, <2>5
  <2> QED
    BY <2>2, <2>3, <2>6 DEF DecodersOf, r
<1> HIDE DEF base, rest, C
<1>4. B(0) = 0 /\ B(C) = max
  <2>1. 0 * base = 0 /\ C * base \in Nat /\ ~(C < rest)
    BY <1>1, <1>2
  <2>2. (IF 0 < rest THEN 0 ELSE rest) = 0
    BY <1>2
  <2> QED
    BY <1>2, <2>1, <2>2 DEF Block
<1>5. \A r \in Nat : B(r) \in Nat
  BY <1>2, BlocksFollow
<1>6. \A r, s \in Nat : r <= s => B(r) <= B(s)
  BY <1>2, BlocksGrow
<1> HIDE DEF B
<1>7. ASSUME NEW i \in 0..max - 1
      PROVE  \E d \in E : i \in DecodersOf(E, max, d)
  <2> DEFINE Beyond == {r \in Nat : i < B(r + 1)}
  <2>1. C - 1 \in Beyond
    <3>1. C - 1 \in Nat /\ (C - 1) + 1 = C /\ i < max
      BY <1>1
    <3> QED
      BY <1>4, <3>1
  <2>2. PICK r \in Beyond : \A s \in Beyond : r <= s
    BY <2>1, LeastNatural
  <2>3. r \in Nat /\ r \in 0..C - 1 /\ i < B(r + 1)
    BY <1>1, <2>1, <2>2
  <2>4. B(r) <= i
    <3>1. CASE r = 0
      BY <1>4, <3>1
    <3>2. CASE r # 0
      <4>1. r - 1 \in Nat /\ (r - 1) + 1 = r /\ ~(r <= r - 1)
        BY <2>3, <3>2
      <4>2. ~(i < B(r))
        BY <2>2, <4>1
      <4> QED
        BY <1>5, <2>3, <4>2
    <3> QED
      BY <3>1, <3>2
  <2>5. PICK d \in E : Rank(E, d) = r
    BY <1>1, <2>3
  <2>6. i \in B(r)..B(r + 1) - 1
    <3>1. B(r) \in Nat /\ B(r + 1) \in Nat
      BY <1>5, <2>3
    <3> QED
      BY <2>3, <2>4, <3>1
  <2> QED
    BY <1>3, <2>5, <2>6
<1>8. ASSUME NEW d \in E
      PROVE  DecodersOf(E, max, d) \subseteq 0..max - 1
  <2> DEFINE r == Rank(E, d)
  <2>1. r \in Nat /\ r + 1 \in Nat /\ r + 1 <= C /\ C \in Nat
    <3>1. r \in 0..C - 1
      BY <1>1
    <3> HIDE DEF r
    <3> QED
      BY <1>1, <3>1
  <2> HIDE DEF r
  <2>2. B(r) \in Nat /\ B(r + 1) \in Nat /\ B(r + 1) <= max
    BY <1>4, <1>5, <1>6, <2>1
  <2>3. DecodersOf(E, max, d) = B(r)..B(r + 1) - 1
    BY <1>3 DEF r
  <2> QED
    BY <2>2, <2>3
<1>9. ASSUME NEW d \in E, NEW e \in E, d < e,
             NEW i \in DecodersOf(E, max, d), NEW j \in DecodersOf(E, max, e)
      PROVE  i < j
  <2> DEFINE r == Rank(E, d)
             s == Rank(E, e)
  <2>1. r \in Nat /\ s \in Nat /\ r + 1 \in Nat /\ s + 1 \in Nat /\ r + 1 <= s
    <3>1. r \in 0..C - 1 /\ s \in 0..C - 1 /\ r < s
      BY <1>1, <1>9
    <3> HIDE DEF r, s
    <3> QED
      BY <3>1
  <2>2. i \in B(r)..B(r + 1) - 1 /\ j \in B(s)..B(s + 1) - 1
    BY <1>3, <1>9
  <2> HIDE DEF r, s
  <2>3. B(r) \in Nat /\ B(s) \in Nat /\ B(r + 1) \in Nat /\ B(s + 1) \in Nat /\ B(r + 1) <= B(s)
    BY <1>5, <1>6, <2>1
  <2> QED
    BY <2>2, <2>3
<1>10. UNION {DecodersOf(E, max, d) : d \in E} = 0..max - 1
  BY <1>7, <1>8
<1> QED
  BY <1>9, <1>10

\* partition and partition_displays, for displays of any size and any number of
\* decoders: areas never overlap, cover the display up to sixteen decoders, and
\* the enabled displays share out all the decoders in order.
THEOREM LayoutCovers == PartitionSpec => []DecodersCover
<1> DEFINE Inputs == /\ width \in Nat /\ height \in Nat /\ count \in Nat \ {0}
                     /\ enabled \subseteq 0..MaxDisplays - 1
<1>1. PartitionInit => Inputs
  BY SizesAssumption DEF PartitionInit
<1>2. Inputs /\ [PartitionNext]_partitionVars => Inputs'
  <2> SUFFICES ASSUME Inputs, [PartitionNext]_partitionVars PROVE Inputs'
    OBVIOUS
  <2>1. UNCHANGED <<width, height, enabled>> /\ (count' = count \/ count' = count + 1)
    BY DEF PartitionNext, partitionVars
  <2>2. count' \in Nat \ {0}
    BY <2>1
  <2> QED
    BY <2>1, <2>2
<1>3. Inputs => DecodersCover
  <2> SUFFICES ASSUME Inputs PROVE DecodersCover
    OBVIOUS
  <2>1. /\ NoOverlap(width, height, partition(width, height, count))
        /\ count <= 16 => CoversOnce(width, height, partition(width, height, count))
    BY PartitionCovers
  <2>2. IsFiniteSet(enabled) /\ enabled \subseteq Nat
    <3>1. 0 \in Int /\ MaxDisplays - 1 \in Int /\ enabled \in SUBSET (0..MaxDisplays - 1)
      BY SizesAssumption
    <3>2. IsFiniteSet(0..MaxDisplays - 1)
      BY <3>1, FS_Interval
    <3>3. IsFiniteSet(enabled)
      BY <3>1, <3>2, FS_Subset
    <3> QED
      BY <3>1, <3>3
  <2>3. CanPartition(enabled, count) =>
          /\ UNION {DecodersOf(enabled, count, d) : d \in enabled} = 0..count - 1
          /\ \A d, e \in enabled : d < e =>
               \A i \in DecodersOf(enabled, count, d), j \in DecodersOf(enabled, count, e) : i < j
    BY <2>2, DecodersShared
  <2> QED
    BY <2>1, <2>3 DEF DecodersCover
<1> QED
  BY <1>1, <1>2, <1>3, PTL DEF PartitionSpec

=============================================================================
