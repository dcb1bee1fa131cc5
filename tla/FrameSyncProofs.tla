-------------------------- MODULE FrameSyncProofs --------------------------
(***************************************************************************)
(* Proofs about FrameSync, for any number of displays and encoders, any    *)
(* pixels and any number of configurations and captures.                   *)
(***************************************************************************)
EXTENDS FrameSync, FiniteSetTheorems, SequenceTheorems, TLAPS

-----------------------------------------------------------------------------
(* The inductive invariant.                                                *)

\* A task that has gone past its join holds the permits it joined on.
PermitsHeld ==
  \A d \in Displays : cut[d].pc \in {"cut", "send"} =>
    \A e \in cut[d].txs : HasPermit(d, e)

\* No buffer is ahead of the configuration task, and those it has still to
\* resize are behind it.
ConfigsFollow ==
  \A d \in Displays :
    /\ tb[d].display_config <= config.id
    /\ config.pc = "resize" /\ config.display <= d => tb[d].display_config < config.id
    /\ config.pc = "assign" /\ config.display < d => tb[d].display_config < config.id

\* A frame that is cut but not sent is its display's last.
FrameIsLast ==
  \A d \in Displays : cut[d].pc = "send" =>
    /\ cut[d].frame \in FrameType
    /\ cut[d].frame.display = d
    /\ Before(cut[d].frame.display_config, cut[d].frame.id + 1,
              tb[d].display_config, tb[d].curr_frame_id)

\* A frame in a channel is older than the ones its display cuts from now on,
\* and than the one that is cut but not sent.
SlotIsOld ==
  \A e \in Encoders : slot[e] # NoFrame =>
    LET d == slot[e].display
    IN /\ Before(slot[e].display_config, slot[e].id + 1,
                 tb[d].display_config, tb[d].curr_frame_id)
       /\ cut[d].pc = "send" =>
            Before(slot[e].display_config, slot[e].id + 1,
                   cut[d].frame.display_config, cut[d].frame.id)

\* So is a frame that an encoder has taken.
LastIsOld ==
  \A e \in Encoders : \A d \in Displays :
    /\ Before(last[e][d].display_config, last[e][d].next,
              tb[d].display_config, tb[d].curr_frame_id)
    /\ cut[d].pc = "send" =>
         Before(last[e][d].display_config, last[e][d].next,
                cut[d].frame.display_config, cut[d].frame.id)

IInv ==
  /\ TypeOK
  /\ PermitsHeld
  /\ NoLostWakeup
  /\ UndamagedIsSent
  /\ ConfigsFollow
  /\ FrameIsLast
  /\ SlotIsOld
  /\ LastIsOld
  /\ FramesInOrder

-----------------------------------------------------------------------------
(* partition_displays: the encoders of a display are encoders.             *)

\* Multiplication by a natural number is monotonic.
LEMMA TimesMonotonic ==
  ASSUME NEW x \in Nat, NEW y \in Nat, NEW z \in Nat, x <= y
  PROVE  x * z <= y * z
<1>1. PICK w \in Nat : y = x + w
  <2>1. y - x \in Nat /\ y = x + (y - x)
    OBVIOUS
  <2> QED
    BY <2>1
<1>2. y * z = x * z + w * z
  BY <1>1
<1>3. x * z \in Nat /\ w * z \in Nat
  BY <1>1
<1> QED
  BY <1>2, <1>3

\* The channels given to a display are among the server's encoders: the slice
\* frame_txs[i..end] never runs past the end.
LEMMA TxSubsetType ==
  ASSUME NEW E \in DisplaySets, NEW d \in Displays
  PROVE  TxSubset(E, d) \in SUBSET Encoders
<1> DEFINE before == {x \in E : x < d}
           c == Cardinality(E)
           k == Cardinality(before)
           b == EncoderCount \div c
           r == EncoderCount % c
<1>1. IsFiniteSet(Displays) /\ IsFiniteSet(E) /\ E \subseteq Displays /\ E # {}
  <2>1. IsFiniteSet(Displays)
    BY FS_Interval, CountsAssumption DEF Displays
  <2> QED
    BY <2>1, FS_Subset DEF DisplaySets, CanPartition
<1>2. c \in Nat \ {0} /\ k \in Nat
  BY <1>1, FS_CardinalityType, FS_EmptySet, FS_Subset
<1>3. d \in E => k + 1 <= c
  <2>1. SUFFICES ASSUME d \in E PROVE k + 1 <= c
    OBVIOUS
  <2>2. before \subseteq E \ {d}
    BY CountsAssumption, <1>1 DEF Displays
  <2>3. IsFiniteSet(E \ {d}) /\ Cardinality(E \ {d}) = c - 1
    BY <1>1, <2>1, FS_RemoveElement
  <2> QED
    BY <2>2, <2>3, FS_Subset, <1>2
<1>4. b \in Nat /\ r \in 0 .. c - 1 /\ EncoderCount = c * b + r
  BY <1>2, CountsAssumption
<1>5. CASE d \notin E
  <2>1. TxSubset(E, d) = FirstDecoder(E, EncoderCount, d) .. FirstDecoder(E, EncoderCount, d) + 0 - 1
    BY <1>5 DEF TxSubset, DecodersOf, DecoderCount
  <2>2. FirstDecoder(E, EncoderCount, d) \in Int
    BY <1>2, <1>4 DEF FirstDecoder, Rank, Base, Remainder
  <2> QED
    BY <2>1, <2>2
<1>6. CASE d \in E
  <2>1. k * b \in Nat /\ c * b \in Nat /\ (k + 1) * b = k * b + b
    BY <1>2, <1>4
  <2>2. (k + 1) * b <= c * b
    <3>1. k + 1 \in Nat /\ c \in Nat /\ k + 1 <= c
      BY <1>2, <1>3, <1>6
    <3> HIDE DEF k, b, c
    <3> QED
      BY <3>1, <1>4, TimesMonotonic
  <2>3. k * b + b <= c * b
    BY <2>1, <2>2
  <2>4. TxSubset(E, d) = (k * b + (IF k < r THEN k ELSE r))
                          .. (k * b + (IF k < r THEN k ELSE r)) + (b + (IF k < r THEN 1 ELSE 0)) - 1
    BY <1>6 DEF TxSubset, DecodersOf, DecoderCount, FirstDecoder, Rank, Base, Remainder
  <2> DEFINE kb == k * b
             cb == c * b
  <2>5. kb \in Nat /\ cb \in Nat /\ kb + b <= cb /\ EncoderCount = cb + r
    BY <2>1, <2>3, <1>4
  <2>6. TxSubset(E, d) = (kb + (IF k < r THEN k ELSE r))
                          .. (kb + (IF k < r THEN k ELSE r)) + (b + (IF k < r THEN 1 ELSE 0)) - 1
    BY <2>4
  <2> HIDE DEF kb, cb, k, b, r, c
  <2> QED
    BY <2>5, <2>6, <1>2, <1>4, CountsAssumption DEF Encoders
<1> QED
  BY <1>5, <1>6

-----------------------------------------------------------------------------
(* Facts about the operators.                                              *)

LEMMA FrameOfType ==
  ASSUME NEW b \in TrackingBufferType, NEW d \in Displays
  PROVE  /\ FrameOf(b, d) \in FrameType
         /\ cut_frame(b) \in TrackingBufferType
<1>1. Damaged(b.damage) \in SUBSET Regions
  BY DEF Damaged, TrackingBufferType, DamageType
<1>2. FrameOf(b, d) \in FrameType
  BY <1>1 DEF FrameOf, FrameType, TrackingBufferType
<1>3. DamageNone \in DamageType
  BY DEF DamageNone, DamageType
<1>4. cut_frame(b) \in TrackingBufferType
  <2>1. b.curr_frame_id + 1 \in Nat
    BY DEF TrackingBufferType
  <2>2. [b EXCEPT !.damage = DamageNone, !.curr_frame_id = @ + 1] \in TrackingBufferType
    BY <1>3, <2>1 DEF TrackingBufferType
  <2> QED
    BY <2>2 DEF cut_frame
<1> QED
  BY <1>2, <1>4

LEMMA FreshType ==
  ASSUME NEW c \in Nat
  PROVE  Fresh(c) \in TrackingBufferType
BY PixelAssumption DEF Fresh, TrackingBufferType, DamageType, DamageFull, Blank

LEMMA UpdateType ==
  ASSUME NEW b \in TrackingBufferType, NEW new \in [Regions -> Pixels],
         NEW area \in SUBSET Regions, NEW cover \in SUBSET (SUBSET area),
         NEW o \in BOOLEAN
  PROVE  update(b, new, area, cover, o) \in TrackingBufferType
<1>1. UNION cover \subseteq Regions
  OBVIOUS
<1>2. Assign(b.data, new, area) \in [Regions -> Pixels] /\ Assign(b.data, new, UNION cover) \in [Regions -> Pixels]
  BY DEF Assign, TrackingBufferType
<1>3. mark_stale(b.damage, cover, o) \in DamageType
  BY <1>1 DEF mark_stale, DamageType, DamageFull, DamagePartial, TrackingBufferType
<1> QED
  BY <1>2, <1>3 DEF update, TrackingBufferType

\* A task that sends or drops the permits it holds leaves the lines in order.
LEMMA LineWithoutType ==
  ASSUME TypeOK, NEW d \in Displays, \A e \in cut[d].txs : HasPermit(d, e)
  PROVE  LineWithout(d) \in [Encoders -> Seq(Displays)]
<1> SUFFICES ASSUME NEW e \in Encoders, e \in cut[d].txs
             PROVE  Tail(line[e]) \in Seq(Displays)
  BY DEF LineWithout, TypeOK
<1>1. line[e] \in Seq(Displays) /\ line[e] # << >>
  BY DEF HasPermit, TypeOK
<1> QED
  BY <1>1

\* update marks what it changes: a region left undamaged keeps its pixel, and
\* new damage is announced on the watch.
LEMMA UpdateMarks ==
  ASSUME NEW b \in TrackingBufferType, NEW new \in [Regions -> Pixels],
         NEW area \in SUBSET Regions, NEW cover \in SUBSET (SUBSET area),
         NEW o \in BOOLEAN
  PROVE  /\ HasFrame(update(b, new, area, cover, o)) => HasFrame(b) \/ UpdateNotifies(b, cover)
         /\ \A r \in Regions \ Damaged(update(b, new, area, cover, o).damage) :
              /\ r \notin Damaged(b.damage)
              /\ update(b, new, area, cover, o).data[r] = b.data[r]
         /\ update(b, new, area, cover, o).display_config = b.display_config
         /\ update(b, new, area, cover, o).curr_frame_id = b.curr_frame_id
<1> DEFINE u == update(b, new, area, cover, o)
<1>1. CASE b.damage.tag = "Full"
  <2>1. u = [b EXCEPT !.data = Assign(b.data, new, area)]
    BY <1>1 DEF update
  <2>2. u.damage = b.damage /\ u.display_config = b.display_config /\ u.curr_frame_id = b.curr_frame_id
    BY <2>1 DEF TrackingBufferType
  <2> QED
    BY <1>1, <2>2 DEF HasFrame, Damaged
<1>2. CASE b.damage.tag # "Full" /\ cover = {}
  <2>1. u = [b EXCEPT !.data = Assign(b.data, new, {})]
    <3>1. UNION {} = {}
      OBVIOUS
    <3>2. u = [b EXCEPT !.data = Assign(b.data, new, UNION {}), !.damage = b.damage]
      BY <1>2 DEF update
    <3> QED
      BY <3>1, <3>2 DEF TrackingBufferType
  <2>2. u.damage = b.damage /\ u.display_config = b.display_config /\ u.curr_frame_id = b.curr_frame_id
    BY <2>1 DEF TrackingBufferType
  <2>3. \A r \in Regions : u.data[r] = b.data[r]
    BY <2>1 DEF TrackingBufferType, Assign
  <2> QED
    BY <2>2, <2>3 DEF HasFrame
<1>3. CASE b.damage.tag # "Full" /\ cover # {}
  <2>1. u = [b EXCEPT !.data = Assign(b.data, new, UNION cover),
                      !.damage = mark_stale(b.damage, cover, o)]
    BY <1>3 DEF update
  <2>2. /\ u.damage = mark_stale(b.damage, cover, o)
        /\ u.display_config = b.display_config /\ u.curr_frame_id = b.curr_frame_id
        /\ u.data = Assign(b.data, new, UNION cover)
    BY <2>1 DEF TrackingBufferType
  <2>3. Damaged(b.damage) = b.damage.areas
    BY <1>3 DEF Damaged
  <2>4. \A r \in Regions \ Damaged(u.damage) : r \notin b.damage.areas /\ r \notin UNION cover
    <3>1. CASE o /\ Regions \in cover
      BY <1>3, <2>2, <3>1 DEF mark_stale, Damaged, DamageFull
    <3>2. CASE ~(o /\ Regions \in cover)
      <4>1. u.damage = DamagePartial(b.damage.areas \union UNION cover)
        BY <1>3, <2>2, <3>2 DEF mark_stale
      <4> QED
        BY <4>1 DEF Damaged, DamagePartial
    <3> QED
      BY <3>1, <3>2
  <2>5. \A r \in Regions : r \notin UNION cover => u.data[r] = b.data[r]
    BY <2>2 DEF Assign
  <2>6. UpdateNotifies(b, cover)
    BY <1>3 DEF UpdateNotifies
  <2> QED
    BY <2>2, <2>3, <2>4, <2>5, <2>6
<1> QED
  BY <1>1, <1>2, <1>3

LEMMA CutClears ==
  ASSUME NEW b \in TrackingBufferType, HasFrame(b)
  PROVE  /\ cut_frame(b).damage = DamageNone
         /\ cut_frame(b).data = b.data
         /\ cut_frame(b).display_config = b.display_config
         /\ cut_frame(b).curr_frame_id = b.curr_frame_id + 1
BY DEF cut_frame, TrackingBufferType

\* The same about the step of the damage task.
LEMMA UpdatedBuffer ==
  ASSUME TypeOK, NEW d \in Displays, NEW area \in SUBSET Regions,
         NEW new \in [Regions -> Pixels], NEW cover \in SUBSET (SUBSET area),
         UpdateDisplay(d, area, new, cover)
  PROVE  /\ HasFrame(tb'[d]) => HasFrame(tb[d]) \/ UpdateNotifies(tb[d], cover)
         /\ \A r \in Regions \ Damaged(tb'[d].damage) :
              /\ r \notin Damaged(tb[d].damage)
              /\ tb'[d].data[r] = tb[d].data[r]
         /\ tb'[d].display_config = tb[d].display_config
         /\ tb'[d].curr_frame_id = tb[d].curr_frame_id
         /\ \A x \in Displays \ {d} : tb'[x] = tb[x]
<1> DEFINE o == d \in AtOrigin
<1>1. o \in BOOLEAN /\ tb[d] \in TrackingBufferType
  BY DEF TypeOK
<1>2. tb'[d] = update(tb[d], new, area, cover, o) /\ \A x \in Displays \ {d} : tb'[x] = tb[x]
  BY DEF UpdateDisplay, TypeOK
<1> DEFINE b == tb[d]
           u == update(b, new, area, cover, o)
<1>3. b \in TrackingBufferType /\ tb'[d] = u
  BY <1>1, <1>2
<1> HIDE DEF o, b
<1>4. /\ HasFrame(u) => HasFrame(b) \/ UpdateNotifies(b, cover)
      /\ \A r \in Regions \ Damaged(u.damage) : r \notin Damaged(b.damage) /\ u.data[r] = b.data[r]
      /\ u.display_config = b.display_config
      /\ u.curr_frame_id = b.curr_frame_id
  BY <1>1, <1>3, UpdateMarks
<1> HIDE DEF u
<1> QED
  BY <1>2, <1>3, <1>4 DEF b

LEMMA AppendKeepsHead ==
  ASSUME NEW S, NEW q \in Seq(S), q # << >>, NEW x \in S
  PROVE  Append(q, x) # << >> /\ Head(Append(q, x)) = Head(q)
<1>1. Len(q) \in Nat /\ Len(q) # 0
  BY EmptySeq, LenProperties
<1>2. Append(q, x) \in Seq(S) /\ Len(Append(q, x)) = Len(q) + 1 /\ Append(q, x)[1] = q[1]
  BY <1>1, AppendProperties
<1> QED
  BY <1>1, <1>2, EmptySeq

-----------------------------------------------------------------------------
(* Each conjunct of the invariant is preserved.                            *)

LEMMA TypeStep ==
  ASSUME IInv, [Next]_vars
  PROVE  TypeOK'
<1> USE DEF IInv, TypeOK
<1>1. ASSUME NEW E \in DisplaySets, ReceiveConfig(E)
      PROVE  TypeOK'
  <2>1. config' \in ConfigType
    BY <1>1, CountsAssumption DEF ReceiveConfig, ConfigType, Displays
  <2> QED
    BY <1>1, <2>1 DEF ReceiveConfig, tasks
<1>2. CASE ResizeDisplay
  <2>1. config' \in ConfigType /\ config.id \in Nat /\ config.display \in Displays
    BY <1>2 DEF ResizeDisplay, ConfigType
  <2>2. tb' \in [Displays -> TrackingBufferType]
    BY <1>2, <2>1, FreshType DEF ResizeDisplay, resize
  <2> QED
    BY <1>2, <2>1, <2>2 DEF ResizeDisplay, tasks
<1>3. CASE AssignTxs
  <2>1. config' \in ConfigType
    <3>1. CASE config.display = DisplayCount - 1
      BY <1>3, <3>1 DEF AssignTxs, ConfigType
    <3>2. CASE config.display # DisplayCount - 1
      <4>1. config.display + 1 \in Displays
        BY <3>2, CountsAssumption DEF ConfigType, Displays
      <4> QED
        BY <1>3, <3>2, <4>1 DEF AssignTxs, ConfigType
    <3> QED
      BY <3>1, <3>2
  <2>2. txs' \in [Displays -> SUBSET Encoders]
    BY <1>3, TxSubsetType DEF AssignTxs, ConfigType
  <2> QED
    BY <1>3, <2>1, <2>2 DEF AssignTxs, tasks
<1>4. CASE RevokePermits
  <2>1. config' \in ConfigType
    BY <1>4 DEF RevokePermits, ConfigType
  <2> QED
    BY <1>4, <2>1 DEF RevokePermits, tasks
<1>5. CASE ReceiveDamage
  BY <1>5 DEF ReceiveDamage, tasks
<1>6. ASSUME NEW d \in Displays, IgnoreDamage(d)
      PROVE  TypeOK'
  BY <1>6 DEF IgnoreDamage, tasks
<1>7. ASSUME NEW d \in Displays, NEW area \in SUBSET Regions, NEW new \in [Regions -> Pixels],
             NEW cover \in SUBSET (SUBSET area), UpdateDisplay(d, area, new, cover)
      PROVE  TypeOK'
  <2>1. (d \in AtOrigin) \in BOOLEAN
    OBVIOUS
  <2>2. update(tb[d], new, area, cover, d \in AtOrigin) \in TrackingBufferType
    BY <2>1, UpdateType
  <2>3. tb' \in [Displays -> TrackingBufferType]
    BY <1>7, <2>2 DEF UpdateDisplay
  <2> QED
    BY <1>7, <2>3 DEF UpdateDisplay, tasks
<1>8. ASSUME NEW d \in Displays, CloneTxs(d)
      PROVE  TypeOK'
  <2>1. cut' \in [Displays -> CutterType]
    <3>1. [cut[d] EXCEPT !.pc = "join", !.txs = txs[d], !.asked = {}] \in CutterType
      BY DEF CutterType
    <3>2. cut' = [cut EXCEPT ![d] = [cut[d] EXCEPT !.pc = "join", !.txs = txs[d], !.asked = {}]]
      BY <1>8 DEF CloneTxs
    <3> QED
      BY <3>1, <3>2
  <2> QED
    BY <1>8, <2>1 DEF CloneTxs, InitiallyDamaged
<1>9. ASSUME NEW d \in Displays, NEW e \in Encoders, AskPermit(d, e)
      PROVE  TypeOK'
  <2>1. cut' \in [Displays -> CutterType]
    BY <1>9 DEF AskPermit, CutterType
  <2> QED
    BY <1>9, <2>1 DEF AskPermit
<1>10. ASSUME NEW d \in Displays, SeeDamage(d)
       PROVE  TypeOK'
  BY <1>10 DEF SeeDamage
<1>11. ASSUME NEW d \in Displays, DropRevoked(d)
       PROVE  TypeOK'
  <2>1. cut' \in [Displays -> CutterType]
    BY <1>11 DEF DropRevoked, CutterType
  <2>2. LineWithout(d) \in [Encoders -> Seq(Displays)]
    BY <1>11, LineWithoutType DEF DropRevoked, Joined
  <2> QED
    BY <1>11, <2>1, <2>2 DEF DropRevoked
<1>12. ASSUME NEW d \in Displays, KeepPermits(d)
       PROVE  TypeOK'
  <2>1. cut' \in [Displays -> CutterType]
    BY <1>12 DEF KeepPermits, CutterType
  <2> QED
    BY <1>12, <2>1 DEF KeepPermits
<1>13. ASSUME NEW d \in Displays, CutFrame(d)
       PROVE  TypeOK'
  <2>1. FrameOf(tb[d], d) \in FrameType /\ cut_frame(tb[d]) \in TrackingBufferType
    BY FrameOfType
  <2>2. cut' \in [Displays -> CutterType] /\ tb' \in [Displays -> TrackingBufferType]
    <3>1. [cut[d] EXCEPT !.pc = "send", !.frame = FrameOf(tb[d], d)] \in CutterType
      BY <2>1 DEF CutterType
    <3>2. cut' = [cut EXCEPT ![d] = [cut[d] EXCEPT !.pc = "send", !.frame = FrameOf(tb[d], d)]]
      BY <1>13 DEF CutFrame
    <3>3. cut' \in [Displays -> CutterType]
      BY <3>1, <3>2
    <3>4. tb' \in [Displays -> TrackingBufferType]
      BY <1>13, <2>1 DEF CutFrame
    <3> QED
      BY <3>3, <3>4
  <2>3. sent' \in [Displays -> [Regions -> Pixels \union {NoPixel}]]
    BY <1>13 DEF CutFrame, TrackingBufferType
  <2> QED
    BY <1>13, <2>2, <2>3 DEF CutFrame
<1>14. ASSUME NEW d \in Displays, CutNothing(d)
       PROVE  TypeOK'
  <2>1. cut' \in [Displays -> CutterType]
    BY <1>14 DEF CutNothing, CutterType
  <2>2. LineWithout(d) \in [Encoders -> Seq(Displays)]
    BY <1>14, LineWithoutType DEF CutNothing, PermitsHeld
  <2> QED
    BY <1>14, <2>1, <2>2 DEF CutNothing
<1>15. ASSUME NEW d \in Displays, SendFrame(d)
       PROVE  TypeOK'
  <2>1. cut' \in [Displays -> CutterType] /\ cut[d].frame \in FrameType \union {NoFrame}
    <3>1. [cut[d] EXCEPT !.pc = "clone", !.frame = NoFrame] \in CutterType
      BY DEF CutterType
    <3>2. cut' = [cut EXCEPT ![d] = [cut[d] EXCEPT !.pc = "clone", !.frame = NoFrame]]
      BY <1>15 DEF SendFrame
    <3>3. cut' \in [Displays -> CutterType]
      BY <3>1, <3>2
    <3>4. cut[d].frame \in FrameType \union {NoFrame}
      BY DEF CutterType
    <3> QED
      BY <3>3, <3>4
  <2>2. LineWithout(d) \in [Encoders -> Seq(Displays)]
    BY <1>15, LineWithoutType DEF SendFrame, PermitsHeld
  <2> QED
    BY <1>15, <2>1, <2>2 DEF SendFrame
<1>16. ASSUME NEW e \in Encoders, EncoderReceive(e)
       PROVE  TypeOK'
  <2>1. slot[e] \in FrameType
    BY <1>16 DEF EncoderReceive
  <2>2. last' \in [Encoders -> [Displays -> LastType]]
    BY <1>16, <2>1 DEF EncoderReceive, FrameType, LastType
  <2> QED
    BY <1>16, <2>2 DEF EncoderReceive, tasks
<1>17. CASE UNCHANGED vars
  BY <1>17 DEF vars, tasks
<1> QED
  BY <1>1, <1>2, <1>3, <1>4, <1>5, <1>6, <1>7, <1>8, <1>9, <1>10, <1>11, <1>12, <1>13, <1>14,
     <1>15, <1>16, <1>17
     DEF Next, Configure, ApplyDamage, Cutter

LEMMA PermitsStep ==
  ASSUME IInv, [Next]_vars
  PROVE  PermitsHeld'
<1> USE DEF IInv, TypeOK
<1>1. ASSUME UNCHANGED <<cut, line, slot>>
      PROVE  PermitsHeld'
  BY <1>1 DEF PermitsHeld, HasPermit
<1>2. ASSUME NEW d \in Displays, CloneTxs(d)
      PROVE  PermitsHeld'
  BY <1>2 DEF CloneTxs, PermitsHeld, HasPermit, CutterType
<1>3. ASSUME NEW d \in Displays, NEW e \in Encoders, AskPermit(d, e)
      PROVE  PermitsHeld'
  <2> SUFFICES ASSUME NEW x \in Displays, cut'[x].pc \in {"cut", "send"}, NEW f \in cut'[x].txs
               PROVE  HasPermit(x, f)'
    BY DEF PermitsHeld
  <2>1. x # d /\ cut'[x] = cut[x]
    BY <1>3 DEF AskPermit, CutterType
  <2>2. f \in Encoders /\ HasPermit(x, f)
    BY <2>1 DEF PermitsHeld, CutterType
  <2>3. line[f] \in Seq(Displays) /\ line[f] # << >>
    BY <2>2 DEF HasPermit
  <2>4. line'[f] = line[f] \/ line'[f] = Append(line[f], d)
    BY <1>3, <2>2 DEF AskPermit
  <2>5. line'[f] # << >> /\ Head(line'[f]) = Head(line[f])
    <3>1. Append(line[f], d) # << >> /\ Head(Append(line[f], d)) = Head(line[f])
      BY <2>3, AppendKeepsHead
    <3> QED
      BY <2>3, <2>4, <3>1
  <2> QED
    BY <1>3, <2>2, <2>5 DEF AskPermit, HasPermit
<1>4. ASSUME NEW d \in Displays, KeepPermits(d)
      PROVE  PermitsHeld'
  BY <1>4 DEF KeepPermits, Joined, PermitsHeld, HasPermit, CutterType
<1>5. ASSUME NEW d \in Displays, CutFrame(d)
      PROVE  PermitsHeld'
  BY <1>5 DEF CutFrame, PermitsHeld, HasPermit, CutterType
<1>6. ASSUME NEW d \in Displays, \A e \in cut[d].txs : HasPermit(d, e),
             line' = LineWithout(d), cut'[d].pc = "clone",
             \A x \in Displays \ {d} : cut'[x] = cut[x],
             \A e \in Encoders : e \notin cut[d].txs => slot'[e] = slot[e]
      PROVE  PermitsHeld'
  <2> SUFFICES ASSUME NEW x \in Displays, cut'[x].pc \in {"cut", "send"}, NEW f \in cut'[x].txs
               PROVE  HasPermit(x, f)'
    BY DEF PermitsHeld
  <2>1. x # d /\ cut'[x] = cut[x]
    BY <1>6
  <2>2. f \in Encoders /\ HasPermit(x, f)
    BY <2>1 DEF PermitsHeld, CutterType
  <2>3. f \notin cut[d].txs
    BY <1>6, <2>1, <2>2 DEF HasPermit
  <2> QED
    BY <1>6, <2>2, <2>3 DEF LineWithout, HasPermit
<1>7. ASSUME NEW d \in Displays, DropRevoked(d)
      PROVE  PermitsHeld'
  BY <1>6, <1>7 DEF DropRevoked, Joined, CutterType
<1>8. ASSUME NEW d \in Displays, CutNothing(d)
      PROVE  PermitsHeld'
  BY <1>6, <1>8 DEF CutNothing, PermitsHeld, CutterType
<1>9. ASSUME NEW d \in Displays, SendFrame(d)
      PROVE  PermitsHeld'
  <2>1. \A e \in cut[d].txs : HasPermit(d, e)
    BY <1>9 DEF SendFrame, PermitsHeld
  <2>2. cut'[d].pc = "clone" /\ \A x \in Displays \ {d} : cut'[x] = cut[x]
    BY <1>9 DEF SendFrame, CutterType
  <2>3. line' = LineWithout(d) /\ \A e \in Encoders : e \notin cut[d].txs => slot'[e] = slot[e]
    BY <1>9 DEF SendFrame
  <2> QED
    BY <1>6, <2>1, <2>2, <2>3
<1>10. ASSUME NEW e \in Encoders, EncoderReceive(e)
       PROVE  PermitsHeld'
  BY <1>10 DEF EncoderReceive, PermitsHeld, HasPermit, tasks
<1>11. ASSUME NEW E \in DisplaySets, ReceiveConfig(E)
       PROVE  PermitsHeld'
  BY <1>1, <1>11 DEF ReceiveConfig, tasks
<1>12. CASE Configure \/ ReceiveDamage
  BY <1>1, <1>12 DEF Configure, ResizeDisplay, AssignTxs, RevokePermits, ReceiveDamage, tasks
<1>13. ASSUME NEW d \in Displays, ApplyDamage(d)
       PROVE  PermitsHeld'
  BY <1>1, <1>13 DEF ApplyDamage, IgnoreDamage, UpdateDisplay, tasks
<1>14. ASSUME NEW d \in Displays, SeeDamage(d)
       PROVE  PermitsHeld'
  BY <1>1, <1>14 DEF SeeDamage
<1>15. CASE UNCHANGED vars
  BY <1>1, <1>15 DEF vars, tasks
<1> QED
  BY <1>2, <1>3, <1>4, <1>5, <1>7, <1>8, <1>9, <1>10, <1>11, <1>12, <1>13, <1>14, <1>15
     DEF Next, Cutter

LEMMA WakeupStep ==
  ASSUME IInv, [Next]_vars
  PROVE  NoLostWakeup'
<1> USE DEF IInv, TypeOK
<1>1. ASSUME UNCHANGED <<tb, watch, tasks>>
      PROVE  NoLostWakeup'
  BY <1>1 DEF NoLostWakeup, tasks
<1>2. CASE ResizeDisplay
  BY <1>2 DEF ResizeDisplay, NoLostWakeup, tasks, ConfigType
<1>3. ASSUME NEW d \in Displays, NEW area \in SUBSET Regions, NEW new \in [Regions -> Pixels],
             NEW cover \in SUBSET (SUBSET area), UpdateDisplay(d, area, new, cover)
      PROVE  NoLostWakeup'
  <2>1. /\ HasFrame(tb'[d]) => HasFrame(tb[d]) \/ UpdateNotifies(tb[d], cover)
        /\ \A x \in Displays \ {d} : tb'[x] = tb[x]
    BY <1>3, UpdatedBuffer
  <2> QED
    BY <1>3, <2>1 DEF UpdateDisplay, NoLostWakeup, tasks
<1>4. ASSUME NEW d \in Displays, CloneTxs(d)
      PROVE  NoLostWakeup'
  BY <1>4 DEF CloneTxs, InitiallyDamaged, NoLostWakeup, CutterType
<1>5. ASSUME NEW d \in Displays, NEW e \in Encoders, AskPermit(d, e)
      PROVE  NoLostWakeup'
  BY <1>5 DEF AskPermit, NoLostWakeup, CutterType
<1>6. ASSUME NEW d \in Displays, SeeDamage(d)
      PROVE  NoLostWakeup'
  BY <1>6 DEF SeeDamage, NoLostWakeup
<1>7. ASSUME NEW d \in Displays, DropRevoked(d)
      PROVE  NoLostWakeup'
  BY <1>7 DEF DropRevoked, NoLostWakeup, CutterType
<1>8. ASSUME NEW d \in Displays, KeepPermits(d)
      PROVE  NoLostWakeup'
  BY <1>8 DEF KeepPermits, NoLostWakeup, CutterType
<1>9. ASSUME NEW d \in Displays, CutFrame(d)
      PROVE  NoLostWakeup'
  <2>1. tb'[d].damage = DamageNone /\ \A x \in Displays \ {d} : tb'[x] = tb[x] /\ cut'[x] = cut[x]
    BY <1>9, CutClears DEF CutFrame, CutterType
  <2>2. ~HasFrame(tb'[d])
    BY <2>1 DEF HasFrame, DamageNone
  <2> QED
    BY <1>9, <2>1, <2>2 DEF CutFrame, NoLostWakeup
<1>10. ASSUME NEW d \in Displays, CutNothing(d)
       PROVE  NoLostWakeup'
  BY <1>10 DEF CutNothing, NoLostWakeup, CutterType
<1>11. ASSUME NEW d \in Displays, SendFrame(d)
       PROVE  NoLostWakeup'
  BY <1>11 DEF SendFrame, NoLostWakeup, CutterType
<1>12. ASSUME NEW E \in DisplaySets, ReceiveConfig(E)
       PROVE  NoLostWakeup'
  BY <1>1, <1>12 DEF ReceiveConfig
<1>13. CASE AssignTxs \/ RevokePermits \/ ReceiveDamage
  BY <1>1, <1>13 DEF AssignTxs, RevokePermits, ReceiveDamage
<1>14. ASSUME NEW d \in Displays, IgnoreDamage(d)
       PROVE  NoLostWakeup'
  BY <1>1, <1>14 DEF IgnoreDamage
<1>15. ASSUME NEW e \in Encoders, EncoderReceive(e)
       PROVE  NoLostWakeup'
  BY <1>1, <1>15 DEF EncoderReceive
<1>16. CASE UNCHANGED vars
  BY <1>1, <1>16 DEF vars
<1> QED
  BY <1>2, <1>3, <1>4, <1>5, <1>6, <1>7, <1>8, <1>9, <1>10, <1>11, <1>12, <1>13, <1>14, <1>15, <1>16
     DEF Next, Configure, ApplyDamage, Cutter

LEMMA SentStep ==
  ASSUME IInv, [Next]_vars
  PROVE  UndamagedIsSent'
<1> USE DEF IInv, TypeOK
<1>1. ASSUME UNCHANGED <<tb, sent>>
      PROVE  UndamagedIsSent'
  BY <1>1 DEF UndamagedIsSent
<1>2. CASE ResizeDisplay
  <2>1. Damaged(tb'[config.display].damage) = Regions
    BY <1>2 DEF ResizeDisplay, ConfigType, resize, Fresh, Damaged, DamageFull
  <2>2. \A x \in Displays \ {config.display} : tb'[x] = tb[x]
    BY <1>2 DEF ResizeDisplay
  <2> QED
    BY <1>2, <2>1, <2>2 DEF ResizeDisplay, UndamagedIsSent
<1>3. ASSUME NEW d \in Displays, NEW area \in SUBSET Regions, NEW new \in [Regions -> Pixels],
             NEW cover \in SUBSET (SUBSET area), UpdateDisplay(d, area, new, cover)
      PROVE  UndamagedIsSent'
  <2>1. /\ \A r \in Regions \ Damaged(tb'[d].damage) :
             r \notin Damaged(tb[d].damage) /\ tb'[d].data[r] = tb[d].data[r]
        /\ \A x \in Displays \ {d} : tb'[x] = tb[x]
    BY <1>3, UpdatedBuffer
  <2> SUFFICES ASSUME NEW x \in Displays, NEW r \in Regions \ Damaged(tb'[x].damage)
               PROVE  sent'[x][r] = tb'[x].data[r]
    BY DEF UndamagedIsSent
  <2>2. sent' = sent
    BY <1>3 DEF UpdateDisplay
  <2> QED
    BY <2>1, <2>2 DEF UndamagedIsSent
<1>4. ASSUME NEW d \in Displays, CutFrame(d)
      PROVE  UndamagedIsSent'
  <2>1. tb'[d].data = tb[d].data /\ \A x \in Displays \ {d} : tb'[x] = tb[x] /\ sent'[x] = sent[x]
    BY <1>4, CutClears DEF CutFrame
  <2>2. \A r \in Regions : sent'[d][r] = IF r \in Damaged(tb[d].damage) THEN tb[d].data[r] ELSE sent[d][r]
    BY <1>4 DEF CutFrame
  <2>3. \A r \in Regions : sent'[d][r] = tb[d].data[r]
    BY <2>2 DEF UndamagedIsSent
  <2> QED
    BY <2>1, <2>3 DEF UndamagedIsSent
<1>5. ASSUME NEW E \in DisplaySets, ReceiveConfig(E)
      PROVE  UndamagedIsSent'
  BY <1>1, <1>5 DEF ReceiveConfig
<1>6. CASE AssignTxs \/ RevokePermits \/ ReceiveDamage
  BY <1>1, <1>6 DEF AssignTxs, RevokePermits, ReceiveDamage
<1>7. ASSUME NEW d \in Displays, IgnoreDamage(d)
      PROVE  UndamagedIsSent'
  BY <1>1, <1>7 DEF IgnoreDamage
<1>8. ASSUME NEW d \in Displays,
             CloneTxs(d) \/ (\E e \in Encoders : AskPermit(d, e)) \/ SeeDamage(d) \/ DropRevoked(d)
               \/ KeepPermits(d) \/ CutNothing(d) \/ SendFrame(d)
      PROVE  UndamagedIsSent'
  BY <1>1, <1>8 DEF CloneTxs, AskPermit, SeeDamage, DropRevoked, KeepPermits, CutNothing, SendFrame
<1>9. ASSUME NEW e \in Encoders, EncoderReceive(e)
      PROVE  UndamagedIsSent'
  BY <1>1, <1>9 DEF EncoderReceive
<1>10. CASE UNCHANGED vars
  BY <1>1, <1>10 DEF vars
<1> QED
  BY <1>2, <1>3, <1>4, <1>5, <1>6, <1>7, <1>8, <1>9, <1>10
     DEF Next, Configure, ApplyDamage, Cutter

LEMMA ConfigsStep ==
  ASSUME IInv, [Next]_vars
  PROVE  ConfigsFollow'
<1> USE DEF IInv, TypeOK
<1>0. \A d \in Displays : tb[d].display_config \in Nat
  BY DEF TrackingBufferType
<1>1. ASSUME UNCHANGED config, \A d \in Displays : tb'[d].display_config = tb[d].display_config
      PROVE  ConfigsFollow'
  BY <1>1 DEF ConfigsFollow
<1>2. ASSUME NEW E \in DisplaySets, ReceiveConfig(E)
      PROVE  ConfigsFollow'
  BY <1>0, <1>2 DEF ReceiveConfig, ConfigsFollow, ConfigType
<1>3. CASE ResizeDisplay
  <2>1. config.id \in Nat /\ config.display \in Displays
    BY DEF ConfigType
  <2>2. tb'[config.display].display_config = config.id
    BY <1>3, <2>1 DEF ResizeDisplay, resize, Fresh
  <2>3. \A x \in Displays \ {config.display} : tb'[x] = tb[x]
    BY <1>3 DEF ResizeDisplay
  <2>4. config'.id = config.id /\ config'.pc = "assign"
    BY <1>3 DEF ResizeDisplay, ConfigType
  <2>5. config'.display = config.display /\ config.pc = "resize"
    BY <1>3 DEF ResizeDisplay, ConfigType
  <2> SUFFICES ASSUME NEW x \in Displays
               PROVE  /\ tb'[x].display_config <= config.id
                      /\ config.display < x => tb'[x].display_config < config.id
    BY <2>4, <2>5 DEF ConfigsFollow
  <2> QED
    BY <1>0, <2>1, <2>2, <2>3, <2>5 DEF ConfigsFollow, Displays
<1>4. CASE AssignTxs
  \* The display just resized is done; the next one is still behind.
  <2>0. config.id \in Nat /\ config.display \in Displays
    BY DEF ConfigType
  <2>1. config'.id = config.id /\ tb' = tb
    BY <1>4 DEF AssignTxs, ConfigType
  <2>2. config'.pc = "resize" => config'.display = config.display + 1
    BY <1>4 DEF AssignTxs, ConfigType
  <2>3. config.pc = "assign" /\ config'.pc # "assign"
    BY <1>4 DEF AssignTxs, ConfigType
  <2> SUFFICES ASSUME NEW x \in Displays
               PROVE  /\ tb[x].display_config <= config.id
                      /\ config.display + 1 <= x => tb[x].display_config < config.id
    BY <2>1, <2>2, <2>3 DEF ConfigsFollow
  <2> QED
    BY <2>0, <2>3 DEF ConfigsFollow, Displays
<1>5. CASE RevokePermits
  BY <1>5 DEF RevokePermits, ConfigsFollow, ConfigType
<1>6. ASSUME NEW d \in Displays, NEW area \in SUBSET Regions, NEW new \in [Regions -> Pixels],
             NEW cover \in SUBSET (SUBSET area), UpdateDisplay(d, area, new, cover)
      PROVE  ConfigsFollow'
  <2>1. \A x \in Displays : tb'[x].display_config = tb[x].display_config
    BY <1>6, UpdatedBuffer
  <2> QED
    BY <1>1, <1>6, <2>1 DEF UpdateDisplay
<1>7. ASSUME NEW d \in Displays, CutFrame(d)
      PROVE  ConfigsFollow'
  <2>1. tb'[d].display_config = tb[d].display_config
    BY <1>7, CutClears DEF CutFrame
  <2> QED
    BY <1>1, <1>7, <2>1 DEF CutFrame
<1>8. ASSUME NEW d \in Displays, IgnoreDamage(d)
      PROVE  ConfigsFollow'
  BY <1>1, <1>8 DEF IgnoreDamage
<1>9. ASSUME NEW d \in Displays,
             CloneTxs(d) \/ (\E e \in Encoders : AskPermit(d, e)) \/ SeeDamage(d) \/ DropRevoked(d)
               \/ KeepPermits(d) \/ CutNothing(d) \/ SendFrame(d)
      PROVE  ConfigsFollow'
  BY <1>1, <1>9 DEF CloneTxs, AskPermit, SeeDamage, DropRevoked, KeepPermits, CutNothing, SendFrame
<1>10. ASSUME NEW e \in Encoders, EncoderReceive(e)
       PROVE  ConfigsFollow'
  BY <1>1, <1>10 DEF EncoderReceive
<1>11. CASE UNCHANGED vars \/ ReceiveDamage
  BY <1>1, <1>11 DEF vars, ReceiveDamage
<1> QED
  BY <1>2, <1>3, <1>4, <1>5, <1>6, <1>7, <1>8, <1>9, <1>10, <1>11
     DEF Next, Configure, ApplyDamage, Cutter

\* The numbers that the order of frames compares.
LEMMA NumberTypes ==
  ASSUME TypeOK
  PROVE  /\ \A d \in Displays : tb[d].display_config \in Nat /\ tb[d].curr_frame_id \in Nat
         /\ \A e \in Encoders : \A d \in Displays :
              last[e][d].display_config \in Nat /\ last[e][d].next \in Nat
         /\ \A e \in Encoders : slot[e] # NoFrame =>
              slot[e] \in FrameType /\ slot[e].display \in Displays
                /\ slot[e].display_config \in Nat /\ slot[e].id \in Nat
<1>1. \A d \in Displays : tb[d] \in TrackingBufferType
  BY DEF TypeOK
<1>2. \A e \in Encoders : \A d \in Displays : last[e][d] \in LastType
  BY DEF TypeOK
<1>3. \A e \in Encoders : slot[e] # NoFrame => slot[e] \in FrameType
  BY DEF TypeOK
<1> QED
  BY <1>1, <1>2, <1>3 DEF TrackingBufferType, LastType, FrameType

Order == FrameIsLast /\ SlotIsOld /\ LastIsOld /\ FramesInOrder

\* A step that neither cuts, sends, takes nor renumbers frames.
LEMMA OrderQuiet ==
  ASSUME IInv, slot' = slot, last' = last,
         \A d \in Displays : /\ tb'[d].display_config = tb[d].display_config
                             /\ tb'[d].curr_frame_id = tb[d].curr_frame_id
                             /\ cut'[d].pc = "send" =>
                                  cut[d].pc = "send" /\ cut'[d].frame = cut[d].frame
  PROVE  Order'
<1> USE NumberTypes DEF IInv
<1>1. FrameIsLast'
  BY DEF FrameIsLast
<1>2. SlotIsOld'
  BY DEF SlotIsOld
<1>3. LastIsOld'
  BY DEF LastIsOld
<1>4. FramesInOrder'
  BY DEF FramesInOrder
<1> QED
  BY <1>1, <1>2, <1>3, <1>4 DEF Order

\* A resize starts a configuration later than every frame of the display.
LEMMA OrderResize ==
  ASSUME IInv, ResizeDisplay
  PROVE  Order'
<1> USE NumberTypes DEF IInv
<1> DEFINE d == config.display
<1>0. d \in Displays /\ config.id \in Nat
  BY DEF TypeOK, ConfigType
<1>1. tb'[d].display_config = config.id /\ tb'[d].curr_frame_id = 0
  BY <1>0 DEF ResizeDisplay, TypeOK, resize, Fresh
<1>2. \A x \in Displays \ {d} : tb'[x] = tb[x]
  BY DEF ResizeDisplay, TypeOK
<1>3. tb[d].display_config < config.id
  BY <1>0 DEF ConfigsFollow, ResizeDisplay, Displays
<1>4. cut' = cut /\ slot' = slot /\ last' = last
  BY DEF ResizeDisplay, tasks
<1> HIDE DEF d
<1>5. \A x \in Displays : \A c, n \in Nat :
        Before(c, n, tb[x].display_config, tb[x].curr_frame_id) =>
          Before(c, n, tb'[x].display_config, tb'[x].curr_frame_id)
  BY <1>0, <1>1, <1>2, <1>3 DEF Before
<1>6. FrameIsLast'
  <2> SUFFICES ASSUME NEW x \in Displays, cut[x].pc = "send"
               PROVE  Before(cut[x].frame.display_config, cut[x].frame.id + 1,
                             tb'[x].display_config, tb'[x].curr_frame_id)
    BY <1>4 DEF FrameIsLast
  <2>1. cut[x].frame.display_config \in Nat /\ cut[x].frame.id + 1 \in Nat
    BY DEF FrameIsLast, FrameType
  <2> QED
    BY <1>5, <2>1 DEF FrameIsLast
<1>7. SlotIsOld'
  <2> SUFFICES ASSUME NEW e \in Encoders, slot[e] # NoFrame
               PROVE  Before(slot[e].display_config, slot[e].id + 1,
                             tb'[slot[e].display].display_config, tb'[slot[e].display].curr_frame_id)
    BY <1>4 DEF SlotIsOld
  <2>1. slot[e].display_config \in Nat /\ slot[e].id + 1 \in Nat /\ slot[e].display \in Displays
    OBVIOUS
  <2> QED
    BY <1>5, <2>1 DEF SlotIsOld
<1>8. LastIsOld'
  BY <1>4, <1>5 DEF LastIsOld
<1>9. FramesInOrder'
  BY <1>4 DEF FramesInOrder
<1> QED
  BY <1>6, <1>7, <1>8, <1>9 DEF Order

\* A cut takes the next id: every earlier frame comes before it.
LEMMA OrderCut ==
  ASSUME IInv, NEW d \in Displays, CutFrame(d)
  PROVE  Order'
<1> USE NumberTypes DEF IInv
<1>1. /\ tb'[d].display_config = tb[d].display_config
      /\ tb'[d].curr_frame_id = tb[d].curr_frame_id + 1
      /\ \A x \in Displays \ {d} : tb'[x] = tb[x]
  BY CutClears DEF CutFrame, TypeOK
<1>2. /\ cut'[d].frame = FrameOf(tb[d], d)
      /\ \A x \in Displays \ {d} : cut'[x] = cut[x]
  BY DEF CutFrame, TypeOK, CutterType
<1>3. /\ cut'[d].frame \in FrameType
      /\ cut'[d].frame.display = d
      /\ cut'[d].frame.display_config = tb[d].display_config
      /\ cut'[d].frame.id = tb[d].curr_frame_id
  BY <1>2, FrameOfType DEF FrameOf, TypeOK
<1>4. slot' = slot /\ last' = last
  BY DEF CutFrame
<1>5. \A c, n \in Nat : Before(c, n, tb[d].display_config, tb[d].curr_frame_id) =>
        Before(c, n, tb'[d].display_config, tb'[d].curr_frame_id)
  BY <1>1 DEF Before
<1>6. FrameIsLast'
  BY <1>1, <1>2, <1>3 DEF FrameIsLast, Before
<1>7. SlotIsOld'
  <2> SUFFICES ASSUME NEW e \in Encoders, slot[e] # NoFrame
               PROVE  LET x == slot[e].display
                      IN /\ Before(slot[e].display_config, slot[e].id + 1,
                                   tb'[x].display_config, tb'[x].curr_frame_id)
                         /\ cut'[x].pc = "send" =>
                              Before(slot[e].display_config, slot[e].id + 1,
                                     cut'[x].frame.display_config, cut'[x].frame.id)
    BY <1>4 DEF SlotIsOld
  <2>1. slot[e].display_config \in Nat /\ slot[e].id + 1 \in Nat /\ slot[e].display \in Displays
    OBVIOUS
  <2>2. CASE slot[e].display = d
    BY <1>3, <1>5, <2>1, <2>2 DEF SlotIsOld
  <2>3. CASE slot[e].display # d
    BY <1>1, <1>2, <2>1, <2>3 DEF SlotIsOld
  <2> QED
    BY <2>2, <2>3
<1>8. LastIsOld'
  <2> SUFFICES ASSUME NEW e \in Encoders, NEW x \in Displays
               PROVE  /\ Before(last[e][x].display_config, last[e][x].next,
                                tb'[x].display_config, tb'[x].curr_frame_id)
                      /\ cut'[x].pc = "send" =>
                           Before(last[e][x].display_config, last[e][x].next,
                                  cut'[x].frame.display_config, cut'[x].frame.id)
    BY <1>4 DEF LastIsOld
  <2>1. CASE x = d
    BY <1>3, <1>5, <2>1 DEF LastIsOld
  <2>2. CASE x # d
    BY <1>1, <1>2, <2>2 DEF LastIsOld
  <2> QED
    BY <2>1, <2>2
<1>9. FramesInOrder'
  BY <1>4 DEF FramesInOrder
<1> QED
  BY <1>6, <1>7, <1>8, <1>9 DEF Order

\* The frame sent is after what its encoders have taken, and before the next.
LEMMA OrderSend ==
  ASSUME IInv, NEW d \in Displays, SendFrame(d)
  PROVE  Order'
<1> USE NumberTypes DEF IInv
<1>1. /\ cut'[d].pc = "clone" /\ cut[d].pc = "send"
      /\ \A x \in Displays \ {d} : cut'[x] = cut[x]
  BY DEF SendFrame, TypeOK, CutterType
<1>2. /\ tb' = tb /\ last' = last
      /\ \A e \in Encoders : slot'[e] = IF e \in cut[d].txs THEN cut[d].frame ELSE slot[e]
  BY DEF SendFrame
<1>3. /\ cut[d].frame \in FrameType /\ cut[d].frame.display = d
      /\ Before(cut[d].frame.display_config, cut[d].frame.id + 1,
                tb[d].display_config, tb[d].curr_frame_id)
  BY <1>1 DEF FrameIsLast
<1>4. FrameIsLast'
  BY <1>1, <1>2 DEF FrameIsLast
<1>5. SlotIsOld'
  BY <1>1, <1>2, <1>3 DEF SlotIsOld
<1>6. LastIsOld'
  BY <1>1, <1>2 DEF LastIsOld
<1>7. FramesInOrder'
  BY <1>1, <1>2, <1>3 DEF FramesInOrder, LastIsOld
<1> QED
  BY <1>4, <1>5, <1>6, <1>7 DEF Order

\* An encoder takes the frame in its channel.
LEMMA OrderReceive ==
  ASSUME IInv, NEW e \in Encoders, EncoderReceive(e)
  PROVE  Order'
<1> USE NumberTypes DEF IInv
<1> DEFINE d == slot[e].display
<1>0. slot[e] # NoFrame /\ d \in Displays
  BY DEF EncoderReceive
<1>1. /\ tb' = tb /\ cut' = cut
      /\ slot'[e] = NoFrame
      /\ \A f \in Encoders \ {e} : slot'[f] = slot[f] /\ last'[f] = last[f]
  BY DEF EncoderReceive, TypeOK, tasks
<1>2. /\ last'[e][d].display_config = slot[e].display_config
      /\ last'[e][d].next = slot[e].id + 1
      /\ \A x \in Displays \ {d} : last'[e][x] = last[e][x]
  BY <1>0 DEF EncoderReceive, TypeOK
<1>3. FrameIsLast'
  BY <1>1 DEF FrameIsLast
<1>4. SlotIsOld'
  BY <1>1 DEF SlotIsOld
<1>5. LastIsOld'
  <2> SUFFICES ASSUME NEW f \in Encoders, NEW x \in Displays
               PROVE  /\ Before(last'[f][x].display_config, last'[f][x].next,
                                tb[x].display_config, tb[x].curr_frame_id)
                      /\ cut[x].pc = "send" =>
                           Before(last'[f][x].display_config, last'[f][x].next,
                                  cut[x].frame.display_config, cut[x].frame.id)
    BY <1>1 DEF LastIsOld
  <2>1. CASE f = e /\ x = d
    BY <1>0, <1>2, <2>1 DEF SlotIsOld
  <2>2. CASE f # e \/ x # d
    BY <1>1, <1>2, <2>2 DEF LastIsOld
  <2> QED
    BY <2>1, <2>2
<1>6. FramesInOrder'
  BY <1>1 DEF FramesInOrder
<1> QED
  BY <1>3, <1>4, <1>5, <1>6 DEF Order

LEMMA OrderStep ==
  ASSUME IInv, [Next]_vars
  PROVE  Order'
<1> USE DEF IInv, TypeOK
<1>1. ASSUME NEW E \in DisplaySets, ReceiveConfig(E)
      PROVE  Order'
  BY <1>1, OrderQuiet DEF ReceiveConfig, tasks
<1>2. CASE ResizeDisplay
  BY <1>2, OrderResize
<1>3. CASE AssignTxs \/ RevokePermits \/ ReceiveDamage \/ UNCHANGED vars
  BY <1>3, OrderQuiet DEF AssignTxs, RevokePermits, ReceiveDamage, tasks, vars
<1>4. ASSUME NEW d \in Displays, IgnoreDamage(d)
      PROVE  Order'
  BY <1>4, OrderQuiet DEF IgnoreDamage, tasks
<1>5. ASSUME NEW d \in Displays, NEW area \in SUBSET Regions, NEW new \in [Regions -> Pixels],
             NEW cover \in SUBSET (SUBSET area), UpdateDisplay(d, area, new, cover)
      PROVE  Order'
  <2>1. \A x \in Displays : /\ tb'[x].display_config = tb[x].display_config
                            /\ tb'[x].curr_frame_id = tb[x].curr_frame_id
    BY <1>5, UpdatedBuffer
  <2> QED
    BY <1>5, <2>1, OrderQuiet DEF UpdateDisplay, tasks
<1>6. ASSUME NEW d \in Displays,
             CloneTxs(d) \/ (\E e \in Encoders : AskPermit(d, e)) \/ SeeDamage(d) \/ DropRevoked(d)
               \/ KeepPermits(d) \/ CutNothing(d)
      PROVE  Order'
  <2>1. /\ tb' = tb /\ slot' = slot /\ last' = last
        /\ \A x \in Displays : cut'[x].pc = "send" => cut[x].pc = "send" /\ cut'[x].frame = cut[x].frame
    BY <1>6 DEF CloneTxs, AskPermit, SeeDamage, DropRevoked, KeepPermits, CutNothing, CutterType
  <2> QED
    BY <2>1, OrderQuiet
<1>7. ASSUME NEW d \in Displays, CutFrame(d) \/ SendFrame(d)
      PROVE  Order'
  BY <1>7, OrderCut, OrderSend
<1>8. ASSUME NEW e \in Encoders, EncoderReceive(e)
      PROVE  Order'
  BY <1>8, OrderReceive
<1> QED
  BY <1>1, <1>2, <1>3, <1>4, <1>5, <1>6, <1>7, <1>8 DEF Next, Configure, ApplyDamage, Cutter

-----------------------------------------------------------------------------
(* The theorems.                                                           *)

LEMMA Initially ==
  ASSUME Init
  PROVE  IInv
<1>1. PICK E \in DisplaySets :
        /\ config = [pc |-> "idle", id |-> 0, enabled |-> E, display |-> 0]
        /\ enabled = E
        /\ txs = [d \in Displays |-> TxSubset(E, d)]
  BY DEF Init
<1>2. TypeOK
  <2>1. config \in ConfigType
    BY <1>1, CountsAssumption DEF ConfigType, Displays
  <2>2. txs \in [Displays -> SUBSET Encoders] /\ enabled \in SUBSET Displays
    BY <1>1, TxSubsetType DEF DisplaySets
  <2>3. tb \in [Displays -> TrackingBufferType]
    BY FreshType DEF Init
  <2>4. cut \in [Displays -> CutterType]
    BY DEF Init, CutterType
  <2>5. last \in [Encoders -> [Displays -> LastType]]
    BY DEF Init, LastType
  <2>6. watch \in SUBSET Displays /\ revoke \in SUBSET Displays /\ todo \in SUBSET Displays
    BY DEF Init
  <2>7. damaged \in SUBSET Displays /\ permits_revoked \in SUBSET Displays /\ captures \in Nat
    BY DEF Init
  <2>8. line \in [Encoders -> Seq(Displays)]
    BY DEF Init
  <2>9. slot \in [Encoders -> FrameType \union {NoFrame}]
    BY DEF Init
  <2>10. sent \in [Displays -> [Regions -> Pixels \union {NoPixel}]]
    BY DEF Init
  <2> QED
    BY <2>1, <2>2, <2>3, <2>4, <2>5, <2>6, <2>7, <2>8, <2>9, <2>10 DEF TypeOK
<1>3. PermitsHeld /\ FrameIsLast /\ SlotIsOld /\ FramesInOrder
  BY DEF Init, PermitsHeld, FrameIsLast, SlotIsOld, FramesInOrder
<1>4. NoLostWakeup
  BY DEF Init, NoLostWakeup
<1>5. UndamagedIsSent
  BY DEF Init, UndamagedIsSent, Fresh, Damaged, DamageFull
<1>6. ConfigsFollow
  BY <1>1 DEF Init, ConfigsFollow, Fresh
<1>7. LastIsOld
  BY DEF Init, LastIsOld, Fresh, Before
<1> QED
  BY <1>2, <1>3, <1>4, <1>5, <1>6, <1>7 DEF IInv

\* The conjunction of the properties below with what makes it inductive holds
\* of every behaviour of the task.
THEOREM FrameSyncInvariance == Spec => []IInv
<1>1. Init => IInv
  BY Initially
<1>2. IInv /\ [Next]_vars => IInv'
  BY TypeStep, PermitsStep, WakeupStep, SentStep, ConfigsStep, OrderStep DEF IInv, Order
<1> QED
  BY <1>1, <1>2, PTL DEF Spec

\* Every reachable state of the task is well typed; in particular the slices
\* of the encoder channels never run past their end.
THEOREM FrameSyncTypes == Spec => []TypeOK
<1>1. IInv => TypeOK
  BY DEF IInv
<1> QED
  BY <1>1, FrameSyncInvariance, PTL

\* Damage never sleeps with its cutting task: wait_for_damage, update, resize
\* and the revocation of permits lose no wakeup.
THEOREM WakeupNeverLost == Spec => []NoLostWakeup
<1>1. IInv => NoLostWakeup
  BY DEF IInv
<1> QED
  BY <1>1, FrameSyncInvariance, PTL

\* The tracking buffer tracks: what is not marked damaged has been cut into a
\* frame as it is now.
THEOREM TrackingIsExact == Spec => []UndamagedIsSent
<1>1. IInv => UndamagedIsSent
  BY DEF IInv
<1> QED
  BY <1>1, FrameSyncInvariance, PTL

\* An encoder takes each display's frames in the order they were cut, across
\* any number of reconfigurations.
THEOREM EncodersSeeFramesInOrder == Spec => []FramesInOrder
<1>1. IInv => FramesInOrder
  BY DEF IInv
<1> QED
  BY <1>1, FrameSyncInvariance, PTL

=============================================================================
