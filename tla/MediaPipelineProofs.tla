------------------------ MODULE MediaPipelineProofs ------------------------
(***************************************************************************)
(* The media pipeline, for every number of encoders, every set of widths   *)
(* and of cursors, every cap, every bucket and every size of message: what *)
(* the application draws is in its place, the client follows the server's  *)
(* cursor and the handler keeps to its rate.                               *)
(*                                                                         *)
(* The rate limiter comes first, used by any handler that waits for an     *)
(* answer before it asks again and cancelled at any time; then the cursor, *)
(* which shares the event channel with the configurations; then the steps  *)
(* of the backend task, frame synchronisation, the encoders, the handler   *)
(* and the client.                                                         *)
(***************************************************************************)
EXTENDS MediaPipeline, FiniteSetTheorems, WellFoundedInduction, TLAPS

\* A handler that asks for a message's bytes, and takes the answer.
Ask == request.at = "none" /\ \E bytes \in 1 .. MaxMessage : request_to_send(bytes)

Answered ==
  /\ request.at = "granted"
  /\ request' = NoRequest
  /\ UNCHANGED <<caps, bucket, limiter, allowance>>

CapsTypeOK == caps \in [server : Nat \cup {NoCap}, client : Nat]

LimiterNext == Ask \/ Answered \/ \E cancelled \in BOOLEAN : RateNext(cancelled)

LimiterSpec == CapsTypeOK /\ RateInit /\ [][LimiterNext]_rateVars

-----------------------------------------------------------------------------
Request ==
  [at : {"none", "queued", "spawned", "waiting", "granted", "refused"},
   bytes : 0 .. MaxMessage, held : Nat]

RateTypeOK ==
  /\ CapsTypeOK
  /\ bucket \in Nat
  /\ request \in Request
  /\ limiter \in {"run", "gone"}
  /\ allowance \in Int

\* Every token there is, in the bucket or held by a message that waits, is
\* covered by the allowance.
Covered ==
  /\ bucket + request.held <= allowance
  /\ limiter = "run" => bucket <= token_capacity
  /\ request.at = "waiting" => request.held < request.bytes
  /\ request.at # "waiting" => request.held = 0

RateIInv == RateTypeOK /\ Covered

LEMMA CapacityIsNatural ==
  ASSUME CapsTypeOK
  PROVE  token_capacity \in Nat
<1>1. Limited => mbps_max \in Nat
  <2>1. caps.server \in Nat \cup {NoCap} /\ caps.client \in Nat
    BY DEF CapsTypeOK
  <2>2. CASE caps.server = NoCap
    BY <2>1, <2>2 DEF Limited, mbps_max
  <2>3. CASE caps.server # NoCap /\ caps.client = 0
    BY <2>1, <2>3 DEF Limited, mbps_max
  <2>4. CASE caps.server # NoCap /\ caps.client # 0
    <3>1. mbps_max = Min({caps.server, caps.client})
      BY <2>4 DEF mbps_max
    <3>2. caps.server \in Nat /\ caps.client \in Nat
      BY <2>1, <2>4
    <3> QED BY <3>1, <3>2 DEF Min
  <2> QED BY <2>2, <2>3, <2>4
<1>2. TokensPerMbps \in Nat
  BY RateAssumption
<1> QED BY <1>1, <1>2 DEF token_capacity

LEMMA MinOfTwo ==
  ASSUME NEW a \in Int, NEW b \in Int
  PROVE  Min({a, b}) = IF a <= b THEN a ELSE b
  BY DEF Min

LEMMA RateInitEstablishes ==
  ASSUME CapsTypeOK, RateInit
  PROVE  RateIInv
<1>1. token_capacity \in Nat /\ MaxMessage \in Nat /\ MaxMessage >= 1
  BY CapacityIsNatural, RateAssumption
<1>2. RateTypeOK
  BY <1>1 DEF RateTypeOK, Request, RateInit, NoRequest, Burst
<1>3. Covered
  BY <1>1 DEF Covered, RateInit, NoRequest, Burst
<1> QED BY <1>2, <1>3 DEF RateIInv

\* The refill of a tick: a waiting message takes what it still lacks of it.
LEMMA TickPreserves ==
  ASSUME RateIInv, NEW cancelled, Tick(cancelled)
  PROVE  RateIInv'
<1> DEFINE added == token_capacity - bucket
           lacks == request.bytes - request.held
           waits == request.at = "waiting"
           held == request.held + fill.taken
           done == waits /\ held = request.bytes
<1>1. /\ token_capacity \in Nat /\ MaxMessage \in Nat /\ bucket \in Nat /\ allowance \in Int
      /\ request.held \in Nat /\ request.bytes \in 0 .. MaxMessage
  BY CapacityIsNatural, RateAssumption DEF RateIInv, RateTypeOK, Request
<1>2. /\ limiter = "run" /\ bucket <= token_capacity /\ bucket + request.held <= allowance
      /\ waits => request.held < request.bytes
      /\ ~waits => request.held = 0
  BY DEF RateIInv, Covered, Tick
<1>3. /\ fill.added = added
      /\ fill.taken = IF waits THEN (IF added <= lacks THEN added ELSE lacks) ELSE 0
  BY <1>1, MinOfTwo DEF fill
<1>4. /\ bucket' = bucket + fill.added - fill.taken
      /\ request' = IF done THEN [request EXCEPT !.at = "granted", !.held = 0]
                    ELSE [request EXCEPT !.held = held]
      /\ allowance' = Min({allowance + token_capacity, Burst})
                        - (IF done THEN request.bytes ELSE 0)
      /\ caps' = caps /\ limiter' = limiter
  BY DEF Tick
<1>5. token_capacity' = token_capacity
  BY <1>4 DEF token_capacity, Limited, mbps_max
<1>6. held \in Nat /\ (waits => held <= request.bytes) /\ (~waits => held = 0)
      /\ bucket' \in Nat /\ bucket' <= token_capacity
  <2>1. fill.taken \in Nat /\ fill.taken <= added /\ (waits => fill.taken <= lacks)
    BY <1>1, <1>2, <1>3
  <2>2. held \in Nat /\ bucket' \in Nat /\ bucket' <= token_capacity
    <3>1. bucket' = bucket + added - fill.taken
      BY <1>3, <1>4
    <3>2. added \in Nat
      BY <1>1, <1>2
    <3> QED BY <1>1, <2>1, <3>1, <3>2
  <2>3. waits => held <= request.bytes
    BY <1>1, <2>1
  <2>4. ~waits => held = 0
    BY <1>1, <1>2, <1>3
  <2> QED BY <2>2, <2>3, <2>4
<1>7. bucket' + held = token_capacity + request.held
  BY <1>1, <1>2, <1>3, <1>4
<1>8. token_capacity + request.held <= Min({allowance + token_capacity, Burst})
      /\ Min({allowance + token_capacity, Burst}) \in Int
  <2>1. Burst \in Int /\ allowance + token_capacity \in Int
    BY <1>1 DEF Burst
  <2>2. token_capacity + request.held <= Burst
    BY <1>1, <1>2, RateAssumption DEF Burst
  <2>3. token_capacity + request.held <= allowance + token_capacity
    BY <1>1, <1>2
  <2> QED BY <2>1, <2>2, <2>3, MinOfTwo
<1>9. CASE done
  <2>1. request' = [request EXCEPT !.at = "granted", !.held = 0]
        /\ allowance' = Min({allowance + token_capacity, Burst}) - request.bytes
    BY <1>4, <1>9
  <2>2. bucket' <= allowance' /\ allowance' \in Int
    <3>1. bucket' + request.bytes = token_capacity + request.held
      BY <1>7, <1>9
    <3>2. bucket' \in Nat
      BY <1>6
    <3> HIDE DEF held
    <3> QED BY <1>1, <1>8, <2>1, <3>1, <3>2
  <2>3. request'.at = "granted" /\ request'.held = 0
    BY <2>1 DEF RateIInv, RateTypeOK, Request
  <2>4. RateTypeOK'
    <3>1. request' \in Request
      BY <2>1 DEF RateIInv, RateTypeOK, Request
    <3>2. CapsTypeOK' /\ limiter' \in {"run", "gone"} /\ bucket' \in Nat
      BY <1>4, <1>6 DEF RateIInv, RateTypeOK, CapsTypeOK
    <3> QED BY <2>2, <3>1, <3>2 DEF RateTypeOK
  <2>5. Covered'
    <3>1. bucket' \in Nat /\ bucket' <= token_capacity'
      BY <1>5, <1>6
    <3>2. bucket' + request'.held <= allowance'
      <4>1. \A n \in Nat : n + 0 = n
        OBVIOUS
      <4>2. bucket' + 0 = bucket'
        BY <3>1, <4>1, Zenon
      <4> QED BY <2>2, <2>3, <4>2, Zenon
    <3>3. request'.at # "waiting"
      BY <2>3
    <3> QED BY <2>3, <3>1, <3>2, <3>3 DEF Covered
  <2> QED BY <2>4, <2>5 DEF RateIInv
<1>10. CASE ~done
  <2>1. request' = [request EXCEPT !.held = held]
        /\ allowance' = Min({allowance + token_capacity, Burst})
    BY <1>4, <1>8, <1>10
  <2>2. bucket' + held <= allowance' /\ allowance' \in Int
    BY <1>7, <1>8, <2>1
  <2>3. request'.at = request.at /\ request'.held = held /\ request'.bytes = request.bytes
    BY <2>1 DEF RateIInv, RateTypeOK, Request
  <2>4. RateTypeOK'
    BY <1>4, <1>6, <2>1, <2>2 DEF RateIInv, RateTypeOK, Request, CapsTypeOK
  <2>5. waits => held < request.bytes
    BY <1>1, <1>6, <1>10
  <2> QED BY <1>5, <1>6, <2>2, <2>3, <2>4, <2>5 DEF RateIInv, Covered
<1> QED BY <1>9, <1>10

LEMMA RateStepPreserves ==
  ASSUME RateIInv, [LimiterNext]_rateVars
  PROVE  RateIInv'
<1>1. /\ token_capacity \in Nat /\ MaxMessage \in Nat /\ bucket \in Nat /\ allowance \in Int
      /\ request.held \in Nat /\ request.bytes \in 0 .. MaxMessage
  BY CapacityIsNatural, RateAssumption DEF RateIInv, RateTypeOK, Request
<1>2. ASSUME caps' = caps
      PROVE  token_capacity' = token_capacity /\ CapsTypeOK'
  BY <1>2 DEF token_capacity, Limited, mbps_max, RateIInv, RateTypeOK, Request, CapsTypeOK
<1>3. CASE Ask
  <2> PICK bytes \in 1 .. MaxMessage : request_to_send(bytes)
    BY <1>3 DEF Ask
  <2>1. request.held = 0
    BY <1>3 DEF Ask, RateIInv, Covered
  <2> QED BY <1>1, <1>2, <2>1 DEF request_to_send, RateIInv, RateTypeOK, Request, Covered
<1>4. CASE Answered
  BY <1>1, <1>2, <1>4 DEF Answered, NoRequest, RateIInv, RateTypeOK, Request, Covered
<1>5. ASSUME NEW cancelled \in BOOLEAN, Spawn(cancelled)
      PROVE  RateIInv'
  BY <1>1, <1>2, <1>5 DEF Spawn, RateIInv, RateTypeOK, Request, Covered
<1>6. CASE try_acquire_many
  BY <1>1, <1>2, <1>6 DEF try_acquire_many, RateIInv, RateTypeOK, Request, Covered
<1>7. CASE acquire_many
  <2>1. request' = [request EXCEPT !.at = "waiting", !.held = bucket] /\ bucket' = 0
        /\ UNCHANGED <<caps, limiter, allowance>> /\ request.bytes > bucket /\ request.held = 0
    BY <1>7 DEF acquire_many, RateIInv, Covered
  <2>2. request'.at = "waiting" /\ request'.held = bucket /\ request'.bytes = request.bytes
    BY <2>1 DEF RateIInv, RateTypeOK, Request
  <2>3. RateTypeOK'
    BY <1>1, <1>2, <2>1 DEF RateIInv, RateTypeOK, Request
  <2>4. Covered'
    BY <1>1, <1>2, <2>1, <2>2 DEF RateIInv, Covered
  <2> QED BY <2>3, <2>4 DEF RateIInv
<1>8. ASSUME NEW cancelled \in BOOLEAN, LimiterStops(cancelled)
      PROVE  RateIInv'
  <2>1. limiter' = "gone" /\ bucket' = bucket + request.held /\ UNCHANGED <<caps, allowance>>
    BY <1>8 DEF LimiterStops
  <2>2. \/ /\ request' = [request EXCEPT !.at = "refused", !.held = 0]
           /\ request'.at = "refused" /\ request'.held = 0
        \/ request' = request /\ request.at # "waiting" /\ request.held = 0
    BY <1>8 DEF LimiterStops, RateIInv, RateTypeOK, Request, Covered
  <2>3. RateTypeOK'
    <3>1. request' \in Request
      <4>1. request \in Request
        BY DEF RateIInv, RateTypeOK
      <4>2. [request EXCEPT !.at = "refused", !.held = 0] \in Request
        BY <4>1 DEF Request
      <4> QED BY <2>2, <4>1, <4>2
    <3>2. bucket' \in Nat
      BY <1>1, <2>1
    <3> QED BY <1>1, <1>2, <2>1, <3>1, <3>2 DEF RateTypeOK
  <2>4. Covered'
    BY <1>1, <2>1, <2>2 DEF RateIInv, Covered
  <2> QED BY <2>3, <2>4 DEF RateIInv
<1>9. CASE UNCHANGED rateVars
  BY <1>2, <1>9 DEF rateVars, RateIInv, RateTypeOK, Request, Covered
<1> QED
  BY <1>3, <1>4, <1>5, <1>6, <1>7, <1>8, <1>9, TickPreserves DEF LimiterNext, RateNext

\* In every stretch of time at most a burst and a bucket for each of its ticks
\* are granted, although a message that waits holds tokens which the refill does
\* not count (TokenBucket::get_tokens and fill of rate_limit.rs).
THEOREM RateIsKept == LimiterSpec => []RateHolds
<1>1. CapsTypeOK /\ RateInit => RateIInv
  BY RateInitEstablishes
<1>2. RateIInv /\ [LimiterNext]_rateVars => RateIInv'
  BY RateStepPreserves
<1>3. RateIInv => RateHolds
  <2> SUFFICES ASSUME RateIInv PROVE allowance >= 0
    BY DEF RateHolds
  <2>1. bucket \in Nat /\ request.held \in Nat /\ allowance \in Int
    BY DEF RateIInv, RateTypeOK, Request
  <2>2. bucket + request.held <= allowance
    BY DEF RateIInv, Covered
  <2> QED BY <2>1, <2>2
<1> QED BY <1>1, <1>2, <1>3, PTL DEF LimiterSpec

-----------------------------------------------------------------------------
(* The pipeline.                                                           *)

\* What is on the event channel.
Posted ==
  [kind : {"CursorChange", "CursorImage"}, id : Range(Image)]
    \union [kind : {"DisplayConfiguration"}, id : Nat, width : Widths]

IsConfig(m) == m.kind = "DisplayConfiguration"

CursorTypeOK ==
  /\ cursor \in Serials
  /\ notices \in Seq(Serials)
  /\ noticed \in Serials \union {NoCursor}
  /\ DOMAIN cursor_cache \subseteq Serials
  /\ changes \in Nat /\ fails \in Nat
  /\ ec \in Seq(Posted)

\* The client has an image, or will when it has received what is on its way.
Kept(id) == id \in client_cache \/ \E i \in DOMAIN ec : ec[i] = CursorImage(id)

\* The backend's cache names images by their serials, and the client has each
\* of them or will; the last one sent is in it.
Cached ==
  /\ \A s \in DOMAIN cursor_cache : cursor_cache[s] = Image[s] /\ Kept(Image[s])
  /\ last_cursor_id = NoCursor \/ last_cursor_id \in Range(cursor_cache)

\* A change on its way finds its image at the client, or in front of it.
Resolves ==
  \A i \in DOMAIN ec : ec[i].kind = "CursorChange" =>
    \/ ec[i].id \in client_cache
    \/ \E j \in 1 .. i - 1 : ec[j] = CursorImage(ec[i].id)

\* The last notice is of the cursor; when it has been taken, the image is being
\* captured or was the last to be sent.
Followed ==
  (changes > 0 /\ fails = 0) =>
    \/ notices # <<>> /\ notices[Len(notices)] = cursor
    \/ notices = <<>> /\ (noticed # NoCursor \/ last_cursor_id = Image[cursor])

CursorIInv == CursorTypeOK /\ Cached /\ Resolves /\ Followed /\ unresolved = {}

-----------------------------------------------------------------------------
Frame == [config : Nat, id : Nat, boxes : SUBSET SUBSET Nat, quiet : BOOLEAN]

MediaMessage ==
  [kind : {"Fragment", "Terminal"}, config : Nat, frame : Nat, encoder : Encoders, sequence : Nat,
   terminal : BOOLEAN, of : SUBSET Nat, at : Int, quiet : BOOLEAN]

Config == [kind : {"DisplayConfiguration"}, id : Nat, width : Widths]

ScreenTypeOK ==
  /\ workload \in [width : Widths, asks : SUBSET Widths, configs : Nat, damages : Nat, frames : Nat,
                   failures : Nat, stops : BOOLEAN, cursors : BOOLEAN, delivers : BOOLEAN,
                   caps : [server : Nat \union {NoCap}, client : Nat]]
  /\ backend \in [at : {"select", "commands", "await", "gone"}, id : Nat, width : Widths,
                  next : 0 .. EncoderCount]
  /\ backend.at = "commands" => backend.next < EncoderCount
  /\ backend.at = "await" => backend.next = EncoderCount
  /\ extent \in Widths
  /\ announced \in Nat
  /\ captured \subseteq SUBSET Nat
  /\ ndc # None => ndc[1] \in Nat /\ ndc[2] \in Widths
  /\ stopping \in BOOLEAN

\* What comes to an encoder between its polls is not a quiet frame.
Between ==
  \A e \in Encoders : encoder[e].at = "frames" /\ slot[e] # None => ~slot[e].quiet

FramesTypeOK ==
  /\ tb \in [config : Nat, width : Widths, boxes : SUBSET SUBSET Nat, next : Nat]
  /\ IsFiniteSet(tb.boxes)
  /\ DOMAIN slot = Encoders
  /\ \A e \in Encoders : slot[e] # None => slot[e] \in Frame /\ IsFiniteSet(slot[e].boxes)
  /\ command \in [Encoders -> Widths \union {0}]
  /\ encoder \in [Encoders -> [at : {"run", "frames", "gone"}, width : Widths,
                               out : Seq(MediaMessage)]]
  /\ Between

SendingTypeOK ==
  /\ mm \in Seq(MediaMessage)
  /\ handler \in [at : {"select", "gate", "send", "gone"}, msg : Seq(MediaMessage)]
  /\ handler.at \in {"gate", "send"} => handler.msg # None
  /\ net \subseteq MediaMessage

DrawingTypeOK ==
  /\ framer \in [config : Nat, width : Widths]
  /\ primary \in Seq(Config)
  /\ shown_config \in Nat

\* The configurations that the backend has announced and the Framer not got.
Announcements ==
  {ec[i] : i \in {j \in DOMAIN ec : IsConfig(ec[j])}} \union {primary[i] : i \in DOMAIN primary}

\* Those that the server or the client may have a width for.
Configurations ==
  {[id |-> backend.id, width |-> backend.width], [id |-> framer.config, width |-> framer.width]}
    \union {[id |-> a.id, width |-> a.width] : a \in Announcements}

\* Configurations are numbered in the order they are made, and reach the client
\* in that order.
Numbered ==
  /\ announced <= backend.id
  /\ backend.at \in {"commands", "await"} => announced < backend.id
  /\ tb.config <= backend.id
  /\ ndc # None => ndc[1] <= backend.id
  /\ \A e \in Encoders : slot[e] # None =>
       slot[e].config <= backend.id /\ (slot[e].quiet => slot[e].config <= announced)
  /\ framer.config <= announced
  /\ \A a \in Announcements : framer.config < a.id /\ a.id <= announced

InOrder ==
  /\ \A i, j \in DOMAIN ec : IsConfig(ec[i]) /\ IsConfig(ec[j]) /\ i < j => ec[i].id < ec[j].id
  /\ Len(primary) <= 1
  /\ \A i \in DOMAIN primary, j \in DOMAIN ec : IsConfig(ec[j]) => primary[i].id < ec[j].id

\* There is one width for the backend's configuration.
OneWidth == \A c \in Configurations : c.id = backend.id => c.width = backend.width

\* An encoder that has been told of the backend's configuration has its width,
\* or the command.
Told ==
  \A e \in Encoders :
    /\ encoder[e].at # "gone"
    /\ \/ announced = backend.id \/ backend.at = "await"
       \/ backend.at = "commands" /\ e < backend.next
    => IF command[e] = 0 THEN encoder[e].width = backend.width ELSE command[e] = backend.width

\* The messages that are on their way to the client.
InFlight ==
  (UNION {{encoder[e].out[i] : i \in DOMAIN encoder[e].out} : e \in Encoders})
    \union {mm[i] : i \in DOMAIN mm} \union {handler.msg[i] : i \in DOMAIN handler.msg} \union net

\* A message is placed where its part was captured, in a configuration.
PlacedIn(m, config, width) ==
  m.kind = "Fragment" /\ m.quiet /\ m.config = config =>
    m.at + Min(AreaOf(width, m.encoder)) = Min(m.of)

Sound(m) ==
  /\ m.config <= backend.id
  /\ Size(m) \in 1 .. MaxMessage
  /\ \A c \in Configurations : PlacedIn(m, c.id, c.width)

AllSound == \A m \in InFlight : Sound(m)

\* The Framer has the configuration that the application was told of last, and
\* so have its draws.
Drawn ==
  /\ framer.config = shown_config
  /\ \A d \in draws : d.config = shown_config /\ (d.quiet => d.at = d.of)

\* The handler waits for the answer to a request before it makes another.
OneRequest == handler.at \in {"select", "send"} => request.at = "none"

TypesOK == ScreenTypeOK /\ FramesTypeOK /\ SendingTypeOK /\ DrawingTypeOK

IInv ==
  /\ TypesOK
  /\ Numbered /\ InOrder /\ OneWidth /\ Told /\ AllSound /\ Drawn /\ DrawnInPlace
  /\ OneRequest /\ RateIInv
  /\ CursorIInv

-----------------------------------------------------------------------------
(* Sets of numbers, and the event channel.                                 *)

LEMMA NatLeast ==
  ASSUME NEW S, S \subseteq Nat, S # {}
  PROVE  \E x \in S : \A y \in S : x <= y
<1>1. PICK R : R = OpToRel(<, Nat)
  OBVIOUS
<1>2. IsWellFoundedOn(R, Nat)
  BY <1>1, NatLessThanWellFounded
<1>3. PICK x \in S : \A y \in S : ~(<<y, x>> \in R)
  BY <1>2, WFMin
<1>4. \A y \in S : ~(y < x)
  <2> SUFFICES ASSUME NEW y \in S, y < x PROVE FALSE
    OBVIOUS
  <2>1. <<y, x>> \in R
    BY <1>1 DEF OpToRel
  <2> QED BY <1>3, <2>1
<1> QED BY <1>4

LEMMA MinIsLeast ==
  ASSUME NEW S, S \subseteq Nat, S # {}
  PROVE  Min(S) \in S /\ \A y \in S : Min(S) <= y
  BY NatLeast DEF Min

\* What sending to the client adds, and receiving takes.
LEMMA Appends ==
  ASSUME ec \in Seq(Posted), NEW m \in Posted, ec' = Append(ec, m)
  PROVE  /\ ec' \in Seq(Posted)
         /\ Len(ec') = Len(ec) + 1
         /\ DOMAIN ec = 1 .. Len(ec) /\ DOMAIN ec' = 1 .. Len(ec) + 1 /\ Len(ec) \in Nat
         /\ \A i \in DOMAIN ec : ec'[i] = ec[i]
         /\ ec'[Len(ec) + 1] = m
  OBVIOUS

LEMMA Receives ==
  ASSUME ec \in Seq(Posted), ec # <<>>, ec' = Tail(ec)
  PROVE  /\ ec' \in Seq(Posted) /\ Head(ec) = ec[1] /\ Head(ec) \in Posted
         /\ Len(ec) \in Nat \ {0}
         /\ DOMAIN ec = 1 .. Len(ec) /\ DOMAIN ec' = 1 .. Len(ec) - 1
         /\ \A i \in DOMAIN ec' : ec'[i] = ec[i + 1] /\ i + 1 \in DOMAIN ec
  OBVIOUS

\* The cursor's part when something is sent, ...
LEMMA SentKeeps ==
  ASSUME CursorTypeOK, Resolves, NEW m \in Posted, ec' = Append(ec, m),
         client_cache' = client_cache, m.kind = "CursorChange" => Kept(m.id)
  PROVE  /\ Resolves' /\ \A id : Kept(id) => Kept(id)'
         /\ \A id : m = CursorImage(id) => Kept(id)'
<1>1. /\ DOMAIN ec = 1 .. Len(ec) /\ DOMAIN ec' = 1 .. Len(ec) + 1 /\ Len(ec) \in Nat
      /\ \A i \in DOMAIN ec : ec'[i] = ec[i]
      /\ ec'[Len(ec) + 1] = m
  BY Appends DEF CursorTypeOK
<1>2. \A id : Kept(id) => Kept(id)'
  BY <1>1 DEF Kept
<1>3. \A id : m = CursorImage(id) => Kept(id)'
  BY <1>1 DEF Kept
<1>4. Resolves'
  <2> SUFFICES ASSUME NEW i \in DOMAIN ec', ec'[i].kind = "CursorChange"
               PROVE  \/ ec'[i].id \in client_cache
                      \/ \E j \in 1 .. i - 1 : ec'[j] = CursorImage(ec'[i].id)
    BY DEF Resolves, CursorImage
  <2>1. CASE i \in DOMAIN ec
    <3>1. ec'[i] = ec[i] /\ i \in Nat
      BY <1>1, <2>1
    <3>2. \/ ec[i].id \in client_cache
          \/ \E j \in 1 .. i - 1 : ec[j] = CursorImage(ec[i].id)
      BY <2>1, <3>1 DEF Resolves
    <3>3. \A j \in 1 .. i - 1 : ec'[j] = ec[j]
      BY <1>1, <2>1
    <3> QED BY <3>1, <3>2, <3>3
  <2>2. CASE i = Len(ec) + 1
    <3>1. ec'[i] = m /\ i - 1 = Len(ec)
      BY <1>1, <2>2
    <3>2. Kept(m.id)
      BY <3>1
    <3> QED BY <1>1, <3>1, <3>2 DEF Kept
  <2> QED BY <1>1, <2>1, <2>2
<1> QED BY <1>2, <1>3, <1>4

\* ... and when the client takes what comes first.
LEMMA TakenKeeps ==
  ASSUME CursorTypeOK, Resolves, ec # <<>>, ec' = Tail(ec), client_cache \subseteq client_cache',
         Head(ec).kind = "CursorImage" => Head(ec).id \in client_cache'
  PROVE  Resolves' /\ (\A id : Kept(id) => Kept(id)') /\ ec' \in Seq(Posted)
<1>1. /\ ec' \in Seq(Posted) /\ Head(ec) = ec[1] /\ Len(ec) \in Nat \ {0}
      /\ DOMAIN ec = 1 .. Len(ec) /\ DOMAIN ec' = 1 .. Len(ec) - 1
      /\ \A i \in DOMAIN ec' : ec'[i] = ec[i + 1] /\ i + 1 \in DOMAIN ec
  BY Receives DEF CursorTypeOK
<1>2. ASSUME NEW id, NEW j \in DOMAIN ec, ec[j] = CursorImage(id)
      PROVE  id \in client_cache' \/ (j - 1 \in DOMAIN ec' /\ ec'[j - 1] = CursorImage(id))
  <2>1. CASE j = 1
    BY <1>1, <1>2, <2>1 DEF CursorImage
  <2>2. CASE j # 1
    BY <1>1, <1>2, <2>2
  <2> QED BY <2>1, <2>2
<1>3. \A id : Kept(id) => Kept(id)'
  BY <1>2 DEF Kept, CursorImage
<1>4. Resolves'
  <2> SUFFICES ASSUME NEW i \in DOMAIN ec', ec'[i].kind = "CursorChange"
               PROVE  \/ ec'[i].id \in client_cache'
                      \/ \E j \in 1 .. i - 1 : ec'[j] = CursorImage(ec'[i].id)
    BY DEF Resolves, CursorImage
  <2>1. ec'[i] = ec[i + 1] /\ i + 1 \in DOMAIN ec /\ i \in Nat
    BY <1>1
  <2>2. PICK k \in DOMAIN ec : k = i + 1 /\ ec'[i] = ec[k]
    BY <2>1
  <2>21. PICK id : id = ec[k].id
    OBVIOUS
  <2>3. \/ id \in client_cache
        \/ \E j \in 1 .. k - 1 : ec[j] = CursorImage(id)
    BY <2>2, <2>21 DEF Resolves
  <2>4. CASE id \in client_cache
    BY <2>2, <2>4, <2>21
  <2>5. CASE \E j \in 1 .. k - 1 : ec[j] = CursorImage(id)
    <3>1. PICK j \in 1 .. k - 1 : ec[j] = CursorImage(id)
      BY <2>5
    <3>2. j \in DOMAIN ec /\ j \in 1 .. i
      BY <1>1, <2>1, <2>2, <3>1
    <3>3. id \in client_cache' \/ (j - 1 \in DOMAIN ec' /\ ec'[j - 1] = CursorImage(id))
      BY <1>2, <3>1, <3>2
    <3>4. j - 1 \in DOMAIN ec' => j - 1 \in 1 .. i - 1
      BY <1>1, <2>1, <3>2
    <3> QED BY <2>2, <2>21, <3>3, <3>4
  <2> QED BY <2>3, <2>4, <2>5
<1> QED BY <1>1, <1>3, <1>4

-----------------------------------------------------------------------------
(* The cursor.                                                             *)

LEMMA ImageIds ==
  /\ \A s \in Serials : Image[s] \in Range(Image)
  /\ \A id \in Range(Image) : id # NoCursor
  /\ \A s \in Serials : s # NoCursor
  BY CursorAssumption DEF Serials, Range

LEMMA CacheNames ==
  ASSUME CursorIInv
  PROVE  \A id \in Range(cursor_cache) : id \in Range(Image) /\ Kept(id)
<1> SUFFICES ASSUME NEW s \in DOMAIN cursor_cache
             PROVE  cursor_cache[s] \in Range(Image) /\ Kept(cursor_cache[s])
  BY DEF Range
<1>1. s \in Serials /\ cursor_cache[s] = Image[s] /\ Kept(Image[s])
  BY DEF CursorIInv, CursorTypeOK, Cached
<1> QED BY <1>1, ImageIds

\* However SendCursor ends, the client has the image that it was called for, or
\* will.
LEMMA SendCursorKeeps ==
  ASSUME CursorIInv, NEW id \in Range(Image), NEW msg, msg \in {CursorChange(id), CursorImage(id)},
         msg = CursorChange(id) => Kept(id), SendCursor(id, msg), client_cache' = client_cache
  PROVE  /\ Resolves' /\ (\A x : Kept(x) => Kept(x)') /\ Kept(id)'
         /\ ec' \in Seq(Posted) /\ last_cursor_id' = id
<1>1. last_cursor_id' = id
  BY DEF SendCursor
<1>2. CursorTypeOK /\ Resolves /\ ec \in Seq(Posted)
  BY DEF CursorIInv, CursorTypeOK
<1>3. CASE id # last_cursor_id
  <2>1. ec' = Append(ec, msg)
    BY <1>3 DEF SendCursor
  <2>2. msg \in Posted /\ msg.id = id
    BY DEF Posted, CursorChange, CursorImage
  <2>3. msg.kind = "CursorChange" => Kept(msg.id)
    BY <2>2 DEF CursorChange, CursorImage
  <2>4. Resolves' /\ (\A x : Kept(x) => Kept(x)') /\ (\A x : msg = CursorImage(x) => Kept(x)')
    BY <1>2, <2>1, <2>2, <2>3, SentKeeps
  <2>5. ec' \in Seq(Posted)
    BY <1>2, <2>1, <2>2, Appends
  <2> QED BY <1>1, <2>4, <2>5
<1>4. CASE id = last_cursor_id
  <2>1. ec' = ec
    BY <1>4 DEF SendCursor
  <2>2. Resolves' /\ \A x : Kept(x) => Kept(x)'
    BY <1>2, <2>1 DEF Resolves, Kept, CursorImage
  <2>3. Kept(id)
    BY <1>4, CacheNames, ImageIds DEF CursorIInv, Cached
  <2> QED BY <1>1, <1>2, <2>1, <2>2, <2>3
<1> QED BY <1>3, <1>4

LEMMA XCursorChangesKeeps ==
  ASSUME CursorIInv, NEW s \in Serials, XCursorChanges(s)
  PROVE  CursorIInv'
<1>1. /\ cursor' = s /\ notices' = Append(notices, s) /\ changes' = changes + 1
      /\ UNCHANGED <<cursor_cache, last_cursor_id, noticed, ec, client_cache, shown, unresolved, fails>>
  BY DEF XCursorChanges, server, client
<1>2. notices' \in Seq(Serials) /\ notices' # <<>> /\ notices'[Len(notices')] = s
  BY <1>1 DEF CursorIInv, CursorTypeOK
<1>3. CursorTypeOK'
  BY <1>1, <1>2 DEF CursorIInv, CursorTypeOK
<1>4. Cached' /\ Resolves' /\ unresolved' = {}
  BY <1>1 DEF CursorIInv, Cached, Resolves, Kept, CursorImage
<1>5. Followed'
  BY <1>1, <1>2 DEF Followed
<1> QED BY <1>3, <1>4, <1>5 DEF CursorIInv

\* What a notice leaves when it is taken.
LEMMA NoticeTaken ==
  ASSUME CursorIInv, notices # <<>>, notices' = Tail(notices)
  PROVE  /\ Head(notices) \in Serials /\ notices' \in Seq(Serials)
         /\ (changes > 0 /\ fails = 0) =>
              IF notices' = <<>> THEN Head(notices) = cursor
              ELSE notices'[Len(notices')] = cursor
<1>1. notices \in Seq(Serials) /\ Len(notices) \in Nat
  BY DEF CursorIInv, CursorTypeOK
<1>2. /\ Head(notices) \in Serials /\ notices' \in Seq(Serials) /\ Head(notices) = notices[1]
      /\ Len(notices') = Len(notices) - 1
      /\ \A i \in 1 .. Len(notices) - 1 : notices'[i] = notices[i + 1]
  BY <1>1
<1>3. (changes > 0 /\ fails = 0) => notices[Len(notices)] = cursor
  BY DEF CursorIInv, Followed
<1>4. CASE notices' = <<>>
  <2>1. Len(notices') = 0
    BY ONLY <1>4
  <2>2. \A n \in Nat : 0 = n - 1 => n = 1
    OBVIOUS
  <2>3. Len(notices) = 1
    BY ONLY <1>1, <1>2, <2>1, <2>2
  <2> QED BY <1>2, <1>3, <1>4, <2>3
<1>5. CASE notices' # <<>>
  <2>1. Len(notices') \in Nat \ {0}
    BY <1>2, <1>5
  <2>2. notices'[Len(notices')] = notices[Len(notices)]
    BY <1>1, <1>2, <2>1
  <2> QED BY <1>2, <1>3, <1>5, <2>2
<1> QED BY <1>4, <1>5

LEMMA CachedChangeKeeps ==
  ASSUME CursorIInv, CachedChange
  PROVE  CursorIInv'
<1>1. PICK s, id : s = Head(notices) /\ id = cursor_cache[s]
  OBVIOUS
<1>2. /\ noticed = NoCursor /\ notices # <<>> /\ s \in DOMAIN cursor_cache
      /\ SendCursor(id, CursorChange(id)) /\ notices' = Tail(notices)
      /\ UNCHANGED <<cursor, cursor_cache, noticed, client_cache, unresolved, changes, fails>>
  BY <1>1 DEF CachedChange, client
<1>3. id \in Range(cursor_cache) /\ id = Image[s]
  BY <1>1, <1>2 DEF CursorIInv, Cached, Range
<1>4. id \in Range(Image) /\ Kept(id)
  BY <1>3, CacheNames
<1>5. /\ Resolves' /\ (\A x : Kept(x) => Kept(x)')
      /\ ec' \in Seq(Posted) /\ last_cursor_id' = id
  BY <1>2, <1>4, SendCursorKeeps
<1>6. /\ notices' \in Seq(Serials)
      /\ (changes > 0 /\ fails = 0) =>
           IF notices' = <<>> THEN s = cursor ELSE notices'[Len(notices')] = cursor
  BY <1>1, <1>2, NoticeTaken
<1>7. CursorTypeOK'
  BY <1>2, <1>5, <1>6 DEF CursorIInv, CursorTypeOK
<1>8. Cached' /\ unresolved' = {}
  BY <1>2, <1>3, <1>5 DEF CursorIInv, Cached
<1>9. Followed'
  BY <1>2, <1>3, <1>5, <1>6 DEF Followed
<1> QED BY <1>5, <1>7, <1>8, <1>9 DEF CursorIInv

LEMMA AskForImageKeeps ==
  ASSUME CursorIInv, AskForImage
  PROVE  CursorIInv'
<1>1. /\ notices # <<>> /\ noticed' = Head(notices) /\ notices' = Tail(notices)
      /\ UNCHANGED <<cursor, cursor_cache, last_cursor_id, ec, client_cache, unresolved, changes, fails>>
  BY DEF AskForImage, client
<1>2. /\ Head(notices) \in Serials /\ notices' \in Seq(Serials)
      /\ (changes > 0 /\ fails = 0) =>
           notices' = <<>> \/ notices'[Len(notices')] = cursor
  BY <1>1, NoticeTaken
<1>3. CursorTypeOK' /\ noticed' # NoCursor
  BY <1>1, <1>2, ImageIds DEF CursorIInv, CursorTypeOK
<1>4. Cached' /\ Resolves' /\ unresolved' = {}
  BY <1>1 DEF CursorIInv, Cached, Resolves, Kept, CursorImage
<1>5. Followed'
  BY <1>1, <1>2, <1>3 DEF Followed
<1> QED BY <1>3, <1>4, <1>5 DEF CursorIInv

LEMMA CaptureFailsKeeps ==
  ASSUME CursorIInv, capture_cursor_fails
  PROVE  CursorIInv'
<1>1. /\ fails' = fails + 1 /\ noticed' = NoCursor
      /\ UNCHANGED <<cursor, notices, cursor_cache, last_cursor_id, ec, client_cache, unresolved, changes>>
  BY DEF capture_cursor_fails, client
<1>2. CursorTypeOK' /\ fails' # 0
  BY <1>1 DEF CursorIInv, CursorTypeOK
<1>3. Cached' /\ Resolves' /\ unresolved' = {}
  BY <1>1 DEF CursorIInv, Cached, Resolves, Kept, CursorImage
<1>4. Followed'
  BY <1>2 DEF Followed
<1> QED BY <1>2, <1>3, <1>4 DEF CursorIInv

LEMMA CaptureKeeps ==
  ASSUME CursorIInv, capture_cursor
  PROVE  CursorIInv'
<1>1. PICK id : id = Image[cursor]
  OBVIOUS
<1>2. /\ noticed' = NoCursor
      /\ UNCHANGED <<cursor, notices, client_cache, unresolved, changes, fails>>
  BY DEF capture_cursor, client
<1>3. cursor \in Serials /\ id \in Range(Image)
  BY <1>1, ImageIds DEF CursorIInv, CursorTypeOK
<1>4. /\ Resolves' /\ ec' \in Seq(Posted) /\ last_cursor_id' = id
      /\ DOMAIN cursor_cache' \subseteq Serials
      /\ \A s \in DOMAIN cursor_cache' : cursor_cache'[s] = Image[s] /\ Kept(Image[s])'
      /\ cursor \in DOMAIN cursor_cache'
  <2>1. CASE noticed # cursor /\ cursor \in DOMAIN cursor_cache
    <3>1. cursor_cache[cursor] = id /\ Kept(id)
      BY <1>1, <2>1 DEF CursorIInv, Cached
    <3>2. SendCursor(id, CursorChange(id)) /\ cursor_cache' = cursor_cache
      BY <1>1, <2>1, <3>1 DEF capture_cursor
    <3>3. Resolves' /\ (\A x : Kept(x) => Kept(x)') /\ ec' \in Seq(Posted) /\ last_cursor_id' = id
      BY <1>2, <1>3, <3>1, <3>2, SendCursorKeeps
    <3> QED BY <2>1, <3>2, <3>3 DEF CursorIInv, CursorTypeOK, Cached
  <2>2. CASE ~(noticed # cursor /\ cursor \in DOMAIN cursor_cache)
    <3>1. PICK msg : msg = IF id \in Range(cursor_cache) THEN CursorChange(id) ELSE CursorImage(id)
      OBVIOUS
    <3>2. /\ SendCursor(id, msg)
          /\ cursor_cache' = [s \in DOMAIN cursor_cache \union {cursor} |->
                                IF s = cursor THEN id ELSE cursor_cache[s]]
      BY <1>1, <2>2, <3>1 DEF capture_cursor, CacheSerial
    <3>3. msg \in {CursorChange(id), CursorImage(id)} /\ (msg = CursorChange(id) => Kept(id))
      BY <3>1, CacheNames DEF CursorChange, CursorImage
    <3>4. /\ Resolves' /\ (\A x : Kept(x) => Kept(x)') /\ Kept(id)'
          /\ ec' \in Seq(Posted) /\ last_cursor_id' = id
      BY <1>2, <1>3, <3>2, <3>3, SendCursorKeeps
    <3>5. DOMAIN cursor_cache' \subseteq Serials /\ cursor \in DOMAIN cursor_cache'
      BY <1>3, <3>2 DEF CursorIInv, CursorTypeOK
    <3>6. ASSUME NEW s \in DOMAIN cursor_cache'
          PROVE  cursor_cache'[s] = Image[s] /\ Kept(Image[s])'
      <4>1. CASE s = cursor
        BY <1>1, <3>2, <3>4, <4>1
      <4>2. CASE s # cursor
        <5>1. s \in DOMAIN cursor_cache /\ cursor_cache'[s] = cursor_cache[s]
          BY <3>2, <4>2
        <5> QED BY <3>4, <5>1 DEF CursorIInv, Cached
      <4> QED BY <4>1, <4>2
    <3> QED BY <3>4, <3>5, <3>6
  <2> QED BY <2>1, <2>2
<1>5. CursorTypeOK'
  BY <1>2, <1>4 DEF CursorIInv, CursorTypeOK
<1>6. Cached'
  BY <1>1, <1>4 DEF Cached, Range
<1>7. Followed'
  BY <1>1, <1>2, <1>4 DEF CursorIInv, Followed
<1> QED BY <1>2, <1>4, <1>5, <1>6, <1>7 DEF CursorIInv

LEMMA TakeCursorKeeps ==
  ASSUME CursorIInv, TakeCursor
  PROVE  CursorIInv'
<1>1. /\ ec # <<>> /\ ec' = Tail(ec)
      /\ UNCHANGED <<cursor, notices, cursor_cache, last_cursor_id, noticed, changes, fails>>
  BY DEF TakeCursor, server
<1>2. /\ client_cache \subseteq client_cache'
      /\ Head(ec).kind = "CursorImage" => Head(ec).id \in client_cache'
  BY DEF TakeCursor, TakeCursorImage, TakeCursorChange
<1>3. CursorTypeOK /\ Resolves
  BY DEF CursorIInv
<1>4. Resolves' /\ (\A id : Kept(id) => Kept(id)') /\ ec' \in Seq(Posted)
  BY <1>1, <1>2, <1>3, TakenKeeps
<1>5. unresolved' = {}
  <2>1. CASE TakeCursorImage(Head(ec))
    BY <2>1 DEF CursorIInv, TakeCursorImage
  <2>2. CASE Head(ec).kind = "CursorChange" /\ TakeCursorChange(Head(ec))
    <3>1. Head(ec) = ec[1] /\ 1 \in DOMAIN ec
      BY <1>1, <1>3, Receives DEF CursorTypeOK
    <3>2. Head(ec).id \in client_cache
      BY <2>2, <3>1 DEF CursorIInv, Resolves
    <3> QED BY <2>2, <3>2 DEF CursorIInv, TakeCursorChange
  <2> QED BY <2>1, <2>2 DEF TakeCursor
<1>6. CursorTypeOK' /\ Cached' /\ Followed'
  BY <1>1, <1>3, <1>4 DEF CursorIInv, CursorTypeOK, Cached, Followed
<1> QED BY <1>4, <1>5, <1>6 DEF CursorIInv

-----------------------------------------------------------------------------
(* The areas of the encoders.                                              *)

LEMMA Division ==
  ASSUME NEW a \in Nat, NEW b \in Nat \ {0}
  PROVE  a \div b \in Nat /\ (a >= b => a \div b >= 1) /\ a % b \in Nat
<1>1. a \div b \in Nat
  OBVIOUS
<1>2. a >= b => a \div b >= 1
  OBVIOUS
<1>3. a % b \in Nat
  OBVIOUS
<1> QED BY <1>1, <1>2, <1>3

LEMMA LayoutTyped ==
  ASSUME NEW n \in Nat \ {0}, NEW rows \in 1 .. n
  PROVE  /\ Layout(n, rows).rows = rows
         /\ Layout(n, rows).cols \in Nat \ {0}
         /\ Score(Layout(n, rows)) \in Int /\ Score(Layout(n, rows)) + n * 10 \in Nat
<1>1. PICK cols : cols = DivCeil(n, rows)
  OBVIOUS
<1>2. n + rows - 1 \in Nat /\ n + rows - 1 >= rows /\ rows \in Nat \ {0}
  OBVIOUS
<1>3. cols \in Nat \ {0}
  BY <1>1, <1>2, Division DEF DivCeil
<1>4. rows * cols \in Nat
  BY <1>2, <1>3
<1>5. Distance(rows, cols) \in Nat
  BY <1>2, <1>3 DEF Distance
<1>6. /\ Layout(n, rows).rows = rows /\ Layout(n, rows).cols = cols
      /\ Layout(n, rows).unused = rows * cols - n
      /\ Layout(n, rows).squareness = Distance(rows, cols)
  BY <1>1 DEF Layout
<1>7. PICK u, d : u = rows * cols /\ d = Distance(rows, cols)
  OBVIOUS
<1>8. Score(Layout(n, rows)) = (u - n) * 10 + d /\ u \in Nat /\ d \in Nat
  BY <1>4, <1>5, <1>6, <1>7 DEF Score
<1>9. (u - n) * 10 + d \in Int /\ (u - n) * 10 + d + n * 10 \in Nat
  BY <1>8
<1> QED BY <1>3, <1>6, <1>8, <1>9

\* The choice of BestLayout is among the layouts tried.
LEMMA BestLayoutIsTried ==
  ASSUME NEW n \in Nat \ {0}
  PROVE  \E rows \in 1 .. n : BestLayout(n) = Layout(n, rows)
<1>1. PICK layouts : layouts = {Layout(n, rows) : rows \in 1 .. n}
  OBVIOUS
<1>2. \A l \in layouts : l.rows \in Nat /\ Score(l) \in Int /\ Score(l) + n * 10 \in Nat
  BY <1>1, LayoutTyped
<1>3. PICK S : S = {Score(l) + n * 10 : l \in layouts}
  OBVIOUS
<1>4. Layout(n, 1) \in layouts
  BY <1>1
<1>5. S \subseteq Nat /\ S # {}
  BY <1>2, <1>3, <1>4
<1>6. PICK low \in S : \A y \in S : low <= y
  BY <1>5, NatLeast
<1>7. PICK R : R = {l.rows : l \in {k \in layouts : Score(k) + n * 10 = low}}
  OBVIOUS
<1>8. R \subseteq Nat /\ R # {}
  BY <1>2, <1>3, <1>6, <1>7
<1>9. PICK few \in R : \A y \in R : few <= y
  BY <1>8, NatLeast
<1>10. PICK l \in layouts : Score(l) + n * 10 = low /\ l.rows = few
  BY <1>7, <1>9
<1>11. \A m \in layouts : Score(l) < Score(m) \/ (Score(l) = Score(m) /\ l.rows <= m.rows)
  <2> SUFFICES ASSUME NEW m \in layouts, ~(Score(l) < Score(m))
               PROVE  Score(l) = Score(m) /\ l.rows <= m.rows
    OBVIOUS
  <2>1. low <= Score(m) + n * 10 /\ Score(l) \in Int /\ Score(m) \in Int
    BY <1>2, <1>3, <1>6
  <2>2. Score(l) = Score(m)
    BY <1>10, <2>1
  <2>3. m.rows \in R
    BY <1>7, <1>10, <2>2
  <2> QED BY <1>9, <1>10, <2>2, <2>3
<1>12. BestLayout(n) \in layouts
  BY <1>1, <1>11 DEF BestLayout
<1> QED BY <1>1, <1>12

LEMMA AreaTyped ==
  ASSUME NEW width \in Widths, NEW e \in Encoders
  PROVE  /\ AreaOf(width, e) \subseteq Nat /\ IsFiniteSet(AreaOf(width, e))
         /\ Cardinality(AreaOf(width, e)) < MaxMessage
<1>1. EncoderCount \in Nat \ {0} /\ width \in Nat /\ e \in Nat
  BY MediaAssumption DEF Encoders
<1>2. PICK layout : layout = BestLayout(EncoderCount)
  OBVIOUS
<1>3. layout.cols \in Nat \ {0}
  BY <1>1, <1>2, BestLayoutIsTried, LayoutTyped
<1>4. PICK box : box = partition(width, 1, EncoderCount)[e]
  OBVIOUS
<1>5. e \in 0 .. EncoderCount - 1
  BY DEF Encoders
<1>6. box = Cell(width, 1, layout, e \div layout.cols, e % layout.cols)
  BY <1>2, <1>4, <1>5 DEF partition
<1>7. e % layout.cols \in Nat
  BY <1>1, <1>3, Division
<1>8. ASSUME NEW i \in Nat PROVE Edge(width, i, layout.cols) \in Nat
  <2>1. width * i \in Nat
    BY <1>1
  <2> QED BY <1>3, <2>1, Division DEF Edge
<1>9. box.x0 \in Nat /\ box.x1 \in Nat
  BY <1>6, <1>7, <1>8 DEF Cell
<1>10. AreaOf(width, e) = box.x0 .. box.x1 - 1
  BY <1>4, <1>5 DEF AreaOf, Areas
<1>11. IsFiniteSet(box.x0 .. box.x1 - 1)
  BY <1>9, FS_Interval
<1> QED BY <1>9, <1>10, <1>11, MediaAssumption

-----------------------------------------------------------------------------
(* What a step that leaves a part of the state alone keeps.                *)

LEMMA ScreenSame ==
  ASSUME IInv, UNCHANGED <<workload, screen, stopping>>
  PROVE  ScreenTypeOK'
  BY DEF IInv, TypesOK, ScreenTypeOK, screen, None

LEMMA FramesSame ==
  ASSUME IInv, UNCHANGED frames
  PROVE  FramesTypeOK'
  BY DEF IInv, TypesOK, FramesTypeOK, Between, frames, None

LEMMA SendingSame ==
  ASSUME IInv, UNCHANGED <<sending, net>>
  PROVE  SendingTypeOK'
  BY DEF IInv, TypesOK, SendingTypeOK, sending, None

LEMMA DrawingSame ==
  ASSUME IInv, UNCHANGED drawing
  PROVE  DrawingTypeOK' /\ Drawn' /\ DrawnInPlace'
  BY DEF IInv, TypesOK, DrawingTypeOK, Drawn, DrawnInPlace, drawing

LEMMA ConfigsSame ==
  ASSUME UNCHANGED <<ec, primary, framer>>, backend'.id = backend.id, backend'.width = backend.width
  PROVE  Announcements' = Announcements /\ Configurations' = Configurations
<1>1. Announcements' = Announcements
  BY DEF Announcements, IsConfig
<1> QED BY <1>1 DEF Configurations

LEMMA OrderSame ==
  ASSUME IInv, UNCHANGED <<ec, primary>>
  PROVE  InOrder'
  BY DEF IInv, InOrder, IsConfig

LEMMA NumbersSame ==
  ASSUME IInv, UNCHANGED <<screen, tb, slot, framer, primary, ec>>
  PROVE  Numbered' /\ OneWidth'
<1>1. Announcements' = Announcements /\ Configurations' = Configurations
  BY ConfigsSame DEF screen
<1> QED BY <1>1 DEF IInv, Numbered, OneWidth, screen, None

LEMMA ToldSame ==
  ASSUME IInv, UNCHANGED <<backend, announced, command, encoder>>
  PROVE  Told'
  BY DEF IInv, Told

LEMMA RateSame ==
  ASSUME IInv, UNCHANGED <<rateVars, handler>>
  PROVE  OneRequest' /\ RateIInv'
<1>1. RateIInv'
  BY RateStepPreserves DEF IInv
<1> QED BY <1>1 DEF IInv, OneRequest, rateVars

LEMMA CursorSame ==
  ASSUME IInv, UNCHANGED <<cursorVars, ec>>
  PROVE  CursorIInv'
  BY DEF IInv, CursorIInv, CursorTypeOK, Cached, Resolves, Followed, Kept, cursorVars, CursorImage

\* Messages stay sound while configurations are only added.
LEMMA FlightTyped ==
  ASSUME IInv
  PROVE  InFlight \subseteq MediaMessage
<1>1. ASSUME NEW e \in Encoders, NEW i \in DOMAIN encoder[e].out
      PROVE  encoder[e].out[i] \in MediaMessage
  <2>1. encoder[e].out \in Seq(MediaMessage)
    BY DEF IInv, TypesOK, FramesTypeOK
  <2> QED BY <2>1
<1>2. mm \in Seq(MediaMessage) /\ handler.msg \in Seq(MediaMessage) /\ net \subseteq MediaMessage
  BY DEF IInv, TypesOK, SendingTypeOK
<1> QED BY <1>1, <1>2 DEF InFlight

LEMMA SoundCarries ==
  ASSUME NEW m \in MediaMessage, Sound(m), backend.id \in Nat, backend'.id \in Nat,
         backend.id <= backend'.id,
         \A c \in Configurations' : c \in Configurations \/ backend.id < c.id
  PROVE  Sound(m)'
<1>1. m.config \in Nat /\ m.config <= backend.id
  BY DEF MediaMessage, Sound
<1>2. m.config <= backend'.id
  BY <1>1
<1>3. ASSUME NEW c \in Configurations' PROVE PlacedIn(m, c.id, c.width)
  <2>1. CASE c \in Configurations
    BY <2>1 DEF Sound
  <2>2. CASE backend.id < c.id
    <3>1. m.config # c.id
      BY <1>1, <2>2
    <3> QED BY <3>1 DEF PlacedIn
  <2> QED BY <1>3, <2>1, <2>2
<1> QED BY <1>2, <1>3 DEF Sound, Size, PlacedIn, AreaOf, Areas

LEMMA BackendId ==
  ASSUME IInv
  PROVE  backend.id \in Nat /\ backend.width \in Widths /\ announced \in Nat /\ framer.config \in Nat
  BY DEF IInv, TypesOK, ScreenTypeOK, DrawingTypeOK

LEMMA SoundStays ==
  ASSUME IInv, InFlight' \subseteq InFlight, UNCHANGED <<ec, primary, framer>>,
         backend'.id = backend.id, backend'.width = backend.width
  PROVE  AllSound'
<1>1. Configurations' = Configurations
  BY ConfigsSame
<1>2. ASSUME NEW m \in InFlight PROVE Sound(m)'
  <2>1. m \in MediaMessage /\ Sound(m) /\ backend.id \in Nat
    BY FlightTyped, BackendId DEF IInv, AllSound
  <2> QED BY <1>1, <2>1, SoundCarries
<1> QED BY <1>2 DEF AllSound

LEMMA FlightSame ==
  ASSUME UNCHANGED <<encoder, sending, net>>
  PROVE  InFlight' \subseteq InFlight
  BY DEF InFlight, sending

-----------------------------------------------------------------------------
(* The backend task.                                                       *)

LEMMA BackendTyped ==
  ASSUME IInv
  PROVE  /\ backend \in [at : {"select", "commands", "await", "gone"}, id : Nat, width : Widths,
                         next : 0 .. EncoderCount]
         /\ workload \in [width : Widths, asks : SUBSET Widths, configs : Nat, damages : Nat,
                          frames : Nat, failures : Nat, stops : BOOLEAN, cursors : BOOLEAN,
                          delivers : BOOLEAN, caps : [server : Nat \union {NoCap}, client : Nat]]
         /\ EncoderCount \in Nat \ {0}
  BY MediaAssumption DEF IInv, TypesOK, ScreenTypeOK

\* The configurations known to anyone are none newer than the backend's.
LEMMA ConfigsNumbered ==
  ASSUME IInv
  PROVE  /\ \A a \in Announcements : a \in Config
         /\ \A c \in Configurations : c.id \in Nat /\ c.id <= backend.id /\ c.width \in Widths
<1>1. /\ ec \in Seq(Posted) /\ primary \in Seq(Config)
      /\ framer \in [config : Nat, width : Widths]
  BY DEF IInv, TypesOK, DrawingTypeOK, CursorIInv, CursorTypeOK
<1>2. \A m \in Posted : IsConfig(m) => m \in Config
  BY DEF Posted, Config, IsConfig
<1>3. \A a \in Announcements : a \in Config
  BY <1>1, <1>2 DEF Announcements
<1>4. \A a \in Announcements : a.id \in Nat /\ a.width \in Widths /\ a.id <= announced
  BY <1>3 DEF Config, IInv, Numbered
<1>5. announced <= backend.id /\ framer.config <= announced
  BY DEF IInv, Numbered
<1>6. ASSUME NEW a \in Announcements PROVE a.id <= backend.id
  BY <1>4, <1>5, BackendId
<1>7. framer.config <= backend.id
  BY <1>5, BackendId
<1> QED BY <1>1, <1>3, <1>4, <1>6, <1>7, BackendId DEF Configurations

LEMMA DisplayEventKeeps ==
  ASSUME IInv, NEW width \in Widths, DisplayEvent(width)
  PROVE  IInv'
<1>1. /\ workload' = [workload EXCEPT !.configs = @ - 1] /\ workload.configs > 0
      /\ backend' = [at |-> "commands", id |-> backend.id + 1, width |-> width, next |-> 0]
      /\ ndc' = <<backend.id + 1, width>>
      /\ UNCHANGED <<extent, announced, captured, stopping>>
      /\ UNCHANGED <<frames, sending, net, drawing, rateVars, cursorVars, ec>>
  BY DEF DisplayEvent
<1>2. /\ backend.id \in Nat /\ backend'.id = backend.id + 1 /\ backend'.width = width
      /\ backend'.at = "commands" /\ backend'.next = 0
  BY <1>1, BackendId
<1>3. ScreenTypeOK'
  <2>1. workload' \in [width : Widths, asks : SUBSET Widths, configs : Nat, damages : Nat,
                       frames : Nat, failures : Nat, stops : BOOLEAN, cursors : BOOLEAN,
                       delivers : BOOLEAN, caps : [server : Nat \union {NoCap}, client : Nat]]
    <3>1. workload.configs - 1 \in Nat
      BY <1>1, BackendTyped
    <3> QED BY <1>1, <3>1, BackendTyped
  <2>2. backend' \in [at : {"select", "commands", "await", "gone"}, id : Nat, width : Widths,
                      next : 0 .. EncoderCount]
    BY <1>1, <1>2, BackendTyped
  <2>3. backend'.next < EncoderCount
    BY <1>2, BackendTyped
  <2>4. ndc'[1] \in Nat /\ ndc'[2] \in Widths
    BY <1>1, <1>2
  <2> QED BY <1>1, <1>2, <2>1, <2>2, <2>3, <2>4 DEF IInv, TypesOK, ScreenTypeOK
<1>4. TypesOK'
  BY <1>1, <1>3, FramesSame, SendingSame, DrawingSame DEF TypesOK
<1>5. Announcements' = Announcements
  BY <1>1 DEF Announcements, IsConfig, drawing
<1>6. Numbered'
  <2>1. /\ announced <= backend.id /\ tb.config <= backend.id /\ framer.config <= announced
        /\ announced \in Nat /\ tb.config \in Nat
    BY BackendId DEF IInv, Numbered, TypesOK, FramesTypeOK
  <2>2. announced' < backend'.id /\ tb'.config <= backend'.id /\ ndc'[1] <= backend'.id
    BY <1>1, <1>2, <2>1 DEF frames
  <2>3. \A e \in Encoders : slot'[e] # None =>
          slot'[e].config <= backend'.id /\ (slot'[e].quiet => slot'[e].config <= announced')
    <3> SUFFICES ASSUME NEW e \in Encoders, slot[e] # None
                 PROVE  slot[e].config <= backend'.id /\ (slot[e].quiet => slot[e].config <= announced)
      BY <1>1 DEF frames
    <3>1. slot[e].config \in Nat /\ slot[e].config <= backend.id
      BY DEF IInv, Numbered, TypesOK, FramesTypeOK, Frame
    <3>2. slot[e].config <= backend'.id
      BY <1>2, <3>1
    <3> QED BY <3>2 DEF IInv, Numbered
  <2>4. /\ framer'.config <= announced'
        /\ \A a \in Announcements' : framer'.config < a.id /\ a.id <= announced'
    BY <1>1, <1>5 DEF IInv, Numbered, drawing
  <2>5. announced' <= backend'.id
    BY <1>1, <1>2, <2>1
  <2> QED BY <2>2, <2>3, <2>4, <2>5 DEF Numbered
<1>7. ASSUME NEW c \in Configurations'
      PROVE  c \in Configurations \/ (backend.id < c.id /\ c.width = width)
  <2>1. \/ c = [id |-> backend'.id, width |-> backend'.width]
        \/ c = [id |-> framer.config, width |-> framer.width]
        \/ \E a \in Announcements : c = [id |-> a.id, width |-> a.width]
    BY <1>1, <1>5 DEF Configurations, drawing
  <2>2. CASE c = [id |-> backend'.id, width |-> backend'.width]
    BY <1>2, <2>2
  <2> QED BY <2>1, <2>2 DEF Configurations
<1>8. OneWidth'
  <2> SUFFICES ASSUME NEW c \in Configurations', c.id = backend'.id
               PROVE  c.width = backend'.width
    BY DEF OneWidth
  <2>1. c \notin Configurations
    <3> SUFFICES ASSUME c \in Configurations PROVE FALSE
      OBVIOUS
    <3>1. c.id \in Nat /\ c.id <= backend.id
      BY ConfigsNumbered
    <3> QED BY <1>2, <3>1
  <2> QED BY <1>2, <1>7, <2>1
<1>9. Told'
  <2>1. announced' # backend'.id
    <3>1. announced <= backend.id /\ announced \in Nat
      BY BackendId DEF IInv, Numbered
    <3> QED BY <1>1, <1>2, <3>1
  <2>2. \A e \in Encoders : ~(e < backend'.next)
    BY <1>2, BackendTyped DEF Encoders
  <2> QED BY <1>2, <2>1, <2>2 DEF Told
<1>10. AllSound'
  <2>1. InFlight' \subseteq InFlight
    BY <1>1, FlightSame DEF frames
  <2>2. ASSUME NEW m \in InFlight PROVE Sound(m)'
    <3>1. m \in MediaMessage /\ Sound(m)
      BY FlightTyped DEF IInv, AllSound
    <3>2. backend.id \in Nat /\ backend'.id \in Nat /\ backend.id <= backend'.id
      BY <1>2
    <3>3. \A c \in Configurations' : c \in Configurations \/ backend.id < c.id
      BY <1>7
    <3> QED BY <3>1, <3>2, <3>3, SoundCarries
  <2> QED BY <2>1, <2>2 DEF AllSound
<1>11. /\ InOrder' /\ Drawn' /\ DrawnInPlace' /\ OneRequest' /\ RateIInv' /\ CursorIInv'
  BY <1>1, OrderSame, DrawingSame, RateSame, CursorSame DEF drawing, sending
<1> QED BY <1>4, <1>6, <1>8, <1>9, <1>10, <1>11 DEF IInv

LEMMA ReconfigureKeeps ==
  ASSUME IInv, Reconfigure
  PROVE  IInv'
<1>1. PICK e : e = backend.next
  OBVIOUS
<1>2. /\ backend.at = "commands" /\ encoder[e].at # "gone" /\ command[e] = 0
      /\ command' = [command EXCEPT ![e] = backend.width]
      /\ backend' = [backend EXCEPT !.next = e + 1,
                                    !.at = IF e = EncoderCount - 1 THEN "await" ELSE @]
      /\ UNCHANGED <<workload, extent, announced, captured, ndc, tb, slot, encoder, stopping>>
      /\ UNCHANGED <<sending, net, drawing, rateVars, cursorVars, ec>>
  BY <1>1 DEF Reconfigure
<1>3. e \in Encoders /\ e \in Nat /\ e < EncoderCount
  BY <1>1, <1>2, BackendTyped DEF IInv, TypesOK, ScreenTypeOK, Encoders
<1>4. /\ backend'.id = backend.id /\ backend'.width = backend.width /\ backend'.next = e + 1
      /\ backend'.at = IF e = EncoderCount - 1 THEN "await" ELSE "commands"
      /\ backend' \in [at : {"select", "commands", "await", "gone"}, id : Nat, width : Widths,
                       next : 0 .. EncoderCount]
  <2>1. e + 1 \in 0 .. EncoderCount
    BY <1>3, BackendTyped
  <2>2. PICK at : at = IF e = EncoderCount - 1 THEN "await" ELSE "commands"
    OBVIOUS
  <2>3. backend' = [backend EXCEPT !.next = e + 1, !.at = at]
    BY <1>2, <2>2
  <2>4. at \in {"select", "commands", "await", "gone"}
    BY <2>2
  <2>5. /\ backend'.id = backend.id /\ backend'.width = backend.width /\ backend'.next = e + 1
        /\ backend'.at = at
    BY <2>3, BackendTyped
  <2>6. backend' \in [at : {"select", "commands", "await", "gone"}, id : Nat, width : Widths,
                      next : 0 .. EncoderCount]
    BY <2>1, <2>3, <2>4, BackendTyped
  <2> QED BY <2>2, <2>5, <2>6
<1>5. ScreenTypeOK'
  <2>1. /\ backend'.at = "commands" => backend'.next < EncoderCount
        /\ backend'.at = "await" => backend'.next = EncoderCount
    BY <1>3, <1>4, BackendTyped
  <2> QED BY <1>2, <1>4, <2>1 DEF IInv, TypesOK, ScreenTypeOK, None
<1>6. /\ command' \in [Encoders -> Widths \union {0}] /\ command'[e] = backend.width
      /\ \A x \in Encoders : x # e => command'[x] = command[x]
  BY <1>2, <1>3, BackendId DEF IInv, TypesOK, FramesTypeOK
<1>7. FramesTypeOK'
  BY <1>2, <1>6 DEF IInv, TypesOK, FramesTypeOK, Between, None
<1>8. TypesOK'
  BY <1>2, <1>5, <1>7, SendingSame, DrawingSame DEF TypesOK
<1>9. Announcements' = Announcements /\ Configurations' = Configurations
  BY <1>2, <1>4, ConfigsSame DEF drawing
<1>10. Numbered' /\ OneWidth'
  <2>1. announced < backend.id
    BY <1>2 DEF IInv, Numbered
  <2> QED BY <1>2, <1>4, <1>9, <2>1 DEF IInv, Numbered, OneWidth, drawing, None
<1>11. Told'
  <2> SUFFICES ASSUME NEW x \in Encoders, encoder[x].at # "gone",
                      x < backend'.next \/ backend'.at = "await" \/ announced = backend.id
               PROVE  IF command'[x] = 0 THEN encoder[x].width = backend.width
                                         ELSE command'[x] = backend.width
    BY <1>2, <1>4 DEF Told
  <2>1. x \in Nat /\ x < EncoderCount
    BY BackendTyped DEF Encoders
  <2>2. x = e \/ x < e
    <3>1. announced # backend.id
      BY <1>2, BackendId DEF IInv, Numbered
    <3> QED BY <1>3, <1>4, <2>1, <3>1, BackendTyped
  <2>3. CASE x = e
    <3>1. backend.width # 0
      BY BackendId, MediaAssumption
    <3> QED BY <1>6, <2>3, <3>1
  <2>4. CASE x < e
    <3>1. x # e
      BY <1>3, <2>1, <2>4
    <3> QED BY <1>1, <1>2, <1>6, <2>4, <3>1 DEF IInv, Told
  <2> QED BY <2>2, <2>3, <2>4
<1>12. AllSound'
  <2>1. InFlight' \subseteq InFlight
    BY <1>2, FlightSame
  <2> QED BY <1>2, <1>4, <2>1, SoundStays DEF drawing
<1>13. /\ InOrder' /\ Drawn' /\ DrawnInPlace' /\ OneRequest' /\ RateIInv' /\ CursorIInv'
  BY <1>2, OrderSame, DrawingSame, RateSame, CursorSame DEF drawing, sending
<1> QED BY <1>8, <1>10, <1>11, <1>12, <1>13 DEF IInv

LEMMA BackendStopsKeeps ==
  ASSUME IInv, BackendStops
  PROVE  IInv'
<1>1. /\ backend' = [backend EXCEPT !.at = "gone"]
      /\ UNCHANGED <<workload, extent, announced, captured, ndc, stopping>>
      /\ UNCHANGED <<frames, sending, net, drawing, rateVars, cursorVars, ec>>
  BY DEF BackendStops
<1>2. /\ backend'.id = backend.id /\ backend'.width = backend.width /\ backend'.at = "gone"
      /\ backend' \in [at : {"select", "commands", "await", "gone"}, id : Nat, width : Widths,
                       next : 0 .. EncoderCount]
  BY <1>1, BackendTyped
<1>3. ScreenTypeOK'
  BY <1>1, <1>2 DEF IInv, TypesOK, ScreenTypeOK, None
<1>4. TypesOK'
  BY <1>1, <1>3, FramesSame, SendingSame, DrawingSame DEF TypesOK
<1>5. Announcements' = Announcements /\ Configurations' = Configurations
  BY <1>1, <1>2, ConfigsSame DEF drawing
<1>6. Numbered' /\ OneWidth'
  BY <1>1, <1>2, <1>5 DEF IInv, Numbered, OneWidth, drawing, frames, None
<1>7. Told'
  BY <1>1, <1>2 DEF IInv, Told, frames
<1>8. AllSound'
  <2>1. InFlight' \subseteq InFlight
    BY <1>1, FlightSame DEF frames
  <2> QED BY <1>1, <1>2, <2>1, SoundStays DEF drawing
<1>9. /\ InOrder' /\ Drawn' /\ DrawnInPlace' /\ OneRequest' /\ RateIInv' /\ CursorIInv'
  BY <1>1, OrderSame, DrawingSame, RateSame, CursorSame DEF drawing, sending
<1> QED BY <1>4, <1>6, <1>7, <1>8, <1>9 DEF IInv

LEMMA DamageEventKeeps ==
  ASSUME IInv, NEW box, DamageEvent(box)
  PROVE  IInv'
<1>1. /\ workload' = [workload EXCEPT !.damages = @ - 1] /\ workload.damages > 0
      /\ captured' = captured \union ({box \intersect Columns(extent)} \ {{}})
      /\ UNCHANGED <<backend, extent, announced, ndc, stopping>>
      /\ UNCHANGED <<frames, sending, net, drawing, rateVars, cursorVars, ec>>
  BY DEF DamageEvent
<1>2. ScreenTypeOK'
  <2>1. workload' \in [width : Widths, asks : SUBSET Widths, configs : Nat, damages : Nat,
                       frames : Nat, failures : Nat, stops : BOOLEAN, cursors : BOOLEAN,
                       delivers : BOOLEAN, caps : [server : Nat \union {NoCap}, client : Nat]]
    <3>1. workload.damages - 1 \in Nat
      BY <1>1, BackendTyped
    <3> QED BY <1>1, <3>1, BackendTyped
  <2>2. captured' \subseteq SUBSET Nat
    BY <1>1 DEF Columns, IInv, TypesOK, ScreenTypeOK
  <2> QED BY <1>1, <2>1, <2>2 DEF IInv, TypesOK, ScreenTypeOK, None
<1>3. TypesOK'
  BY <1>1, <1>2, FramesSame, SendingSame, DrawingSame DEF TypesOK
<1>4. Announcements' = Announcements /\ Configurations' = Configurations
  BY <1>1, ConfigsSame DEF drawing
<1>5. Numbered' /\ OneWidth' /\ Told'
  BY <1>1, <1>4 DEF IInv, Numbered, OneWidth, Told, drawing, frames, None
<1>6. AllSound'
  <2>1. InFlight' \subseteq InFlight
    BY <1>1, FlightSame DEF frames
  <2> QED BY <1>1, <2>1, SoundStays DEF drawing
<1>7. /\ InOrder' /\ Drawn' /\ DrawnInPlace' /\ OneRequest' /\ RateIInv' /\ CursorIInv'
  BY <1>1, OrderSame, DrawingSame, RateSame, CursorSame DEF drawing, sending
<1> QED BY <1>3, <1>5, <1>6, <1>7 DEF IInv

LEMMA AnnouncementsAppended ==
  ASSUME ec \in Seq(Posted), NEW m \in Posted, ec' = Append(ec, m), primary' = primary
  PROVE  \A a \in Announcements' : a \in Announcements \/ (IsConfig(m) /\ a = m)
<1>1. /\ DOMAIN ec = 1 .. Len(ec) /\ DOMAIN ec' = 1 .. Len(ec) + 1 /\ Len(ec) \in Nat
      /\ \A i \in DOMAIN ec : ec'[i] = ec[i]
      /\ ec'[Len(ec) + 1] = m
  BY Appends
<1>2. \A i \in DOMAIN ec' : i \in DOMAIN ec \/ i = Len(ec) + 1
  BY <1>1
<1> QED BY <1>1, <1>2 DEF Announcements, IsConfig

LEMMA EventsTyped ==
  ASSUME IInv
  PROVE  ec \in Seq(Posted) /\ primary \in Seq(Config) /\ DOMAIN ec = 1 .. Len(ec) /\ Len(ec) \in Nat
<1>1. ec \in Seq(Posted) /\ primary \in Seq(Config)
  BY DEF IInv, TypesOK, DrawingTypeOK, CursorIInv, CursorTypeOK
<1> QED BY <1>1

\* A configuration is neither a cursor nor an image of one.
LEMMA ConfigSent ==
  ASSUME CursorIInv, NEW m \in Posted, IsConfig(m), ec' = Append(ec, m), UNCHANGED cursorVars
  PROVE  CursorIInv'
<1>1. CursorTypeOK /\ Resolves /\ client_cache' = client_cache /\ m.kind # "CursorChange"
  BY DEF CursorIInv, IsConfig, cursorVars
<1>2. Resolves' /\ \A id : Kept(id) => Kept(id)'
  BY <1>1, SentKeeps
<1>3. ec' \in Seq(Posted)
  BY <1>1, Appends DEF CursorTypeOK
<1> QED BY <1>2, <1>3 DEF CursorIInv, CursorTypeOK, Cached, Followed, cursorVars

LEMMA AnnounceKeeps ==
  ASSUME IInv, Announce
  PROVE  IInv'
<1>1. PICK m : m = DisplayConfiguration(backend.id, backend.width)
  OBVIOUS
<1>2. /\ backend.at = "await" /\ ec' = Append(ec, m) /\ announced' = backend.id
      /\ extent' = backend.width /\ backend' = [backend EXCEPT !.at = "select"]
      /\ UNCHANGED <<workload, captured, ndc, stopping>>
      /\ UNCHANGED <<frames, sending, net, drawing, rateVars, cursorVars>>
  BY <1>1 DEF Announce, MayAnnounce
<1>3. /\ backend'.id = backend.id /\ backend'.width = backend.width /\ backend'.at = "select"
      /\ backend' \in [at : {"select", "commands", "await", "gone"}, id : Nat, width : Widths,
                       next : 0 .. EncoderCount]
  BY <1>2, BackendTyped
<1>4. m \in Posted /\ IsConfig(m) /\ m.id = backend.id /\ m.width = backend.width
  BY <1>1, BackendId DEF DisplayConfiguration, Posted, IsConfig
<1>5. /\ announced \in Nat /\ announced < backend.id /\ backend.id \in Nat
      /\ framer.config \in Nat /\ framer.config <= announced
  BY <1>2, BackendId DEF IInv, Numbered
<1>6. ScreenTypeOK'
  BY <1>2, <1>3, BackendId DEF IInv, TypesOK, ScreenTypeOK, None
<1>7. TypesOK'
  BY <1>2, <1>6, FramesSame, SendingSame, DrawingSame DEF TypesOK
<1>8. \A a \in Announcements' : a \in Announcements \/ a = m
  BY <1>2, <1>4, EventsTyped, AnnouncementsAppended DEF drawing
<1>9. \A a \in Announcements : a.id \in Nat /\ framer.config < a.id /\ a.id <= announced
  BY ConfigsNumbered DEF Config, IInv, Numbered
<1>10. Numbered'
  <2>1. \A a \in Announcements' : framer'.config < a.id /\ a.id <= announced'
    <3> SUFFICES ASSUME NEW a \in Announcements' PROVE framer.config < a.id /\ a.id <= backend.id
      BY <1>2 DEF drawing
    <3>1. CASE a \in Announcements
      BY <1>5, <1>9, <3>1
    <3>2. CASE a = m
      BY <1>4, <1>5, <3>2
    <3> QED BY <1>8, <3>1, <3>2
  <2>2. framer'.config <= announced' /\ announced' <= backend'.id
    BY <1>2, <1>3, <1>5 DEF drawing
  <2>3. \A e \in Encoders : slot'[e] # None =>
          slot'[e].config <= backend'.id /\ (slot'[e].quiet => slot'[e].config <= announced')
    BY <1>2, <1>3 DEF IInv, Numbered, frames
  <2>4. tb'.config <= backend'.id /\ (ndc' # None => ndc'[1] <= backend'.id)
    BY <1>2, <1>3 DEF IInv, Numbered, frames, None
  <2> QED BY <1>3, <2>1, <2>2, <2>3, <2>4 DEF Numbered
<1>11. InOrder'
  <2>1. /\ DOMAIN ec = 1 .. Len(ec) /\ DOMAIN ec' = 1 .. Len(ec) + 1 /\ Len(ec) \in Nat
        /\ \A i \in DOMAIN ec : ec'[i] = ec[i]
        /\ ec'[Len(ec) + 1] = m
    BY <1>2, <1>4, EventsTyped, Appends
  <2>2. \A i \in DOMAIN ec : IsConfig(ec[i]) => ec[i].id < m.id
    <3> SUFFICES ASSUME NEW i \in DOMAIN ec, IsConfig(ec[i]) PROVE ec[i].id < m.id
      OBVIOUS
    <3>1. ec[i] \in Announcements
      BY DEF Announcements
    <3> QED BY <1>4, <1>5, <1>9, <3>1
  <2>3. \A i \in DOMAIN primary : primary[i].id < m.id
    <3> SUFFICES ASSUME NEW i \in DOMAIN primary PROVE primary[i].id < m.id
      OBVIOUS
    <3>1. primary[i] \in Announcements
      BY DEF Announcements
    <3> QED BY <1>4, <1>5, <1>9, <3>1
  <2>4. ASSUME NEW i \in DOMAIN ec', NEW j \in DOMAIN ec', IsConfig(ec'[i]), IsConfig(ec'[j]), i < j
        PROVE  ec'[i].id < ec'[j].id
    <3>1. i \in DOMAIN ec
      BY <2>1, <2>4
    <3>2. CASE j \in DOMAIN ec
      BY <2>1, <2>4, <3>1, <3>2 DEF IInv, InOrder
    <3>3. CASE j = Len(ec) + 1
      BY <2>1, <2>2, <2>4, <3>1, <3>3
    <3> QED BY <2>1, <3>2, <3>3
  <2>5. ASSUME NEW i \in DOMAIN primary, NEW j \in DOMAIN ec', IsConfig(ec'[j])
        PROVE  primary[i].id < ec'[j].id
    <3>1. CASE j \in DOMAIN ec
      BY <2>1, <2>5, <3>1 DEF IInv, InOrder
    <3>2. CASE j = Len(ec) + 1
      BY <2>1, <2>3, <3>2
    <3> QED BY <2>1, <3>1, <3>2
  <2>6. primary' = primary /\ Len(primary) <= 1
    BY <1>2 DEF drawing, IInv, InOrder
  <2> QED BY <2>4, <2>5, <2>6 DEF InOrder, IsConfig
<1>12. Configurations' \subseteq Configurations
  <2> SUFFICES ASSUME NEW c \in Configurations' PROVE c \in Configurations
    OBVIOUS
  <2>1. \/ c = [id |-> backend.id, width |-> backend.width]
        \/ c = [id |-> framer.config, width |-> framer.width]
        \/ \E a \in Announcements' : c = [id |-> a.id, width |-> a.width]
    BY <1>2, <1>3 DEF Configurations, drawing
  <2>2. ASSUME NEW a \in Announcements', c = [id |-> a.id, width |-> a.width]
        PROVE  c \in Configurations
    BY <1>4, <1>8, <2>2 DEF Configurations
  <2> QED BY <2>1, <2>2 DEF Configurations
<1>13. OneWidth'
  BY <1>3, <1>12 DEF IInv, OneWidth
<1>14. Told'
  BY <1>2, <1>3 DEF IInv, Told, frames
<1>15. AllSound'
  <2>1. InFlight' \subseteq InFlight
    BY <1>2, FlightSame DEF frames
  <2>2. ASSUME NEW m2 \in InFlight PROVE Sound(m2)'
    <3>1. m2 \in MediaMessage /\ Sound(m2)
      BY FlightTyped DEF IInv, AllSound
    <3>2. backend.id \in Nat /\ backend'.id \in Nat /\ backend.id <= backend'.id
      BY <1>3, <1>5
    <3> QED BY <1>12, <3>1, <3>2, SoundCarries
  <2> QED BY <2>1, <2>2 DEF AllSound
<1>16. CursorIInv'
  BY <1>2, <1>4, ConfigSent DEF IInv
<1>17. Drawn' /\ DrawnInPlace' /\ OneRequest' /\ RateIInv'
  BY <1>2, DrawingSame, RateSame DEF sending
<1> QED BY <1>7, <1>10, <1>11, <1>13, <1>14, <1>15, <1>16, <1>17 DEF IInv

-----------------------------------------------------------------------------
(* Frame synchronisation.                                                  *)

LEMMA ApplyConfigKeeps ==
  ASSUME IInv, ApplyConfig
  PROVE  IInv'
<1>1. /\ ndc # None /\ tb' = Fresh(ndc[1], ndc[2]) /\ ndc' = None
      /\ UNCHANGED <<workload, backend, extent, announced, captured, slot, command, encoder, stopping>>
      /\ UNCHANGED <<sending, net, drawing, rateVars, cursorVars, ec>>
  BY DEF ApplyConfig
<1>2. ndc[1] \in Nat /\ ndc[2] \in Widths /\ ndc[1] <= backend.id
  BY <1>1 DEF IInv, TypesOK, ScreenTypeOK, Numbered
<1>3. ScreenTypeOK'
  BY <1>1 DEF IInv, TypesOK, ScreenTypeOK
<1>4. FramesTypeOK'
  <2>1. {Columns(ndc[2])} \in SUBSET SUBSET Nat
    BY <1>2, MediaAssumption DEF Columns
  <2>2. IsFiniteSet({Columns(ndc[2])})
    BY FS_Singleton
  <2>3. /\ tb' \in [config : Nat, width : Widths, boxes : SUBSET SUBSET Nat, next : Nat]
        /\ IsFiniteSet(tb'.boxes)
    BY <1>1, <1>2, <2>1, <2>2 DEF Fresh
  <2> QED BY <1>1, <2>3 DEF IInv, TypesOK, FramesTypeOK, Between, None
<1>5. TypesOK'
  BY <1>1, <1>3, <1>4, SendingSame, DrawingSame DEF TypesOK
<1>6. Announcements' = Announcements /\ Configurations' = Configurations
  BY <1>1, ConfigsSame DEF drawing
<1>7. Numbered' /\ OneWidth'
  <2>1. tb'.config <= backend.id
    BY <1>1, <1>2 DEF Fresh
  <2> QED BY <1>1, <1>6, <2>1 DEF IInv, Numbered, OneWidth, drawing, None
<1>8. AllSound'
  <2>1. InFlight' \subseteq InFlight
    BY <1>1, FlightSame
  <2> QED BY <1>1, <2>1, SoundStays DEF drawing
<1>9. /\ InOrder' /\ Told' /\ Drawn' /\ DrawnInPlace' /\ OneRequest' /\ RateIInv' /\ CursorIInv'
  BY <1>1, OrderSame, ToldSame, DrawingSame, RateSame, CursorSame DEF drawing, sending
<1> QED BY <1>5, <1>7, <1>8, <1>9 DEF IInv

LEMMA ApplyDamageKeeps ==
  ASSUME IInv, NEW box, ApplyDamage(box)
  PROVE  IInv'
<1>1. PICK part : part = {box \intersect Columns(tb.width)} \ {{}}
  OBVIOUS
<1>2. /\ captured' = captured \ {box}
      /\ tb' = [tb EXCEPT !.boxes = IF Columns(tb.width) \in @ THEN @ ELSE @ \union part]
      /\ UNCHANGED <<workload, backend, extent, announced, ndc, slot, command, encoder, stopping>>
      /\ UNCHANGED <<sending, net, drawing, rateVars, cursorVars, ec>>
  BY <1>1 DEF ApplyDamage
<1>3. ScreenTypeOK'
  BY <1>2 DEF IInv, TypesOK, ScreenTypeOK, None
<1>4. /\ tb \in [config : Nat, width : Widths, boxes : SUBSET SUBSET Nat, next : Nat]
      /\ IsFiniteSet(tb.boxes)
  BY DEF IInv, TypesOK, FramesTypeOK
<1>5. part \in SUBSET SUBSET Nat
  BY <1>1 DEF Columns
<1>6. IsFiniteSet(tb.boxes \union part)
  <2>1. IsFiniteSet({box \intersect Columns(tb.width)})
    BY FS_Singleton
  <2>2. IsFiniteSet(part)
    BY <1>1, <2>1, FS_Subset
  <2> QED BY <1>4, <2>2, FS_Union
<1>7. /\ tb' \in [config : Nat, width : Widths, boxes : SUBSET SUBSET Nat, next : Nat]
      /\ IsFiniteSet(tb'.boxes) /\ tb'.config = tb.config
  <2>1. PICK boxes : boxes = IF Columns(tb.width) \in tb.boxes THEN tb.boxes ELSE tb.boxes \union part
    OBVIOUS
  <2>2. boxes \in SUBSET SUBSET Nat /\ IsFiniteSet(boxes)
    BY <1>4, <1>5, <1>6, <2>1
  <2>3. tb' = [tb EXCEPT !.boxes = boxes]
    BY <1>2, <2>1
  <2> QED BY <1>4, <2>2, <2>3
<1>8. FramesTypeOK'
  BY <1>2, <1>7 DEF IInv, TypesOK, FramesTypeOK, Between, None
<1>9. TypesOK'
  BY <1>2, <1>3, <1>8, SendingSame, DrawingSame DEF TypesOK
<1>10. Announcements' = Announcements /\ Configurations' = Configurations
  BY <1>2, ConfigsSame DEF drawing
<1>11. Numbered' /\ OneWidth'
  BY <1>2, <1>7, <1>10 DEF IInv, Numbered, OneWidth, drawing, None
<1>12. AllSound'
  <2>1. InFlight' \subseteq InFlight
    BY <1>2, FlightSame
  <2> QED BY <1>2, <2>1, SoundStays DEF drawing
<1>13. /\ InOrder' /\ Told' /\ Drawn' /\ DrawnInPlace' /\ OneRequest' /\ RateIInv' /\ CursorIInv'
  BY <1>2, OrderSame, ToldSame, DrawingSame, RateSame, CursorSame DEF drawing, sending
<1> QED BY <1>9, <1>11, <1>12, <1>13 DEF IInv

LEMMA CutFrameKeeps ==
  ASSUME IInv, CutFrame
  PROVE  IInv'
<1> DEFINE quiet(e) == announced = tb.config /\ encoder[e].at # "frames"
           frame(e) == [config |-> tb.config, id |-> tb.next, boxes |-> tb.boxes,
                        quiet |-> quiet(e)]
<1>2. /\ workload.frames > 0 /\ workload' = [workload EXCEPT !.frames = @ - 1]
      /\ slot' = [e \in Encoders |-> frame(e)]
      /\ tb' = [tb EXCEPT !.boxes = {}, !.next = @ + 1]
      /\ UNCHANGED <<backend, extent, announced, captured, ndc, command, encoder, stopping>>
      /\ UNCHANGED <<sending, net, drawing, rateVars, cursorVars, ec>>
  BY DEF CutFrame, screen
<1>3. /\ tb \in [config : Nat, width : Widths, boxes : SUBSET SUBSET Nat, next : Nat]
      /\ IsFiniteSet(tb.boxes) /\ tb.config <= backend.id
  BY DEF IInv, TypesOK, FramesTypeOK, Numbered
<1>4. ScreenTypeOK'
  <2>1. workload' \in [width : Widths, asks : SUBSET Widths, configs : Nat, damages : Nat,
                       frames : Nat, failures : Nat, stops : BOOLEAN, cursors : BOOLEAN,
                       delivers : BOOLEAN, caps : [server : Nat \union {NoCap}, client : Nat]]
    <3>1. workload.frames - 1 \in Nat
      BY <1>2, BackendTyped
    <3> QED BY <1>2, <3>1, BackendTyped
  <2> QED BY <1>2, <2>1 DEF IInv, TypesOK, ScreenTypeOK, None
<1>5. FramesTypeOK'
  <2>1. tb.next + 1 \in Nat /\ {} \in SUBSET SUBSET Nat /\ IsFiniteSet({})
    BY <1>3, FS_EmptySet
  <2>2. tb' \in [config : Nat, width : Widths, boxes : SUBSET SUBSET Nat, next : Nat]
    BY <1>2, <1>3, <2>1
  <2>3. IsFiniteSet(tb'.boxes)
    BY <1>2, <1>3, <2>1
  <2>4. ASSUME NEW e \in Encoders
        PROVE  /\ slot'[e] \in Frame /\ IsFiniteSet(slot'[e].boxes)
               /\ encoder'[e].at = "frames" => ~slot'[e].quiet
    <3>1. slot'[e] = frame(e) /\ quiet(e) \in BOOLEAN /\ encoder' = encoder
      BY <1>2
    <3>2. encoder[e].at = "frames" => ~quiet(e)
      OBVIOUS
    <3> HIDE DEF quiet
    <3>3. frame(e) \in Frame /\ frame(e).boxes = tb.boxes /\ frame(e).quiet = quiet(e)
      BY <1>3, <3>1 DEF Frame
    <3> QED BY <1>3, <3>1, <3>2, <3>3
  <2>5. DOMAIN slot' = Encoders /\ Between'
    BY <1>2, <2>4 DEF Between
  <2> QED BY <1>2, <2>2, <2>3, <2>4, <2>5 DEF IInv, TypesOK, FramesTypeOK
<1>6. TypesOK'
  BY <1>2, <1>4, <1>5, SendingSame, DrawingSame DEF TypesOK
<1>7. Announcements' = Announcements /\ Configurations' = Configurations
  BY <1>2, ConfigsSame DEF drawing
<1>8. Numbered' /\ OneWidth'
  <2>1. tb'.config = tb.config
    BY <1>2, <1>3
  <2>2. ASSUME NEW e \in Encoders
        PROVE  frame(e).config <= backend.id /\ (frame(e).quiet => frame(e).config <= announced)
    <3>1. tb.config \in Nat /\ (announced = tb.config => tb.config <= announced)
      BY <1>3
    <3>2. frame(e).config = tb.config /\ frame(e).quiet = quiet(e)
      OBVIOUS
    <3>3. quiet(e) => announced = tb.config
      OBVIOUS
    <3> HIDE DEF quiet, frame
    <3> QED BY <1>3, <3>1, <3>2, <3>3, Zenon
  <2>3. \A e \in Encoders : slot'[e] = frame(e)
    BY <1>2
  <2> HIDE DEF frame
  <2>4. \A e \in Encoders : slot'[e] # None =>
          slot'[e].config <= backend'.id /\ (slot'[e].quiet => slot'[e].config <= announced')
    BY <1>2, <2>2, <2>3
  <2> QED BY <1>2, <1>7, <2>1, <2>4 DEF IInv, Numbered, OneWidth, drawing, None
<1>9. AllSound'
  <2>1. InFlight' \subseteq InFlight
    BY <1>2, FlightSame
  <2> QED BY <1>2, <2>1, SoundStays DEF drawing
<1>10. /\ InOrder' /\ Told' /\ Drawn' /\ DrawnInPlace' /\ OneRequest' /\ RateIInv' /\ CursorIInv'
  BY <1>2, OrderSame, ToldSame, DrawingSame, RateSame, CursorSame DEF drawing, sending
<1> QED BY <1>6, <1>8, <1>9, <1>10 DEF IInv

-----------------------------------------------------------------------------
(* An encoder task.                                                        *)

EncoderState == [at : {"run", "frames", "gone"}, width : Widths, out : Seq(MediaMessage)]

LEMMA EncoderTyped ==
  ASSUME IInv, NEW e \in Encoders
  PROVE  encoder[e] \in EncoderState /\ DOMAIN encoder = Encoders
  BY DEF IInv, TypesOK, FramesTypeOK, EncoderState

LEMMA EncoderChanged ==
  ASSUME IInv, NEW e \in Encoders, NEW r \in EncoderState, encoder' = [encoder EXCEPT ![e] = r]
  PROVE  /\ encoder' \in [Encoders -> EncoderState] /\ encoder'[e] = r
         /\ \A x \in Encoders : x # e => encoder'[x] = encoder[x]
  BY DEF IInv, TypesOK, FramesTypeOK, EncoderState

\* A sequence without its head.
LEMMA HeadAndTail ==
  ASSUME NEW S, NEW q \in Seq(S), q # <<>>
  PROVE  /\ Head(q) \in S /\ Head(q) = q[1] /\ 1 \in DOMAIN q /\ Tail(q) \in Seq(S)
         /\ \A i \in DOMAIN Tail(q) : Tail(q)[i] = q[i + 1] /\ i + 1 \in DOMAIN q
  OBVIOUS

LEMMA TakeCommandKeeps ==
  ASSUME IInv, NEW e \in Encoders, TakeCommand(e)
  PROVE  IInv'
<1>1. PICK r : r = [encoder[e] EXCEPT !.width = command[e]]
  OBVIOUS
<1>2. /\ command[e] # 0 /\ encoder' = [encoder EXCEPT ![e] = r]
      /\ command' = [command EXCEPT ![e] = 0]
      /\ UNCHANGED <<workload, screen, tb, slot, stopping>>
      /\ UNCHANGED <<sending, net, drawing, rateVars, cursorVars, ec>>
  BY <1>1 DEF TakeCommand
<1>3. command \in [Encoders -> Widths \union {0}]
  BY DEF IInv, TypesOK, FramesTypeOK
<1>4. /\ r \in EncoderState /\ r.at = encoder[e].at /\ r.out = encoder[e].out
      /\ r.width = command[e]
  BY <1>1, <1>2, <1>3, EncoderTyped DEF EncoderState
<1>5. /\ encoder' \in [Encoders -> EncoderState] /\ encoder'[e] = r
      /\ \A x \in Encoders : x # e => encoder'[x] = encoder[x]
  BY <1>2, <1>4, EncoderChanged
<1>6. /\ command' \in [Encoders -> Widths \union {0}] /\ command'[e] = 0
      /\ \A x \in Encoders : x # e => command'[x] = command[x]
  BY <1>2, <1>3
<1>7. FramesTypeOK'
  <2>1. Between'
    BY <1>2, <1>4, <1>5 DEF IInv, TypesOK, FramesTypeOK, Between, None
  <2> QED BY <1>2, <1>5, <1>6, <2>1 DEF IInv, TypesOK, FramesTypeOK, EncoderState, None
<1>8. TypesOK'
  BY <1>2, <1>7, ScreenSame, SendingSame, DrawingSame DEF TypesOK
<1>9. Told'
  <2> SUFFICES ASSUME NEW x \in Encoders, encoder'[x].at # "gone",
                      \/ announced = backend.id \/ backend.at = "await"
                      \/ backend.at = "commands" /\ x < backend.next
               PROVE  IF command'[x] = 0 THEN encoder'[x].width = backend.width
                                         ELSE command'[x] = backend.width
    BY <1>2 DEF Told, screen
  <2>1. CASE x = e
    BY <1>2, <1>4, <1>5, <1>6, <2>1 DEF IInv, Told
  <2>2. CASE x # e
    BY <1>5, <1>6, <2>2 DEF IInv, Told
  <2> QED BY <2>1, <2>2
<1>10. AllSound'
  <2>1. \A x \in Encoders : encoder'[x].out = encoder[x].out
    BY <1>4, <1>5
  <2>2. InFlight' \subseteq InFlight
    BY <1>2, <2>1 DEF InFlight, sending
  <2> QED BY <1>2, <2>2, SoundStays DEF drawing, screen
<1>11. /\ Numbered' /\ OneWidth' /\ InOrder' /\ Drawn' /\ DrawnInPlace' /\ OneRequest'
       /\ RateIInv' /\ CursorIInv'
  BY <1>2, NumbersSame, OrderSame, DrawingSame, RateSame, CursorSame DEF drawing, sending
<1> QED BY <1>8, <1>9, <1>10, <1>11 DEF IInv

\* The parts of a frame that are an encoder's are finitely many, and in its area.
LEMMA RelevantTyped ==
  ASSUME IInv, NEW e \in Encoders, NEW frame \in Frame, IsFiniteSet(frame.boxes)
  PROVE  /\ IsFiniteSet(Relevant(e, frame)) /\ Cardinality(Relevant(e, frame)) \in Nat
         /\ \A part \in Relevant(e, frame) : part # {} /\ part \subseteq AreaOf(encoder[e].width, e)
<1>1. PICK area : area = AreaOf(encoder[e].width, e)
  OBVIOUS
<1>2. PICK T : T = {box \intersect area : box \in frame.boxes}
  OBVIOUS
<1>3. PICK f : f = [box \in frame.boxes |-> box \intersect area]
  OBVIOUS
<1>4. f \in Surjection(frame.boxes, T)
  BY <1>2, <1>3 DEF Surjection
<1>5. IsFiniteSet(T)
  BY <1>4, FS_Surjection
<1>6. Relevant(e, frame) = T \ {{}}
  BY <1>1, <1>2 DEF Relevant
<1>7. IsFiniteSet(Relevant(e, frame))
  BY <1>5, <1>6, FS_Subset
<1>8. \A part \in Relevant(e, frame) : part # {} /\ part \subseteq area
  BY <1>2, <1>6
<1> QED BY <1>1, <1>7, <1>8, FS_CardinalityType

\* A message is sound when it is made: if no configuration came since its frame
\* was announced, the encoder's area is that of the frame's configuration.
LEMMA MessageSound ==
  ASSUME IInv, NEW e \in Encoders, MayTakeFrame(e),
         NEW kind \in {"Fragment", "Terminal"}, NEW sequence \in Nat, NEW terminal \in BOOLEAN,
         NEW part, part \subseteq AreaOf(encoder[e].width, e), kind = "Fragment" => part # {}
  PROVE  /\ Message(kind, e, slot[e], sequence, terminal, part) \in MediaMessage
         /\ Sound(Message(kind, e, slot[e], sequence, terminal, part))
<1>1. PICK frame : frame = slot[e]
  OBVIOUS
<1>2. /\ frame \in Frame /\ slot[e] # None /\ encoder[e].at # "gone"
      /\ frame.quiet => command[e] = 0
  BY <1>1 DEF MayTakeFrame, EncoderSelects, IInv, TypesOK, FramesTypeOK, Between
<1>3. encoder[e].width \in Widths
  BY EncoderTyped DEF EncoderState
<1>4. PICK area : area = AreaOf(encoder[e].width, e)
  OBVIOUS
<1>5. area \subseteq Nat /\ IsFiniteSet(area) /\ Cardinality(area) < MaxMessage
  BY <1>3, <1>4, AreaTyped
<1>6. PICK at : at = IF part = {} THEN 0 ELSE Min(part) - Min(area)
  OBVIOUS
<1>7. /\ part # {} => Min(part) \in Nat /\ Min(area) \in Nat
      /\ part \subseteq Nat
  <2>1. part \subseteq Nat /\ part \subseteq area
    BY <1>4, <1>5
  <2>2. ASSUME part # {} PROVE Min(part) \in Nat /\ Min(area) \in Nat
    <3>1. area # {}
      BY <2>1, <2>2
    <3>2. Min(part) \in part /\ Min(area) \in area
      BY <1>5, <2>1, <2>2, <3>1, MinIsLeast
    <3> QED BY <1>5, <2>1, <3>2
  <2> QED BY <2>1, <2>2
<1>8. at \in Int
  BY <1>6, <1>7
<1>9. PICK quiet \in BOOLEAN : quiet = (frame.quiet /\ backend.id = frame.config)
  OBVIOUS
<1>10. PICK m : m = Message(kind, e, frame, sequence, terminal, part)
  OBVIOUS
<1>11. m = [kind |-> kind, config |-> frame.config, frame |-> frame.id, encoder |-> e,
            sequence |-> sequence, terminal |-> terminal, of |-> part, at |-> at, quiet |-> quiet]
  BY <1>4, <1>6, <1>9, <1>10 DEF Message
<1>12. m \in MediaMessage
  BY <1>2, <1>7, <1>8, <1>11 DEF MediaMessage, Frame
<1>13. /\ m.kind = kind /\ m.config = frame.config /\ m.encoder = e /\ m.of = part /\ m.at = at
       /\ m.quiet = quiet
  BY <1>11
<1>14. frame.config \in Nat /\ frame.config <= backend.id
       /\ (frame.quiet => frame.config <= announced) /\ announced <= backend.id
  BY <1>1, <1>2 DEF Frame, IInv, Numbered
<1>15. Size(m) \in 1 .. MaxMessage
  <2>1. IsFiniteSet(part) /\ Cardinality(part) <= Cardinality(area)
    BY <1>4, <1>5, FS_Subset
  <2>2. Cardinality(part) \in Nat /\ Cardinality(area) \in Nat
    BY <1>5, <2>1, FS_CardinalityType
  <2>3. PICK k, l : k = Cardinality(part) /\ l = Cardinality(area)
    OBVIOUS
  <2>4. 1 + k \in 1 .. MaxMessage
    BY <1>5, <2>1, <2>2, <2>3, RateAssumption
  <2> QED BY <1>13, <2>3, <2>4 DEF Size
<1>16. ASSUME NEW c \in Configurations, m.kind = "Fragment", m.quiet, m.config = c.id
       PROVE  m.at + Min(AreaOf(c.width, m.encoder)) = Min(m.of)
  <2>1. frame.quiet /\ backend.id = frame.config
    BY <1>9, <1>13, <1>16
  <2>2. announced = backend.id
    BY <1>14, <2>1, BackendId
  <2>3. encoder[e].width = backend.width
    BY <1>2, <2>1, <2>2 DEF IInv, Told
  <2>4. c.width = backend.width
    BY <1>13, <1>16, <2>1 DEF IInv, OneWidth
  <2>5. AreaOf(c.width, m.encoder) = area
    BY <1>4, <1>13, <2>3, <2>4
  <2>6. part # {} /\ at = Min(part) - Min(area)
    BY <1>6, <1>13, <1>16
  <2>7. PICK x, y : x = Min(part) /\ y = Min(area)
    OBVIOUS
  <2>8. x \in Nat /\ y \in Nat /\ (x - y) + y = x
    BY <1>7, <2>6, <2>7
  <2> QED BY <1>13, <2>5, <2>6, <2>7, <2>8
<1>17. Sound(m)
  BY <1>13, <1>14, <1>15, <1>16 DEF Sound, PlacedIn
<1> QED BY <1>1, <1>10, <1>12, <1>17

LEMMA EncodeSound ==
  ASSUME IInv, NEW e \in Encoders, MayTakeFrame(e),
         NEW parts \in Completions(Relevant(e, slot[e]))
  PROVE  /\ Encode(e, slot[e], parts) \in Seq(MediaMessage)
         /\ \A i \in DOMAIN Encode(e, slot[e], parts) : Sound(Encode(e, slot[e], parts)[i])
<1>1. PICK R, out : R = Relevant(e, slot[e]) /\ out = Encode(e, slot[e], parts)
  OBVIOUS
<1>2. slot[e] \in Frame /\ IsFiniteSet(slot[e].boxes)
  BY DEF MayTakeFrame, IInv, TypesOK, FramesTypeOK
<1>3. /\ IsFiniteSet(R) /\ Cardinality(R) \in Nat
      /\ \A part \in R : part # {} /\ part \subseteq AreaOf(encoder[e].width, e)
  BY <1>1, <1>2, RelevantTyped
<1>4. CASE R = {}
  <2>1. PICK m : m = Message("Terminal", e, slot[e], 0, TRUE, {})
    OBVIOUS
  <2>2. m \in MediaMessage /\ Sound(m)
    BY <2>1, MessageSound
  <2>3. out = <<m>>
    BY <1>1, <1>4, <2>1 DEF Encode
  <2>4. out \in Seq(MediaMessage) /\ \A i \in DOMAIN out : out[i] = m
    BY <2>2, <2>3
  <2> QED BY <1>1, <2>2, <2>4
<1>5. CASE R # {}
  <2>1. parts \in Seq(R)
    <3>1. workload.failures \in Nat
      BY BackendTyped
    <3>2. PICK n \in (Cardinality(R) - workload.failures) .. Cardinality(R) :
             parts \in {p \in [1 .. n -> R] : IsInjective(p)}
      BY <1>1 DEF Completions
    <3>3. n \in Int /\ parts \in [1 .. n -> R]
      BY <1>3, <3>1, <3>2
    <3>4. CASE n >= 0
      BY <3>3, <3>4
    <3>5. CASE n < 0
      <4>1. 1 .. n = 1 .. 0
        BY <3>3, <3>5
      <4> QED BY <3>3, <4>1
    <3> QED BY <3>3, <3>4, <3>5
  <2>2. /\ Len(parts) \in Nat
        /\ \A i \in 1 .. Len(parts) : parts[i] \in R
    BY <2>1
  <2>3. out = [i \in 1 .. Len(parts) |->
                 Message("Fragment", e, slot[e], i - 1, i = Cardinality(R), parts[i])]
    BY <1>1, <1>5 DEF Encode
  <2>4. ASSUME NEW i \in 1 .. Len(parts)
        PROVE  out[i] \in MediaMessage /\ Sound(out[i])
    <3>1. PICK last \in BOOLEAN : last = (i = Cardinality(R))
      OBVIOUS
    <3>2. i - 1 \in Nat /\ parts[i] \in R
      BY <2>2
    <3>3. parts[i] # {} /\ parts[i] \subseteq AreaOf(encoder[e].width, e)
      BY <1>3, <3>2
    <3>4. PICK m : m = Message("Fragment", e, slot[e], i - 1, last, parts[i])
      OBVIOUS
    <3>5. m \in MediaMessage /\ Sound(m)
      BY <3>2, <3>3, <3>4, MessageSound
    <3>6. out[i] = m
      BY <2>3, <3>1, <3>4
    <3> QED BY <3>5, <3>6
  <2>5. out \in Seq(MediaMessage) /\ DOMAIN out = 1 .. Len(parts)
    <3>1. DOMAIN out = 1 .. Len(parts) /\ out \in [1 .. Len(parts) -> MediaMessage]
      BY <2>3, <2>4
    <3> QED BY <2>2, <3>1
  <2> QED BY <1>1, <2>4, <2>5
<1> QED BY <1>4, <1>5

LEMMA TakeFrameKeeps ==
  ASSUME IInv, NEW e \in Encoders, TakeFrame(e)
  PROVE  IInv'
<1>1. PICK parts \in Completions(Relevant(e, slot[e])) :
         encoder' = [encoder EXCEPT ![e].at = "run", ![e].out = Encode(e, slot[e], parts)]
  BY DEF TakeFrame
<1>2. PICK out : out = Encode(e, slot[e], parts)
  OBVIOUS
<1>3. PICK r : r = [encoder[e] EXCEPT !.at = "run", !.out = out]
  OBVIOUS
<1>4. /\ MayTakeFrame(e) /\ encoder' = [encoder EXCEPT ![e] = r]
      /\ slot' = [slot EXCEPT ![e] = None]
      /\ UNCHANGED <<workload, screen, tb, command, stopping>>
      /\ UNCHANGED <<sending, net, drawing, rateVars, cursorVars, ec>>
  <2>1. encoder' = [encoder EXCEPT ![e] = r]
    BY <1>1, <1>2, <1>3, EncoderTyped
  <2> QED BY <2>1 DEF TakeFrame
<1>5. out \in Seq(MediaMessage) /\ \A i \in DOMAIN out : Sound(out[i])
  BY <1>1, <1>2, <1>4, EncodeSound
<1>6. /\ r \in EncoderState /\ r.at = "run" /\ r.out = out /\ r.width = encoder[e].width
  BY <1>3, <1>5, EncoderTyped DEF EncoderState
<1>7. /\ encoder' \in [Encoders -> EncoderState] /\ encoder'[e] = r
      /\ \A x \in Encoders : x # e => encoder'[x] = encoder[x]
  BY <1>4, <1>6, EncoderChanged
<1>8. /\ DOMAIN slot' = Encoders /\ slot'[e] = None
      /\ \A x \in Encoders : x # e => slot'[x] = slot[x]
  BY <1>4 DEF IInv, TypesOK, FramesTypeOK
<1>9. FramesTypeOK'
  <2>1. Between'
    BY <1>7, <1>8 DEF IInv, TypesOK, FramesTypeOK, Between
  <2> QED BY <1>4, <1>7, <1>8, <2>1 DEF IInv, TypesOK, FramesTypeOK, EncoderState
<1>10. TypesOK'
  BY <1>4, <1>9, ScreenSame, SendingSame, DrawingSame DEF TypesOK
<1>11. Announcements' = Announcements /\ Configurations' = Configurations
  BY <1>4, ConfigsSame DEF drawing, screen
<1>12. Numbered' /\ OneWidth'
  BY <1>4, <1>8, <1>11 DEF IInv, Numbered, OneWidth, drawing, screen, None
<1>13. Told'
  <2>1. encoder[e].at # "gone"
    BY <1>4 DEF MayTakeFrame, EncoderSelects
  <2>2. \A x \in Encoders : encoder[x].at # "gone" \/ encoder'[x].at = encoder[x].at
    BY <1>7, <2>1
  <2>3. \A x \in Encoders : encoder'[x].width = encoder[x].width
    BY <1>6, <1>7
  <2> QED BY <1>4, <2>2, <2>3 DEF IInv, Told, screen
<1>14. AllSound'
  <2> SUFFICES ASSUME NEW m \in InFlight' PROVE Sound(m)'
    BY DEF AllSound
  <2>1. m \in InFlight \/ \E i \in DOMAIN out : m = out[i]
    <3>1. CASE \E x \in Encoders : \E i \in DOMAIN encoder'[x].out : m = encoder'[x].out[i]
      <4>1. PICK x \in Encoders : \E i \in DOMAIN encoder'[x].out : m = encoder'[x].out[i]
        BY <3>1
      <4>2. CASE x = e
        BY <1>6, <1>7, <4>1, <4>2
      <4>3. CASE x # e
        BY <1>7, <4>1, <4>3 DEF InFlight
      <4> QED BY <4>2, <4>3
    <3>2. CASE ~ \E x \in Encoders : \E i \in DOMAIN encoder'[x].out : m = encoder'[x].out[i]
      BY <1>4, <3>2 DEF InFlight, sending
    <3> QED BY <3>1, <3>2
  <2>2. m \in MediaMessage /\ Sound(m)
    BY <1>5, <2>1, FlightTyped DEF IInv, AllSound
  <2>3. backend' = backend /\ backend.id \in Nat
    BY <1>4, BackendId DEF screen
  <2> QED BY <1>11, <2>2, <2>3, SoundCarries
<1>15. /\ InOrder' /\ Drawn' /\ DrawnInPlace' /\ OneRequest' /\ RateIInv' /\ CursorIInv'
  BY <1>4, OrderSame, DrawingSame, RateSame, CursorSame DEF drawing, sending
<1> QED BY <1>10, <1>12, <1>13, <1>14, <1>15 DEF IInv

\* The encoder goes from one poll to the next.
LEMMA PollKeeps ==
  ASSUME IInv, NEW e \in Encoders, PollCommands(e) \/ PollFrames(e)
  PROVE  IInv'
<1>1. PICK at \in {"run", "frames"} : encoder' = [encoder EXCEPT ![e].at = at]
  BY DEF PollCommands, PollFrames
<1>2. PICK r : r = [encoder[e] EXCEPT !.at = at]
  OBVIOUS
<1>3. /\ encoder' = [encoder EXCEPT ![e] = r] /\ slot[e] = None
      /\ encoder[e].at # "gone"
      /\ UNCHANGED <<workload, screen, tb, slot, command, stopping>>
      /\ UNCHANGED <<sending, net, drawing, rateVars, cursorVars, ec>>
  BY <1>1, <1>2 DEF PollCommands, PollFrames, EncoderSelects
<1>4. r \in EncoderState /\ r.at = at /\ r.out = encoder[e].out /\ r.width = encoder[e].width
  BY <1>2, EncoderTyped DEF EncoderState
<1>5. /\ encoder' \in [Encoders -> EncoderState] /\ encoder'[e] = r
      /\ \A x \in Encoders : x # e => encoder'[x] = encoder[x]
  BY <1>3, <1>4, EncoderChanged
<1>6. FramesTypeOK'
  <2>1. Between'
    BY <1>3, <1>5 DEF IInv, TypesOK, FramesTypeOK, Between, None
  <2> QED BY <1>3, <1>5, <2>1 DEF IInv, TypesOK, FramesTypeOK, EncoderState, None
<1>7. TypesOK'
  BY <1>3, <1>6, ScreenSame, SendingSame, DrawingSame DEF TypesOK
<1>8. \A x \in Encoders : encoder'[x].width = encoder[x].width /\ encoder'[x].out = encoder[x].out
  BY <1>4, <1>5
<1>9. Told'
  <2>1. \A x \in Encoders : encoder[x].at # "gone" \/ encoder'[x].at = encoder[x].at
    BY <1>3, <1>5
  <2> QED BY <1>3, <1>8, <2>1 DEF IInv, Told, screen
<1>10. AllSound'
  <2>1. InFlight' \subseteq InFlight
    BY <1>3, <1>8 DEF InFlight, sending
  <2> QED BY <1>3, <2>1, SoundStays DEF drawing, screen
<1>11. /\ Numbered' /\ OneWidth' /\ InOrder' /\ Drawn' /\ DrawnInPlace' /\ OneRequest'
       /\ RateIInv' /\ CursorIInv'
  BY <1>3, NumbersSame, OrderSame, DrawingSame, RateSame, CursorSame DEF drawing, sending
<1> QED BY <1>7, <1>9, <1>10, <1>11 DEF IInv

LEMMA SendMessageKeeps ==
  ASSUME IInv, NEW e \in Encoders, SendMessage(e)
  PROVE  IInv'
<1>1. PICK out : out = encoder[e].out
  OBVIOUS
<1>2. PICK r : r = [encoder[e] EXCEPT !.out = Tail(out)]
  OBVIOUS
<1>3. /\ out # <<>> /\ mm' = <<Head(out)>> /\ encoder' = [encoder EXCEPT ![e] = r]
      /\ UNCHANGED <<workload, screen, tb, slot, command, handler, stopping>>
      /\ UNCHANGED <<net, drawing, rateVars, cursorVars, ec>>
  BY <1>1, <1>2 DEF SendMessage
<1>4. out \in Seq(MediaMessage)
  BY <1>1, EncoderTyped DEF EncoderState
<1>5. /\ Head(out) \in MediaMessage /\ Head(out) = out[1] /\ 1 \in DOMAIN out
      /\ Tail(out) \in Seq(MediaMessage)
      /\ \A i \in DOMAIN Tail(out) : Tail(out)[i] = out[i + 1] /\ i + 1 \in DOMAIN out
  BY <1>3, <1>4, HeadAndTail
<1>6. /\ r \in EncoderState /\ r.at = encoder[e].at /\ r.out = Tail(out)
      /\ r.width = encoder[e].width
  BY <1>2, <1>5, EncoderTyped DEF EncoderState
<1>7. /\ encoder' \in [Encoders -> EncoderState] /\ encoder'[e] = r
      /\ \A x \in Encoders : x # e => encoder'[x] = encoder[x]
  BY <1>3, <1>6, EncoderChanged
<1>8. FramesTypeOK'
  <2>1. Between'
    BY <1>3, <1>6, <1>7 DEF IInv, TypesOK, FramesTypeOK, Between, None
  <2> QED BY <1>3, <1>7, <2>1 DEF IInv, TypesOK, FramesTypeOK, EncoderState, None
<1>9. SendingTypeOK'
  <2>1. mm' \in Seq(MediaMessage)
    BY <1>3, <1>5
  <2> QED BY <1>3, <2>1 DEF IInv, TypesOK, SendingTypeOK, None
<1>10. TypesOK'
  BY <1>3, <1>8, <1>9, ScreenSame, DrawingSame DEF TypesOK
<1>11. Told'
  <2>1. \A x \in Encoders : encoder'[x].at = encoder[x].at /\ encoder'[x].width = encoder[x].width
    BY <1>6, <1>7
  <2> QED BY <1>3, <2>1 DEF IInv, Told, screen
<1>12. InFlight' \subseteq InFlight
  <2> SUFFICES ASSUME NEW m \in InFlight' PROVE m \in InFlight
    OBVIOUS
  <2>1. \A i \in DOMAIN out : out[i] \in InFlight
    BY <1>1 DEF InFlight
  <2>2. CASE \E x \in Encoders : \E i \in DOMAIN encoder'[x].out : m = encoder'[x].out[i]
    <3>1. PICK x \in Encoders : \E i \in DOMAIN encoder'[x].out : m = encoder'[x].out[i]
      BY <2>2
    <3>2. CASE x = e
      BY <1>5, <1>6, <1>7, <2>1, <3>1, <3>2
    <3>3. CASE x # e
      BY <1>7, <3>1, <3>3 DEF InFlight
    <3> QED BY <3>2, <3>3
  <2>3. CASE \E i \in DOMAIN mm' : m = mm'[i]
    <3>1. m = Head(out)
      BY <1>3, <2>3
    <3> QED BY <1>5, <2>1, <3>1
  <2>4. CASE \/ \E i \in DOMAIN handler'.msg : m = handler'.msg[i]
             \/ m \in net'
    BY <1>3, <2>4 DEF InFlight
  <2> QED BY <2>2, <2>3, <2>4 DEF InFlight
<1>13. AllSound'
  BY <1>3, <1>12, SoundStays DEF drawing, screen
<1>14. /\ Numbered' /\ OneWidth' /\ InOrder' /\ Drawn' /\ DrawnInPlace' /\ OneRequest'
       /\ RateIInv' /\ CursorIInv'
  BY <1>3, NumbersSame, OrderSame, DrawingSame, RateSame, CursorSame DEF drawing
<1> QED BY <1>10, <1>11, <1>13, <1>14 DEF IInv

LEMMA EncoderStopsKeeps ==
  ASSUME IInv, NEW e \in Encoders, EncoderStops(e)
  PROVE  IInv'
<1>1. PICK r : r = [encoder[e] EXCEPT !.at = "gone", !.out = <<>>]
  OBVIOUS
<1>2. /\ encoder' = [encoder EXCEPT ![e] = r] /\ slot' = [slot EXCEPT ![e] = None]
      /\ command' = [command EXCEPT ![e] = 0]
      /\ UNCHANGED <<workload, screen, tb, stopping>>
      /\ UNCHANGED <<sending, net, drawing, rateVars, cursorVars, ec>>
  BY <1>1 DEF EncoderStops
<1>3. r \in EncoderState /\ r.at = "gone" /\ r.out = <<>>
  <2>1. <<>> \in Seq(MediaMessage)
    OBVIOUS
  <2> QED BY <1>1, <2>1, EncoderTyped DEF EncoderState
<1>4. /\ encoder' \in [Encoders -> EncoderState] /\ encoder'[e] = r
      /\ \A x \in Encoders : x # e => encoder'[x] = encoder[x]
  BY <1>2, <1>3, EncoderChanged
<1>5. /\ DOMAIN slot' = Encoders /\ slot'[e] = None
      /\ \A x \in Encoders : x # e => slot'[x] = slot[x]
      /\ command' \in [Encoders -> Widths \union {0}]
      /\ \A x \in Encoders : x # e => command'[x] = command[x]
  BY <1>2 DEF IInv, TypesOK, FramesTypeOK
<1>6. FramesTypeOK'
  <2>1. Between'
    BY <1>4, <1>5 DEF IInv, TypesOK, FramesTypeOK, Between
  <2> QED BY <1>2, <1>4, <1>5, <2>1 DEF IInv, TypesOK, FramesTypeOK, EncoderState
<1>7. TypesOK'
  BY <1>2, <1>6, ScreenSame, SendingSame, DrawingSame DEF TypesOK
<1>8. Announcements' = Announcements /\ Configurations' = Configurations
  BY <1>2, ConfigsSame DEF drawing, screen
<1>9. Numbered' /\ OneWidth'
  BY <1>2, <1>5, <1>8 DEF IInv, Numbered, OneWidth, drawing, screen, None
<1>10. Told'
  BY <1>2, <1>3, <1>4, <1>5 DEF IInv, Told, screen
<1>11. InFlight' \subseteq InFlight
  <2>1. \A x \in Encoders : \A i \in DOMAIN encoder'[x].out :
           i \in DOMAIN encoder[x].out /\ encoder'[x].out[i] = encoder[x].out[i]
    <3> SUFFICES ASSUME NEW x \in Encoders, NEW i \in DOMAIN encoder'[x].out
                 PROVE  i \in DOMAIN encoder[x].out /\ encoder'[x].out[i] = encoder[x].out[i]
      OBVIOUS
    <3>1. CASE x = e
      <4>1. DOMAIN encoder'[x].out = {}
        BY <1>3, <1>4, <3>1
      <4> QED BY <4>1
    <3>2. CASE x # e
      BY <1>4, <3>2
    <3> QED BY <3>1, <3>2
  <2> QED BY <1>2, <2>1 DEF InFlight, sending
<1>12. AllSound'
  BY <1>2, <1>11, SoundStays DEF drawing, screen
<1>13. /\ InOrder' /\ Drawn' /\ DrawnInPlace' /\ OneRequest' /\ RateIInv' /\ CursorIInv'
  BY <1>2, OrderSame, DrawingSame, RateSame, CursorSame DEF drawing, sending
<1> QED BY <1>7, <1>9, <1>10, <1>12, <1>13 DEF IInv

-----------------------------------------------------------------------------
(* The media channel handler.                                              *)

\* Its steps move messages and leave the rest alone.
LEMMA HandlerStepKeeps ==
  ASSUME IInv, UNCHANGED <<workload, screen, frames, drawing, stopping, cursorVars, ec>>,
         SendingTypeOK', InFlight' \subseteq InFlight, OneRequest', RateIInv'
  PROVE  IInv'
<1>1. TypesOK'
  BY ScreenSame, FramesSame, DrawingSame DEF TypesOK
<1>2. AllSound'
  BY SoundStays DEF drawing, screen
<1>3. Numbered' /\ OneWidth' /\ InOrder' /\ Told' /\ Drawn' /\ DrawnInPlace' /\ CursorIInv'
  BY NumbersSame, OrderSame, ToldSame, DrawingSame, CursorSame DEF drawing, screen, frames
<1> QED BY <1>1, <1>2, <1>3 DEF IInv

LEMMA HandlerTyped ==
  ASSUME IInv
  PROVE  /\ mm \in Seq(MediaMessage)
         /\ handler \in [at : {"select", "gate", "send", "gone"}, msg : Seq(MediaMessage)]
         /\ handler.at \in {"gate", "send"} => handler.msg # None
         /\ net \subseteq MediaMessage
         /\ OneRequest /\ RateIInv
  BY DEF IInv, TypesOK, SendingTypeOK

LEMMA HandlerReceivesKeeps ==
  ASSUME IInv, HandlerReceives
  PROVE  IInv'
<1>1. /\ handler.at = "select" /\ mm # None
      /\ handler' = [at |-> IF Limited THEN "gate" ELSE "send", msg |-> mm]
      /\ mm' = None
      /\ IF Limited THEN request_to_send(Size(mm[1])) ELSE UNCHANGED rateVars
      /\ UNCHANGED <<workload, screen, frames, net, drawing, stopping, cursorVars, ec>>
  BY DEF HandlerReceives
<1>2. None \in Seq(MediaMessage) /\ DOMAIN None = {}
  BY DEF None
<1>3. mm \in Seq(MediaMessage) /\ 1 \in DOMAIN mm
  BY <1>1, HandlerTyped DEF None
<1>4. /\ handler'.at \in {"gate", "send"} /\ handler'.msg = mm
      /\ handler' \in [at : {"select", "gate", "send", "gone"}, msg : Seq(MediaMessage)]
      /\ handler'.at = "send" => ~Limited
  BY <1>1, <1>3
<1>5. SendingTypeOK'
  BY <1>1, <1>2, <1>3, <1>4, HandlerTyped DEF SendingTypeOK, None
<1>6. InFlight' \subseteq InFlight
  <2>1. encoder' = encoder /\ net' = net /\ DOMAIN mm' = {} /\ handler'.msg = mm
    BY <1>1, <1>2, <1>4 DEF frames
  <2> QED BY <2>1 DEF InFlight
<1>7. OneRequest' /\ RateIInv'
  <2>1. request.at = "none"
    BY <1>1, HandlerTyped DEF OneRequest
  <2>2. CASE Limited
    <3>1. mm[1] \in InFlight
      BY <1>3 DEF InFlight
    <3>2. Size(mm[1]) \in 1 .. MaxMessage
      BY <3>1 DEF IInv, AllSound, Sound
    <3>3. Ask
      BY <1>1, <2>1, <2>2, <3>2 DEF Ask
    <3>4. RateIInv'
      BY <3>3, HandlerTyped, RateStepPreserves DEF LimiterNext
    <3> QED BY <1>4, <2>2, <3>4 DEF OneRequest
  <2>3. CASE ~Limited
    <3>1. UNCHANGED rateVars
      BY <1>1, <2>3
    <3>2. RateIInv'
      BY <3>1, HandlerTyped, RateStepPreserves
    <3> QED BY <2>1, <3>1, <3>2 DEF OneRequest, rateVars
  <2> QED BY <2>2, <2>3
<1> QED BY <1>1, <1>5, <1>6, <1>7, HandlerStepKeeps

LEMMA GateOpensKeeps ==
  ASSUME IInv, GateOpens
  PROVE  IInv'
<1>1. /\ handler.at = "gate" /\ request.at = "granted"
      /\ handler' = [handler EXCEPT !.at = "send"] /\ request' = NoRequest
      /\ UNCHANGED <<caps, bucket, limiter, allowance, mm, net>>
      /\ UNCHANGED <<workload, screen, frames, drawing, stopping, cursorVars, ec>>
  BY DEF GateOpens
<1>2. /\ handler' \in [at : {"select", "gate", "send", "gone"}, msg : Seq(MediaMessage)]
      /\ handler'.msg = handler.msg /\ handler.msg # None
  BY <1>1, HandlerTyped
<1>3. SendingTypeOK'
  BY <1>1, <1>2, HandlerTyped DEF SendingTypeOK, None
<1>4. InFlight' \subseteq InFlight
  BY <1>1, <1>2 DEF InFlight, frames
<1>5. RateIInv'
  <2>1. Answered
    BY <1>1 DEF Answered
  <2> QED BY <2>1, HandlerTyped, RateStepPreserves DEF LimiterNext
<1>6. OneRequest'
  BY <1>1 DEF OneRequest, NoRequest
<1> QED BY <1>1, <1>3, <1>4, <1>5, <1>6, HandlerStepKeeps

LEMMA HandlerEndsKeeps ==
  ASSUME IInv, GateFails \/ SendFails \/ HandlerStops
  PROVE  IInv'
<1>1. /\ handler' = [handler EXCEPT !.at = "gone"]
      /\ UNCHANGED <<rateVars, mm, net>>
      /\ UNCHANGED <<workload, screen, frames, drawing, stopping, cursorVars, ec>>
  BY DEF GateFails, SendFails, HandlerStops
<1>2. /\ handler' \in [at : {"select", "gate", "send", "gone"}, msg : Seq(MediaMessage)]
      /\ handler'.msg = handler.msg /\ handler'.at = "gone"
  BY <1>1, HandlerTyped
<1>3. SendingTypeOK'
  BY <1>1, <1>2, HandlerTyped DEF SendingTypeOK
<1>4. InFlight' \subseteq InFlight
  BY <1>1, <1>2 DEF InFlight, frames
<1>5. RateIInv'
  BY <1>1, HandlerTyped, RateStepPreserves
<1>6. OneRequest'
  BY <1>2 DEF OneRequest
<1> QED BY <1>1, <1>3, <1>4, <1>5, <1>6, HandlerStepKeeps

LEMMA HandlerSendsKeeps ==
  ASSUME IInv, HandlerSends
  PROVE  IInv'
<1>1. /\ handler.at = "send" /\ net' = net \union {handler.msg[1]}
      /\ handler' = [at |-> "select", msg |-> None]
      /\ UNCHANGED <<rateVars, mm>>
      /\ UNCHANGED <<workload, screen, frames, drawing, stopping, cursorVars, ec>>
  BY DEF HandlerSends
<1>2. None \in Seq(MediaMessage) /\ DOMAIN None = {}
  BY DEF None
<1>3. /\ handler' \in [at : {"select", "gate", "send", "gone"}, msg : Seq(MediaMessage)]
      /\ handler'.msg = None /\ handler'.at = "select"
  BY <1>1, <1>2
<1>4. handler.msg \in Seq(MediaMessage) /\ 1 \in DOMAIN handler.msg
  <2>1. handler.msg \in Seq(MediaMessage) /\ handler.msg # <<>>
    BY <1>1, HandlerTyped DEF None
  <2> QED BY <2>1
<1>5. SendingTypeOK'
  <2>1. net' \subseteq MediaMessage
    BY <1>1, <1>4, HandlerTyped
  <2> QED BY <1>1, <1>3, <2>1, HandlerTyped DEF SendingTypeOK
<1>6. InFlight' \subseteq InFlight
  <2>1. encoder' = encoder /\ mm' = mm /\ DOMAIN handler'.msg = {}
    BY <1>1, <1>2, <1>3 DEF frames
  <2> QED BY <1>1, <1>4, <2>1 DEF InFlight
<1>7. RateIInv'
  BY <1>1, HandlerTyped, RateStepPreserves
<1>8. OneRequest'
  BY <1>1, HandlerTyped DEF OneRequest, rateVars
<1> QED BY <1>1, <1>5, <1>6, <1>7, <1>8, HandlerStepKeeps

-----------------------------------------------------------------------------
(* The client, and the cursor's messages on the event channel.             *)

\* No more configurations are known than before.
LEMMA FewerConfigs ==
  ASSUME IInv, InFlight' \subseteq InFlight, Configurations' \subseteq Configurations,
         backend' = backend
  PROVE  AllSound' /\ OneWidth'
<1>1. ASSUME NEW m \in InFlight PROVE Sound(m)'
  <2>1. m \in MediaMessage /\ Sound(m) /\ backend.id \in Nat
    BY FlightTyped, BackendId DEF IInv, AllSound
  <2> QED BY <2>1, SoundCarries
<1> QED BY <1>1 DEF AllSound, IInv, OneWidth

\* The first event is taken: the configurations behind it keep their order.
LEMMA EventTaken ==
  ASSUME IInv, ec # <<>>, ec' = Tail(ec)
  PROVE  /\ Head(ec) \in Posted /\ (IsConfig(Head(ec)) => Head(ec) \in Announcements)
         /\ \A i \in DOMAIN ec' : IsConfig(ec'[i]) =>
              /\ ec'[i] \in Announcements
              /\ IsConfig(Head(ec)) => Head(ec).id < ec'[i].id
              /\ \A j \in DOMAIN primary : primary[j].id < ec'[i].id
         /\ \A i, j \in DOMAIN ec' :
              IsConfig(ec'[i]) /\ IsConfig(ec'[j]) /\ i < j => ec'[i].id < ec'[j].id
<1>1. /\ Head(ec) = ec[1] /\ Head(ec) \in Posted /\ Len(ec) \in Nat \ {0}
      /\ DOMAIN ec = 1 .. Len(ec) /\ DOMAIN ec' = 1 .. Len(ec) - 1
      /\ \A i \in DOMAIN ec' : ec'[i] = ec[i + 1] /\ i + 1 \in DOMAIN ec
  BY EventsTyped, Receives
<1>2. IsConfig(Head(ec)) => Head(ec) \in Announcements
  <2>1. 1 \in DOMAIN ec
    BY <1>1
  <2> QED BY <1>1, <2>1 DEF Announcements
<1>3. ASSUME NEW i \in DOMAIN ec', IsConfig(ec'[i])
      PROVE  /\ ec'[i] \in Announcements
             /\ IsConfig(Head(ec)) => Head(ec).id < ec'[i].id
             /\ \A j \in DOMAIN primary : primary[j].id < ec'[i].id
  <2>1. PICK k \in DOMAIN ec : k = i + 1 /\ ec'[i] = ec[k]
    BY <1>1
  <2>2. 1 \in DOMAIN ec /\ 1 < k
    BY <1>1, <2>1
  <2>3. IsConfig(ec[k])
    BY <1>3, <2>1
  <2> QED BY <1>1, <2>1, <2>2, <2>3 DEF IInv, InOrder, Announcements
<1>4. ASSUME NEW i \in DOMAIN ec', NEW j \in DOMAIN ec', IsConfig(ec'[i]), IsConfig(ec'[j]), i < j
      PROVE  ec'[i].id < ec'[j].id
  <2>1. PICK k \in DOMAIN ec, l \in DOMAIN ec :
           k = i + 1 /\ l = j + 1 /\ ec'[i] = ec[k] /\ ec'[j] = ec[l]
    BY <1>1
  <2>2. k < l
    BY <1>1, <1>4, <2>1
  <2> QED BY <1>4, <2>1, <2>2 DEF IInv, InOrder
<1> QED BY <1>1, <1>2, <1>3, <1>4

LEMMA TakeConfigKeeps ==
  ASSUME IInv, TakeConfig
  PROVE  IInv'
<1>1. PICK m : m = Head(ec)
  OBVIOUS
<1>2. /\ primary = None /\ ec # <<>> /\ IsConfig(m) /\ primary' = <<m>> /\ ec' = Tail(ec)
      /\ UNCHANGED <<framer, draws, shown_config, painted>>
      /\ UNCHANGED <<workload, screen, frames, sending, net, stopping, rateVars, cursorVars>>
  BY <1>1 DEF TakeConfig, IsConfig
<1>3. /\ m \in Posted /\ m \in Announcements
      /\ \A i \in DOMAIN ec' : IsConfig(ec'[i]) => ec'[i] \in Announcements /\ m.id < ec'[i].id
      /\ \A i, j \in DOMAIN ec' :
           IsConfig(ec'[i]) /\ IsConfig(ec'[j]) /\ i < j => ec'[i].id < ec'[j].id
  BY <1>1, <1>2, EventTaken
<1>4. primary' \in Seq(Config) /\ Len(primary') = 1 /\ \A i \in DOMAIN primary' : primary'[i] = m
  <2>1. m \in Config
    BY <1>2, <1>3 DEF Posted, Config, IsConfig
  <2> QED BY <1>2, <2>1
<1>5. Announcements' \subseteq Announcements
  BY <1>3, <1>4 DEF Announcements, IsConfig
<1>6. backend' = backend /\ announced' = announced
  BY <1>2 DEF screen
<1>7. Configurations' \subseteq Configurations
  BY <1>2, <1>5, <1>6 DEF Configurations
<1>8. TypesOK'
  <2>1. DrawingTypeOK'
    BY <1>2, <1>4 DEF IInv, TypesOK, DrawingTypeOK
  <2> QED BY <1>2, <2>1, ScreenSame, FramesSame, SendingSame DEF TypesOK
<1>9. Numbered'
  BY <1>2, <1>5 DEF IInv, Numbered, screen, frames, None
<1>10. InOrder'
  BY <1>3, <1>4 DEF InOrder, IsConfig
<1>11. AllSound' /\ OneWidth'
  BY <1>2, <1>6, <1>7, FlightSame, FewerConfigs DEF frames
<1>12. Drawn' /\ DrawnInPlace'
  BY <1>2 DEF IInv, Drawn, DrawnInPlace
<1>13. CursorIInv'
  <2>1. CursorTypeOK /\ Resolves /\ client_cache' = client_cache
    BY <1>2 DEF IInv, CursorIInv, cursorVars
  <2>2. Head(ec).kind # "CursorImage"
    BY <1>1, <1>2 DEF IsConfig
  <2>3. Resolves' /\ (\A id : Kept(id) => Kept(id)') /\ ec' \in Seq(Posted)
    BY <1>2, <2>1, <2>2, TakenKeeps
  <2> QED BY <1>2, <2>3 DEF IInv, CursorIInv, CursorTypeOK, Cached, Followed, cursorVars
<1>14. Told' /\ OneRequest' /\ RateIInv'
  BY <1>2, ToldSame, RateSame DEF screen, frames, sending
<1> QED BY <1>8, <1>9, <1>10, <1>11, <1>12, <1>13, <1>14 DEF IInv

LEMMA ForwardConfigKeeps ==
  ASSUME IInv, ForwardConfig
  PROVE  IInv'
<1>1. PICK m : m = primary[1]
  OBVIOUS
<1>2. /\ primary # None /\ draws = {}
      /\ framer' = IF m.id > framer.config THEN [config |-> m.id, width |-> m.width] ELSE framer
      /\ shown_config' = m.id /\ primary' = None
      /\ UNCHANGED <<draws, painted, ec>>
      /\ UNCHANGED <<workload, screen, frames, sending, net, stopping, rateVars, cursorVars>>
  BY <1>1 DEF ForwardConfig
<1>3. 1 \in DOMAIN primary /\ m \in Announcements
  <2>1. 1 \in DOMAIN primary
    BY <1>2, EventsTyped DEF None
  <2> QED BY <1>1, <2>1 DEF Announcements
<1>4. m \in Config /\ framer.config < m.id /\ m.id <= announced
  BY <1>3, ConfigsNumbered DEF IInv, Numbered
<1>5. framer' = [config |-> m.id, width |-> m.width]
  <2>1. m.id \in Nat
    BY <1>4 DEF Config
  <2> QED BY <1>2, <1>4, <2>1, BackendId
<1>6. primary' \in Seq(Config) /\ DOMAIN primary' = {} /\ Len(primary') = 0
  BY <1>2 DEF None
<1>7. Announcements' \subseteq Announcements
  BY <1>2, <1>6 DEF Announcements, IsConfig
<1>8. backend' = backend /\ announced' = announced
  BY <1>2 DEF screen
<1>9. Configurations' \subseteq Configurations
  <2>1. framer'.config = m.id /\ framer'.width = m.width
    BY <1>5
  <2>2. [id |-> m.id, width |-> m.width] \in Configurations
    BY <1>3 DEF Configurations
  <2> QED BY <1>7, <1>8, <2>1, <2>2 DEF Configurations
<1>10. TypesOK'
  <2>1. DrawingTypeOK'
    BY <1>2, <1>4, <1>5, <1>6 DEF DrawingTypeOK, Config
  <2> QED BY <1>2, <2>1, ScreenSame, FramesSame, SendingSame DEF TypesOK
<1>11. Numbered'
  <2>1. \A a \in Announcements' : framer'.config < a.id /\ a.id <= announced'
    <3> SUFFICES ASSUME NEW a \in Announcements' PROVE m.id < a.id /\ a.id <= announced
      BY <1>5, <1>8
    <3>1. PICK j \in DOMAIN ec : a = ec[j] /\ IsConfig(ec[j])
      BY <1>2, <1>6 DEF Announcements, IsConfig
    <3>2. m.id < a.id
      BY <1>1, <1>3, <3>1 DEF IInv, InOrder
    <3> QED BY <1>7, <3>2 DEF IInv, Numbered
  <2>2. framer'.config <= announced'
    BY <1>4, <1>5, <1>8
  <2> QED BY <1>2, <2>1, <2>2 DEF IInv, Numbered, screen, frames, None
<1>12. InOrder'
  BY <1>2, <1>6 DEF IInv, InOrder, IsConfig
<1>13. AllSound' /\ OneWidth'
  BY <1>2, <1>8, <1>9, FlightSame, FewerConfigs DEF frames
<1>14. Drawn' /\ DrawnInPlace'
  BY <1>2, <1>5 DEF IInv, Drawn, DrawnInPlace
<1>15. Told' /\ OneRequest' /\ RateIInv' /\ CursorIInv'
  BY <1>2, ToldSame, RateSame, CursorSame DEF screen, frames, sending
<1> QED BY <1>10, <1>11, <1>12, <1>13, <1>14, <1>15 DEF IInv

\* The media thread draws what it accepts where it was captured.
LEMMA TakeMediaKeeps ==
  ASSUME IInv, NEW msg \in net, TakeMedia(msg)
  PROVE  IInv'
<1>1. PICK d : d = [config |-> msg.config, quiet |-> msg.quiet, of |-> Min(msg.of),
                    at |-> Placed(msg)]
  OBVIOUS
<1>2. /\ net' = net \ {msg}
      /\ draws' = IF Accepts(msg) /\ msg.kind = "Fragment" THEN {d} ELSE {}
      /\ UNCHANGED <<workload, screen, frames, sending, framer, primary, shown_config, painted>>
      /\ UNCHANGED <<stopping, rateVars, cursorVars, ec>>
  BY <1>1 DEF TakeMedia
<1>3. Drawn'
  <2>1. framer'.config = shown_config'
    BY <1>2 DEF IInv, Drawn
  <2>2. ASSUME Accepts(msg), msg.kind = "Fragment"
        PROVE  d.config = shown_config /\ (d.quiet => d.at = d.of)
    <3>1. msg.config = framer.config /\ framer.config = shown_config
      BY <2>2 DEF Accepts, IInv, Drawn
    <3>2. msg \in InFlight
      BY DEF InFlight
    <3>3. PICK c : c = [id |-> framer.config, width |-> framer.width]
      OBVIOUS
    <3>4. c \in Configurations /\ c.id = framer.config /\ c.width = framer.width
      BY <3>3 DEF Configurations
    <3>5. PlacedIn(msg, c.id, c.width)
      BY <3>2, <3>4 DEF IInv, AllSound, Sound
    <3>6. msg.quiet => msg.at + Min(AreaOf(framer.width, msg.encoder)) = Min(msg.of)
      BY <2>2, <3>1, <3>4, <3>5 DEF PlacedIn
    <3> QED BY <1>1, <3>1, <3>6 DEF Placed
  <2>3. \A x \in draws' : x = d /\ Accepts(msg) /\ msg.kind = "Fragment"
    BY <1>2
  <2> QED BY <1>2, <2>1, <2>2, <2>3 DEF Drawn
<1>4. TypesOK'
  <2>1. DrawingTypeOK'
    BY <1>2 DEF IInv, TypesOK, DrawingTypeOK
  <2>2. SendingTypeOK'
    BY <1>2 DEF IInv, TypesOK, SendingTypeOK, sending, None
  <2> QED BY <1>2, <2>1, <2>2, ScreenSame, FramesSame DEF TypesOK
<1>5. AllSound'
  <2>1. InFlight' \subseteq InFlight
    BY <1>2 DEF InFlight, sending, frames
  <2> QED BY <1>2, <2>1, SoundStays DEF screen
<1>6. DrawnInPlace'
  BY <1>2 DEF IInv, DrawnInPlace
<1>7. /\ Numbered' /\ OneWidth' /\ InOrder' /\ Told' /\ OneRequest' /\ RateIInv'
      /\ CursorIInv'
  BY <1>2, NumbersSame, OrderSame, ToldSame, RateSame, CursorSame DEF screen, frames, sending
<1> QED BY <1>3, <1>4, <1>5, <1>6, <1>7 DEF IInv

LEMMA HandDrawKeeps ==
  ASSUME IInv, HandDraw
  PROVE  IInv'
<1>1. /\ painted' = {[draw |-> d, shown |-> shown_config] : d \in draws} /\ draws' = {}
      /\ UNCHANGED <<workload, screen, frames, sending, net, framer, primary, shown_config>>
      /\ UNCHANGED <<stopping, rateVars, cursorVars, ec>>
  BY DEF HandDraw
<1>2. Drawn'
  BY <1>1 DEF IInv, Drawn
<1>3. DrawnInPlace'
  <2> SUFFICES ASSUME NEW p \in painted'
               PROVE  p.draw.config = p.shown /\ (p.draw.quiet => p.draw.at = p.draw.of)
    BY DEF DrawnInPlace
  <2>1. PICK d \in draws : p = [draw |-> d, shown |-> shown_config]
    BY <1>1
  <2>2. p.draw = d /\ p.shown = shown_config
    BY <2>1
  <2> QED BY <2>2 DEF IInv, Drawn
<1>4. TypesOK'
  <2>1. DrawingTypeOK'
    BY <1>1 DEF IInv, TypesOK, DrawingTypeOK
  <2> QED BY <1>1, <2>1, ScreenSame, FramesSame, SendingSame DEF TypesOK
<1>5. AllSound'
  <2>1. InFlight' \subseteq InFlight
    BY <1>1, FlightSame DEF frames
  <2> QED BY <1>1, <2>1, SoundStays DEF screen
<1>6. /\ Numbered' /\ OneWidth' /\ InOrder' /\ Told' /\ OneRequest' /\ RateIInv'
      /\ CursorIInv'
  BY <1>1, NumbersSame, OrderSame, ToldSame, RateSame, CursorSame DEF screen, frames, sending
<1> QED BY <1>2, <1>3, <1>4, <1>5, <1>6 DEF IInv

\* What the cursor's steps do to the event channel.
LEMMA CursorSends ==
  ASSUME Cursor
  PROVE  \/ ec' = ec
         \/ \E m : ~IsConfig(m) /\ ec' = Append(ec, m)
         \/ ec # <<>> /\ ec' = Tail(ec)
<1>1. ASSUME NEW id, SendCursor(id, CursorChange(id)) \/ SendCursor(id, CursorImage(id))
      PROVE  ec' = ec \/ \E m : ~IsConfig(m) /\ ec' = Append(ec, m)
  <2>1. ~IsConfig(CursorChange(id)) /\ ~IsConfig(CursorImage(id))
    BY DEF IsConfig, CursorChange, CursorImage
  <2> QED BY <1>1, <2>1 DEF SendCursor
<1>2. ASSUME NEW s, XCursorChanges(s)
      PROVE  ec' = ec
  BY <1>2 DEF XCursorChanges
<1>3. CASE CachedChange
  BY <1>1, <1>3 DEF CachedChange
<1>4. CASE AskForImage \/ capture_cursor_fails
  BY <1>4 DEF AskForImage, capture_cursor_fails
<1>5. CASE capture_cursor
  <2>1. CASE noticed # cursor /\ cursor \in DOMAIN cursor_cache
    BY <1>1, <1>5, <2>1 DEF capture_cursor
  <2>2. CASE ~(noticed # cursor /\ cursor \in DOMAIN cursor_cache)
    <3>1. PICK id : id = Image[cursor]
      OBVIOUS
    <3>2. SendCursor(id, IF id \in Range(cursor_cache) THEN CursorChange(id) ELSE CursorImage(id))
      BY <1>5, <2>2, <3>1 DEF capture_cursor
    <3>3. SendCursor(id, CursorChange(id)) \/ SendCursor(id, CursorImage(id))
      BY <3>2
    <3> QED BY <1>1, <3>3
  <2> QED BY <2>1, <2>2
<1>6. CASE TakeCursor
  BY <1>6 DEF TakeCursor
<1> QED BY <1>2, <1>3, <1>4, <1>5, <1>6 DEF Cursor, CursorBackend

LEMMA CursorKeeps ==
  ASSUME IInv, Cursor
  PROVE  IInv'
<1>1. UNCHANGED <<workload, screen, frames, sending, net, drawing, stopping>> /\ UNCHANGED rateVars
  BY DEF Cursor, mediaVars
<1>2. CursorIInv'
  BY XCursorChangesKeeps, CachedChangeKeeps, AskForImageKeeps, CaptureFailsKeeps, CaptureKeeps,
     TakeCursorKeeps DEF IInv, Cursor, CursorBackend
<1>3. primary' = primary /\ framer' = framer /\ backend' = backend /\ announced' = announced
  BY <1>1 DEF drawing, screen
<1>4. Announcements' \subseteq Announcements /\ InOrder'
  <2>1. CASE ec' = ec
    BY <1>3, <2>1, OrderSame DEF Announcements, IsConfig
  <2>2. ASSUME NEW m, ~IsConfig(m), ec' = Append(ec, m)
        PROVE  Announcements' \subseteq Announcements /\ InOrder'
    <3>1. ec \in Seq(Posted) /\ ec' \in Seq(Posted)
      BY <1>2, EventsTyped DEF CursorIInv, CursorTypeOK
    <3>2. m \in Posted
      <4>1. ec \in Seq(Posted \union {m}) /\ m \in Posted \union {m}
        BY <3>1
      <4>2. Len(ec) + 1 \in DOMAIN ec' /\ ec'[Len(ec) + 1] = m
        BY <2>2, <4>1
      <4> QED BY <3>1, <4>2
    <3>3. Announcements' \subseteq Announcements
      BY <1>3, <2>2, <3>1, <3>2, AnnouncementsAppended
    <3>4. /\ DOMAIN ec = 1 .. Len(ec) /\ DOMAIN ec' = 1 .. Len(ec) + 1 /\ Len(ec) \in Nat
          /\ \A i \in DOMAIN ec : ec'[i] = ec[i]
          /\ ec'[Len(ec) + 1] = m
      BY <2>2, <3>1, <3>2, Appends
    <3>5. \A i \in DOMAIN ec' : IsConfig(ec'[i]) => i \in DOMAIN ec /\ ec'[i] = ec[i]
      BY <2>2, <3>4
    <3>6. InOrder'
      BY <1>3, <3>5 DEF IInv, InOrder, IsConfig
    <3> QED BY <3>3, <3>6
  <2>3. CASE ec # <<>> /\ ec' = Tail(ec)
    <3>1. /\ \A i \in DOMAIN ec' : IsConfig(ec'[i]) =>
               ec'[i] \in Announcements /\ \A j \in DOMAIN primary : primary[j].id < ec'[i].id
          /\ \A i, j \in DOMAIN ec' :
               IsConfig(ec'[i]) /\ IsConfig(ec'[j]) /\ i < j => ec'[i].id < ec'[j].id
      BY <2>3, EventTaken
    <3>2. Announcements' \subseteq Announcements
      BY <1>3, <3>1 DEF Announcements, IsConfig
    <3>3. InOrder'
      BY <1>3, <3>1 DEF IInv, InOrder, IsConfig
    <3> QED BY <3>2, <3>3
  <2> QED BY <2>1, <2>2, <2>3, CursorSends
<1>5. Configurations' \subseteq Configurations
  BY <1>3, <1>4 DEF Configurations
<1>6. AllSound' /\ OneWidth'
  BY <1>1, <1>3, <1>5, FlightSame, FewerConfigs DEF frames
<1>7. Numbered'
  BY <1>1, <1>3, <1>4 DEF IInv, Numbered, screen, frames, None
<1>8. TypesOK'
  BY <1>1, ScreenSame, FramesSame, SendingSame, DrawingSame DEF TypesOK
<1>9. Told' /\ Drawn' /\ DrawnInPlace' /\ OneRequest' /\ RateIInv'
  BY <1>1, ToldSame, DrawingSame, RateSame DEF screen, frames, sending
<1> QED BY <1>2, <1>4, <1>6, <1>7, <1>8, <1>9 DEF IInv

-----------------------------------------------------------------------------
(* The session's end, and the rate limiter.                                *)

LEMMA StopKeeps ==
  ASSUME IInv, Stop
  PROVE  IInv'
<1>1. stopping' = TRUE /\ UNCHANGED <<workload, screen, frames, sending, net, drawing>>
      /\ UNCHANGED <<rateVars, cursorVars, ec>>
  BY DEF Stop
<1>2. ScreenTypeOK'
  BY <1>1 DEF IInv, TypesOK, ScreenTypeOK, screen, None
<1>3. TypesOK'
  BY <1>1, <1>2, FramesSame, SendingSame, DrawingSame DEF TypesOK
<1>4. AllSound'
  <2>1. InFlight' \subseteq InFlight
    BY <1>1, FlightSame DEF frames
  <2> QED BY <1>1, <2>1, SoundStays DEF screen, drawing
<1>5. /\ Numbered' /\ OneWidth' /\ InOrder' /\ Told' /\ Drawn' /\ DrawnInPlace' /\ OneRequest'
      /\ RateIInv' /\ CursorIInv'
  BY <1>1, NumbersSame, OrderSame, ToldSame, DrawingSame, RateSame, CursorSame
     DEF screen, frames, sending, drawing
<1> QED BY <1>3, <1>4, <1>5 DEF IInv

\* The limiter answers requests and makes none.
LEMMA LimiterAnswers ==
  ASSUME RateIInv, NEW cancelled, RateNext(cancelled), request.at = "none"
  PROVE  request'.at = "none"
<1>1. request \in Request
  BY DEF RateIInv, RateTypeOK
<1>2. CASE Tick(cancelled)
  <2>1. PICK held : request' = [request EXCEPT !.held = held]
    BY <1>2 DEF Tick
  <2> QED BY <1>1, <2>1 DEF Request
<1>3. CASE LimiterStops(cancelled)
  BY <1>3 DEF LimiterStops
<1>4. CASE Spawn(cancelled) \/ try_acquire_many \/ acquire_many
  BY <1>4 DEF Spawn, try_acquire_many, acquire_many
<1> QED BY <1>2, <1>3, <1>4 DEF RateNext

LEMMA LimiterKeeps ==
  ASSUME IInv, Limiter
  PROVE  IInv'
<1>1. /\ RateNext(stopping) /\ UNCHANGED <<cursorVars, ec>>
      /\ UNCHANGED <<workload, screen, frames, sending, net, drawing, stopping>>
  BY DEF Limiter, mediaVars
<1>2. RateIInv'
  <2>1. RateIInv /\ stopping \in BOOLEAN
    BY DEF IInv, TypesOK, ScreenTypeOK
  <2> QED BY <1>1, <2>1, RateStepPreserves DEF LimiterNext
<1>3. OneRequest'
  BY <1>1, LimiterAnswers DEF IInv, OneRequest, sending
<1>4. SendingTypeOK' /\ InFlight' \subseteq InFlight
  BY <1>1, SendingSame, FlightSame DEF frames
<1> QED BY <1>1, <1>2, <1>3, <1>4, HandlerStepKeeps

-----------------------------------------------------------------------------
LEMMA InitEstablishes ==
  ASSUME Init
  PROVE  IInv
<1>1. PICK load \in Workloads :
        /\ workload = load /\ caps = load.caps
        /\ backend = [at |-> "select", id |-> 0, width |-> load.width, next |-> 0]
        /\ extent = load.width /\ announced = 0 /\ captured = {} /\ ndc = None
        /\ tb = Fresh(0, load.width)
        /\ slot = [e \in Encoders |-> None] /\ command = [e \in Encoders |-> 0]
        /\ encoder = [e \in Encoders |-> [at |-> "run", width |-> load.width, out |-> <<>>]]
        /\ mm = None /\ handler = [at |-> "select", msg |-> None] /\ net = {}
        /\ framer = [config |-> 0, width |-> load.width] /\ primary = None /\ draws = {}
        /\ shown_config = 0 /\ painted = {} /\ stopping = FALSE
        /\ RateInit /\ CursorInit
  BY DEF Init
<1>2. PICK width : width = load.width
  OBVIOUS
<1>3. load \in [width : Widths, asks : SUBSET Widths, configs : Nat, damages : Nat, frames : Nat,
                failures : Nat, stops : BOOLEAN, cursors : BOOLEAN, delivers : BOOLEAN,
                caps : [server : Nat \union {NoCap}, client : Nat]]
  BY MediaAssumption
<1>4. width \in Widths
  BY <1>2, <1>3
<1>5. /\ <<>> \in Seq(MediaMessage) /\ <<>> \in Seq(Config) /\ None = <<>> /\ DOMAIN None = {}
      /\ Len(None) = 0
  BY DEF None
<1>6. ScreenTypeOK
  <2>1. /\ backend.at = "select" /\ backend \in
          [at : {"select", "commands", "await", "gone"}, id : Nat, width : Widths,
           next : 0 .. EncoderCount]
    BY <1>1, <1>2, <1>4, MediaAssumption
  <2> QED BY <1>1, <1>2, <1>3, <1>4, <2>1 DEF ScreenTypeOK
<1>7. FramesTypeOK
  <2>1. tb \in [config : Nat, width : Widths, boxes : SUBSET SUBSET Nat, next : Nat]
        /\ IsFiniteSet(tb.boxes)
    <3>1. PICK columns : columns = Columns(width)
      OBVIOUS
    <3>2. columns \in SUBSET Nat /\ IsFiniteSet({columns})
      <4>1. columns \in SUBSET Nat
        BY <3>1 DEF Columns
      <4> QED BY <4>1, FS_Singleton
    <3>3. tb = [config |-> 0, width |-> width, boxes |-> {columns}, next |-> 0]
      BY <1>1, <1>2, <3>1 DEF Fresh
    <3> QED BY <1>4, <3>2, <3>3
  <2>2. /\ DOMAIN slot = Encoders /\ \A e \in Encoders : slot[e] = None
        /\ command \in [Encoders -> Widths \union {0}]
    BY <1>1
  <2>3. encoder \in [Encoders -> [at : {"run", "frames", "gone"}, width : Widths,
                                  out : Seq(MediaMessage)]]
    <3>1. [at |-> "run", width |-> width, out |-> <<>>] \in
            [at : {"run", "frames", "gone"}, width : Widths, out : Seq(MediaMessage)]
      BY <1>4, <1>5
    <3> QED BY <1>1, <1>2, <3>1
  <2>4. Between
    BY <2>2 DEF Between
  <2> QED BY <2>1, <2>2, <2>3, <2>4 DEF FramesTypeOK
<1>8. SendingTypeOK /\ DrawingTypeOK
  BY <1>1, <1>2, <1>4, <1>5 DEF SendingTypeOK, DrawingTypeOK
<1>9. ec = <<>> /\ primary = <<>> /\ Announcements = {}
  BY <1>1, <1>5 DEF CursorInit, Announcements
<1>10. Configurations = {[id |-> 0, width |-> width]}
  BY <1>1, <1>2, <1>9 DEF Configurations
<1>11. Numbered /\ OneWidth /\ InOrder
  BY <1>1, <1>2, <1>9, <1>10 DEF Numbered, OneWidth, InOrder, Fresh
<1>12. Told
  BY <1>1 DEF Told
<1>13. AllSound
  <2>1. InFlight = {}
    BY <1>1, <1>5 DEF InFlight
  <2> QED BY <2>1 DEF AllSound
<1>14. Drawn /\ DrawnInPlace /\ OneRequest
  BY <1>1 DEF Drawn, DrawnInPlace, OneRequest, RateInit, NoRequest
<1>15. RateIInv
  BY <1>1, <1>3, RateInitEstablishes DEF CapsTypeOK
<1>16. CursorIInv
  <2>1. cursor \in Serials
    BY <1>1, CursorAssumption, NatLeast DEF CursorInit
  <2>2. /\ notices = <<>> /\ noticed = NoCursor /\ cursor_cache = <<>> /\ last_cursor_id = NoCursor
        /\ ec = <<>> /\ unresolved = {} /\ changes = 0 /\ fails = 0
    BY <1>1 DEF CursorInit
  <2>3. DOMAIN cursor_cache = {} /\ DOMAIN ec = {}
    BY <2>2
  <2>4. CursorTypeOK
    BY <2>1, <2>2, <2>3 DEF CursorTypeOK
  <2> QED BY <2>2, <2>3, <2>4 DEF CursorIInv, Cached, Resolves, Followed
<1> QED BY <1>6, <1>7, <1>8, <1>11, <1>12, <1>13, <1>14, <1>15, <1>16 DEF IInv, TypesOK

LEMMA NextKeeps ==
  ASSUME IInv, [Next]_vars
  PROVE  IInv'
<1>1. CASE Backend
  BY <1>1, DisplayEventKeeps, DamageEventKeeps, ReconfigureKeeps, AnnounceKeeps, BackendStopsKeeps
     DEF Backend
<1>2. CASE FrameSync
  BY <1>2, ApplyConfigKeeps, CutFrameKeeps, ApplyDamageKeeps DEF FrameSync
<1>3. CASE Handler
  BY <1>3, HandlerReceivesKeeps, GateOpensKeeps, HandlerEndsKeeps, HandlerSendsKeeps
     DEF Handler, HandlerTask
<1>4. CASE Client
  BY <1>4, TakeConfigKeeps, ForwardConfigKeeps, HandDrawKeeps, TakeMediaKeeps DEF Client
<1>5. ASSUME NEW e \in Encoders, Encoder(e)
      PROVE  IInv'
  BY <1>5, TakeCommandKeeps, TakeFrameKeeps, PollKeeps, SendMessageKeeps, EncoderStopsKeeps
     DEF Encoder, EncoderTask
<1>6. CASE UNCHANGED vars
  <2>1. /\ UNCHANGED <<workload, screen, frames, drawing, stopping, cursorVars, ec>>
        /\ UNCHANGED <<sending, net, rateVars>>
    BY <1>6 DEF vars, mediaVars
  <2>2. SendingTypeOK' /\ InFlight' \subseteq InFlight /\ OneRequest' /\ RateIInv'
    BY <2>1, SendingSame, FlightSame, RateSame DEF frames, sending
  <2> QED BY <2>1, <2>2, HandlerStepKeeps
<1> QED
  BY <1>1, <1>2, <1>3, <1>4, <1>5, <1>6, LimiterKeeps, CursorKeeps, StopKeeps DEF Next

\* What the application is given to draw belongs to the configuration it was told
\* of last, and a frame that no reconfiguration overlaps is drawn where it was
\* captured: for every number of encoders, every set of widths and every
\* interleaving of the backend task, the encoders, the media channel handler and
\* the client's threads (backend.rs, encoder.rs, media_channel_handler.rs, frame.rs).
THEOREM DrawsAreInPlace == Spec => []DrawnInPlace
<1>1. Init => IInv
  BY InitEstablishes
<1>2. IInv /\ [Next]_vars => IInv'
  BY NextKeeps
<1>3. IInv => DrawnInPlace
  BY DEF IInv
<1> QED BY <1>1, <1>2, <1>3, PTL DEF Spec

\* The client resolves every cursor change it is sent, and when nothing about
\* cursors is on its way the last one sent is the X server's, for every set of
\* cursors and every number of changes, interleaved with configurations on the
\* same channel (the cursor branch of backend.rs, event.rs of the client).
THEOREM CursorIsFollowed == Spec => []CursorFollows
<1>1. Init => IInv
  BY InitEstablishes
<1>2. IInv /\ [Next]_vars => IInv'
  BY NextKeeps
<1>3. IInv => CursorFollows
  <2> SUFFICES ASSUME IInv PROVE CursorFollows
    OBVIOUS
  <2>1. unresolved = {} /\ Followed
    BY DEF IInv, CursorIInv
  <2> QED BY <2>1 DEF CursorFollows, CursorSettled, Followed
<1> QED BY <1>1, <1>2, <1>3, PTL DEF Spec

\* The media channel handler of this pipeline is granted no more than its rate:
\* it has one request at a time, and no message larger than the largest
\* (media_channel_handler.rs, AsyncGate::wait and TokenBucket of rate_limit.rs).
THEOREM PipelineKeepsRate == Spec => []RateHolds
<1>1. Init => IInv
  BY InitEstablishes
<1>2. IInv /\ [Next]_vars => IInv'
  BY NextKeeps
<1>3. IInv => RateHolds
  <2> SUFFICES ASSUME IInv PROVE allowance >= 0
    BY DEF RateHolds
  <2>1. bucket \in Nat /\ request.held \in Nat /\ allowance \in Int
    BY DEF IInv, RateIInv, RateTypeOK, Request
  <2>2. bucket + request.held <= allowance
    BY DEF IInv, RateIInv, Covered
  <2> QED BY <2>1, <2>2
<1> QED BY <1>1, <1>2, <1>3, PTL DEF Spec
=============================================================================
