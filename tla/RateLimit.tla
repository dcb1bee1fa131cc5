----------------------------- MODULE RateLimit -----------------------------
(***************************************************************************)
(* The server's rate limiter (aperturec-server/src/task/rate_limit.rs): a  *)
(* task that grants bytes out of a token bucket it refills at every tick.  *)
(* Its only user is the media channel handler, which waits for an answer   *)
(* before it asks again, so that there is one request at a time.           *)
(*                                                                         *)
(* The bucket is a tokio semaphore.  A waiter of it takes what there is    *)
(* and then every token that is added until it has all it needs, so that a *)
(* message larger than the bucket passes after a few ticks; the tokens it  *)
(* holds are not available permits.                                        *)
(***************************************************************************)
EXTENDS Integers, FiniteSetsExt

CONSTANTS
  NoCap,             \* None, for the server's cap
  TokensPerMbps,     \* the tokens one Mbps is worth between two ticks
  MaxMessage         \* the bytes of the largest message

ASSUME RateAssumption == TokensPerMbps \in Nat /\ MaxMessage \in Nat \ {0}

VARIABLES
  caps,      \* server_mbps_max, NoCap for none; client_mbps_max, 0 for none
  bucket,    \* available permits
  request,   \* the handler's request: where it is, its bytes, the tokens it holds
  limiter,   \* the task: "run" or "gone"
  allowance  \* history: the bytes that may still be granted, see RateHolds

rateVars == <<caps, bucket, request, limiter, allowance>>

\* Configuration::new: the stricter of the caps there are.
mbps_max ==
  CASE caps.server = NoCap /\ caps.client = 0 -> NoCap
    [] caps.server = NoCap /\ caps.client # 0 -> caps.client
    [] caps.server # NoCap /\ caps.client = 0 -> caps.server
    [] OTHER -> Min({caps.server, caps.client})

\* RateLimitHandle::new: there is a command to send only when there is a cap.
Limited == mbps_max # NoCap

token_capacity == (IF Limited THEN mbps_max ELSE 0) * TokensPerMbps

\* The most that may be granted between two ticks: the bucket, and what the
\* largest message has been waiting with.
Burst == token_capacity + MaxMessage - 1

NoRequest == [at |-> "none", bytes |-> 0, held |-> 0]

RateInit ==
  /\ bucket = token_capacity
  /\ request = NoRequest
  /\ limiter = "run"
  /\ allowance = Burst

\* request_to_send: the request is queued, or fails when the task is gone and
\* its receiver with it.
request_to_send(bytes) ==
  /\ request' = [at |-> IF limiter = "run" THEN "queued" ELSE "refused",
                 bytes |-> bytes, held |-> 0]
  /\ UNCHANGED <<caps, bucket, limiter, allowance>>

\* The task receives the request and spawns a task that gets its tokens.
Spawn(cancelled) ==
  /\ limiter = "run" /\ ~cancelled
  /\ request.at = "queued"
  /\ request' = [request EXCEPT !.at = "spawned"]
  /\ UNCHANGED <<caps, bucket, limiter, allowance>>

\* Mutant: the permit is dropped instead of forgotten, which gives it back.
try_acquire_many_NotForgotten ==
  /\ request.at = "spawned" /\ request.bytes <= bucket
  /\ request' = [request EXCEPT !.at = "granted"]
  /\ allowance' = allowance - request.bytes
  /\ UNCHANGED <<caps, bucket, limiter>>

\* get_tokens: there are enough, and they are forgotten.
try_acquire_many ==
  /\ request.at = "spawned" /\ request.bytes <= bucket
  /\ bucket' = bucket - request.bytes
  /\ request' = [request EXCEPT !.at = "granted"]
  /\ allowance' = allowance - request.bytes
  /\ UNCHANGED <<caps, limiter>>

\* get_tokens: there are not, and the request waits with those there are.
acquire_many ==
  /\ request.at = "spawned" /\ request.bytes > bucket
  /\ request' = [request EXCEPT !.at = "waiting", !.held = bucket]
  /\ bucket' = 0
  /\ UNCHANGED <<caps, limiter, allowance>>

\* Mutant: only a bucket that has tokens left is filled.
fill_WhenUsed ==
  LET added == IF bucket > 0 THEN token_capacity - bucket ELSE 0
      taken == IF request.at = "waiting" THEN Min({added, request.bytes - request.held}) ELSE 0
  IN [added |-> added, taken |-> taken]

\* fill: the tokens added, and those of them that a waiting request takes.
fill ==
  LET added == token_capacity - bucket
      taken == IF request.at = "waiting" THEN Min({added, request.bytes - request.held}) ELSE 0
  IN [added |-> added, taken |-> taken]

\* A tick of the interval: the bucket is filled.  The select is biased, so
\* that a request in the queue is received first.
Tick(cancelled) ==
  /\ limiter = "run" /\ ~cancelled
  /\ request.at # "queued"
  /\ LET held == request.held + fill.taken
         done == request.at = "waiting" /\ held = request.bytes
     IN /\ bucket' = bucket + fill.added - fill.taken
        /\ request' = IF done THEN [request EXCEPT !.at = "granted", !.held = 0]
                      ELSE [request EXCEPT !.held = held]
        /\ allowance' = Min({allowance + token_capacity, Burst})
                          - (IF done THEN request.bytes ELSE 0)
  /\ UNCHANGED <<caps, limiter>>

\* The task is cancelled, and so are the tasks it spawned: their answers are
\* dropped, and the permits held go back.
LimiterStops(cancelled) ==
  /\ cancelled /\ limiter = "run"
  /\ limiter' = "gone"
  /\ request' = IF request.at \in {"queued", "spawned", "waiting"}
                  THEN [request EXCEPT !.at = "refused", !.held = 0] ELSE request
  /\ bucket' = bucket + request.held
  /\ UNCHANGED <<caps, allowance>>

RateNext(cancelled) ==
  \/ Spawn(cancelled) \/ try_acquire_many \/ acquire_many
  \/ Tick(cancelled) \/ LimiterStops(cancelled)

\* The runtime polls a task that is ready, and the interval ticks.
RateFairness(cancelled, v) ==
  /\ WF_v(Spawn(cancelled)) /\ WF_v(try_acquire_many) /\ WF_v(acquire_many)
  /\ WF_v(Tick(cancelled)) /\ WF_v(LimiterStops(cancelled))

\* In every stretch of time with k ticks at most k buckets and one burst are
\* granted, although a waiting message holds tokens that the refill does not
\* count (TokenBucket::get_tokens and fill): allowance gains a bucket at every
\* tick, up to a burst, and pays for every message.
RateHolds == Limited => allowance >= 0

=============================================================================
