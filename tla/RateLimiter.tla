----------------------------- MODULE RateLimiter -----------------------------
(***************************************************************************)
(* The security middleware (server/security.py): the optional API key and  *)
(* the token bucket of every client.                                       *)
(*                                                                         *)
(* dispatch runs on the event loop and awaits nothing before call_next, so *)
(* a request's passage through the middleware is one action.  The clock is *)
(* counted in ticks.  Tokens are kept in fractions of a request: a request *)
(* costs Minute units and a tick earns limit units, which makes `limit'    *)
(* requests per minute exact in integers.                                  *)
(***************************************************************************)
EXTENDS Integers, Sequences, Functions

CONSTANTS
  Keys,       \* client keys: the key supplied, or else the host
  Wrong,      \* the keys a server that asks for a key does not accept
  Limits,     \* values SOC_GYM_RATE_LIMIT may be given; 0 disables
  Minute,     \* ticks of a minute
  MaxLag,     \* ticks that may pass at most between `now' and a new bucket's own reading
  ClockBound  \* bound of the model

ASSUME LimiterAssumption ==
  /\ Limits \subseteq Nat /\ Minute \in Nat \ {0} /\ MaxLag \in Nat
  /\ ClockBound \in Nat /\ Wrong \subseteq Keys

VARIABLES
  now,         \* time.monotonic()
  env_limit,   \* SOC_GYM_RATE_LIMIT
  key_needed,  \* SOC_GYM_API_KEY is set
  limiter,     \* SecurityMiddleware._limiter: [limit, buckets]
  admissions,  \* history: key -> the times this limiter let it through
  refused      \* history: what the last refusal knew, [at, first, limit, times]

Lags == 0..MaxLag

middleware == <<limiter, admissions, refused>>
environs == <<env_limit, key_needed>>
limiter_vars == <<now, environs, middleware>>

Least(a, b) == IF a < b THEN a ELSE b

\* RateLimiter(limit)
NewLimiter(limit) == [limit |-> limit, buckets |-> <<>>]

\* _get_limiter: a changed limit brings a new limiter, and the buckets of the
\* old one are forgotten.
Limiter == IF limiter.limit = env_limit THEN limiter ELSE NewLimiter(env_limit)

Past == IF limiter.limit = env_limit THEN admissions ELSE <<>>

NoRefusal == [at |-> 0, first |-> FALSE, limit |-> 0, times |-> <<>>]

TimesOf(k) == IF k \in DOMAIN Past THEN Past[k] ELSE <<>>

\* Mutant: the bucket is not capped.
RefilledUncapped(bucket, limit) ==
  [tokens  |-> bucket.tokens + (now - bucket.updated) * limit, updated |-> now]

Refilled(bucket, limit) ==
  [tokens  |-> Least(limit * Minute, bucket.tokens + (now - bucket.updated) * limit),
   updated |-> now]

\* The bucket allow() decides on: `now' was read before a new bucket read the
\* clock itself, so a new bucket may lose the tokens of that lag.
BucketOf(k, lag) ==
  Refilled(IF k \in DOMAIN Limiter.buckets
           THEN Limiter.buckets[k]
           ELSE [tokens |-> Limiter.limit * Minute, updated |-> now + lag],
           Limiter.limit)

RefusalOf(k) == [at |-> now, first |-> k \notin DOMAIN Limiter.buckets,
                 limit |-> env_limit, times |-> TimesOf(k)]

Keep(k, bucket) ==
  limiter' = [Limiter EXCEPT !.buckets =
                [x \in DOMAIN @ \cup {k} |-> IF x = k THEN bucket ELSE @[x]]]

Checked(k) == ~(key_needed /\ k \in Wrong)

\* allow() takes a token ...
Admit(k) ==
  /\ Checked(k) /\ env_limit > 0
  /\ \E lag \in Lags :
       LET b == BucketOf(k, lag)
       IN  /\ b.tokens >= Minute
           /\ Keep(k, [b EXCEPT !.tokens = @ - Minute])
  /\ admissions' = [x \in DOMAIN Past \cup {k} |->
                      IF x = k THEN Append(TimesOf(x), now) ELSE Past[x]]
  /\ UNCHANGED <<now, environs, refused>>

\* Mutant: a client with exactly one token left is refused.
ThrottleAtOne(k) ==
  /\ Checked(k) /\ env_limit > 0
  /\ \E lag \in Lags :
       LET b == BucketOf(k, lag)
       IN  b.tokens <= Minute /\ Keep(k, b)
  /\ admissions' = Past
  /\ refused' = RefusalOf(k)
  /\ UNCHANGED <<now, environs>>

\* ... or finds less than one, keeps the refill and answers 429.
Throttle(k) ==
  /\ Checked(k) /\ env_limit > 0
  /\ \E lag \in Lags :
       LET b == BucketOf(k, lag)
       IN  b.tokens < Minute /\ Keep(k, b)
  /\ admissions' = Past
  /\ refused' = RefusalOf(k)
  /\ UNCHANGED <<now, environs>>

\* No limit, or a path that is exempt: the request passes, and a changed limit
\* has replaced the limiter all the same.
PassUnlimited ==
  /\ limiter' = Limiter /\ admissions' = Past
  /\ UNCHANGED <<now, environs, refused>>

\* 401 is answered before the limiter is looked at.
Unauthorized(k) == ~Checked(k) /\ UNCHANGED limiter_vars

Tick == now < ClockBound /\ now' = now + 1 /\ UNCHANGED <<environs, middleware>>

\* An operator changes the environment variables of the running server.
Configure ==
  /\ env_limit' \in Limits /\ key_needed' \in BOOLEAN
  /\ UNCHANGED <<now, middleware>>

LimiterInit ==
  /\ now = 0 /\ env_limit \in Limits /\ key_needed \in BOOLEAN
  /\ limiter = NewLimiter(env_limit)
  /\ admissions = <<>> /\ refused = NoRefusal

LimiterNext ==
  \/ \E k \in Keys : Admit(k) \/ Throttle(k) \/ Unauthorized(k)
  \/ PassUnlimited
  \/ Tick
  \/ Configure

LimiterSpec == LimiterInit /\ [][LimiterNext]_limiter_vars

-----------------------------------------------------------------------------
(* Properties.                                                             *)

\* The bucket's promise ("limit requests per minute, burst up to limit") over
\* every window, not only whole minutes: between the i-th and the j-th
\* admission of a client no more than a full bucket and what the window earned
\* were let through.  One limiter speaks for its own time only.
EveryWindowWithinRate ==
  \A k \in DOMAIN admissions : \A i, j \in DOMAIN admissions[k] :
    i <= j => (j - i + 1) * Minute
                <= limiter.limit * (Minute + admissions[k][j] - admissions[k][i])

\* allow() never refuses what the rate has room for: at a refusal some window
\* that began with an admission is full but for less than one request.  Only the
\* first window may be short of what the new bucket lost to the lag, and only
\* a bucket of a single request is refused before any admission.
NoNeedlessRefusal ==
  refused # NoRefusal =>
    LET times   == refused.times
        n       == Len(times)
        lost(i) == IF i <= 1 THEN refused.limit * MaxLag ELSE 0
        full(i) == (n - i + 2) * Minute
                     > refused.limit * (Minute + refused.at - times[i]) - lost(i)
    IN  IF n = 0 THEN refused.limit * Minute - lost(0) < Minute
                 ELSE \E i \in 1..n : full(i)

\* A client's first request finds a full bucket ("burst up to limit", class
\* RateLimiter) and is let through.
FirstRequestPasses == ~refused.first

=============================================================================
