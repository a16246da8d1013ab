------------------------- MODULE RateLimiter_proofs --------------------------
(***************************************************************************)
(* Proofs about RateLimiter, for every set of clients and limits, every    *)
(* length of the minute and every lag, without the bound of the clock.     *)
(***************************************************************************)
EXTENDS RateLimiter, SequenceTheorems, TLAPS

-----------------------------------------------------------------------------
(* What a bucket still holds is what its client's past has left of a full  *)
(* bucket: for every admission, the requests since then and the tokens are *)
(* covered by the full bucket of that time and what was earned since.      *)

Burst(lim) == lim * Minute

Covered(bucket, lim, times) ==
  \A i \in 1..Len(times) :
    /\ times[i] <= bucket.updated
    /\ (Len(times) - i + 1) * Minute + bucket.tokens
         <= Burst(lim) + (bucket.updated - times[i]) * lim

Holds(bucket, lim, times) ==
  /\ bucket.tokens \in Int /\ bucket.updated \in Nat
  /\ bucket.tokens <= Burst(lim) /\ bucket.updated <= now
  /\ Covered(bucket, lim, times)

Within(times, lim) ==
  \A i, j \in 1..Len(times) :
    i <= j => (j - i + 1) * Minute <= Burst(lim) + (times[j] - times[i]) * lim

LimiterInv ==
  /\ now \in Nat /\ env_limit \in Nat /\ limiter.limit \in Nat
  /\ limiter = [limit |-> limiter.limit, buckets |-> limiter.buckets]
  /\ DOMAIN admissions \subseteq DOMAIN limiter.buckets
  /\ \A k \in DOMAIN admissions : /\ admissions[k] \in Seq(Nat)
                                  /\ Within(admissions[k], limiter.limit)
  /\ \A k \in DOMAIN limiter.buckets :
       Holds(limiter.buckets[k], limiter.limit,
             IF k \in DOMAIN admissions THEN admissions[k] ELSE <<>>)

-----------------------------------------------------------------------------
(* Arithmetic.                                                             *)

\* What is earned over two adjoining stretches adds up.
LEMMA Earned ==
  ASSUME NEW a \in Int, NEW b \in Int, NEW c \in Int, NEW lim \in Int
  PROVE  (c - a) * lim = (b - a) * lim + (c - b) * lim
OBVIOUS

\* One more request is one more Minute of tokens.
LEMMA OneMore ==
  ASSUME NEW n \in Int
  PROVE  (n + 1) * Minute = n * Minute + Minute /\ n * Minute \in Int /\ Minute \in Nat \ {0}
BY LimiterAssumption

\* Products of natural numbers are natural numbers.
LEMMA ProductsAreNat ==
  \A x, y \in Nat : x * y \in Nat
OBVIOUS

\* Refilling keeps what the past left, and the cap.
LEMMA RefillHolds ==
  ASSUME NEW lim \in Nat, NEW b, NEW times \in Seq(Nat), Holds(b, lim, times), now \in Nat
  PROVE  /\ Refilled(b, lim).tokens \in Int /\ Refilled(b, lim).updated = now
         /\ Holds(Refilled(b, lim), lim, times)
<1> DEFINE earned == (now - b.updated) * lim
           r == Refilled(b, lim)
<1>1. /\ b.tokens \in Int /\ b.updated \in Nat /\ b.tokens <= Burst(lim) /\ b.updated <= now
      /\ Covered(b, lim, times)
  BY DEF Holds
<1>2. Minute \in Nat \ {0} /\ Burst(lim) \in Nat
  BY LimiterAssumption, ProductsAreNat DEF Burst
<1>3. earned \in Int
  BY <1>1
<1>4. /\ r.updated = now
      /\ r.tokens = IF Burst(lim) < b.tokens + earned THEN Burst(lim) ELSE b.tokens + earned
  BY DEF Refilled, Least, Burst
<1> HIDE DEF earned, r
<1>5. r.tokens \in Int /\ r.tokens <= Burst(lim) /\ r.tokens <= b.tokens + earned
  BY <1>1, <1>2, <1>3, <1>4
<1>6. ASSUME NEW i \in 1..Len(times)
      PROVE  /\ times[i] <= now
             /\ (Len(times) - i + 1) * Minute + r.tokens <= Burst(lim) + (now - times[i]) * lim
  <2>1. times[i] \in Nat /\ Len(times) \in Nat /\ i \in Int
    OBVIOUS
  <2>2. /\ times[i] <= b.updated
        /\ (Len(times) - i + 1) * Minute + b.tokens
             <= Burst(lim) + (b.updated - times[i]) * lim
    BY <1>1 DEF Covered
  <2>3. (now - times[i]) * lim = (b.updated - times[i]) * lim + earned
    BY <1>1, <2>1, Earned DEF earned
  <2> DEFINE used == (Len(times) - i + 1) * Minute
             since == (b.updated - times[i]) * lim
             total == (now - times[i]) * lim
  <2>4. used \in Int /\ since \in Int /\ total \in Int
    BY SMTT(30), <1>1, <1>2, <2>1
  <2> HIDE DEF used, since, total
  <2>5. used + b.tokens <= Burst(lim) + since /\ total = since + earned
    BY <2>2, <2>3 DEF used, since, total
  <2>6. used + r.tokens <= Burst(lim) + total
    BY SMTT(30), <1>1, <1>2, <1>3, <1>5, <2>4, <2>5
  <2> QED
    BY <1>1, <2>1, <2>2, <2>6 DEF used, total
<1> QED
  BY <1>1, <1>4, <1>5, <1>6 DEF Holds, Covered, r

\* A request that takes its token leaves every window of its client covered.
LEMMA AdmissionHolds ==
  ASSUME NEW lim \in Nat, NEW b, NEW times \in Seq(Nat), now \in Nat,
         Holds(b, lim, times), b.updated = now, b.tokens >= Minute, Within(times, lim),
         NEW c, c.tokens = b.tokens - Minute, c.updated = now
  PROVE  Holds(c, lim, Append(times, now)) /\ Within(Append(times, now), lim)
<1> DEFINE more == Append(times, now)
           n == Len(times)
<1>1. /\ n \in Nat /\ Len(more) = n + 1 /\ more[n + 1] = now
      /\ \A i \in 1..n : more[i] = times[i] /\ times[i] \in Nat
  BY AppendProperties
<1>2. /\ b.tokens \in Int /\ b.tokens <= Burst(lim) /\ Covered(b, lim, times)
      /\ Minute \in Nat \ {0} /\ Burst(lim) \in Nat
  BY LimiterAssumption, ProductsAreNat DEF Holds, Burst
<1>3. c.tokens \in Nat /\ c.tokens <= Burst(lim) - Minute
  BY <1>2
<1> HIDE DEF more, n
<1>4. ASSUME NEW i \in 1..n
      PROVE  /\ more[i] <= now
             /\ (n + 1 - i + 1) * Minute + c.tokens <= Burst(lim) + (now - more[i]) * lim
  <2>1. /\ times[i] <= now
        /\ (n - i + 1) * Minute + b.tokens <= Burst(lim) + (now - times[i]) * lim
    BY <1>2 DEF Covered, n
  <2>2. (n + 1 - i + 1) * Minute = (n - i + 1) * Minute + Minute
    BY <1>1, <1>2
  <2> DEFINE used == (n - i + 1) * Minute
             total == (now - times[i]) * lim
  <2>3. used \in Int /\ total \in Int
    BY <1>1, <1>2
  <2> HIDE DEF used, total
  <2>4. used + Minute + c.tokens <= Burst(lim) + total
    BY SMTT(30), <1>2, <1>3, <2>1, <2>3 DEF used, total
  <2> QED
    BY <1>1, <2>1, <2>2, <2>4 DEF used, total
<1>5. /\ (n + 1 - (n + 1) + 1) * Minute + c.tokens <= Burst(lim) + (now - now) * lim
  <2>1. (n + 1 - (n + 1) + 1) * Minute = Minute /\ (now - now) * lim = 0
    BY <1>1, <1>2
  <2> QED
    BY <1>2, <1>3, <2>1
<1>6. \A i \in 1..(n + 1) : i = n + 1 \/ i \in 1..n
  BY <1>1
<1>7. Covered(c, lim, more)
  BY <1>1, <1>4, <1>5, <1>6 DEF Covered
<1>8. Within(more, lim)
  <2> SUFFICES ASSUME NEW i \in 1..(n + 1), NEW j \in 1..(n + 1), i <= j
               PROVE  (j - i + 1) * Minute <= Burst(lim) + (more[j] - more[i]) * lim
    BY <1>1 DEF Within
  <2>1. CASE j \in 1..n
    <3>1. i \in 1..n
      BY <1>1, <2>1
    <3> QED
      BY <1>1, <2>1, <3>1 DEF Within, n
  <2>2. CASE j = n + 1
    <3> DEFINE used == (n + 1 - i + 1) * Minute
               total == (now - more[i]) * lim
    <3>1. used + c.tokens <= Burst(lim) + total
      BY <1>1, <1>4, <1>5, <1>6
    <3>2. more[i] \in Int
      BY <1>1, <1>6
    <3>3. used \in Int /\ total \in Int
      BY <1>1, <1>2, <3>2
    <3> HIDE DEF used, total
    <3>4. used <= Burst(lim) + total
      BY <1>2, <1>3, <3>1, <3>3
    <3> QED
      BY <1>1, <2>2, <3>4 DEF used, total
  <2> QED
    BY <1>6, <2>1, <2>2
<1> QED
  BY <1>2, <1>3, <1>7, <1>8 DEF Holds, more

-----------------------------------------------------------------------------
(* Steps.                                                                  *)

\* What a request finds, the limiter replaced or not.
LEMMA Found ==
  ASSUME LimiterInv
  PROVE  /\ Limiter = [limit |-> env_limit, buckets |-> Limiter.buckets]
         /\ Limiter.limit = env_limit
         /\ DOMAIN Past \subseteq DOMAIN Limiter.buckets
         /\ \A k \in DOMAIN Past : Past[k] \in Seq(Nat) /\ Within(Past[k], env_limit)
         /\ \A k : TimesOf(k) \in Seq(Nat) /\ Within(TimesOf(k), env_limit)
         /\ \A k \in DOMAIN Limiter.buckets : Holds(Limiter.buckets[k], env_limit, TimesOf(k))
<1>1. Within(<<>>, env_limit) /\ <<>> \in Seq(Nat) /\ DOMAIN <<>> = {}
  BY DEF Within
<1>2. CASE limiter.limit = env_limit
  BY <1>1, <1>2 DEF LimiterInv, Limiter, Past, TimesOf
<1>3. CASE limiter.limit # env_limit
  <2>1. Limiter = [limit |-> env_limit, buckets |-> <<>>] /\ Past = <<>>
    BY <1>3 DEF Limiter, Past, NewLimiter
  <2>2. DOMAIN Past = {} /\ DOMAIN Limiter.buckets = {}
    BY <1>1, <2>1
  <2> QED
    BY <1>1, <2>1, <2>2 DEF TimesOf
<1> QED
  BY <1>2, <1>3

\* The bucket allow() decides on holds what the past left, a new one included.
LEMMA BucketHolds ==
  ASSUME LimiterInv, NEW k, NEW lag \in Lags
  PROVE  /\ Holds(BucketOf(k, lag), env_limit, TimesOf(k))
         /\ BucketOf(k, lag).updated = now
         /\ BucketOf(k, lag) = [tokens |-> BucketOf(k, lag).tokens, updated |-> now]
<1>1. now \in Nat /\ env_limit \in Nat /\ lag \in Nat /\ Minute \in Nat
  BY LimiterAssumption DEF LimiterInv, Lags
<1>2. CASE k \in DOMAIN Limiter.buckets
  <2>1. BucketOf(k, lag) = Refilled(Limiter.buckets[k], env_limit)
    BY <1>2, Found DEF BucketOf
  <2>2. Holds(Limiter.buckets[k], env_limit, TimesOf(k)) /\ TimesOf(k) \in Seq(Nat)
    BY <1>2, Found
  <2> QED
    BY <1>1, <2>1, <2>2, RefillHolds DEF Refilled
<1>3. CASE k \notin DOMAIN Limiter.buckets
  <2>1. TimesOf(k) = <<>>
    BY <1>3, Found DEF TimesOf
  <2> DEFINE full == Burst(env_limit)
             left == full + (now - (now + lag)) * env_limit
  <2>2. BucketOf(k, lag) = [tokens |-> Least(full, left), updated |-> now]
    BY <1>3, Found DEF BucketOf, Refilled, Burst
  <2>3. full \in Int /\ left \in Int
    BY <1>1 DEF Burst
  <2> HIDE DEF full, left
  <2>4. Least(full, left) \in Int /\ Least(full, left) <= full
    BY <2>3 DEF Least
  <2> QED
    BY <1>1, <2>1, <2>2, <2>4 DEF Holds, Covered, full
<1> QED
  BY <1>2, <1>3

\* A limiter that keeps the bucket of k, and the past of k with it.
LEMMA KeepInv ==
  ASSUME LimiterInv, NEW k, NEW c, NEW times \in Seq(Nat), Keep(k, c),
         UNCHANGED <<now, env_limit>>,
         Holds(c, env_limit, times), Within(times, env_limit),
         \A x \in DOMAIN Past \ {k} : x \in DOMAIN admissions' /\ admissions'[x] = Past[x],
         DOMAIN admissions' \subseteq DOMAIN Past \cup {k},
         IF k \in DOMAIN admissions' THEN admissions'[k] = times ELSE times = <<>>
  PROVE  LimiterInv'
<1>1. /\ limiter'.limit = env_limit /\ limiter' = [limit |-> env_limit, buckets |-> limiter'.buckets]
      /\ limiter'.buckets = [x \in DOMAIN Limiter.buckets \cup {k} |->
                               IF x = k THEN c ELSE Limiter.buckets[x]]
  BY Found DEF Keep
<1>2. DOMAIN admissions' \subseteq DOMAIN limiter'.buckets
  BY <1>1, Found
<1>3. \A x \in DOMAIN admissions' : admissions'[x] \in Seq(Nat) /\ Within(admissions'[x], env_limit)
  BY Found
<1>4. ASSUME NEW x \in DOMAIN limiter'.buckets
      PROVE  Holds(limiter'.buckets[x], env_limit,
                   IF x \in DOMAIN admissions' THEN admissions'[x] ELSE <<>>)
  <2>1. CASE x = k
    BY <1>1, <2>1
  <2>2. CASE x # k
    <3>1. x \in DOMAIN Limiter.buckets /\ limiter'.buckets[x] = Limiter.buckets[x]
      BY <1>1, <2>2
    <3>2. TimesOf(x) = IF x \in DOMAIN admissions' THEN admissions'[x] ELSE <<>>
      BY <2>2 DEF TimesOf
    <3> QED
      BY <3>1, <3>2, Found
  <2> QED
    BY <2>1, <2>2
<1> QED
  BY <1>1, <1>2, <1>3, <1>4 DEF LimiterInv, Holds, Covered, Within, Burst

\* Letting a request through takes its token from the account.
LEMMA AdmitInv ==
  ASSUME LimiterInv, NEW k \in Keys, Admit(k)
  PROVE  LimiterInv'
<1>1. PICK lag \in Lags : /\ BucketOf(k, lag).tokens >= Minute
                          /\ Keep(k, [BucketOf(k, lag) EXCEPT !.tokens = @ - Minute])
  BY DEF Admit
<1> DEFINE b == BucketOf(k, lag)
           c == [b EXCEPT !.tokens = @ - Minute]
<1>2. /\ Holds(b, env_limit, TimesOf(k)) /\ b.updated = now
      /\ b = [tokens |-> b.tokens, updated |-> now]
  BY BucketHolds
<1>3. c.tokens = b.tokens - Minute /\ c.updated = now
  BY <1>2
<1>4. now \in Nat /\ env_limit \in Nat /\ TimesOf(k) \in Seq(Nat) /\ Within(TimesOf(k), env_limit)
  BY Found DEF LimiterInv
<1>5. Holds(c, env_limit, Append(TimesOf(k), now)) /\ Within(Append(TimesOf(k), now), env_limit)
  <2> HIDE DEF b, c
  <2>1. b.tokens >= Minute
    BY <1>1 DEF b
  <2> QED
    BY <1>2, <1>3, <1>4, <2>1, AdmissionHolds
<1>6. /\ UNCHANGED <<now, env_limit>>
      /\ admissions' = [x \in DOMAIN Past \cup {k} |->
                          IF x = k THEN Append(TimesOf(x), now) ELSE Past[x]]
  BY DEF Admit, environs
<1>7. Keep(k, c) /\ Append(TimesOf(k), now) \in Seq(Nat)
  BY <1>1, <1>4
<1> HIDE DEF b, c
<1> QED
  BY <1>5, <1>6, <1>7, KeepInv

\* A refusal takes nothing.
LEMMA ThrottleInv ==
  ASSUME LimiterInv, NEW k \in Keys, Throttle(k)
  PROVE  LimiterInv'
<1>1. PICK lag \in Lags : Keep(k, BucketOf(k, lag))
  BY DEF Throttle
<1>2. Holds(BucketOf(k, lag), env_limit, TimesOf(k))
  BY BucketHolds
<1>3. TimesOf(k) \in Seq(Nat) /\ Within(TimesOf(k), env_limit)
  BY Found
<1>4. UNCHANGED <<now, env_limit>> /\ admissions' = Past
  BY DEF Throttle, environs
<1>5. TimesOf(k) = IF k \in DOMAIN admissions' THEN admissions'[k] ELSE <<>>
  BY <1>4 DEF TimesOf
<1> QED
  BY <1>1, <1>2, <1>3, <1>4, <1>5, KeepInv

\* A request let through unlimited belongs to no window.
LEMMA PassUnlimitedInv == LimiterInv /\ PassUnlimited => LimiterInv'
<1> SUFFICES ASSUME LimiterInv, PassUnlimited PROVE LimiterInv'
  OBVIOUS
<1>1. limiter' = Limiter /\ admissions' = Past /\ UNCHANGED <<now, env_limit>>
  BY DEF PassUnlimited, environs
<1>2. \A k : TimesOf(k) = IF k \in DOMAIN admissions' THEN admissions'[k] ELSE <<>>
  BY <1>1 DEF TimesOf
<1>3. /\ limiter' = [limit |-> limiter'.limit, buckets |-> limiter'.buckets]
      /\ limiter'.limit = env_limit /\ limiter'.buckets = Limiter.buckets
  BY <1>1, Found
<1>4. /\ DOMAIN admissions' \subseteq DOMAIN limiter'.buckets
      /\ \A k \in DOMAIN admissions' : /\ admissions'[k] \in Seq(Nat)
                                       /\ Within(admissions'[k], env_limit)
  BY <1>1, <1>3, Found
<1>5. \A k \in DOMAIN limiter'.buckets :
        Holds(limiter'.buckets[k], env_limit,
              IF k \in DOMAIN admissions' THEN admissions'[k] ELSE <<>>)
  BY <1>2, <1>3, Found
<1> QED
  BY <1>1, <1>3, <1>4, <1>5 DEF LimiterInv, Holds, Covered, Within, Burst

\* Time, a new limit and a bad key leave the accounts alone.
LEMMA OtherStepsInv ==
  ASSUME LimiterInv,
         \/ Tick \/ Configure \/ UNCHANGED limiter_vars
         \/ \E k \in Keys : Unauthorized(k)
  PROVE  LimiterInv'
<1>1. /\ UNCHANGED <<limiter, admissions>>
      /\ now' \in Nat /\ now' >= now /\ env_limit' \in Nat
  BY LimiterAssumption
     DEF Tick, Configure, Unauthorized, limiter_vars, environs, middleware, LimiterInv
<1> QED
  BY <1>1 DEF LimiterInv, Holds, Covered, Within, Burst

\* Every step keeps the window bound of every past admission.
LEMMA LimiterStep == LimiterInv /\ [LimiterNext]_limiter_vars => LimiterInv'
BY AdmitInv, ThrottleInv, PassUnlimitedInv, OtherStepsInv DEF LimiterNext

\* Without admissions there is nothing to bound.
LEMMA LimiterStart == LimiterInit => LimiterInv
<1> SUFFICES ASSUME LimiterInit PROVE LimiterInv
  OBVIOUS
<1>1. env_limit \in Nat /\ now \in Nat
  BY LimiterAssumption DEF LimiterInit
<1>2. limiter = [limit |-> env_limit, buckets |-> <<>>] /\ admissions = <<>>
  BY DEF LimiterInit, NewLimiter
<1>3. DOMAIN admissions = {} /\ DOMAIN limiter.buckets = {}
  BY <1>2
<1> QED
  BY <1>1, <1>2, <1>3 DEF LimiterInv

\* Over every window, for every limit and every length of the minute, no client
\* is let through more often than a full bucket and what the window earned allow
\* (RateLimiter.allow).
THEOREM RateIsKept == LimiterSpec => []EveryWindowWithinRate
<1>1. LimiterInv => EveryWindowWithinRate
  <2> SUFFICES ASSUME LimiterInv, NEW k \in DOMAIN admissions,
                      NEW i \in DOMAIN admissions[k], NEW j \in DOMAIN admissions[k], i <= j
               PROVE  (j - i + 1) * Minute
                        <= limiter.limit * (Minute + admissions[k][j] - admissions[k][i])
    BY DEF EveryWindowWithinRate
  <2>1. /\ admissions[k] \in Seq(Nat) /\ Within(admissions[k], limiter.limit)
        /\ limiter.limit \in Nat /\ Minute \in Nat
    BY LimiterAssumption DEF LimiterInv
  <2>2. i \in 1..Len(admissions[k]) /\ j \in 1..Len(admissions[k])
    BY <2>1
  <2>3. admissions[k][i] \in Nat /\ admissions[k][j] \in Nat
    BY <2>1, <2>2
  <2>4. (j - i + 1) * Minute
          <= Burst(limiter.limit) + (admissions[k][j] - admissions[k][i]) * limiter.limit
    BY <2>1, <2>2 DEF Within
  <2>5. ASSUME NEW lim \in Nat, NEW a \in Nat, NEW b \in Nat
        PROVE  lim * (Minute + b - a) = Burst(lim) + (b - a) * lim
    BY <2>1, <2>5 DEF Burst
  <2> QED
    BY <2>1, <2>3, <2>4, <2>5
<1> QED
  BY <1>1, LimiterStart, LimiterStep, PTL DEF LimiterSpec

-----------------------------------------------------------------------------
(* The other side of the bucket.  A bucket is never emptier than its past  *)
(* explains: it was full when one of the admissions found it, but for the  *)
(* lag at the very first, and has kept all it earned since.                *)

Lost(lim, i) == IF i <= 1 THEN lim * MaxLag ELSE 0

Explained(bucket, lim, times, i) ==
  (Len(times) - i + 1) * Minute + bucket.tokens
    >= Burst(lim) + (bucket.updated - times[i]) * lim - Lost(lim, i)

Tight(bucket, lim, times) ==
  \/ Len(times) = 0 /\ bucket.tokens >= Burst(lim) - Lost(lim, 0)
  \/ \E i \in 1..Len(times) : Explained(bucket, lim, times, i)

TightInv ==
  /\ \A k \in DOMAIN limiter.buckets :
       Tight(limiter.buckets[k], limiter.limit,
             IF k \in DOMAIN admissions THEN admissions[k] ELSE <<>>)
  /\ NoNeedlessRefusal

\* What a lagging first reading may cost is never negative.
LEMMA LostIsNat ==
  ASSUME NEW lim \in Nat, NEW i
  PROVE  Lost(lim, i) \in Nat
BY LimiterAssumption, ProductsAreNat DEF Lost

\* A refill loses nothing, unless the bucket is full.
LEMMA RefillTight ==
  ASSUME NEW lim \in Nat, NEW b, NEW times \in Seq(Nat), now \in Nat,
         Holds(b, lim, times), Tight(b, lim, times)
  PROVE  Refilled(b, lim).tokens = Burst(lim) \/ Tight(Refilled(b, lim), lim, times)
<1> DEFINE earned == (now - b.updated) * lim
           r == Refilled(b, lim)
<1>1. b.tokens \in Int /\ b.updated \in Nat /\ b.updated <= now
  BY DEF Holds
<1>2. Minute \in Nat \ {0} /\ Burst(lim) \in Nat
  BY LimiterAssumption, ProductsAreNat DEF Burst
<1>3. earned \in Nat
  <2>1. now - b.updated \in Nat
    BY <1>1
  <2> QED
    BY <2>1, ProductsAreNat
<1>4. /\ r.updated = now
      /\ r.tokens = IF Burst(lim) < b.tokens + earned THEN Burst(lim) ELSE b.tokens + earned
  BY DEF Refilled, Least, Burst
<1> HIDE DEF earned, r
<1> SUFFICES ASSUME r.tokens # Burst(lim) PROVE Tight(r, lim, times)
  BY DEF r
<1>5. r.tokens = b.tokens + earned
  BY <1>4
<1>6. CASE Len(times) = 0 /\ b.tokens >= Burst(lim) - Lost(lim, 0)
  BY <1>1, <1>2, <1>3, <1>5, <1>6, LostIsNat DEF Tight
<1>7. CASE \E i \in 1..Len(times) : Explained(b, lim, times, i)
  <2>1. PICK i \in 1..Len(times) : Explained(b, lim, times, i)
    BY <1>7
  <2>2. times[i] \in Nat /\ Len(times) \in Nat /\ i \in Int
    OBVIOUS
  <2>3. (now - times[i]) * lim = (b.updated - times[i]) * lim + earned
    BY <1>1, <2>2, Earned DEF earned
  <2> DEFINE used == (Len(times) - i + 1) * Minute
             since == (b.updated - times[i]) * lim
             total == (now - times[i]) * lim
  <2>4. used \in Int /\ since \in Int /\ total \in Int /\ Lost(lim, i) \in Nat
    BY SMTT(30), <1>1, <1>2, <2>2, LostIsNat
  <2> HIDE DEF used, since, total
  <2>5. used + b.tokens >= Burst(lim) + since - Lost(lim, i) /\ total = since + earned
    BY <2>1, <2>3 DEF Explained, used, since, total
  <2>6. used + r.tokens >= Burst(lim) + total - Lost(lim, i)
    BY SMTT(30), <1>1, <1>2, <1>3, <1>5, <2>4, <2>5
  <2>7. Explained(r, lim, times, i)
    BY <1>4, <2>6 DEF Explained, used, total
  <2> QED
    BY <2>7 DEF Tight
<1> QED
  BY <1>6, <1>7 DEF Tight

\* An admission is explained by the window it opens, if it found the bucket full,
\* or else by the one that explained the bucket.
LEMMA AdmissionTight ==
  ASSUME NEW lim \in Nat, NEW b, NEW times \in Seq(Nat), now \in Nat,
         b.tokens \in Int, b.updated = now,
         b.tokens = Burst(lim) \/ Tight(b, lim, times),
         NEW c, c.tokens = b.tokens - Minute, c.updated = now
  PROVE  Tight(c, lim, Append(times, now))
<1> DEFINE more == Append(times, now)
           n == Len(times)
<1>1. /\ n \in Nat /\ Len(more) = n + 1 /\ more[n + 1] = now
      /\ \A i \in 1..n : more[i] = times[i] /\ times[i] \in Nat
  BY AppendProperties
<1>2. Minute \in Nat \ {0} /\ Burst(lim) \in Nat
  BY LimiterAssumption, ProductsAreNat DEF Burst
<1> HIDE DEF more, n
<1> SUFFICES \E i \in 1..(n + 1) : Explained(c, lim, more, i)
  BY <1>1 DEF Tight, more
<1>3. CASE b.tokens >= Burst(lim) - Lost(lim, n + 1)
  <2>1. (n + 1 - (n + 1) + 1) * Minute = Minute /\ (now - now) * lim = 0
    BY <1>1, <1>2
  <2>2. Minute + c.tokens >= Burst(lim) + 0 - Lost(lim, n + 1)
    BY <1>2, <1>3, LostIsNat
  <2>3. Explained(c, lim, more, n + 1)
    BY <1>1, <2>1, <2>2 DEF Explained
  <2> QED
    BY <1>1, <2>3
<1>4. CASE \E i \in 1..n : Explained(b, lim, times, i)
  <2>1. PICK i \in 1..n : Explained(b, lim, times, i)
    BY <1>4
  <2>2. (n + 1 - i + 1) * Minute = (n - i + 1) * Minute + Minute
    BY <1>1, <1>2
  <2> DEFINE used == (n - i + 1) * Minute
  <2>3. used \in Int
    BY <1>1, <1>2
  <2> HIDE DEF used
  <2>4. used + b.tokens >= Burst(lim) + (now - times[i]) * lim - Lost(lim, i)
    BY <2>1 DEF Explained, used, n
  <2>5. (used + Minute) + c.tokens = used + b.tokens
    BY <1>2, <2>3
  <2>6. Explained(c, lim, more, i)
    BY <1>1, <2>2, <2>4, <2>5 DEF Explained, used
  <2> QED
    BY <1>1, <2>6
<1>5. b.tokens = Burst(lim) => b.tokens >= Burst(lim) - Lost(lim, n + 1)
  BY <1>2, LostIsNat
<1>6. n = 0 => Lost(lim, n + 1) = Lost(lim, 0)
  BY <1>1 DEF Lost
<1> QED
  BY <1>3, <1>4, <1>5, <1>6 DEF Tight, n

\* The buckets of the limiter in force account for what they lost.
LEMMA FoundTight ==
  ASSUME LimiterInv, TightInv
  PROVE  \A k \in DOMAIN Limiter.buckets : Tight(Limiter.buckets[k], env_limit, TimesOf(k))
<1>1. CASE limiter.limit = env_limit
  BY <1>1 DEF TightInv, Limiter, Past, TimesOf
<1>2. CASE limiter.limit # env_limit
  <2>1. Limiter = [limit |-> env_limit, buckets |-> <<>>]
    BY <1>2 DEF Limiter, NewLimiter
  <2>2. DOMAIN Limiter.buckets = {}
    BY <2>1
  <2> QED
    BY <2>2
<1> QED
  BY <1>1, <1>2

\* The bucket a request meets is full or accounts for what it lost.
LEMMA BucketTight ==
  ASSUME LimiterInv, TightInv, NEW k, NEW lag \in Lags
  PROVE  \/ BucketOf(k, lag).tokens = Burst(env_limit)
         \/ Tight(BucketOf(k, lag), env_limit, TimesOf(k))
<1>1. now \in Nat /\ env_limit \in Nat /\ lag \in Nat /\ lag <= MaxLag /\ MaxLag \in Nat
      /\ Minute \in Nat
  BY LimiterAssumption DEF LimiterInv, Lags
<1>2. CASE k \in DOMAIN Limiter.buckets
  <2>1. BucketOf(k, lag) = Refilled(Limiter.buckets[k], env_limit)
    BY <1>2, Found DEF BucketOf
  <2>2. Holds(Limiter.buckets[k], env_limit, TimesOf(k)) /\ TimesOf(k) \in Seq(Nat)
    BY <1>2, Found
  <2>3. Tight(Limiter.buckets[k], env_limit, TimesOf(k))
    BY <1>2, FoundTight
  <2> QED
    BY <1>1, <2>1, <2>2, <2>3, RefillTight
<1>3. CASE k \notin DOMAIN Limiter.buckets
  <2>1. TimesOf(k) = <<>> /\ Len(<<>>) = 0
    BY <1>3, Found DEF TimesOf
  <2> DEFINE full == Burst(env_limit)
             behind == lag * env_limit
             left == full + (now - (now + lag)) * env_limit
  <2>2. BucketOf(k, lag).tokens = IF full < left THEN full ELSE left
    BY <1>3, Found DEF BucketOf, Refilled, Burst, Least
  <2>3. full \in Int /\ behind \in Nat /\ left = full - behind
    <3>1. (now - (now + lag)) = -lag
      BY <1>1
    <3>2. (-lag) * env_limit = -(lag * env_limit)
      BY <1>1
    <3>3. full \in Int /\ behind \in Nat
      BY <1>1, ProductsAreNat DEF Burst
    <3> QED
      BY <3>1, <3>2, <3>3
  <2>4. Lost(env_limit, 0) \in Nat /\ behind <= Lost(env_limit, 0)
    <3>1. \A x, y, z \in Nat : x <= y => x * z <= z * y
      OBVIOUS
    <3> QED
      BY <1>1, <3>1, LostIsNat DEF Lost
  <2> HIDE DEF full, left, behind
  <2>5. BucketOf(k, lag).tokens >= full - Lost(env_limit, 0)
    BY <2>2, <2>3, <2>4
  <2> QED
    BY <2>1, <2>5 DEF Tight, full
<1> QED
  BY <1>2, <1>3

\* A limiter that keeps the bucket of k.
LEMMA KeepTight ==
  ASSUME LimiterInv, TightInv, NEW k, NEW c, NEW times, Keep(k, c),
         Tight(c, env_limit, times),
         \A x \in DOMAIN Past \ {k} : x \in DOMAIN admissions' /\ admissions'[x] = Past[x],
         DOMAIN admissions' \subseteq DOMAIN Past \cup {k},
         IF k \in DOMAIN admissions' THEN admissions'[k] = times ELSE times = <<>>,
         NoNeedlessRefusal'
  PROVE  TightInv'
<1>1. /\ limiter'.limit = env_limit
      /\ limiter'.buckets = [x \in DOMAIN Limiter.buckets \cup {k} |->
                               IF x = k THEN c ELSE Limiter.buckets[x]]
  BY Found DEF Keep
<1>2. ASSUME NEW x \in DOMAIN limiter'.buckets
      PROVE  Tight(limiter'.buckets[x], env_limit,
                   IF x \in DOMAIN admissions' THEN admissions'[x] ELSE <<>>)
  <2>1. CASE x = k
    BY <1>1, <2>1
  <2>2. CASE x # k
    <3>1. x \in DOMAIN Limiter.buckets /\ limiter'.buckets[x] = Limiter.buckets[x]
      BY <1>1, <2>2
    <3>2. TimesOf(x) = IF x \in DOMAIN admissions' THEN admissions'[x] ELSE <<>>
      BY <2>2 DEF TimesOf
    <3> QED
      BY <3>1, <3>2, FoundTight
  <2> QED
    BY <2>1, <2>2
<1> QED
  BY <1>1, <1>2 DEF TightInv

\* What was not refused now was not refused needlessly.
LEMMA AdmitTight ==
  ASSUME LimiterInv, TightInv, NEW k \in Keys, Admit(k)
  PROVE  TightInv'
<1>1. PICK lag \in Lags : Keep(k, [BucketOf(k, lag) EXCEPT !.tokens = @ - Minute])
  BY DEF Admit
<1> DEFINE b == BucketOf(k, lag)
           c == [b EXCEPT !.tokens = @ - Minute]
<1>2. /\ b.tokens \in Int /\ b.updated = now
      /\ b = [tokens |-> b.tokens, updated |-> now]
  BY BucketHolds DEF Holds
<1>3. c.tokens = b.tokens - Minute /\ c.updated = now
  BY <1>2
<1>4. now \in Nat /\ env_limit \in Nat /\ TimesOf(k) \in Seq(Nat)
  BY Found DEF LimiterInv
<1>5. b.tokens = Burst(env_limit) \/ Tight(b, env_limit, TimesOf(k))
  BY BucketTight
<1>6. Keep(k, c)
  BY <1>1
<1> HIDE DEF b, c
<1>7. Tight(c, env_limit, Append(TimesOf(k), now))
  BY <1>2, <1>3, <1>4, <1>5, AdmissionTight
<1>8. /\ UNCHANGED refused
      /\ admissions' = [x \in DOMAIN Past \cup {k} |->
                          IF x = k THEN Append(TimesOf(x), now) ELSE Past[x]]
  BY DEF Admit
<1>9. NoNeedlessRefusal'
  BY <1>8 DEF TightInv, NoNeedlessRefusal, NoRefusal
<1> QED
  BY <1>6, <1>7, <1>8, <1>9, KeepTight

\* A refusal is explained by the window that explains its bucket.
LEMMA ThrottleTight ==
  ASSUME LimiterInv, TightInv, NEW k \in Keys, Throttle(k)
  PROVE  TightInv'
<1>1. PICK lag \in Lags : BucketOf(k, lag).tokens < Minute /\ Keep(k, BucketOf(k, lag))
  BY DEF Throttle
<1> DEFINE b == BucketOf(k, lag)
           times == TimesOf(k)
           n == Len(times)
<1>2. /\ b.tokens \in Int /\ b.updated = now
      /\ b.tokens = Burst(env_limit) \/ Tight(b, env_limit, times)
  BY BucketHolds, BucketTight DEF Holds
<1>3. /\ now \in Nat /\ env_limit \in Nat /\ env_limit > 0 /\ times \in Seq(Nat)
      /\ admissions' = Past /\ refused' = RefusalOf(k)
  BY Found DEF Throttle, LimiterInv
<1>4. Minute \in Nat \ {0} /\ Burst(env_limit) \in Nat /\ Burst(env_limit) >= Minute
  <2>1. Minute \in Nat \ {0}
    BY LimiterAssumption
  <2>2. \A x, y \in Nat : x > 0 => x * y >= y
    OBVIOUS
  <2> QED
    BY <1>3, <2>1, <2>2, ProductsAreNat DEF Burst
<1>5. b.tokens < Minute /\ Keep(k, b)
  BY <1>1
<1>6. refused'.times = times /\ refused'.limit = env_limit /\ refused'.at = now
  BY <1>3 DEF RefusalOf
<1>7. n \in Nat
  BY <1>3
<1> HIDE DEF b, n, times
<1>8. Tight(b, env_limit, times)
  BY <1>2, <1>4, <1>5
<1>9. NoNeedlessRefusal'
  <2>1. CASE n = 0
    <3>1. b.tokens >= Burst(env_limit) - Lost(env_limit, 0)
      BY <1>7, <1>8, <2>1 DEF Tight, n
    <3>2. Lost(env_limit, 0) = env_limit * MaxLag /\ Lost(env_limit, 0) \in Nat
      <4>1. Lost(env_limit, 0) = env_limit * MaxLag
        BY DEF Lost
      <4> QED
        BY <1>3, <4>1, LostIsNat
    <3>3. Burst(env_limit) - Lost(env_limit, 0) < Minute
      BY <1>2, <1>4, <1>5, <3>1, <3>2
    <3>4. env_limit * Minute - env_limit * MaxLag < Minute
      BY <3>2, <3>3 DEF Burst
    <3> QED
      BY <1>6, <2>1, <3>4 DEF NoNeedlessRefusal, n
  <2>2. CASE n # 0
    <3>1. PICK i \in 1..n : Explained(b, env_limit, times, i)
      BY <1>8, <2>2 DEF Tight, n
    <3>2. times[i] \in Nat /\ i \in Int
      BY <1>3, <3>1 DEF n
    <3> DEFINE used == (n - i + 1) * Minute
               total == (now - times[i]) * env_limit
    <3>3. used \in Int /\ total \in Int /\ Lost(env_limit, i) \in Nat
      BY <1>3, <1>4, <1>7, <3>2, LostIsNat
    <3>4. /\ (n - i + 2) * Minute = used + Minute
          /\ env_limit * (Minute + now - times[i]) = Burst(env_limit) + total
      BY <1>3, <1>4, <1>7, <3>2 DEF Burst
    <3> HIDE DEF used, total
    <3>5. used + b.tokens >= Burst(env_limit) + total - Lost(env_limit, i)
      BY <1>2, <3>1 DEF Explained, n, used, total
    <3>6. (n - i + 2) * Minute > env_limit * (Minute + now - times[i]) - Lost(env_limit, i)
      BY <1>2, <1>4, <1>5, <3>3, <3>4, <3>5
    <3>7. (n - i + 2) * Minute > env_limit * (Minute + now - times[i])
                                   - (IF i <= 1 THEN env_limit * MaxLag ELSE 0)
      BY <3>6 DEF Lost
    <3> QED
      BY <1>6, <2>2, <3>7 DEF NoNeedlessRefusal, n
  <2> QED
    BY <2>1, <2>2
<1>10. IF k \in DOMAIN admissions' THEN admissions'[k] = times ELSE times = <<>>
  BY <1>3 DEF TimesOf, times
<1> QED
  BY <1>3, <1>5, <1>8, <1>9, <1>10, KeepTight

\* Steps that touch no bucket keep every account tight.
LEMMA OtherStepsTight ==
  ASSUME LimiterInv, TightInv,
         \/ PassUnlimited \/ Tick \/ Configure \/ UNCHANGED limiter_vars
         \/ \E k \in Keys : Unauthorized(k)
  PROVE  TightInv'
<1>1. UNCHANGED refused
  BY DEF PassUnlimited, Tick, Configure, Unauthorized, limiter_vars, middleware
<1>2. NoNeedlessRefusal'
  BY <1>1 DEF TightInv, NoNeedlessRefusal, NoRefusal
<1>3. CASE PassUnlimited
  <2>1. limiter' = Limiter /\ admissions' = Past /\ Limiter.limit = env_limit
    BY <1>3, Found DEF PassUnlimited
  <2>2. \A k : TimesOf(k) = IF k \in DOMAIN admissions' THEN admissions'[k] ELSE <<>>
    BY <2>1 DEF TimesOf
  <2> QED
    BY <1>2, <2>1, <2>2, FoundTight DEF TightInv
<1>4. CASE UNCHANGED <<limiter, admissions>>
  BY <1>2, <1>4 DEF TightInv
<1> QED
  BY <1>3, <1>4 DEF Tick, Configure, Unauthorized, limiter_vars, middleware

\* allow() refuses nothing that a full bucket and the earnings since some
\* admission had room for, for every limit, minute and lag (RateLimiter.allow).
THEOREM RefusalsAreDue == LimiterSpec => []NoNeedlessRefusal
<1>1. LimiterInit => TightInv
  <2> SUFFICES ASSUME LimiterInit PROVE TightInv
    OBVIOUS
  <2>1. limiter = [limit |-> env_limit, buckets |-> <<>>] /\ refused = NoRefusal
    BY DEF LimiterInit, NewLimiter
  <2>2. DOMAIN limiter.buckets = {}
    BY <2>1
  <2> QED
    BY <2>1, <2>2 DEF TightInv, NoNeedlessRefusal
<1>2. LimiterInv /\ TightInv /\ [LimiterNext]_limiter_vars => TightInv'
  BY AdmitTight, ThrottleTight, OtherStepsTight DEF LimiterNext
<1>3. TightInv => NoNeedlessRefusal
  BY DEF TightInv
<1> QED
  BY <1>1, <1>2, <1>3, LimiterStart, LimiterStep, PTL DEF LimiterSpec

=============================================================================
