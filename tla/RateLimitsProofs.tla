-------------------------- MODULE RateLimitsProofs --------------------------
(***************************************************************************)
(* Proofs about RateLimits: what the processes let through, together and   *)
(* each on its own, whom they refuse, and what they tell the client.       *)
(***************************************************************************)
EXTENDS RateLimits, Sums, SequenceTheorems

-----------------------------------------------------------------------------
(* Buckets.                                                                *)

\* The bucket of an instant begins at or before it and the next one after it.
LEMMA BucketFacts ==
  /\ Window \in Nat \ {0} /\ Capacity \in Nat
  /\ \A t \in Nat : /\ BucketOf(t) \in Nat
                    /\ BucketOf(t + Window) = BucketOf(t) + 1
  /\ \A s, t \in Nat : s <= t => BucketOf(s) <= BucketOf(t)
  /\ \A t \in Times : t \in Nat /\ BucketOf(t) \in Buckets
<1>1. Window \in Nat \ {0}
  <2>1. \A i, j \in Nat \ {0} : i * j \in Nat \ {0}
    OBVIOUS
  <2> QED
    BY <2>1, RateLimitsAssumption DEF Window
<1>2. Capacity \in Nat
  BY RateLimitsAssumption DEF Capacity
<1>3. ASSUME NEW t \in Nat
      PROVE  /\ BucketOf(t) \in Nat
             /\ Window * BucketOf(t) <= t /\ t < Window * BucketOf(t) + Window
  BY <1>1, Quotient DEF BucketOf
<1>4. ASSUME NEW s \in Nat, NEW t \in Nat, s <= t
      PROVE  BucketOf(s) <= BucketOf(t)
  BY <1>1, <1>4, QuotientMonotone DEF BucketOf
<1>5. ASSUME NEW t \in Nat PROVE BucketOf(t + Window) = BucketOf(t) + 1
  <2> DEFINE q == BucketOf(t)
             r == BucketOf(t + Window)
  <2>1. t + Window \in Nat /\ q + 1 \in Nat
    BY <1>1, <1>3
  <2>2. /\ q \in Nat /\ Window * q <= t /\ t < Window * q + Window
        /\ r \in Nat /\ Window * r <= t + Window /\ t + Window < Window * r + Window
    BY <1>3, <2>1
  <2> HIDE DEF q, r
  <2>3. Window * (q + 1) = Window * q + Window
    BY <1>1, <2>2
  <2>4. Window * q \in Nat /\ Window * r \in Nat
    BY <1>1, <2>2
  <2>5. Window * (q + 1) < Window * r + Window
    BY <1>1, <2>2, <2>3, <2>4
  <2>6. Window * r < Window * (q + 1) + Window
    BY <1>1, <2>2, <2>3, <2>4
  <2>7. q + 1 <= r
    BY <1>1, <2>1, <2>2, <2>5, QuotientUnique
  <2>8. r <= q + 1
    BY <1>1, <2>1, <2>2, <2>6, QuotientUnique
  <2>9. r = q + 1
    BY <2>2, <2>7, <2>8
  <2> QED
    BY <2>9 DEF q, r
<1>6. ASSUME NEW t \in Times PROVE t \in Nat /\ BucketOf(t) \in Buckets
  <2>1. t \in Nat /\ MaxTime \in Nat /\ t <= MaxTime
    BY RateLimitsAssumption DEF Times
  <2>2. BucketOf(t) <= BucketOf(MaxTime)
    BY <1>4, <2>1
  <2> QED
    BY <1>3, <2>1, <2>2 DEF Buckets
<1> QED
  BY <1>1, <1>2, <1>3, <1>4, <1>5, <1>6

-----------------------------------------------------------------------------
(* The counters.                                                           *)

\* No counter disappears in its own window, and what was let through in this
\* window is in its counter.
Counters ==
  /\ now \in Times /\ passed \in Nat
  /\ count \in [Buckets -> Nat] /\ expires \in [Buckets -> Nat]
  /\ \A b \in Buckets : expires[b] # NoExpiry => BucketOf(expires[b]) > b
  /\ passed <= count[BucketOf(now)] /\ passed <= Capacity

\* Nothing has been counted yet.
LEMMA CountersInit == Init => Counters
<1> SUFFICES ASSUME Init PROVE Counters
  OBVIOUS
<1>1. 0 \in Times
  BY RateLimitsAssumption DEF Times
<1>2. BucketOf(0) \in Buckets
  BY <1>1, BucketFacts
<1> QED
  BY <1>1, <1>2, BucketFacts DEF Init, Counters, NoExpiry

\* INCR adds one to the counter of this window; its expiry lies outside.
LEMMA IncrCounts ==
  ASSUME Counters, NEW e \in BOOLEAN, Incr(e)
  PROVE  /\ count' \in [Buckets -> Nat] /\ expires' \in [Buckets -> Nat]
         /\ count'[BucketOf(now)] = count[BucketOf(now)] + 1
         /\ \A b \in Buckets : expires'[b] # NoExpiry => BucketOf(expires'[b]) > b
<1> DEFINE k == BucketOf(now)
<1>1. /\ now \in Nat /\ k \in Buckets /\ Window \in Nat /\ k \in Nat
      /\ BucketOf(now + Window) = k + 1
  BY BucketFacts DEF Counters
<1>2. /\ count \in [Buckets -> Nat] /\ expires \in [Buckets -> Nat]
      /\ \A b \in Buckets : expires[b] # NoExpiry => BucketOf(expires[b]) > b
  BY DEF Counters
<1>3. /\ count' = [count EXCEPT ![k] = @ + 1]
      /\ \/ expires' = expires
         \/ expires' = [expires EXCEPT ![k] = now + Window]
  BY DEF Incr, RedisKey, Expiry
<1> HIDE DEF k
<1>4. count' \in [Buckets -> Nat] /\ count'[k] = count[k] + 1
  BY <1>1, <1>2, <1>3
<1>5. CASE expires' = expires
  BY <1>2, <1>4, <1>5 DEF k
<1>6. CASE expires' = [expires EXCEPT ![k] = now + Window]
  <2>1. now + Window \in Nat /\ BucketOf(now + Window) > k
    BY <1>1
  <2>2. expires' \in [Buckets -> Nat]
    BY <1>1, <1>2, <1>6, <2>1
  <2>3. expires'[k] = now + Window
    BY <1>1, <1>2, <1>6
  <2>4. ASSUME NEW b \in Buckets, expires'[b] # NoExpiry
        PROVE  BucketOf(expires'[b]) > b
    <3>1. CASE b = k
      BY <2>1, <2>3, <3>1
    <3>2. CASE b # k
      <4>1. expires'[b] = expires[b]
        BY <1>2, <1>6, <3>2
      <4> QED
        BY <1>2, <2>4, <4>1
    <3> QED
      BY <3>1, <3>2
  <2> QED
    BY <1>4, <2>2, <2>4 DEF k
<1> QED
  BY <1>3, <1>5, <1>6

\* A request is let through by Redis below the capacity only.
LEMMA RequestCounts ==
  ASSUME Counters, NEW p \in Processes, Request(p)
  PROVE  Counters'
<1>1. now' = now
  BY DEF Request
<1>2. now \in Nat /\ BucketOf(now) \in Buckets /\ Capacity \in Nat
  BY BucketFacts DEF Counters
<1>3. \/ AllowInRedis(p)
      \/ UNCHANGED <<redis, passed>>
      \/ UNCHANGED passed /\ \E e \in BOOLEAN : Incr(e)
  BY DEF Request, RedisRaises, AllowInMemory
<1>4. CASE AllowInRedis(p)
  <2>1. /\ count' \in [Buckets -> Nat] /\ expires' \in [Buckets -> Nat]
        /\ count'[BucketOf(now)] = count[BucketOf(now)] + 1
        /\ \A b \in Buckets : expires'[b] # NoExpiry => BucketOf(expires'[b]) > b
    BY <1>4, IncrCounts DEF AllowInRedis
  <2>2. \/ count[BucketOf(now)] < Capacity /\ passed' = passed + 1
        \/ passed' = passed
    BY <1>4 DEF AllowInRedis, RedisKey
  <2>3. count[BucketOf(now)] \in Nat /\ passed \in Nat
        /\ passed <= count[BucketOf(now)] /\ passed <= Capacity
    BY <1>2 DEF Counters
  <2>4. passed' \in Nat /\ passed' <= count'[BucketOf(now)] /\ passed' <= Capacity
    BY <1>2, <2>1, <2>2, <2>3
  <2> QED
    BY <1>1, <2>1, <2>4 DEF Counters
<1>5. CASE UNCHANGED <<redis, passed>>
  BY <1>1, <1>5 DEF Counters, redis
<1>6. CASE UNCHANGED passed /\ \E e \in BOOLEAN : Incr(e)
  <2>1. /\ count' \in [Buckets -> Nat] /\ expires' \in [Buckets -> Nat]
        /\ count'[BucketOf(now)] = count[BucketOf(now)] + 1
        /\ \A b \in Buckets : expires'[b] # NoExpiry => BucketOf(expires'[b]) > b
    BY <1>6, IncrCounts
  <2>2. count[BucketOf(now)] \in Nat /\ passed \in Nat
        /\ passed <= count[BucketOf(now)] /\ passed <= Capacity
    BY <1>2 DEF Counters
  <2>3. passed' <= count'[BucketOf(now)]
    BY <1>6, <2>1, <2>2
  <2> QED
    BY <1>1, <1>6, <2>1, <2>2, <2>3 DEF Counters
<1> QED
  BY <1>3, <1>4, <1>5, <1>6

\* Within a window the clock takes no counter of it away.
LEMMA TickCounts == ASSUME Counters, Tick PROVE Counters'
<1> DEFINE gone == {b \in Buckets : expires[b] # NoExpiry /\ expires[b] <= now + 1}
<1>1. /\ now < MaxTime /\ now' = now + 1
      /\ count' = [b \in Buckets |-> IF b \in gone THEN 0 ELSE count[b]]
      /\ expires' = [b \in Buckets |-> IF b \in gone THEN NoExpiry ELSE expires[b]]
      /\ passed' = IF BucketOf(now + 1) = BucketOf(now) THEN passed ELSE 0
  BY DEF Tick
<1>2. /\ now \in Times /\ passed \in Nat
      /\ count \in [Buckets -> Nat] /\ expires \in [Buckets -> Nat]
      /\ \A b \in Buckets : expires[b] # NoExpiry => BucketOf(expires[b]) > b
      /\ passed <= count[BucketOf(now)] /\ passed <= Capacity
  BY DEF Counters
<1>3. now \in Nat /\ now' \in Times /\ now' \in Nat
  BY <1>1, <1>2, RateLimitsAssumption DEF Times
<1>4. BucketOf(now) \in Buckets /\ BucketOf(now') \in Buckets /\ Capacity \in Nat
      /\ BucketOf(now) \in Nat /\ BucketOf(now') \in Nat
  BY <1>2, <1>3, BucketFacts
<1>5. BucketOf(now') = BucketOf(now) => BucketOf(now) \notin gone
  <2> SUFFICES ASSUME BucketOf(now') = BucketOf(now), BucketOf(now) \in gone
               PROVE  FALSE
    OBVIOUS
  <2> DEFINE e == expires[BucketOf(now)]
  <2>1. e # NoExpiry /\ e <= now' /\ e \in Nat
    BY <1>1, <1>2, <1>4
  <2>2. BucketOf(e) > BucketOf(now)
    BY <1>2, <1>4, <2>1
  <2>3. BucketOf(e) <= BucketOf(now') /\ BucketOf(e) \in Nat
    BY <1>3, <2>1, BucketFacts
  <2> QED
    BY <1>4, <2>2, <2>3
<1> HIDE DEF gone
<1>6. count' \in [Buckets -> Nat] /\ expires' \in [Buckets -> Nat]
  BY <1>1, <1>2 DEF NoExpiry
<1>7. \A b \in Buckets : expires'[b] # NoExpiry => BucketOf(expires'[b]) > b
  BY <1>1, <1>2
<1>8. passed' \in Nat /\ passed' <= count'[BucketOf(now')] /\ passed' <= Capacity
  <2>1. CASE BucketOf(now') = BucketOf(now)
    <3>1. count'[BucketOf(now)] = count[BucketOf(now)] /\ passed' = passed
      BY <1>1, <1>4, <1>5, <2>1
    <3> QED
      BY <1>2, <2>1, <3>1
  <2>2. CASE BucketOf(now') # BucketOf(now)
    <3>1. passed' = 0 /\ count'[BucketOf(now')] \in Nat
      BY <1>1, <1>4, <1>6, <2>2
    <3> QED
      BY <1>4, <3>1
  <2> QED
    BY <2>1, <2>2
<1> QED
  BY <1>3, <1>6, <1>7, <1>8 DEF Counters

\* So the counters are right in every state.
LEMMA CountersAlways == Spec => []Counters
<1>1. Counters /\ [Next]_vars => Counters'
  <2> SUFFICES ASSUME Counters, [Next]_vars PROVE Counters'
    OBVIOUS
  <2>1. ASSUME NEW p \in Processes, CheckRedisHealth(p) \/ Restart(p)
        PROVE  Counters'
    BY <2>1 DEF CheckRedisHealth, Restart, Counters, redis, history
  <2>2. CASE RedisGoes \/ RedisComes \/ UNCHANGED vars
    BY <2>2 DEF RedisGoes, RedisComes, vars, Counters, redis, history
  <2> QED
    BY <2>1, <2>2, RequestCounts, TickCounts DEF Next
<1> QED
  BY <1>1, CountersInit, PTL DEF Spec

\* The processes together let no more through Redis in a window of the clock than
\* RedisRateLimiter.allow is configured for, whatever arrives in Redis without an
\* answer, loses its EXPIRE or expires: any number of processes and requests.
THEOREM RedisBounded == Spec => []RedisBound
<1>1. Counters => RedisBound
  BY DEF Counters, RedisBound
<1> QED
  BY <1>1, CountersAlways, PTL

-----------------------------------------------------------------------------
(* The sliding window.                                                     *)

\* Hits up to an instant, in the order of time, and not too many.
Listed(h, t) ==
  /\ h \in Seq(Times) /\ Len(h) <= Capacity
  /\ \A i \in 1..Len(h) : h[i] <= t
  /\ \A i, j \in 1..Len(h) : i <= j => h[i] <= h[j]

\* r is what is left of h without its first k.
Drops(h, k, r) ==
  /\ k \in 0..Len(h) /\ r \in Seq(Times) /\ Len(r) = Len(h) - k
  /\ \A i \in 1..Len(r) : r[i] = h[k + i]

\* The first k of h are before t, and the others are not.
Splits(h, k, t) ==
  /\ k \in 0..Len(h)
  /\ \A i \in 1..k : h[i] < t
  /\ \A i \in (k + 1)..Len(h) : h[i] >= t

\* What has, with a number, all before it is a first part of the numbers.
LEMMA FirstPart ==
  ASSUME NEW n \in Nat, NEW T, T \subseteq 1..n,
         \A i, j \in 1..n : i <= j /\ j \in T => i \in T
  PROVE  Cardinality(T) \in 0..n /\ T = 1..Cardinality(T)
<1>. DEFINE rest == (1..(n + 1)) \ T
<1>1. rest \subseteq Nat /\ rest # {}
  <2>1. n + 1 \in rest
    OBVIOUS
  <2>. QED BY <2>1
<1>2. PICK m \in rest : \A i \in rest : m <= i
  BY <1>1, NatLeast
<1>3. m \in 1..(n + 1) /\ m \notin T
  BY <1>2
<1>4. \A i \in 1..n : i < m => i \in T
  BY <1>2
<1>5. \A i \in 1..n : i \in T => i < m
  <2>. SUFFICES ASSUME NEW i \in 1..n, i \in T, ~(i < m) PROVE FALSE
    OBVIOUS
  <2>1. m \in 1..n /\ m <= i
    BY <1>3
  <2>. QED BY <1>3, <2>1
<1>6. T = 1..(m - 1)
  <2>1. m \in Nat /\ m <= n + 1 /\ m >= 1
    BY <1>3
  <2>2. ASSUME NEW x \in 1..(m - 1) PROVE x \in T
    <3>1. x \in 1..n /\ x < m
      BY <2>1
    <3>. QED BY <1>4, <3>1
  <2>3. ASSUME NEW x \in T PROVE x \in 1..(m - 1)
    <3>1. x \in 1..n /\ x < m
      BY <1>5
    <3>. QED BY <2>1, <3>1
  <2>. QED BY <2>2, <2>3
<1>7. Cardinality(1..(m - 1)) = m - 1
  <2>1. 1 \in Int /\ m - 1 \in Int /\ m - 1 >= 0
    BY <1>3
  <2>. QED BY <2>1, FS_Interval
<1>. QED BY <1>3, <1>6, <1>7

\* The rest of a list.
LEMMA RestOf ==
  ASSUME NEW h \in Seq(Times), NEW k \in 0..Len(h)
  PROVE  Drops(h, k, SubSeq(h, k + 1, Len(h)))
<1>1. k + 1 \in Int /\ Len(h) \in Int /\ Len(h) \in Nat
  OBVIOUS
<1>2. \A i \in (k + 1)..Len(h) : h[i] \in Times
  OBVIOUS
<1>. DEFINE r == SubSeq(h, k + 1, Len(h))
<1>3. /\ r \in Seq(Times)
      /\ Len(r) = IF k + 1 <= Len(h) THEN Len(h) - (k + 1) + 1 ELSE 0
      /\ \A i \in 1..(Len(h) - (k + 1) + 1) : r[i] = h[(k + 1) + i - 1]
  BY <1>1, <1>2, SubSeqProperties
<1>. HIDE DEF r
<1>4. Len(r) = Len(h) - k
  BY <1>1, <1>3
<1>5. ASSUME NEW i \in 1..Len(r) PROVE r[i] = h[k + i]
  <2>1. (k + 1) + i - 1 = k + i /\ i \in 1..(Len(h) - (k + 1) + 1)
    BY <1>1, <1>4
  <2>. QED BY <1>3, <2>1
<1>6. Drops(h, k, r)
  BY <1>3, <1>4, <1>5 DEF Drops
<1>. QED BY <1>6 DEF r

\* The window leaves out what is older than it is long.
LEMMA RecentMeans ==
  ASSUME NEW p \in Processes, now \in Times, Listed(hits[p], now)
  PROVE  \E k : /\ Drops(hits[p], k, Recent(p))
                /\ \A i \in 1..Len(hits[p]) : i <= k <=> hits[p][i] + Window < now
<1>. DEFINE h == hits[p]
            older == {i \in DOMAIN h : h[i] + Window < now}
            k == Cardinality(older)
<1>1. Window \in Nat /\ now \in Nat /\ Times \subseteq Nat
  BY BucketFacts
<1>2. /\ h \in Seq(Times) /\ DOMAIN h = 1..Len(h) /\ Len(h) \in Nat
      /\ \A i \in 1..Len(h) : h[i] \in Nat
      /\ \A i, j \in 1..Len(h) : i <= j => h[i] <= h[j]
  <2>1. Listed(h, now)
    OBVIOUS
  <2>. HIDE DEF h
  <2>2. h \in Seq(Times) /\ \A i, j \in 1..Len(h) : i <= j => h[i] <= h[j]
    BY <2>1 DEF Listed
  <2>3. DOMAIN h = 1..Len(h) /\ Len(h) \in Nat /\ \A i \in 1..Len(h) : h[i] \in Times
    BY <2>2
  <2>. QED BY <1>1, <2>2, <2>3
<1>. HIDE DEF h
<1>3. older \subseteq 1..Len(h)
  BY <1>2
<1>4. ASSUME NEW i \in 1..Len(h), NEW j \in 1..Len(h), i <= j, j \in older PROVE i \in older
  <2>1. h[i] \in Nat /\ h[j] \in Nat /\ h[i] <= h[j] /\ h[j] + Window < now
    BY <1>2, <1>4
  <2>2. h[i] + Window < now
    BY <1>1, <2>1
  <2>. QED BY <1>2, <2>2
<1>5. k \in 0..Len(h) /\ older = 1..k
  <2>. HIDE DEF older
  <2>. QED BY <1>2, <1>3, <1>4, FirstPart
<1>6. Recent(p) = SubSeq(h, k + 1, Len(h))
  BY DEF Recent, NoOlder, h
<1>7. \A i \in 1..Len(h) : i <= k <=> h[i] + Window < now
  <2>. DEFINE c == k
  <2>1. c \in 0..Len(h) /\ older = 1..c
    BY <1>5
  <2>. HIDE DEF c
  <2>2. \A i \in 1..Len(h) : i \in older <=> i <= c
    BY <2>1
  <2>3. \A i \in 1..Len(h) : i \in older <=> h[i] + Window < now
    BY <1>2
  <2>4. \A i \in 1..Len(h) : i <= c <=> h[i] + Window < now
    BY <2>2, <2>3
  <2>. QED BY <2>4 DEF c
<1>. HIDE DEF k
<1>8. Drops(h, k, Recent(p))
  BY <1>2, <1>5, <1>6, RestOf
<1>. QED BY <1>7, <1>8 DEF h

-----------------------------------------------------------------------------
(* The tallies.                                                            *)

\* The instants from t on, and those of its bucket.
From(t) == {u \in Times : u >= t}
Along(t) == {u \in Times : BucketOf(u) = BucketOf(t)}

\* What f has from t on are the hits from t on.
Tallied(h, f, t) == \E k : Splits(h, k, t) /\ SumFunctionOnSet(f, From(t)) = Len(h) - k

\* The memory of a process: its list is in order, and what it let through in the
\* window is what its list has.
Remembers(h, f, t) ==
  /\ Listed(h, t) /\ f \in [Times -> Nat]
  /\ \A u \in Times : u + Window < t => f[u] = 0
  /\ \A u \in Times : u + Window >= t => Tallied(h, f, u)

\* The sums are over finite sets.
LEMMA TimesFinite ==
  /\ IsFiniteSet(Times) /\ Times \subseteq Nat
  /\ \A t : From(t) \subseteq Times /\ IsFiniteSet(From(t))
  /\ \A t : Along(t) \subseteq Times /\ IsFiniteSet(Along(t))
<1>1. MaxTime \in Nat /\ IsFiniteSet(0..MaxTime)
  BY RateLimitsAssumption, FS_Interval
<1>2. IsFiniteSet(Times) /\ Times \subseteq Nat
  BY <1>1 DEF Times
<1>3. \A t : From(t) \subseteq Times /\ Along(t) \subseteq Times
  BY DEF From, Along
<1>. QED BY <1>2, <1>3, FS_Subset

\* An empty list remembers nothing.
LEMMA NothingRemembered ==
  ASSUME NEW t \in Times, NEW f, f = [u \in Times |-> 0]
  PROVE  Remembers(<<>>, f, t)
<1>1. Listed(<<>>, t)
  BY BucketFacts DEF Listed
<1>2. ASSUME NEW u \in Times PROVE Tallied(<<>>, f, u)
  <2>1. Splits(<<>>, 0, u)
    BY DEF Splits
  <2>2. SumFunctionOnSet(f, From(u)) = 0
    <3>1. IsFiniteSet(From(u)) /\ \A x \in From(u) : f[x] = 0
      BY TimesFinite
    <3>. QED BY <3>1, SumZero
  <2>. QED BY <2>1, <2>2 DEF Tallied
<1>3. f \in [Times -> Nat] /\ \A u \in Times : f[u] = 0
  OBVIOUS
<1>. QED BY <1>1, <1>2, <1>3 DEF Remembers

\* What the list has in the window is what was let through in it.
LEMMA AllTallied ==
  ASSUME NEW t \in Times, NEW h, NEW f, Remembers(h, f, t)
  PROVE  \E k : /\ k \in 0..Len(h) /\ SumFunction(f) = Len(h) - k
                /\ \A i \in 1..Len(h) : i <= k <=> h[i] + Window < t
<1>1. /\ h \in Seq(Times) /\ Len(h) \in Nat /\ f \in [Times -> Nat]
      /\ \A u \in Times : u + Window < t => f[u] = 0
      /\ \A u \in Times : u + Window >= t => Tallied(h, f, u)
      /\ \A i \in 1..Len(h) : h[i] \in Times
  BY DEF Remembers, Listed
<1>. DEFINE first == IF Window <= t THEN t - Window ELSE 0
<1>2. /\ first \in Times /\ first + Window >= t
      /\ \A u \in Times : u < first <=> u + Window < t
  <2>1. /\ Window \in Nat /\ MaxTime \in Nat /\ t \in Nat /\ t <= MaxTime
        /\ \A u \in Times : u \in Nat /\ u <= MaxTime
    BY BucketFacts, RateLimitsAssumption DEF Times
  <2>2. first \in Nat /\ first <= MaxTime /\ first + Window >= t
    BY <2>1
  <2>3. \A u \in Nat : u < first <=> u + Window < t
    BY <2>1
  <2>. HIDE DEF first
  <2>. QED BY <2>1, <2>2, <2>3 DEF Times
<1>. HIDE DEF first
<1>3. PICK k : Splits(h, k, first) /\ SumFunctionOnSet(f, From(first)) = Len(h) - k
  BY <1>1, <1>2 DEF Tallied
<1>4. SumFunction(f) = SumFunctionOnSet(f, From(first))
  <2>1. \A u \in Times \ From(first) : f[u] = 0
    <3>1. ASSUME NEW u \in Times, u \notin From(first) PROVE f[u] = 0
      <4>1. u \in Nat /\ first \in Nat /\ ~(u >= first)
        BY <1>2, <3>1, TimesFinite DEF From
      <4>2. u < first
        BY <4>1
      <4>. QED BY <1>1, <1>2, <4>2
    <3>. QED BY <3>1
  <2>2. DOMAIN f = Times /\ \A u \in Times : f[u] \in Nat
    BY <1>1
  <2>3. SumFunctionOnSet(f, Times) = SumFunctionOnSet(f, From(first))
    BY <2>1, <2>2, TimesFinite, SumPart
  <2>. QED BY <2>2, <2>3 DEF SumFunction
<1>5. ASSUME NEW i \in 1..Len(h) PROVE i <= k <=> h[i] + Window < t
  <2>1. k \in Nat /\ h[i] \in Times /\ h[i] \in Nat /\ first \in Nat
    <3>1. k \in Nat
      BY <1>1, <1>3 DEF Splits
    <3>2. h[i] \in Times /\ first \in Times
      BY <1>1, <1>2
    <3>. QED BY <3>1, <3>2, TimesFinite
  <2>2. i <= k => h[i] < first
    BY <1>3, <2>1 DEF Splits
  <2>3. ASSUME ~(i <= k) PROVE h[i] >= first
    <3>1. i \in (k + 1)..Len(h)
      BY <1>1, <2>1, <2>3
    <3>. QED BY <1>3, <3>1 DEF Splits
  <2>4. i <= k <=> h[i] < first
    BY <2>1, <2>2, <2>3
  <2>. QED BY <1>2, <2>1, <2>4
<1>. QED BY <1>3, <1>4, <1>5 DEF Splits

\* What a memory that remembers is made of.
LEMMA RemembersMeans ==
  ASSUME NEW t \in Times, NEW h, NEW f, Remembers(h, f, t)
  PROVE  /\ h \in Seq(Times) /\ Len(h) \in Nat /\ Len(h) <= Capacity /\ Capacity \in Nat
         /\ \A i \in 1..Len(h) : h[i] <= t /\ h[i] \in Nat
         /\ \A i, j \in 1..Len(h) : i <= j => h[i] <= h[j]
         /\ f \in [Times -> Nat] /\ \A u \in Times : u + Window < t => f[u] = 0
         /\ \A u \in Times : u + Window >= t => Tallied(h, f, u)
         /\ Window \in Nat /\ t \in Nat
<1>1. Window \in Nat /\ Capacity \in Nat /\ Times \subseteq Nat
  <2>1. Window \in Nat /\ Capacity \in Nat
    BY BucketFacts
  <2>2. Times \subseteq Nat
    BY TimesFinite
  <2>. QED BY <2>1, <2>2
<1>2. /\ h \in Seq(Times) /\ Len(h) <= Capacity
      /\ \A i \in 1..Len(h) : h[i] <= t
      /\ \A i, j \in 1..Len(h) : i <= j => h[i] <= h[j]
      /\ f \in [Times -> Nat] /\ \A u \in Times : u + Window < t => f[u] = 0
      /\ \A u \in Times : u + Window >= t => Tallied(h, f, u)
  BY DEF Remembers, Listed
<1>3. Len(h) \in Nat /\ \A i \in 1..Len(h) : h[i] \in Times
  BY <1>2
<1>4. t \in Nat /\ \A i \in 1..Len(h) : h[i] \in Nat
  BY <1>1, <1>3
<1>. QED BY <1>1, <1>2, <1>3, <1>4

\* Hits that have left the window can be dropped.
LEMMA DroppingRemembers ==
  ASSUME NEW t \in Times, NEW h, NEW f, Remembers(h, f, t), NEW k, NEW r, Drops(h, k, r),
         \A i \in 1..Len(h) : i <= k <=> h[i] + Window < t
  PROVE  Remembers(r, f, t)
<1>1. /\ h \in Seq(Times) /\ Len(h) \in Nat /\ Len(h) <= Capacity /\ Capacity \in Nat
      /\ \A i \in 1..Len(h) : h[i] <= t /\ h[i] \in Nat
      /\ \A i, j \in 1..Len(h) : i <= j => h[i] <= h[j]
      /\ f \in [Times -> Nat] /\ \A u \in Times : u + Window < t => f[u] = 0
      /\ \A u \in Times : u + Window >= t => Tallied(h, f, u)
      /\ Window \in Nat /\ t \in Nat
  BY RemembersMeans
<1>2. /\ k \in 0..Len(h) /\ r \in Seq(Times) /\ Len(r) = Len(h) - k /\ k \in Nat
      /\ \A i \in 1..Len(r) : r[i] = h[k + i] /\ k + i \in 1..Len(h)
  BY <1>1 DEF Drops
<1>3. Listed(r, t)
  <2>1. Len(r) <= Capacity
    BY <1>1, <1>2
  <2>2. \A i \in 1..Len(r) : r[i] <= t
    BY <1>1, <1>2
  <2>3. ASSUME NEW i \in 1..Len(r), NEW j \in 1..Len(r), i <= j PROVE r[i] <= r[j]
    <3>1. k + i <= k + j
      BY <1>2, <2>3
    <3>. QED BY <1>1, <1>2, <3>1
  <2>. QED BY <1>2, <2>1, <2>2, <2>3 DEF Listed
<1>4. ASSUME NEW u \in Times, u + Window >= t PROVE Tallied(r, f, u)
  <2>1. PICK m : Splits(h, m, u) /\ SumFunctionOnSet(f, From(u)) = Len(h) - m
    BY <1>1, <1>4 DEF Tallied
  <2>2. /\ m \in 0..Len(h) /\ u \in Nat
        /\ \A i \in 1..m : h[i] < u
        /\ \A i \in (m + 1)..Len(h) : h[i] >= u
    BY <2>1, TimesFinite DEF Splits
  <2>3. k <= m
    <3>. SUFFICES ASSUME m < k PROVE FALSE
      BY <1>2, <2>2
    <3>1. k \in 1..Len(h) /\ k \in (m + 1)..Len(h)
      BY <1>2, <2>2
    <3>2. h[k] + Window < t /\ h[k] >= u /\ h[k] \in Nat
      BY <1>1, <1>2, <2>2, <3>1
    <3>. QED BY <1>1, <1>4, <2>2, <3>2
  <2>4. Splits(r, m - k, u)
    <3>1. m - k \in 0..Len(r)
      BY <1>1, <1>2, <2>2, <2>3
    <3>2. ASSUME NEW i \in 1..(m - k) PROVE r[i] < u
      <4>1. i \in 1..Len(r) /\ k + i \in 1..m
        BY <1>2, <2>2, <2>3, <3>1
      <4>. QED BY <1>2, <2>2, <4>1
    <3>3. ASSUME NEW i \in ((m - k) + 1)..Len(r) PROVE r[i] >= u
      <4>1. i \in 1..Len(r) /\ k + i \in (m + 1)..Len(h)
        BY <1>1, <1>2, <2>2, <2>3, <3>1
      <4>. QED BY <1>2, <2>2, <4>1
    <3>. QED BY <3>1, <3>2, <3>3 DEF Splits
  <2>5. SumFunctionOnSet(f, From(u)) = Len(r) - (m - k)
    <3>1. Len(h) - m = Len(r) - (m - k)
      BY <1>1, <1>2, <2>2
    <3>. QED BY <2>1, <3>1
  <2>. QED BY <2>4, <2>5 DEF Tallied
<1>. QED BY <1>1, <1>3, <1>4 DEF Remembers

\* A hit is put down in the list and in what was let through.
LEMMA HitRemembered ==
  ASSUME NEW t \in Times, NEW h, NEW f, Remembers(h, f, t), Len(h) < Capacity,
         NEW g, Raised(g, f, t, 1)
  PROVE  Remembers(Append(h, t), g, t)
<1>. DEFINE a == Append(h, t)
<1>1. /\ h \in Seq(Times) /\ Len(h) \in Nat /\ Capacity \in Nat
      /\ \A i \in 1..Len(h) : h[i] <= t /\ h[i] \in Nat
      /\ \A i, j \in 1..Len(h) : i <= j => h[i] <= h[j]
      /\ f \in [Times -> Nat] /\ \A u \in Times : u + Window < t => f[u] = 0
      /\ \A u \in Times : u + Window >= t => Tallied(h, f, u)
      /\ Window \in Nat /\ t \in Nat
  BY RemembersMeans
<1>2. /\ a \in Seq(Times) /\ Len(a) = Len(h) + 1
      /\ \A i \in 1..Len(h) : a[i] = h[i]
      /\ a[Len(h) + 1] = t
  BY <1>1
<1>. HIDE DEF a
<1>3. /\ g \in [Times -> Nat]
      /\ \A u \in Times : g[u] = IF u = t THEN f[u] + 1 ELSE f[u]
  <2>1. f \in [Times -> Nat] /\ 1 \in Nat
    BY <1>1
  <2>. QED BY ONLY <2>1, Raised(g, f, t, 1), CountsUp
<1>4. Listed(a, t)
  <2>1. ASSUME NEW i \in 1..Len(a) PROVE a[i] <= t
    BY <1>1, <1>2
  <2>2. ASSUME NEW i \in 1..Len(a), NEW j \in 1..Len(a), i <= j PROVE a[i] <= a[j]
    <3>1. CASE j = Len(h) + 1
      BY <1>2, <2>1, <3>1
    <3>2. CASE j # Len(h) + 1
      <4>1. i \in 1..Len(h) /\ j \in 1..Len(h)
        BY <1>1, <1>2, <2>2, <3>2
      <4>. QED BY <1>1, <1>2, <2>2, <4>1
    <3>. QED BY <3>1, <3>2
  <2>3. Len(a) <= Capacity
    BY <1>1, <1>2
  <2>. QED BY <1>2, <2>1, <2>2, <2>3 DEF Listed
<1>5. \A u \in Times : u + Window < t => g[u] = 0
  <2>1. ~(t + Window < t)
    BY <1>1
  <2>. QED BY <1>1, <1>3, <2>1
<1>6. ASSUME NEW u \in Times, u + Window >= t PROVE Tallied(a, g, u)
  <2>1. PICK m : Splits(h, m, u) /\ SumFunctionOnSet(f, From(u)) = Len(h) - m
    BY <1>1, <1>6 DEF Tallied
  <2>2. /\ m \in 0..Len(h) /\ u \in Nat
        /\ \A i \in 1..m : h[i] < u
        /\ \A i \in (m + 1)..Len(h) : h[i] >= u
    BY <2>1, TimesFinite DEF Splits
  <2>3. \A x \in From(u) : x \in Times /\ f[x] \in Nat /\ g[x] \in Nat
    BY <1>1, <1>3, TimesFinite
  <2>4. CASE u <= t
    <3>1. t \in From(u)
      BY <2>2, <1>1, <2>4 DEF From
    <3>2. \A x \in From(u) \ {t} : f[x] = g[x]
      BY <1>3, <2>3
    <3>3. g[t] + SumFunctionOnSet(f, From(u)) = f[t] + SumFunctionOnSet(g, From(u))
      <4>1. IsFiniteSet(From(u))
        BY TimesFinite
      <4>. QED BY <2>3, <3>1, <3>2, <4>1, SumUpdate
    <3>4. /\ SumFunctionOnSet(g, From(u)) \in Nat /\ f[t] \in Nat /\ g[t] = f[t] + 1
      <4>1. IsFiniteSet(From(u))
        BY TimesFinite
      <4>. QED BY <1>1, <1>3, <2>3, <4>1, SumNat
    <3>5. SumFunctionOnSet(g, From(u)) = Len(a) - m
      BY <1>1, <1>2, <2>1, <2>2, <3>3, <3>4
    <3>6. Splits(a, m, u)
      <4>1. m \in 0..Len(a) /\ \A i \in 1..m : a[i] < u
        <5>1. m \in 0..Len(a) /\ 1..m \subseteq 1..Len(h)
          BY <1>1, <1>2, <2>2
        <5>2. \A i \in 1..m : a[i] = h[i]
          BY <1>2, <5>1
        <5>. QED BY <2>2, <5>1, <5>2
      <4>2. ASSUME NEW i \in (m + 1)..Len(a) PROVE a[i] >= u
        <5>1. CASE i = Len(h) + 1
          BY <1>2, <2>4, <1>1, <2>2, <5>1
        <5>2. CASE i # Len(h) + 1
          <6>1. i \in 1..Len(h) /\ i \in (m + 1)..Len(h)
            BY <1>1, <1>2, <2>2, <5>2
          <6>. QED BY <1>2, <2>2, <6>1
        <5>. QED BY <5>1, <5>2
      <4>. QED BY <4>1, <4>2 DEF Splits
    <3>. QED BY <3>5, <3>6 DEF Tallied
  <2>5. CASE ~(u <= t)
    <3>1. m = Len(h)
      <4>. SUFFICES ASSUME m < Len(h) PROVE FALSE
        BY <1>1, <2>2
      <4>1. Len(h) \in 1..Len(h) /\ Len(h) \in (m + 1)..Len(h)
        BY <1>1, <2>2
      <4>2. h[Len(h)] >= u /\ h[Len(h)] <= t /\ h[Len(h)] \in Nat
        BY <1>1, <2>2, <4>1
      <4>. QED BY <1>1, <2>2, <2>5, <4>2
    <3>2. SumFunctionOnSet(g, From(u)) = SumFunctionOnSet(f, From(u))
      <4>1. \A x \in From(u) : g[x] = f[x]
        BY <1>1, <1>3, <2>2, <2>5 DEF From
      <4>2. IsFiniteSet(From(u))
        BY TimesFinite
      <4>. QED BY <4>1, <4>2, SumSame
    <3>3. SumFunctionOnSet(g, From(u)) = Len(a) - Len(a)
      BY <1>1, <1>2, <2>1, <3>1, <3>2
    <3>4. Splits(a, Len(a), u)
      <4>1. ASSUME NEW i \in 1..Len(a) PROVE a[i] < u
        <5>1. CASE i = Len(h) + 1
          BY <1>1, <1>2, <2>2, <2>5, <5>1
        <5>2. CASE i # Len(h) + 1
          <6>1. i \in 1..Len(h) /\ i \in 1..m
            BY <1>1, <1>2, <3>1, <5>2
          <6>. QED BY <1>2, <2>2, <6>1
        <5>. QED BY <5>1, <5>2
      <4>2. Len(a) \in 0..Len(a) /\ \A i \in (Len(a) + 1)..Len(a) : a[i] >= u
        BY <1>1, <1>2
      <4>. QED BY <4>1, <4>2 DEF Splits
    <3>. QED BY <3>3, <3>4 DEF Tallied
  <2>. QED BY <2>4, <2>5
<1>7. Remembers(a, g, t)
  BY <1>3, <1>4, <1>5, <1>6 DEF Remembers
<1>. QED BY <1>7 DEF a

\* When the clock moves on, what falls out of the window is no longer counted.
LEMMA TickRemembers ==
  ASSUME NEW t \in Times, t + 1 \in Times, NEW h, NEW f, Remembers(h, f, t),
         NEW g, g = [u \in Times |-> IF u + Window > t THEN f[u] ELSE 0]
  PROVE  Remembers(h, g, t + 1)
<1>1. /\ h \in Seq(Times) /\ Len(h) \in Nat /\ Len(h) <= Capacity
      /\ \A i \in 1..Len(h) : h[i] <= t /\ h[i] \in Nat
      /\ \A i, j \in 1..Len(h) : i <= j => h[i] <= h[j]
      /\ f \in [Times -> Nat]
      /\ \A u \in Times : u + Window >= t => Tallied(h, f, u)
      /\ Window \in Nat /\ t \in Nat
  BY RemembersMeans
<1>2. /\ g \in [Times -> Nat]
      /\ \A u \in Times : g[u] = IF u + Window > t THEN f[u] ELSE 0
  BY <1>1
<1>3. Listed(h, t + 1)
  <2>1. \A i \in 1..Len(h) : h[i] <= t + 1
    BY <1>1
  <2>. QED BY <1>1, <2>1 DEF Listed
<1>4. ASSUME NEW u \in Times, u + Window < t + 1 PROVE g[u] = 0
  <2>1. u \in Nat
    BY TimesFinite
  <2>2. ~(u + Window > t)
    BY <1>1, <1>4, <2>1
  <2>. QED BY <1>2, <2>2
<1>5. ASSUME NEW u \in Times, u + Window >= t + 1 PROVE Tallied(h, g, u)
  <2>1. u \in Nat /\ u + Window > t /\ u + Window >= t
    <3>1. u \in Nat
      BY TimesFinite
    <3>. QED BY <1>1, <1>5, <3>1
  <2>2. \A x \in From(u) : g[x] = f[x]
    <3>1. ASSUME NEW x \in From(u) PROVE g[x] = f[x]
      <4>1. x \in Times /\ x \in Nat /\ x >= u
        BY TimesFinite DEF From
      <4>2. x + Window > t
        BY <1>1, <2>1, <4>1
      <4>. QED BY <1>2, <4>1, <4>2
    <3>. QED BY <3>1
  <2>3. SumFunctionOnSet(g, From(u)) = SumFunctionOnSet(f, From(u))
    <3>1. IsFiniteSet(From(u))
      BY TimesFinite
    <3>. QED BY <2>2, <3>1, SumSame
  <2>. QED BY <1>1, <2>1, <2>3 DEF Tallied
<1>. QED BY <1>2, <1>3, <1>4, <1>5 DEF Remembers

-----------------------------------------------------------------------------
(* What the processes let through from memory.                             *)

\* Every process remembers what it let through in the window, and that is not
\* more than it was asked.
Windows ==
  /\ now \in Times
  /\ hits \in [Processes -> Seq(Times)]
  /\ kept \in [Processes -> [Times -> Nat]] /\ asked \in [Times -> Nat]
  /\ \A p \in Processes : Remembers(hits[p], kept[p], now)
  /\ \A p \in Processes : \A t \in Times : kept[p][t] <= asked[t]

\* Nothing is remembered and nothing was asked.
LEMMA WindowsInit == Init => Windows
<1>. SUFFICES ASSUME Init PROVE Windows
  OBVIOUS
<1>1. /\ now = 0 /\ hits = [p \in Processes |-> <<>>]
      /\ kept = [p \in Processes |-> [t \in Times |-> 0]] /\ asked = [t \in Times |-> 0]
  BY DEF Init
<1>2. now \in Times
  BY <1>1, RateLimitsAssumption DEF Times
<1>3. \A p \in Processes : Remembers(hits[p], kept[p], now)
  <2>1. Remembers(<<>>, [t \in Times |-> 0], now)
    BY <1>2, NothingRemembered
  <2>. QED BY <1>1, <2>1
<1>4. /\ hits \in [Processes -> Seq(Times)]
      /\ kept \in [Processes -> [Times -> Nat]] /\ asked \in [Times -> Nat]
      /\ \A p \in Processes : \A t \in Times : kept[p][t] <= asked[t]
  BY <1>1
<1>. QED BY <1>2, <1>3, <1>4 DEF Windows

\* The list that a request works with.
LEMMA RecentRemembers ==
  ASSUME Windows, NEW p \in Processes
  PROVE  Remembers(Recent(p), kept[p], now) /\ Recent(p) \in Seq(Times)
<1>1. Remembers(hits[p], kept[p], now) /\ now \in Times
  BY DEF Windows
<1>2. Listed(hits[p], now)
  BY <1>1 DEF Remembers
<1>3. PICK k : /\ Drops(hits[p], k, Recent(p))
               /\ \A i \in 1..Len(hits[p]) : i <= k <=> hits[p][i] + Window < now
  BY <1>1, <1>2, RecentMeans
<1>4. Remembers(Recent(p), kept[p], now)
  BY ONLY <1>1, <1>3, DroppingRemembers
<1>. QED BY <1>3, <1>4 DEF Drops

\* A request that a process answers from memory.
LEMMA AllowInMemoryRemembers ==
  ASSUME Windows, NEW p \in Processes, AllowInMemory(p), now' = now,
         Raised(asked', asked, now, 1)
  PROVE  Windows'
<1>1. /\ now \in Times /\ hits \in [Processes -> Seq(Times)]
      /\ kept \in [Processes -> [Times -> Nat]] /\ asked \in [Times -> Nat]
      /\ \A q \in Processes : Remembers(hits[q], kept[q], now)
      /\ \A q \in Processes : \A t \in Times : kept[q][t] <= asked[t]
  BY DEF Windows
<1>2. Remembers(Recent(p), kept[p], now) /\ Recent(p) \in Seq(Times)
  BY RecentRemembers
<1>3. /\ asked' \in [Times -> Nat]
      /\ \A t \in Times : asked'[t] = IF t = now THEN asked[t] + 1 ELSE asked[t]
  <2>1. asked \in [Times -> Nat] /\ 1 \in Nat
    BY <1>1
  <2>. QED BY ONLY <2>1, Raised(asked', asked, now, 1), CountsUp
<1>4. CASE Len(Recent(p)) < Capacity
  <2>1. /\ hits' = [hits EXCEPT ![p] = Append(Recent(p), now)]
        /\ kept' = [kept EXCEPT ![p][now] = @ + 1]
    BY <1>4 DEF AllowInMemory
  <2>2. kept'[p] = [kept[p] EXCEPT ![now] = @ + 1]
    BY <1>1, <2>1
  <2>3. Raised(kept'[p], kept[p], now, 1)
    BY <2>2 DEF Raised
  <2>4. Remembers(Append(Recent(p), now), kept'[p], now)
    BY ONLY <1>1, <1>2, <1>4, <2>3, HitRemembered
  <2>5. /\ kept'[p] \in [Times -> Nat]
        /\ \A t \in Times : kept'[p][t] = IF t = now THEN kept[p][t] + 1 ELSE kept[p][t]
    <3>1. kept[p] \in [Times -> Nat] /\ 1 \in Nat
      BY <1>1
    <3>. DEFINE f == kept[p]
                g == kept'[p]
    <3>2. f \in [Times -> Nat] /\ g = [f EXCEPT ![now] = @ + 1] /\ now \in Times
      BY <1>1, <2>2, <3>1
    <3>. HIDE DEF f, g
    <3>3. /\ g \in [Times -> Nat]
          /\ \A t \in Times : g[t] = IF t = now THEN f[t] + 1 ELSE f[t]
      BY ONLY <3>2
    <3>. QED BY <3>3 DEF f, g
  <2>6. \A q \in Processes : q # p => kept'[q] = kept[q] /\ hits'[q] = hits[q]
    BY <1>1, <2>1
  <2>7. hits' \in [Processes -> Seq(Times)] /\ hits'[p] = Append(Recent(p), now)
    BY <1>1, <1>2, <2>1
  <2>8. kept' \in [Processes -> [Times -> Nat]]
    <3>1. kept' = [kept EXCEPT ![p] = kept'[p]]
      BY <1>1, <2>1
    <3>. QED BY <1>1, <2>5, <3>1
  <2>9. ASSUME NEW q \in Processes PROVE Remembers(hits'[q], kept'[q], now)
    BY <1>1, <2>4, <2>6, <2>7
  <2>10. ASSUME NEW q \in Processes, NEW t \in Times PROVE kept'[q][t] <= asked'[t]
    <3>1. kept[q][t] \in Nat /\ asked[t] \in Nat /\ kept[q][t] <= asked[t]
      BY <1>1
    <3>2. \/ kept'[q][t] = kept[q][t]
          \/ t = now /\ kept'[q][t] = kept[q][t] + 1
      <4>1. CASE q = p
        BY <2>5, <4>1
      <4>2. CASE q # p
        BY <2>6, <4>2
      <4>. QED BY <4>1, <4>2
    <3>3. asked'[t] = IF t = now THEN asked[t] + 1 ELSE asked[t]
      BY <1>3
    <3>. QED BY <3>1, <3>2, <3>3
  <2>. QED BY <1>1, <1>3, <2>7, <2>8, <2>9, <2>10 DEF Windows
<1>5. CASE ~(Len(Recent(p)) < Capacity)
  <2>1. hits' = [hits EXCEPT ![p] = Recent(p)] /\ kept' = kept
    BY <1>5 DEF AllowInMemory
  <2>2. hits' \in [Processes -> Seq(Times)]
    BY <1>1, <1>2, <2>1
  <2>3. ASSUME NEW q \in Processes PROVE Remembers(hits'[q], kept'[q], now)
    BY <1>1, <1>2, <2>1
  <2>4. ASSUME NEW q \in Processes, NEW t \in Times PROVE kept'[q][t] <= asked'[t]
    <3>1. kept[q][t] \in Nat /\ asked[t] \in Nat /\ kept[q][t] <= asked[t]
      BY <1>1
    <3>. QED BY <1>3, <2>1, <3>1
  <2>. QED BY <1>1, <1>3, <2>1, <2>2, <2>3, <2>4 DEF Windows
<1>. QED BY <1>4, <1>5

\* ... or from Redis, which leaves the memory as it is.
LEMMA RequestRemembers ==
  ASSUME Windows, NEW p \in Processes, Request(p)
  PROVE  Windows'
<1>1. now' = now /\ Raised(asked', asked, now, 1)
  BY DEF Request, Raised
<1>2. AllowInMemory(p) \/ UNCHANGED <<hits, kept>>
  BY DEF Request, AllowInRedis, RedisRaises
<1>3. CASE UNCHANGED <<hits, kept>>
  <2>1. /\ now \in Times /\ hits \in [Processes -> Seq(Times)]
        /\ kept \in [Processes -> [Times -> Nat]] /\ asked \in [Times -> Nat]
        /\ \A q \in Processes : Remembers(hits[q], kept[q], now)
        /\ \A q \in Processes : \A t \in Times : kept[q][t] <= asked[t]
    BY DEF Windows
  <2>2. /\ asked' \in [Times -> Nat]
        /\ \A t \in Times : asked'[t] = IF t = now THEN asked[t] + 1 ELSE asked[t]
    <3>1. asked \in [Times -> Nat] /\ 1 \in Nat
      BY <2>1
    <3>2. Raised(asked', asked, now, 1)
      BY <1>1
    <3>. QED BY ONLY <3>1, <3>2, CountsUp
  <2>3. ASSUME NEW q \in Processes, NEW t \in Times PROVE kept'[q][t] <= asked'[t]
    <3>1. kept[q][t] \in Nat /\ asked[t] \in Nat /\ kept[q][t] <= asked[t]
      BY <2>1
    <3>. QED BY <1>3, <2>2, <3>1
  <2>. QED BY <1>1, <1>3, <2>1, <2>2, <2>3 DEF Windows
<1>. QED BY <1>1, <1>2, <1>3, AllowInMemoryRemembers

\* What leaves the window leaves it for what was asked too.
LEMMA TickWindows == ASSUME Windows, Tick PROVE Windows'
<1>1. /\ now \in Times /\ hits \in [Processes -> Seq(Times)]
      /\ kept \in [Processes -> [Times -> Nat]] /\ asked \in [Times -> Nat]
      /\ \A p \in Processes : Remembers(hits[p], kept[p], now)
      /\ \A p \in Processes : \A t \in Times : kept[p][t] <= asked[t]
  BY DEF Windows
<1>2. /\ now < MaxTime /\ now' = now + 1 /\ hits' = hits
      /\ kept' = [p \in Processes |-> InWindow(kept[p])]
      /\ asked' = InWindow(asked)
  BY DEF Tick, process
<1>3. now + 1 \in Times
  BY <1>1, <1>2, RateLimitsAssumption DEF Times
<1>4. ASSUME NEW f \in [Times -> Nat]
      PROVE  /\ InWindow(f) \in [Times -> Nat]
             /\ \A t \in Times : InWindow(f)[t] = IF t + Window > now THEN f[t] ELSE 0
  BY <1>4 DEF InWindow
<1>5. /\ kept' \in [Processes -> [Times -> Nat]] /\ asked' \in [Times -> Nat]
      /\ \A p \in Processes : kept'[p] = InWindow(kept[p])
  BY <1>1, <1>2, <1>4
<1>6. ASSUME NEW p \in Processes PROVE Remembers(hits'[p], kept'[p], now')
  <2>1. kept'[p] = [u \in Times |-> IF u + Window > now THEN kept[p][u] ELSE 0]
    BY <1>5 DEF InWindow
  <2>2. Remembers(hits[p], kept[p], now)
    BY <1>1
  <2>3. Remembers(hits[p], kept'[p], now + 1)
    BY ONLY <1>1, <1>3, <2>1, <2>2, TickRemembers
  <2>. QED BY <1>2, <2>3
<1>7. ASSUME NEW p \in Processes, NEW t \in Times PROVE kept'[p][t] <= asked'[t]
  <2>1. /\ kept'[p][t] = IF t + Window > now THEN kept[p][t] ELSE 0
        /\ asked'[t] = IF t + Window > now THEN asked[t] ELSE 0
    <3>1. kept[p] \in [Times -> Nat]
      BY <1>1
    <3>. QED BY <1>1, <1>2, <1>4, <1>5, <3>1
  <2>2. kept[p][t] <= asked[t]
    BY <1>1
  <2>. QED BY <2>1, <2>2
<1>. QED BY <1>1, <1>2, <1>3, <1>5, <1>6, <1>7 DEF Windows

\* A restart forgets the list and what is counted with it.
LEMMA RestartRemembers ==
  ASSUME Windows, NEW p \in Processes, Restart(p)
  PROVE  Windows'
<1>1. /\ now \in Times /\ hits \in [Processes -> Seq(Times)]
      /\ kept \in [Processes -> [Times -> Nat]] /\ asked \in [Times -> Nat]
      /\ \A q \in Processes : Remembers(hits[q], kept[q], now)
      /\ \A q \in Processes : \A t \in Times : kept[q][t] <= asked[t]
  BY DEF Windows
<1>2. /\ hits' = [hits EXCEPT ![p] = <<>>] /\ kept' = [kept EXCEPT ![p] = [t \in Times |-> 0]]
      /\ now' = now /\ asked' = asked
  BY DEF Restart
<1>3. Remembers(<<>>, [t \in Times |-> 0], now)
  BY <1>1, NothingRemembered
<1>4. hits' \in [Processes -> Seq(Times)] /\ kept' \in [Processes -> [Times -> Nat]]
  <2>1. [t \in Times |-> 0] \in [Times -> Nat] /\ <<>> \in Seq(Times)
    OBVIOUS
  <2>. QED BY <1>1, <1>2, <2>1
<1>5. \A q \in Processes : Remembers(hits'[q], kept'[q], now)
  BY <1>1, <1>2, <1>3
<1>6. ASSUME NEW q \in Processes, NEW t \in Times PROVE kept'[q][t] <= asked'[t]
  <2>1. kept'[q][t] = kept[q][t] \/ kept'[q][t] = 0
    BY <1>1, <1>2
  <2>2. kept[q][t] <= asked[t] /\ asked[t] \in Nat
    BY <1>1
  <2>. QED BY <1>2, <2>1, <2>2
<1>. QED BY <1>1, <1>2, <1>4, <1>5, <1>6 DEF Windows

\* So the windows are right in every state.
LEMMA WindowsAlways == Spec => []Windows
<1>1. Windows /\ [Next]_vars => Windows'
  <2>. SUFFICES ASSUME Windows, [Next]_vars PROVE Windows'
    OBVIOUS
  <2>1. ASSUME NEW p \in Processes, CheckRedisHealth(p) PROVE Windows'
    BY <2>1 DEF CheckRedisHealth, Windows, history
  <2>2. CASE RedisGoes \/ RedisComes \/ UNCHANGED vars
    BY <2>2 DEF RedisGoes, RedisComes, vars, Windows, process, history
  <2>. QED BY <2>1, <2>2, RequestRemembers, RestartRemembers, TickWindows DEF Next
<1>. QED BY <1>1, WindowsInit, PTL DEF Spec

\* What a process let through from memory in the window has room in its list.
LEMMA KeptFits ==
  ASSUME Windows, NEW p \in Processes
  PROVE  SumFunction(kept[p]) \in Nat /\ SumFunction(kept[p]) <= Capacity
<1>1. Remembers(hits[p], kept[p], now) /\ now \in Times
  BY DEF Windows
<1>2. Len(hits[p]) \in Nat /\ Len(hits[p]) <= Capacity /\ Capacity \in Nat
  BY <1>1, RemembersMeans
<1>3. \E k : k \in 0..Len(hits[p]) /\ SumFunction(kept[p]) = Len(hits[p]) - k
  BY ONLY <1>1, AllTallied
<1>. QED BY <1>2, <1>3

\* A process lets no more through from memory in any window than
\* InMemoryRateLimiter.allow is configured for, and together with RedisBounded what
\* is let through is bounded on both paths, however often dispatch goes from one to
\* the other: any number of processes, requests and restarts.
THEOREM AdmittedBounded == Spec => []AdmittedBound
<1>1. Windows => FallbackBound
  BY KeptFits DEF FallbackBound
<1>. QED BY <1>1, WindowsAlways, RedisBounded, PTL DEF AdmittedBound

-----------------------------------------------------------------------------
(* Whom the limiters refuse.                                               *)

\* The list that a request works with is what was let through in the window.
LEMMA RecentTallied ==
  ASSUME Windows, NEW p \in Processes
  PROVE  /\ Len(Recent(p)) \in Nat /\ Len(Recent(p)) = SumFunction(kept[p])
         /\ \A i \in 1..Len(Recent(p)) : /\ Recent(p)[i] \in Nat /\ Recent(p)[i] <= now
                                         /\ Recent(p)[i] + Window >= now
<1>1. Remembers(hits[p], kept[p], now) /\ now \in Times
  BY DEF Windows
<1>2. Listed(hits[p], now)
  BY <1>1 DEF Remembers
<1>3. PICK k : /\ Drops(hits[p], k, Recent(p))
               /\ \A i \in 1..Len(hits[p]) : i <= k <=> hits[p][i] + Window < now
  BY <1>1, <1>2, RecentMeans
<1>4. PICK m : /\ m \in 0..Len(hits[p]) /\ SumFunction(kept[p]) = Len(hits[p]) - m
               /\ \A i \in 1..Len(hits[p]) : i <= m <=> hits[p][i] + Window < now
  BY ONLY <1>1, AllTallied
<1>5. /\ Len(hits[p]) \in Nat /\ now \in Nat /\ Window \in Nat
      /\ \A i \in 1..Len(hits[p]) : hits[p][i] <= now /\ hits[p][i] \in Nat
  BY ONLY <1>1, RemembersMeans
<1>6. /\ k \in 0..Len(hits[p]) /\ Len(Recent(p)) = Len(hits[p]) - k
      /\ \A i \in 1..Len(Recent(p)) : Recent(p)[i] = hits[p][k + i]
  BY <1>3 DEF Drops
<1>7. k = m
  <2>1. CASE k < m
    <3>1. m \in 1..Len(hits[p]) /\ ~(m <= k)
      BY <1>4, <1>5, <1>6, <2>1
    <3>. QED BY <1>3, <1>4, <3>1
  <2>2. CASE m < k
    <3>1. k \in 1..Len(hits[p]) /\ ~(k <= m)
      BY <1>4, <1>5, <1>6, <2>2
    <3>2. k <= k
      BY <1>5, <1>6
    <3>. QED BY <1>3, <1>4, <3>1, <3>2
  <2>. QED BY <1>4, <1>5, <1>6, <2>1, <2>2
<1>8. ASSUME NEW i \in 1..Len(Recent(p))
      PROVE  /\ Recent(p)[i] \in Nat /\ Recent(p)[i] <= now
             /\ Recent(p)[i] + Window >= now
  <2>1. k + i \in 1..Len(hits[p]) /\ ~(k + i <= k)
    BY <1>5, <1>6
  <2>2. ~(hits[p][k + i] + Window < now) /\ hits[p][k + i] <= now /\ hits[p][k + i] \in Nat
    BY <1>3, <1>5, <2>1
  <2>3. Recent(p)[i] = hits[p][k + i]
    BY <1>6
  <2>. QED BY <1>5, <2>2, <2>3
<1>. QED BY <1>4, <1>5, <1>6, <1>7, <1>8

\* The counter of this bucket is not more than what was asked in it, and nobody has
\* counted in a later one.
Booked ==
  /\ count[BucketOf(now)] <= SumFunctionOnSet(asked, Along(now))
  /\ \A b \in Buckets : b > BucketOf(now) => count[b] = 0

\* Nothing has been counted.
LEMMA BookedInit == Init => Booked
<1>. SUFFICES ASSUME Init PROVE Booked
  OBVIOUS
<1>1. now = 0 /\ count = [b \in Buckets |-> 0] /\ asked = [t \in Times |-> 0]
  BY DEF Init
<1>2. now \in Times /\ BucketOf(now) \in Buckets
  <2>1. now \in Times
    BY <1>1, RateLimitsAssumption DEF Times
  <2>. QED BY <2>1, BucketFacts
<1>3. SumFunctionOnSet(asked, Along(now)) \in Nat
  <2>1. /\ IsFiniteSet(Along(now)) /\ Along(now) \subseteq Times
        /\ \A t \in Times : asked[t] \in Nat
    BY <1>1, TimesFinite
  <2>. QED BY <2>1, SumNat
<1>. QED BY <1>1, <1>2, <1>3 DEF Booked

\* A request counts in its own bucket, if it counts.
LEMMA RequestBooked ==
  ASSUME Counters, Windows, Booked, NEW p \in Processes, Request(p)
  PROVE  Booked'
<1>1. /\ now \in Times /\ now \in Nat /\ BucketOf(now) \in Buckets
      /\ count \in [Buckets -> Nat] /\ asked \in [Times -> Nat]
      /\ BucketOf(now) \in Nat
  BY BucketFacts DEF Counters, Windows
<1>2. now' = now /\ asked' = [asked EXCEPT ![now] = @ + 1]
  BY DEF Request
<1>3. count' = count \/ \E e \in BOOLEAN : Incr(e)
  BY DEF Request, AllowInRedis, RedisRaises, redis
<1>4. count' = count \/ count' = [count EXCEPT ![BucketOf(now)] = @ + 1]
  BY <1>3 DEF Incr, RedisKey
<1>5. SumFunctionOnSet(asked', Along(now)) = SumFunctionOnSet(asked, Along(now)) + 1
  <2>. DEFINE S == Along(now)
  <2>1. now \in S /\ IsFiniteSet(S) /\ S \subseteq Times
    <3>1. now \in S
      BY <1>1 DEF Along
    <3>. QED BY <3>1, TimesFinite
  <2>2. asked' \in [Times -> Nat] /\ asked'[now] = asked[now] + 1
    BY <1>1, <1>2
  <2>3. \A x \in S \ {now} : asked[x] = asked'[x]
    BY <1>1, <1>2, <2>1
  <2>4. \A x \in S : asked[x] \in Nat /\ asked'[x] \in Nat
    BY <1>1, <2>1, <2>2
  <2>. HIDE DEF S
  <2>5. asked'[now] + SumFunctionOnSet(asked, S) = asked[now] + SumFunctionOnSet(asked', S)
    BY <2>1, <2>3, <2>4, SumUpdate
  <2>6. SumFunctionOnSet(asked, S) \in Nat /\ SumFunctionOnSet(asked', S) \in Nat
    BY <2>1, <2>4, SumNat
  <2>7. asked[now] \in Nat
    BY <1>1
  <2>8. SumFunctionOnSet(asked', S) = SumFunctionOnSet(asked, S) + 1
    BY <2>2, <2>5, <2>6, <2>7
  <2>. QED BY <2>8 DEF S
<1>6. SumFunctionOnSet(asked, Along(now)) \in Nat
  <2>1. /\ IsFiniteSet(Along(now)) /\ \A x \in Along(now) : asked[x] \in Nat
    BY <1>1, TimesFinite
  <2>. QED BY <2>1, SumNat
<1>7. /\ count[BucketOf(now)] <= SumFunctionOnSet(asked, Along(now))
      /\ \A b \in Buckets : b > BucketOf(now) => count[b] = 0
  BY DEF Booked
<1>8. count'[BucketOf(now)] <= count[BucketOf(now)] + 1 /\ count'[BucketOf(now)] \in Nat
  BY <1>1, <1>4
<1>9. ASSUME NEW b \in Buckets, b > BucketOf(now) PROVE count'[b] = 0
  <2>1. b # BucketOf(now)
    BY <1>1, <1>9
  <2>2. count[b] = 0
    BY <1>7, <1>9
  <2>. QED BY <1>1, <1>4, <2>1, <2>2
<1>10. count'[BucketOf(now)] <= SumFunctionOnSet(asked', Along(now))
  <2>1. count[BucketOf(now)] \in Nat
    BY <1>1
  <2>. QED BY <1>5, <1>6, <1>7, <1>8, <2>1
<1>. QED BY <1>2, <1>9, <1>10 DEF Booked

\* The clock forgets nothing of what was asked in the bucket it stays in.
LEMMA TickBooked == ASSUME Counters, Windows, Booked, Tick PROVE Booked'
<1>1. /\ now \in Times /\ now \in Nat /\ BucketOf(now) \in Nat
      /\ count \in [Buckets -> Nat] /\ asked \in [Times -> Nat]
      /\ Window \in Nat
  BY BucketFacts DEF Counters, Windows
<1>2. /\ now < MaxTime /\ now' = now + 1 /\ asked' = InWindow(asked)
      /\ \A b \in Buckets : count'[b] = count[b] \/ count'[b] = 0
  BY DEF Tick
<1>3. now' \in Times /\ now' \in Nat
  BY <1>1, <1>2, RateLimitsAssumption DEF Times
<1>4. BucketOf(now') \in Buckets /\ BucketOf(now') \in Nat /\ BucketOf(now) <= BucketOf(now')
      /\ Buckets \subseteq Nat
  <2>1. BucketOf(now') \in Buckets /\ BucketOf(now') \in Nat
    BY <1>3, BucketFacts
  <2>2. now <= now'
    BY <1>1, <1>2
  <2>3. Buckets \subseteq Nat
    BY DEF Buckets
  <2>. QED BY <1>1, <1>3, <2>1, <2>2, <2>3, BucketFacts
<1>5. asked' \in [Times -> Nat]
      /\ \A t \in Times : asked'[t] = IF t + Window > now THEN asked[t] ELSE 0
  BY <1>1, <1>2 DEF InWindow
<1>6. SumFunctionOnSet(asked', Along(now')) \in Nat
  <2>1. /\ IsFiniteSet(Along(now')) /\ \A x \in Along(now') : asked'[x] \in Nat
    BY <1>5, TimesFinite
  <2>. QED BY <2>1, SumNat
<1>7. /\ count[BucketOf(now)] <= SumFunctionOnSet(asked, Along(now))
      /\ \A b \in Buckets : b > BucketOf(now) => count[b] = 0
  BY DEF Booked
<1>8. CASE BucketOf(now') = BucketOf(now)
  <2>1. Along(now') = Along(now)
    BY <1>8 DEF Along
  <2>2. ASSUME NEW x \in Along(now) PROVE asked'[x] = asked[x]
    <3>1. x \in Times /\ x \in Nat /\ BucketOf(x) = BucketOf(now)
      <4>1. x \in Times /\ BucketOf(x) = BucketOf(now)
        BY DEF Along
      <4>. QED BY <4>1, TimesFinite
    <3>2. x + Window \in Nat /\ BucketOf(x + Window) = BucketOf(now) + 1
      BY <1>1, <3>1, BucketFacts
    <3>3. x + Window > now
      <4>. SUFFICES ASSUME x + Window <= now PROVE FALSE
        BY <1>1, <3>2
      <4>1. BucketOf(x + Window) <= BucketOf(now)
        BY <1>1, <3>2, BucketFacts
      <4>. QED BY <1>1, <3>2, <4>1
    <3>. QED BY <1>5, <3>1, <3>3
  <2>3. SumFunctionOnSet(asked', Along(now)) = SumFunctionOnSet(asked, Along(now))
    <3>1. IsFiniteSet(Along(now))
      BY TimesFinite
    <3>. QED BY <2>2, <3>1, SumSame
  <2>4. count'[BucketOf(now)] <= SumFunctionOnSet(asked, Along(now))
    <3>1. count[BucketOf(now)] \in Nat /\ SumFunctionOnSet(asked, Along(now)) \in Nat
      BY <1>1, <1>4, <1>6, <1>8, <2>1, <2>3
    <3>2. count'[BucketOf(now)] = count[BucketOf(now)] \/ count'[BucketOf(now)] = 0
      BY <1>2, <1>4, <1>8
    <3>. QED BY <1>7, <3>1, <3>2
  <2>5. \A b \in Buckets : b > BucketOf(now') => count'[b] = 0
    BY <1>2, <1>7, <1>8
  <2>. QED BY <1>8, <2>1, <2>3, <2>4, <2>5 DEF Booked
<1>9. CASE BucketOf(now') # BucketOf(now)
  <2>1. ASSUME NEW b \in Buckets, b >= BucketOf(now') PROVE count'[b] = 0
    <3>1. b > BucketOf(now)
      BY <1>1, <1>4, <1>9, <2>1
    <3>. QED BY <1>2, <1>7, <3>1
  <2>2. count'[BucketOf(now')] = 0
    BY <1>4, <2>1
  <2>3. \A b \in Buckets : b > BucketOf(now') => count'[b] = 0
    <3>1. \A b \in Buckets : b > BucketOf(now') => b >= BucketOf(now')
      BY <1>4
    <3>. QED BY <2>1, <3>1
  <2>. QED BY <1>6, <2>2, <2>3 DEF Booked
<1>. QED BY <1>8, <1>9

\* So the counter is never more than what was asked.
LEMMA BookedAlways == Spec => []Booked
<1>1. Counters /\ Windows /\ Booked /\ [Next]_vars => Booked'
  <2>. SUFFICES ASSUME Counters, Windows, Booked, [Next]_vars PROVE Booked'
    OBVIOUS
  <2>1. ASSUME NEW p \in Processes, CheckRedisHealth(p) \/ Restart(p) PROVE Booked'
    BY <2>1 DEF CheckRedisHealth, Restart, Booked, redis, history
  <2>2. CASE RedisGoes \/ RedisComes \/ UNCHANGED vars
    BY <2>2 DEF RedisGoes, RedisComes, vars, Booked, redis, history
  <2>. QED BY <2>1, <2>2, RequestBooked, TickBooked DEF Next
<1>. QED BY <1>1, BookedInit, CountersAlways, WindowsAlways, PTL DEF Spec

\* A refusal comes from memory or from Redis, by a full list or a full counter.
LEMMA RefusedMeans ==
  ASSUME NEW p \in Processes, Request(p)
  PROVE  \/ /\ AllowInMemory(p) /\ ~(Len(Recent(p)) < Capacity)
            /\ Refuse(p, "memory", Window - (now - Recent(p)[1]))
            /\ count' = count \/ \E e \in BOOLEAN : Incr(e)
         \/ /\ ~(count[BucketOf(now)] < Capacity)
            /\ Refuse(p, "redis", Window - (now % Window))
            /\ Incr(TRUE)
         \/ Admit
<1>1. count' = count \/ \E e \in BOOLEAN : Incr(e)
  BY DEF Request, AllowInRedis, RedisRaises, redis
<1>2. AllowInMemory(p) \/ AllowInRedis(p)
  BY DEF Request, RedisRaises
<1>3. CASE AllowInMemory(p)
  BY <1>1, <1>3 DEF AllowInMemory
<1>4. CASE AllowInRedis(p)
  BY <1>4 DEF AllowInRedis, RedisKey
<1>. QED BY <1>2, <1>3, <1>4

\* Nobody is refused, from memory or by Redis, unless the clients have asked for the
\* whole capacity within one window, whatever a failure counts twice.
THEOREM NobodyRefusedEarly == Spec => RefusedWhenFull
<1>. DEFINE A == last'.n # last.n /\ ~last'.allowed => SumFunction(asked) >= Capacity
<1>1. Counters /\ Windows /\ Booked /\ [Next]_vars => [A]_vars
  <2>. SUFFICES ASSUME Counters, Windows, Booked, Next, last'.n # last.n, ~last'.allowed
                PROVE  SumFunction(asked) >= Capacity
    BY DEF vars
  <2>1. PICK p \in Processes : Request(p)
    BY DEF Next, CheckRedisHealth, Restart, RedisGoes, RedisComes, Tick
  <2>2. /\ now \in Times /\ BucketOf(now) \in Buckets /\ Capacity \in Nat
        /\ count \in [Buckets -> Nat] /\ asked \in [Times -> Nat]
        /\ kept[p] \in [Times -> Nat] /\ \A t \in Times : kept[p][t] <= asked[t]
    BY BucketFacts DEF Counters, Windows
  <2>3. ~Admit
    BY DEF Admit, NoRequest
  <2>4. SumFunction(asked) = SumFunctionOnSet(asked, Times)
        /\ SumFunction(kept[p]) = SumFunctionOnSet(kept[p], Times)
    BY <2>2 DEF SumFunction
  <2>5. SumFunctionOnSet(asked, Times) \in Nat
    <3>1. \A t \in Times : asked[t] \in Nat
      BY <2>2
    <3>. QED BY <3>1, TimesFinite, SumNat
  <2>6. CASE ~(Len(Recent(p)) < Capacity)
    <3>1. Len(Recent(p)) \in Nat /\ Len(Recent(p)) = SumFunction(kept[p])
      BY RecentTallied
    <3>2. SumFunctionOnSet(kept[p], Times) <= SumFunctionOnSet(asked, Times)
      <4>1. \A t \in Times : kept[p][t] \in Nat /\ asked[t] \in Nat /\ kept[p][t] <= asked[t]
        BY <2>2
      <4>. QED BY <4>1, TimesFinite, SumMore
    <3>. QED BY <2>2, <2>4, <2>5, <2>6, <3>1, <3>2
  <2>7. CASE ~(count[BucketOf(now)] < Capacity)
    <3>1. count[BucketOf(now)] <= SumFunctionOnSet(asked, Along(now))
      BY DEF Booked
    <3>2. Along(now) \subseteq Times /\ IsFiniteSet(Along(now)) /\ \A t \in Times : asked[t] \in Nat
      BY <2>2, TimesFinite
    <3>3. SumFunctionOnSet(asked, Along(now)) <= SumFunctionOnSet(asked, Times)
      BY <3>2, TimesFinite, SumOfPart
    <3>4. SumFunctionOnSet(asked, Along(now)) \in Nat
      BY <3>2, SumNat
    <3>5. count[BucketOf(now)] \in Nat
      BY <2>2
    <3>. QED BY <2>2, <2>4, <2>5, <2>7, <3>1, <3>3, <3>4, <3>5
  <2>. QED BY <2>1, <2>3, <2>6, <2>7, RefusedMeans
<1>. QED BY <1>1, CountersAlways, WindowsAlways, BookedAlways, PTL DEF Spec, RefusedWhenFull

-----------------------------------------------------------------------------
(* What a refused client is told.                                          *)

\* int() cuts off less than a second, and max() makes it at least one.
LEMMA RetryFits ==
  ASSUME NEW ticks \in 0..Window
  PROVE  /\ RetryAfter(ticks) \in 0..WindowSeconds
         /\ ticks < (RetryAfter(ticks) + 1) * TicksPerSecond
<1>1. /\ WindowSeconds \in Nat /\ WindowSeconds >= 1
      /\ TicksPerSecond \in Nat \ {0} /\ ticks \in Nat
      /\ Window = WindowSeconds * TicksPerSecond /\ Window \in Nat /\ ticks <= Window
  <2>1. Window \in Nat
    BY BucketFacts
  <2>. QED BY <2>1, RateLimitsAssumption DEF Window
<1>2. CASE ticks < TicksPerSecond
  <2>1. RetryAfter(ticks) = 1
    BY <1>2 DEF RetryAfter
  <2>2. (1 + 1) * TicksPerSecond = TicksPerSecond + TicksPerSecond
    BY <1>1
  <2>. QED BY <1>1, <1>2, <2>1, <2>2
<1>3. CASE ~(ticks < TicksPerSecond)
  <2>. DEFINE q == ticks \div TicksPerSecond
  <2>1. RetryAfter(ticks) = q
    BY <1>3 DEF RetryAfter
  <2>2. /\ q \in Nat /\ TicksPerSecond * q <= ticks
        /\ ticks < TicksPerSecond * q + TicksPerSecond
    BY <1>1, Quotient
  <2>. HIDE DEF q
  <2>3. /\ (q + 1) * TicksPerSecond = TicksPerSecond * q + TicksPerSecond
        /\ WindowSeconds * TicksPerSecond = TicksPerSecond * WindowSeconds
        /\ TicksPerSecond * WindowSeconds \in Nat /\ TicksPerSecond * q \in Nat
    BY <1>1, <2>2
  <2>4. TicksPerSecond * q < TicksPerSecond * WindowSeconds + TicksPerSecond
    <3>1. \A x, y, w \in Nat : x <= ticks /\ ticks <= y /\ w # 0 => x < y + w
      BY <1>1
    <3>2. ticks <= TicksPerSecond * WindowSeconds
      BY <1>1, <2>3
    <3>. QED BY <1>1, <2>2, <2>3, <3>1, <3>2
  <2>5. q <= WindowSeconds
    BY <1>1, <2>2, <2>4, QuotientUnique
  <2>6. q \in 0..WindowSeconds
    BY <1>1, <2>2, <2>5
  <2>7. ticks < (q + 1) * TicksPerSecond
    BY <2>2, <2>3
  <2>. QED BY <2>1, <2>6, <2>7
<1>. QED BY <1>2, <1>3

\* The next bucket begins when what Redis tells is over.
LEMMA BucketEnds ==
  ASSUME NEW t \in Nat
  PROVE  /\ Window - (t % Window) \in 0..Window
         /\ \A s \in Nat : t + (Window - (t % Window)) <= s => BucketOf(t) < BucketOf(s)
<1>. DEFINE w == Window
            m == t % w
            q == t \div w
<1>1. w \in Nat \ {0}
  BY BucketFacts
<1>2. m \in 0..(w - 1) /\ t = w * q + m /\ q \in Nat
  BY <1>1, Remainder, Quotient
<1>3. ASSUME NEW s \in Nat, t + (w - m) <= s PROVE q < s \div w
  <2>. DEFINE r == s \div w
  <2>1. r \in Nat /\ w * r <= s /\ s < w * r + w
    BY <1>1, Quotient
  <2>. HIDE DEF w, m, q, r
  <2>2. w * q \in Nat /\ w * r \in Nat /\ w * (q + 1) = w * q + w
    BY <1>1, <1>2, <2>1
  <2>3. w * q + w <= s
    BY <1>1, <1>2, <1>3, <2>2
  <2>4. w * (q + 1) < w * r + w
    BY <1>1, <2>1, <2>2, <2>3
  <2>5. q + 1 <= r
    <3>1. q + 1 \in Nat
      BY <1>2
    <3>. QED BY <1>1, <2>1, <2>4, <3>1, QuotientUnique
  <2>6. q < r
    BY <1>2, <2>1, <2>5
  <2>. QED BY <2>6 DEF r
<1>. HIDE DEF m
<1>4. w - m \in 0..w
  BY <1>1, <1>2
<1>. QED BY <1>3, <1>4 DEF m, BucketOf

Answers == [n : Nat, by : {"nobody", "memory", "redis"}, process : Processes,
            at : Times, allowed : BOOLEAN, retry_after : 0..WindowSeconds]

\* Whoever memory has refused finds the list it was refused by, or none.
ToldFromMemory ==
  LET h == hits[last.process] IN
  h # <<>> =>
    /\ h[1] \in Nat /\ h[1] <= last.at /\ last.at <= h[1] + Window
    /\ last.retry_after = RetryAfter(Window - (last.at - h[1]))

\* Whoever Redis has refused finds that nobody has counted in a later bucket.
ToldByRedis ==
  /\ last.retry_after = RetryAfter(Window - (last.at % Window))
  /\ \A b \in Buckets : b > BucketOf(last.at) => count[b] = 0

\* What the last answer says still holds.
Told ==
  /\ last \in Answers /\ last.at <= now
  /\ ~last.allowed => last.by # "nobody"
  /\ last.by = "memory" => ToldFromMemory
  /\ last.by = "redis" => ToldByRedis

\* Nobody has asked yet.
LEMMA NoRequestTyped ==
  /\ NoRequest \in Answers /\ NoRequest.at = 0
  /\ NoRequest.by = "nobody" /\ NoRequest.allowed = TRUE
<1>1. \E p \in Processes : TRUE
  BY RateLimitsAssumption
<1>2. (CHOOSE p \in Processes : TRUE) \in Processes
  BY <1>1
<1>3. 0 \in Times /\ 0 \in 0..WindowSeconds
  BY RateLimitsAssumption DEF Times
<1>. QED BY <1>2, <1>3 DEF NoRequest, Answers

\* Whoever asks is let through, or refused and told when to come back.
LEMMA RequestTells ==
  ASSUME Counters, Windows, Booked, last \in Answers, NEW p \in Processes, Request(p)
  PROVE  Told'
<1>1. now' = now /\ now \in Times /\ now \in Nat /\ last.n \in Nat /\ Window \in Nat
  BY BucketFacts DEF Request, Windows, Answers
<1>2. CASE Admit
  <2>1. last' = [NoRequest EXCEPT !.n = last.n + 1]
    BY <1>2 DEF Admit
  <2>2. last' \in Answers /\ last'.at = 0 /\ last'.by = "nobody" /\ last'.allowed = TRUE
    <3>1. last.n + 1 \in Nat
      BY <1>1
    <3>. QED BY <2>1, <3>1, NoRequestTyped DEF Answers
  <2>. QED BY <1>1, <2>2 DEF Told
<1>3. CASE /\ AllowInMemory(p) /\ ~(Len(Recent(p)) < Capacity)
           /\ Refuse(p, "memory", Window - (now - Recent(p)[1]))
  <2>. DEFINE h == Recent(p)
  <2>1. Len(h) \in Nat /\ Len(h) >= 1
    <3>1. Len(h) \in Nat
      BY RecentTallied
    <3>2. Capacity \in Nat /\ Capacity >= 1
      BY RateLimitsAssumption DEF Capacity
    <3>. QED BY <1>3, <3>1, <3>2
  <2>2. h[1] \in Nat /\ h[1] <= now /\ h[1] + Window >= now
    <3>1. 1 \in 1..Len(h)
      BY <2>1
    <3>. QED BY <3>1, RecentTallied
  <2>3. hits'[p] = h
    <3>1. hits' = [hits EXCEPT ![p] = Recent(p)] /\ hits \in [Processes -> Seq(Times)]
      BY <1>3 DEF AllowInMemory, Windows
    <3>. QED BY <3>1
  <2>4. last' = [n |-> last.n + 1, by |-> "memory", process |-> p, at |-> now,
                 allowed |-> FALSE, retry_after |-> RetryAfter(Window - (now - h[1]))]
    BY <1>3 DEF Refuse
  <2>. HIDE DEF h
  <2>5. Window - (now - h[1]) \in 0..Window
    BY <1>1, <2>2
  <2>6. RetryAfter(Window - (now - h[1])) \in 0..WindowSeconds
    BY <2>5, RetryFits
  <2>7. last' \in Answers
    <3>1. last.n + 1 \in Nat
      BY <1>1
    <3>. QED BY <1>1, <2>4, <2>6, <3>1 DEF Answers
  <2>8. /\ last'.by = "memory" /\ last'.process = p /\ last'.at = now
        /\ last'.retry_after = RetryAfter(Window - (now - h[1]))
    BY <2>4
  <2>9. ToldFromMemory'
    BY <1>1, <2>2, <2>3, <2>8 DEF ToldFromMemory
  <2>. QED BY <1>1, <2>7, <2>8, <2>9 DEF Told
<1>4. CASE Refuse(p, "redis", Window - (now % Window)) /\ Incr(TRUE)
  <2>1. last' = [n |-> last.n + 1, by |-> "redis", process |-> p, at |-> now,
                 allowed |-> FALSE, retry_after |-> RetryAfter(Window - (now % Window))]
    BY <1>4 DEF Refuse
  <2>2. RetryAfter(Window - (now % Window)) \in 0..WindowSeconds
    <3>1. Window - (now % Window) \in 0..Window
      BY <1>1, BucketEnds
    <3>. QED BY <3>1, RetryFits
  <2>3. last' \in Answers
    <3>1. last.n + 1 \in Nat
      BY <1>1
    <3>. QED BY <1>1, <2>1, <2>2, <3>1 DEF Answers
  <2>4. Booked'
    BY RequestBooked
  <2>5. /\ last'.by = "redis" /\ last'.at = now
        /\ last'.retry_after = RetryAfter(Window - (now % Window))
    BY <2>1
  <2>6. ToldByRedis'
    BY <1>1, <2>4, <2>5 DEF ToldByRedis, Booked
  <2>. QED BY <1>1, <2>3, <2>5, <2>6 DEF Told
<1>. QED BY <1>2, <1>3, <1>4, RefusedMeans

\* What was told holds until somebody asks again.
LEMMA ToldAlways == Spec => []Told
<1>1. Init => Told
  BY NoRequestTyped DEF Init, Told
<1>2. Counters /\ Windows /\ Booked /\ Told /\ [Next]_vars => Told'
  <2>. SUFFICES ASSUME Counters, Windows, Booked, Told, [Next]_vars PROVE Told'
    OBVIOUS
  <2>1. ASSUME NEW p \in Processes, Request(p) PROVE Told'
    BY <2>1, RequestTells DEF Told
  <2>2. ASSUME NEW p \in Processes, CheckRedisHealth(p) PROVE Told'
    BY <2>2 DEF CheckRedisHealth, Told, ToldFromMemory, ToldByRedis, redis
  <2>3. CASE RedisGoes \/ RedisComes \/ UNCHANGED vars
    BY <2>3 DEF RedisGoes, RedisComes, vars, Told, ToldFromMemory, ToldByRedis, process, redis
  <2>4. ASSUME NEW p \in Processes, Restart(p) PROVE Told'
    <3>1. /\ now' = now /\ last' = last /\ count' = count
          /\ hits' = [hits EXCEPT ![p] = <<>>] /\ hits \in [Processes -> Seq(Times)]
      BY <2>4 DEF Restart, redis, Windows
    <3>2. last.process \in Processes
      BY DEF Told, Answers
    <3>3. hits'[last.process] = <<>> \/ hits'[last.process] = hits[last.process]
      BY <3>1, <3>2
    <3>4. ToldFromMemory => ToldFromMemory'
      BY <3>1, <3>3 DEF ToldFromMemory
    <3>5. ToldByRedis => ToldByRedis'
      BY <3>1 DEF ToldByRedis
    <3>. QED BY <3>1, <3>4, <3>5 DEF Told
  <2>5. CASE Tick
    <3>1. /\ now' = now + 1 /\ last' = last /\ hits' = hits /\ now \in Nat
          /\ \A b \in Buckets : count'[b] = count[b] \/ count'[b] = 0
      BY <2>5, TimesFinite DEF Tick, process, Windows
    <3>2. last.at <= now'
      <4>1. last.at \in Times /\ last.at <= now
        BY DEF Told, Answers
      <4>2. last.at \in Nat
        BY <4>1, TimesFinite
      <4>. QED BY <3>1, <4>1, <4>2
    <3>3. ToldFromMemory => ToldFromMemory'
      BY <3>1 DEF ToldFromMemory
    <3>4. ToldByRedis => ToldByRedis'
      BY <3>1 DEF ToldByRedis
    <3>. QED BY <3>1, <3>2, <3>3, <3>4 DEF Told
  <2>. QED BY <2>1, <2>2, <2>3, <2>4, <2>5 DEF Next
<1>. QED BY <1>1, <1>2, CountersAlways, WindowsAlways, BookedAlways, PTL DEF Spec

\* The answer is honest: who comes back when it was told, and a second later for
\* what int() cuts off, is not refused again by the limiter that told it.
THEOREM ToldHonestly == Spec => RetryIsHonest
<1>. DEFINE A == /\ last'.n # last.n /\ ~last.allowed
                 /\ last'.by = last.by
                 /\ last.by = "memory" => last'.process = last.process
                 /\ now >= last.at + (last.retry_after + 1) * TicksPerSecond
                 => last'.allowed
<1>1. Counters /\ Windows /\ Booked /\ Told /\ [Next]_vars => [A]_vars
  <2>. SUFFICES ASSUME Counters, Windows, Booked, Told, Next,
                       last'.n # last.n, ~last.allowed, last'.by = last.by,
                       last.by = "memory" => last'.process = last.process,
                       now >= last.at + (last.retry_after + 1) * TicksPerSecond
                PROVE  last'.allowed
    BY DEF vars
  <2>. DEFINE later == (last.retry_after + 1) * TicksPerSecond
  <2>1. PICK p \in Processes : Request(p)
    BY DEF Next, CheckRedisHealth, Restart, RedisGoes, RedisComes, Tick
  <2>2. /\ last \in Answers /\ last.by # "nobody"
        /\ last.by = "memory" => ToldFromMemory
        /\ last.by = "redis" => ToldByRedis
    BY DEF Told
  <2>3. /\ now \in Times /\ now \in Nat /\ last.at \in Nat /\ Window \in Nat
        /\ last.retry_after \in Nat /\ TicksPerSecond \in Nat /\ later \in Nat
        /\ Capacity \in Nat /\ Capacity >= 1
    <3>1. last.at \in Times /\ last.retry_after \in 0..WindowSeconds
      BY <2>2 DEF Answers
    <3>2. /\ last.retry_after \in Nat /\ TicksPerSecond \in Nat
          /\ Capacity \in Nat /\ Capacity >= 1
      BY <3>1, RateLimitsAssumption DEF Capacity
    <3>3. \A m, n \in Nat : (m + 1) * n \in Nat
      OBVIOUS
    <3>4. now \in Times /\ Window \in Nat
      BY BucketFacts DEF Windows
    <3>5. now \in Nat /\ last.at \in Nat
      BY <3>1, <3>4, TimesFinite
    <3>. QED BY <3>2, <3>3, <3>4, <3>5
  <2>. HIDE DEF later
  <2>4. last.at + later <= now
    <3>1. now >= last.at + later
      BY DEF later
    <3>. QED BY <2>3, <3>1
  <2>5. CASE Admit
    BY <2>5, NoRequestTyped DEF Admit, NoRequest
  <2>6. CASE ~(Len(Recent(p)) < Capacity) /\ last'.by = "memory" /\ last'.process = p
    <3>. DEFINE h == hits[p]
    <3>1. ToldFromMemory /\ last.process = p
      BY <2>2, <2>6
    <3>2. Remembers(h, kept[p], now) /\ Listed(h, now)
      BY DEF Windows, Remembers
    <3>3. PICK k : Drops(h, k, Recent(p)) /\ \A i \in 1..Len(h) : i <= k <=> h[i] + Window < now
      BY <2>3, <3>2, RecentMeans
    <3>4. h \in Seq(Times) /\ Len(h) \in Nat /\ Len(h) <= Capacity
      BY <3>2 DEF Listed
    <3>5. k \in 0..Len(h) /\ Len(Recent(p)) = Len(h) - k
      BY <3>3 DEF Drops
    <3>6. /\ h # <<>> => /\ h[1] \in Nat /\ h[1] <= last.at /\ last.at <= h[1] + Window
                         /\ last.retry_after = RetryAfter(Window - (last.at - h[1]))
      BY <3>1 DEF ToldFromMemory
    <3>. HIDE DEF h
    <3>7. h # <<>>
      <4>. SUFFICES ASSUME h = <<>> PROVE FALSE
        OBVIOUS
      <4>1. Len(h) = 0
        OBVIOUS
      <4>. QED BY <2>3, <2>6, <3>5, <4>1
    <3>8. Len(h) >= 1
      BY <3>4, <3>7
    <3>. DEFINE ticks == Window - (last.at - h[1])
    <3>9. ticks \in 0..Window /\ h[1] + Window = last.at + ticks
      BY <2>3, <3>6, <3>7
    <3>10. last.retry_after = RetryAfter(ticks)
      BY <3>6, <3>7
    <3>. HIDE DEF ticks
    <3>11. ticks < later
      BY <3>9, <3>10, RetryFits DEF later
    <3>12. h[1] + Window < now
      BY <2>3, <2>4, <3>9, <3>11
    <3>13. k >= 1
      <4>1. 1 \in 1..Len(h)
        BY <3>4, <3>8
      <4>2. 1 <= k
        BY <3>3, <3>12, <4>1
      <4>. QED BY <3>5, <4>2
    <3>. QED BY <2>3, <2>6, <3>4, <3>5, <3>13
  <2>7. CASE ~(count[BucketOf(now)] < Capacity) /\ last'.by = "redis"
    <3>. DEFINE ticks == Window - (last.at % Window)
    <3>1. /\ ticks \in 0..Window
          /\ \A s \in Nat : last.at + ticks <= s => BucketOf(last.at) < BucketOf(s)
      BY <2>3, BucketEnds
    <3>2. last.retry_after = RetryAfter(ticks)
          /\ \A b \in Buckets : b > BucketOf(last.at) => count[b] = 0
      BY <2>2, <2>7 DEF ToldByRedis
    <3>. HIDE DEF ticks
    <3>3. ticks < later
      BY <3>1, <3>2, RetryFits DEF later
    <3>4. last.at + ticks <= now
      BY <2>3, <2>4, <3>1, <3>3
    <3>5. BucketOf(now) \in Buckets /\ BucketOf(now) \in Nat /\ BucketOf(last.at) \in Nat
      BY <2>3, BucketFacts
    <3>6. BucketOf(now) > BucketOf(last.at)
      BY <2>3, <3>1, <3>4, <3>5
    <3>7. count[BucketOf(now)] = 0
      BY <3>2, <3>5, <3>6
    <3>. QED BY <2>3, <2>7, <3>7
  <2>8. \A by, ticks : Refuse(p, by, ticks) => last'.by = by /\ last'.process = p
    BY DEF Refuse
  <2>9. \/ ~(Len(Recent(p)) < Capacity) /\ last'.by = "memory" /\ last'.process = p
        \/ ~(count[BucketOf(now)] < Capacity) /\ last'.by = "redis"
        \/ Admit
    BY <2>1, <2>8, RefusedMeans
  <2>. QED BY <2>5, <2>6, <2>7, <2>9
<1>. QED BY <1>1, CountersAlways, WindowsAlways, BookedAlways, ToldAlways, PTL DEF Spec, RetryIsHonest

-----------------------------------------------------------------------------
(* Types.                                                                  *)

\* What is left: the clients, Redis and the restarts.
Plain ==
  /\ conn \in [Processes -> {"none", "redis", "noop"}]
  /\ reachable \in BOOLEAN /\ restarts \in 0..MaxRestarts

\* It keeps its types.
LEMMA PlainAlways == Spec => []Plain
<1>1. Init => Plain
  BY RateLimitsAssumption DEF Init, Plain
<1>2. Plain /\ [Next]_vars => Plain'
  <2>. SUFFICES ASSUME Plain, [Next]_vars PROVE Plain'
    OBVIOUS
  <2>1. ASSUME NEW p \in Processes, Request(p) PROVE Plain'
    <3>1. Client(p) \in {"none", "redis", "noop"}
      BY DEF Client, Plain
    <3>2. /\ conn' = conn \/ conn' = [conn EXCEPT ![p] = Client(p)]
          /\ reachable' = reachable /\ restarts' = restarts
      BY <2>1 DEF Request
    <3>. QED BY <3>1, <3>2 DEF Plain
  <2>2. ASSUME NEW p \in Processes, CheckRedisHealth(p) PROVE Plain'
    BY <2>2 DEF CheckRedisHealth, Plain, history
  <2>3. ASSUME NEW p \in Processes, Restart(p) PROVE Plain'
    <3>1. restarts' \in 0..MaxRestarts
      BY <2>3, RateLimitsAssumption DEF Restart, Plain
    <3>. QED BY <2>3, <3>1 DEF Restart, Plain
  <2>4. CASE RedisGoes \/ RedisComes \/ Tick \/ UNCHANGED vars
    BY <2>4 DEF RedisGoes, RedisComes, Tick, vars, Plain, process, history
  <2>. QED BY <2>1, <2>2, <2>3, <2>4 DEF Next
<1>. QED BY <1>1, <1>2, PTL DEF Spec

\* Every state of the limiters is one that their types admit, the answer a client
\* gets included: never told to wait for longer than a window.
THEOREM RateLimitsTyped == Spec => []TypeOK
<1>1. Counters /\ Windows /\ Told /\ Plain => TypeOK
  BY DEF Counters, Windows, Told, Answers, Plain, TypeOK
<1>. QED BY <1>1, CountersAlways, WindowsAlways, ToldAlways, PlainAlways, PTL

=============================================================================
