----------------------------- MODULE RateLimits -----------------------------
(***************************************************************************)
(* The rate limit of one key (client address and path), shared by several  *)
(* processes of the application through Redis.                             *)
(*                                                                         *)
(* RateLimitMiddleware.dispatch does not await before it has its answer:   *)
(* within one process a request is limited in one step.  Processes meet in *)
(* Redis only; each keeps a sliding window of its own in memory, on which  *)
(* it falls back.  Requests that are exempt (OPTIONS, exempt paths) never  *)
(* reach the limiter and are left out.                                     *)
(*                                                                         *)
(* Redis is external: it may be out of reach, and a call that reaches it   *)
(* may take effect and lose its answer.                                    *)
(*                                                                         *)
(* passed, kept, asked and restarts are history variables: what Redis let  *)
(* through in this bucket, what each memory let through and what was asked *)
(* in the window that ends now, and how many restarts there were.          *)
(***************************************************************************)
EXTENDS Naturals, Sequences, FiniteSets, Functions

CONSTANTS
  Processes,
  RequestsPerMinute, Burst, \* settings.rate_limit_requests_per_minute, _burst
  WindowSeconds,   \* window_seconds
  TicksPerSecond,  \* grain of the clock: what int() truncates
  RedisBackend,    \* settings.rate_limit_backend = "redis"
  RedisEnabled,    \* settings.redis_enabled
  MaxTime, MaxRequests, MaxRestarts  \* bounds

ASSUME RateLimitsAssumption ==
  /\ Processes # {}
  /\ RequestsPerMinute \in Nat \ {0} /\ Burst \in Nat
  /\ WindowSeconds \in Nat \ {0} /\ TicksPerSecond \in Nat \ {0}
  /\ RedisBackend \in BOOLEAN /\ RedisEnabled \in BOOLEAN
  /\ MaxTime \in Nat /\ MaxRequests \in Nat /\ MaxRestarts \in Nat

Window == WindowSeconds * TicksPerSecond
Capacity == RequestsPerMinute + Burst
Times == 0..MaxTime
BucketOf(t) == t \div Window
Buckets == 0..BucketOf(MaxTime)

VARIABLES
  now,
  hits,      \* InMemoryRateLimiter._requests of each process
  conn,      \* _redis_client of each process: None, a client, or a Noop client
  reachable, \* Redis answers
  count, expires, \* the counter of each bucket in Redis, and when it expires
  last,      \* the number of requests, and the last answer if it is a refusal
  passed, kept, asked, restarts

process == <<hits, conn>>
redis == <<count, expires>>
history == <<passed, kept, asked, restarts>>
vars == <<now, process, reachable, redis, last, history>>

NoExpiry == 0
NoRequest == [n |-> 0, by |-> "nobody", process |-> CHOOSE p \in Processes : TRUE,
              at |-> 0, allowed |-> TRUE, retry_after |-> 0]

Init ==
  /\ now = 0
  /\ hits = [p \in Processes |-> <<>>]
  /\ conn = [p \in Processes |-> "none"]
  /\ reachable \in BOOLEAN
  /\ count = [b \in Buckets |-> 0] /\ expires = [b \in Buckets |-> NoExpiry]
  /\ last = NoRequest
  /\ passed = 0 /\ kept = [p \in Processes |-> [t \in Times |-> 0]]
  /\ asked = [t \in Times |-> 0] /\ restarts = 0

-----------------------------------------------------------------------------
(* The limiters.                                                           *)

\* Faulty: forgets the truncation and tells the client to come back at once.
RetryAfterOne(ticks) == 1

\* Faulty: in ticks.
RetryAfterTicks(ticks) == ticks

\* max(1, int(...)): whole seconds, at least one.
RetryAfter(ticks) ==
  IF ticks < TicksPerSecond THEN 1 ELSE ticks \div TicksPerSecond

Admit == last' = [NoRequest EXCEPT !.n = last.n + 1]
Refuse(p, by, ticks) ==
  last' = [n |-> last.n + 1, by |-> by, process |-> p, at |-> now,
           allowed |-> FALSE, retry_after |-> RetryAfter(ticks)]

\* The hits not older than some age.  Each was put at the end of the list when it
\* came, so that those which are left out are the first of it.
NoOlder(p, age) ==
  LET older == {i \in DOMAIN hits[p] : hits[p][i] + age < now}
  IN  SubSeq(hits[p], Cardinality(older) + 1, Len(hits[p]))

\* Faulty: counts only what is less than half a window old.
RecentHalf(p) == NoOlder(p, Window \div 2)

\* A hit exactly one window old still counts.
Recent(p) == NoOlder(p, Window)

\* InMemoryRateLimiter.allow.
AllowInMemory(p) ==
  /\ IF Len(Recent(p)) < Capacity
     THEN /\ hits' = [hits EXCEPT ![p] = Append(Recent(p), now)]
          /\ kept' = [kept EXCEPT ![p][now] = @ + 1]
          /\ Admit
     ELSE /\ hits' = [hits EXCEPT ![p] = Recent(p)]
          /\ Refuse(p, "memory", Window - (now - Recent(p)[1]))
          /\ UNCHANGED kept
  /\ UNCHANGED passed

\* Faulty: one counter for all times.
RedisKeyForever(t) == 0

\* rate_limit:{bucket}:{key}
RedisKey(t) == BucketOf(t)

\* Faulty: gives the counter half of its life.
ExpiryHalf(t) == t + Window \div 2

Expiry(t) == t + Window

\* INCR, and EXPIRE by whoever counted first, unless that call is the one that
\* fails.
Incr(expiring) ==
  LET k == RedisKey(now) IN
  /\ count' = [count EXCEPT ![k] = @ + 1]
  /\ expires' = IF expiring /\ count[k] = 0
                THEN [expires EXCEPT ![k] = Expiry(now)] ELSE expires

\* RedisRateLimiter.allow with a client whose calls come back.
AllowInRedis(p) ==
  /\ reachable
  /\ Incr(TRUE)
  /\ IF count[RedisKey(now)] < Capacity
     THEN Admit /\ passed' = passed + 1
     ELSE Refuse(p, "redis", Window - (now % Window)) /\ UNCHANGED passed
  /\ UNCHANGED <<hits, kept>>

\* The exception: INCR did not arrive, or it did and its answer or the EXPIRE
\* after it was lost.
RedisRaises(p) ==
  /\ \/ ~reachable /\ UNCHANGED redis
     \/ reachable /\ \E expiring \in BOOLEAN : Incr(expiring)
  /\ AllowInMemory(p)

\* get_redis_client: the first use decides.
Client(p) ==
  IF conn[p] # "none" THEN conn[p]
  ELSE IF RedisEnabled /\ reachable THEN "redis" ELSE "noop"

\* RateLimitMiddleware.dispatch.
Request(p) ==
  /\ last.n < MaxRequests
  /\ asked' = [asked EXCEPT ![now] = @ + 1]
  /\ IF RedisBackend
     THEN /\ conn' = [conn EXCEPT ![p] = Client(p)]
          /\ IF Client(p) = "redis"
             THEN AllowInRedis(p) \/ RedisRaises(p)
             ELSE AllowInMemory(p) /\ UNCHANGED redis
     ELSE AllowInMemory(p) /\ UNCHANGED <<conn, redis>>
  /\ UNCHANGED <<now, reachable, restarts>>

-----------------------------------------------------------------------------
(* Health checks, Redis, time, and the processes.                          *)

\* Faulty: reports that Redis is back and keeps the Noop client.
CheckRedisHealthOnly(p) == FALSE

\* check_redis_health: only this takes a Noop client back.
CheckRedisHealth(p) ==
  /\ RedisEnabled /\ conn[p] = "noop" /\ reachable
  /\ conn' = [conn EXCEPT ![p] = "none"]
  /\ UNCHANGED <<now, hits, reachable, redis, last, history>>

RedisGoes == /\ reachable /\ reachable' = FALSE
             /\ UNCHANGED <<now, process, redis, last, history>>
RedisComes == /\ ~reachable /\ reachable' = TRUE
              /\ UNCHANGED <<now, process, redis, last, history>>

\* What of a history still lies in the window when the clock has moved on.
InWindow(f) == [t \in Times |-> IF t + Window > now THEN f[t] ELSE 0]

\* A counter disappears when its time is up.
Tick ==
  /\ now < MaxTime
  /\ now' = now + 1
  /\ LET gone == {b \in Buckets : expires[b] # NoExpiry /\ expires[b] <= now + 1} IN
     /\ count' = [b \in Buckets |-> IF b \in gone THEN 0 ELSE count[b]]
     /\ expires' = [b \in Buckets |-> IF b \in gone THEN NoExpiry ELSE expires[b]]
  /\ kept' = [p \in Processes |-> InWindow(kept[p])]
  /\ asked' = InWindow(asked)
  /\ passed' = IF BucketOf(now + 1) = BucketOf(now) THEN passed ELSE 0
  /\ UNCHANGED <<process, reachable, last, restarts>>

\* A restart forgets the window.
Restart(p) ==
  /\ restarts < MaxRestarts
  /\ hits' = [hits EXCEPT ![p] = <<>>]
  /\ conn' = [conn EXCEPT ![p] = "none"]
  /\ kept' = [kept EXCEPT ![p] = [t \in Times |-> 0]]
  /\ restarts' = restarts + 1
  /\ UNCHANGED <<now, reachable, redis, last, passed, asked>>

Next ==
  \/ \E p \in Processes : Request(p) \/ CheckRedisHealth(p) \/ Restart(p)
  \/ RedisGoes \/ RedisComes \/ Tick

Spec == Init /\ [][Next]_vars

\* The container's health check (docker-compose.yml) calls /health for ever.
FairSpec == Spec /\ \A p \in Processes : WF_vars(CheckRedisHealth(p))

-----------------------------------------------------------------------------
(* Properties.                                                             *)

TypeOK ==
  /\ now \in Times
  /\ hits \in [Processes -> Seq(Times)]
  /\ conn \in [Processes -> {"none", "redis", "noop"}]
  /\ reachable \in BOOLEAN
  /\ count \in [Buckets -> Nat] /\ expires \in [Buckets -> Nat]
  /\ last \in [n : Nat, by : {"nobody", "memory", "redis"}, process : Processes,
               at : Times, allowed : BOOLEAN, retry_after : 0..WindowSeconds]
  /\ passed \in Nat
  /\ kept \in [Processes -> [Times -> Nat]] /\ asked \in [Times -> Nat]
  /\ restarts \in 0..MaxRestarts

\* The processes together let no more than the capacity through Redis in one
\* window of the clock, whatever is lost on the way to Redis or expires in it.
RedisBound == passed <= Capacity

\* The fallback of a process adds at most the capacity in any window, from one
\* restart to the next, the requests Redis had already counted included.
FallbackBound ==
  \A p \in Processes : SumFunction(kept[p]) <= Capacity

\* What is let through is bounded on both paths, however often the processes go
\* from one to the other.
AdmittedBound == RedisBound /\ FallbackBound

\* Nobody is refused unless the clients have asked for the whole capacity within
\* one window: what a failure counts twice takes nothing from a client.
RefusedWhenFull ==
  [][last'.n # last.n /\ ~last'.allowed =>
       SumFunction(asked) >= Capacity]_vars

\* The answer is honest, up to the second that int() cuts off: when nobody else
\* asks in between, whoever comes back a second after the time it was told is
\* let through by the limiter that told it.
RetryIsHonest ==
  [][/\ last'.n # last.n /\ ~last.allowed
     /\ last'.by = last.by
     /\ last.by = "memory" => last'.process = last.process
     /\ now >= last.at + (last.retry_after + 1) * TicksPerSecond
     => last'.allowed]_vars

\* Once Redis stays within reach, every process comes back to it.
FallbackEnds ==
  <>[]reachable => \A p \in Processes : <>[](conn[p] # "noop")
=============================================================================
