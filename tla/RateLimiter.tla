----------------------------- MODULE RateLimiter -----------------------------
(***************************************************************************)
(* The token buckets of internal/ratelimit/ratelimit.go, one per client    *)
(* IP, as route_rate_limit.go configures them.                             *)
(*                                                                         *)
(* A bucket fills at Rate tokens a tick up to Capacity; a request that may *)
(* pass takes one.  Once MaxKeys addresses are tracked, those idle for     *)
(* more than IdleTTL are forgotten, and a forgotten address starts with a  *)
(* full bucket again.  The code counts tokens as floats per second; here   *)
(* they are whole, a tick being a second.                                  *)
(***************************************************************************)
EXTENDS Clock, FiniteSets

CONSTANTS
  IPs,      \* client addresses
  IPRate,   \* requests per second and address, 0 for no limit
  Burst,    \* size of a bucket, 0 for IPRate
  MaxKeys,  \* defaultMaxKeys
  IdleTTL   \* defaultIdleTTL

Capacity == IF Burst = 0 THEN IPRate ELSE Burst
Rate     == IPRate

ASSUME LimiterAssumption ==
  IPRate \in Nat /\ Burst \in Nat /\ MaxKeys \in Nat /\ IdleTTL \in Nat

\* A bucket fills up within IdleTTL.  With the defaults this says
\* burst <= 900 * rate, which setupRateLimits does not check.
IdleRefills == Capacity <= Rate * IdleTTL

VARIABLES
  buckets,     \* tokens of the tracked addresses
  lastRefill,  \* when each was used last
  watch        \* history: address -> a moment and the requests admitted since

limiterVars == <<buckets, lastRefill, watch>>

LimiterTypeOK ==
  /\ now \in 0..MaxTime
  /\ DOMAIN buckets \in SUBSET IPs
  /\ buckets \in [DOMAIN buckets -> 0..Capacity]
  /\ lastRefill \in [DOMAIN buckets -> 0..now]
  /\ watch \in [IPs -> [from : 0..now, used : Nat]]

LimiterInit ==
  /\ buckets = <<>> /\ lastRefill = <<>>
  /\ watch = [ip \in IPs |-> [from |-> 0, used |-> 0]]

Least(a, b) == IF a <= b THEN a ELSE b

(***************************************************************************)
(* evictIdle: the addresses that stay tracked.                             *)
(***************************************************************************)
\* Faulty: makes room by dropping every address, busy ones too.
TrackedIfRoom == IF Cardinality(DOMAIN buckets) < MaxKeys THEN DOMAIN buckets ELSE {}

Tracked ==
  IF Cardinality(DOMAIN buckets) < MaxKeys THEN DOMAIN buckets
  ELSE {ip \in DOMAIN buckets : now - lastRefill[ip] <= IdleTTL}

(***************************************************************************)
(* Allow: the bucket as it stands now, and what is left of it.             *)
(***************************************************************************)
Tokens(ip) ==
  IF ip \in Tracked
  THEN Least(Capacity, buckets[ip] + Rate * (now - lastRefill[ip]))
  ELSE Capacity

MayPass(ip) == Capacity > 0 /\ Tokens(ip) >= 1

Allow(ip) ==
  LET ok   == MayPass(ip)
      left == IF ok THEN Tokens(ip) - 1 ELSE Tokens(ip)
      keys == Tracked \cup {ip}
  IN IF Capacity = 0 THEN UNCHANGED <<buckets, lastRefill, watch>>
     ELSE /\ buckets' = [k \in keys |-> IF k = ip THEN left ELSE buckets[k]]
          /\ lastRefill' = [k \in keys |-> IF k = ip THEN now ELSE lastRefill[k]]
          /\ watch' = IF ok THEN [watch EXCEPT ![ip].used = @ + 1] ELSE watch

\* ShouldLimit: without a limiter every request passes.
ShouldLimit(ip) == IPRate > 0 /\ ~ MayPass(ip)

Limit(ip) == IF IPRate > 0 THEN Allow(ip) ELSE UNCHANGED limiterVars

\* An observer starts to count what an address is allowed.  Who starts within a
\* tick sees less than who started with the tick's first request.
Watch(ip) ==
  /\ IPRate > 0 /\ watch[ip].from < now
  /\ watch' = [watch EXCEPT ![ip] = [from |-> now, used |-> 0]]
  /\ UNCHANGED <<buckets, lastRefill>>

(***************************************************************************)
(* The limiter on its own.                                                 *)
(***************************************************************************)
LimiterTick == Tick /\ UNCHANGED limiterVars
LimiterNext ==
  \/ LimiterTick
  \/ \E ip \in IPs : \/ Limit(ip) /\ UNCHANGED now
                     \/ Watch(ip) /\ UNCHANGED now

LimiterSpec == now = 0 /\ LimiterInit /\ [][LimiterNext]_<<now, limiterVars>>

\* From whatever moment one counts, an address is allowed no more requests than
\* a full bucket and the refill since then, though buckets are evicted and
\* forgotten in between: "evicting them loses no burst capacity" gains none
\* either (ratelimit.go:88-91).  This takes a bucket that fills up within IdleTTL
\* (IdleRefills).
AdmittedInBudget ==
  \A ip \in IPs : watch[ip].used <= Capacity + Rate * (now - watch[ip].from)

\* "Idle keys are the ones whose persisted tokens are full anyway", says evictIdle of
\* the addresses it forgets (ratelimit.go:90-91).
IdleIsFull ==
  \A ip \in DOMAIN buckets :
    now - lastRefill[ip] > IdleTTL
      => buckets[ip] + Rate * (now - lastRefill[ip]) >= Capacity
=============================================================================
