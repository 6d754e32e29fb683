-------------------------- MODULE PushTrafficProofs --------------------------
(***************************************************************************)
(* The rate limiter keeps its tables for any settings, and every address   *)
(* within its budget for any number of addresses, any rate and any burst   *)
(* that an idle bucket can regain (IdleRefills, a hypothesis of the        *)
(* theorems that need it).                                                 *)
(* Then requests, limiter and push service together, for any number of     *)
(* requests and addresses, any batch and any timing that the assumptions   *)
(* allow: no message is delivered twice, no call meets an expired JWT, and *)
(* replies are true.                                                       *)
(*                                                                         *)
(* The invariant of the limiter is a balance: what an observer saw         *)
(* admitted and what the bucket holds at the moment, Left, never exceed    *)
(* the budget since the observer began.  Left does not mention the         *)
(* eviction: evictIdle makes no difference to what an address is owed.     *)
(***************************************************************************)
EXTENDS PushTraffic, FiniteSetTheorems, TLAPS

Left(ip) ==
  IF ip \in DOMAIN buckets
  THEN Least(Capacity, buckets[ip] + Rate * (now - lastRefill[ip]))
  ELSE Capacity

Balance ==
  \A ip \in IPs : watch[ip].used + Left(ip) <= Capacity + Rate * (now - watch[ip].from)

BudgetInv == IdleRefills /\ LimiterTypeOK /\ Balance

(***************************************************************************)
(* Arithmetic.                                                             *)
(***************************************************************************)
LEMMA RateInNat == Rate \in Nat /\ Capacity \in Nat /\ IdleTTL \in Nat
BY LimiterAssumption DEF Rate, Capacity

\* A longer time yields no fewer tokens.
LEMMA MoreTimeMoreTokens ==
  ASSUME NEW r \in Nat, NEW a \in Nat, NEW b \in Nat, a <= b
  PROVE  r * a \in Nat /\ r * a <= r * b
<1>1. b = a + (b - a) /\ b - a \in Nat
  OBVIOUS
<1>2. r * b = r * a + r * (b - a)
  BY <1>1
<1>3. r * (b - a) \in Nat /\ r * a \in Nat
  BY <1>1
<1> QED
  BY <1>2, <1>3

LEMMA OneTickMore ==
  ASSUME NEW r \in Nat, NEW a \in Int
  PROVE  r * (a + 1) = r * a + r /\ r * a \in Int
OBVIOUS

(***************************************************************************)
(* The tables alone, for any burst and any idle time.                      *)
(***************************************************************************)
LEMMA TokensFit ==
  ASSUME LimiterTypeOK, NEW ip \in IPs
  PROVE  Tokens(ip) \in 0..Capacity /\ Left(ip) \in 0..Capacity
<1> USE RateInNat
<1>1. CASE ip \notin DOMAIN buckets
  BY <1>1 DEF Tokens, Tracked, Left
<1>2. CASE ip \in DOMAIN buckets
  <2> DEFINE idle == now - lastRefill[ip]
  <2>1. idle \in Nat /\ buckets[ip] \in 0..Capacity
    BY <1>2, ClockAssumption DEF LimiterTypeOK
  <2>2. Rate * idle \in Nat
    BY <2>1, MoreTimeMoreTokens
  <2> QED
    BY <1>2, <2>1, <2>2 DEF Tokens, Left, Least
<1> QED
  BY <1>1, <1>2

LEMMA AllowTyped ==
  ASSUME LimiterTypeOK, NEW ip \in IPs, Allow(ip), now' = now
  PROVE  LimiterTypeOK'
<1> USE RateInNat, ClockAssumption
<1>1. CASE Capacity = 0
  <2>1. UNCHANGED <<buckets, lastRefill, watch, now>>
    BY <1>1 DEF Allow
  <2> QED
    BY <2>1 DEF LimiterTypeOK
<1>2. CASE Capacity # 0
  <2> DEFINE ok   == MayPass(ip)
             left == IF ok THEN Tokens(ip) - 1 ELSE Tokens(ip)
             keys == Tracked \cup {ip}
  <2>1. /\ buckets' = [k \in keys |-> IF k = ip THEN left ELSE buckets[k]]
        /\ lastRefill' = [k \in keys |-> IF k = ip THEN now ELSE lastRefill[k]]
        /\ watch' = IF ok THEN [watch EXCEPT ![ip].used = @ + 1] ELSE watch
    BY <1>2 DEF Allow
  <2>2. left \in 0..Capacity
    BY TokensFit DEF MayPass
  <2>3. Tracked \subseteq DOMAIN buckets /\ keys \subseteq IPs
    BY DEF Tracked, LimiterTypeOK
  <2>4. watch \in [IPs -> [from : 0..now, used : Nat]]
    BY DEF LimiterTypeOK
  <2> HIDE DEF ok, left
  <2>5. DOMAIN buckets' = keys /\ buckets' \in [keys -> 0..Capacity]
    BY <2>1, <2>2, <2>3 DEF LimiterTypeOK
  <2>6. lastRefill' \in [keys -> 0..now]
    BY <2>1, <2>3 DEF LimiterTypeOK
  <2>7. watch' \in [IPs -> [from : 0..now, used : Nat]]
    BY <2>1, <2>4
  <2> QED
    BY <2>3, <2>5, <2>6, <2>7 DEF LimiterTypeOK
<1> QED
  BY <1>1, <1>2

LEMMA LimiterStepTyped ==
  ASSUME LimiterTypeOK, [LimiterNext]_<<now, limiterVars>>
  PROVE  LimiterTypeOK'
<1> USE RateInNat, ClockAssumption
<1>1. CASE LimiterTick
  BY <1>1 DEF LimiterTick, Tick, limiterVars, LimiterTypeOK
<1>2. ASSUME NEW ip \in IPs, Limit(ip), now' = now PROVE LimiterTypeOK'
  <2>1. CASE IPRate > 0
    BY <1>2, <2>1, AllowTyped DEF Limit
  <2>2. CASE ~ (IPRate > 0)
    BY <1>2, <2>2 DEF Limit, limiterVars, LimiterTypeOK
  <2> QED
    BY <2>1, <2>2
<1>3. ASSUME NEW ip \in IPs, Watch(ip), now' = now PROVE LimiterTypeOK'
  BY <1>3 DEF Watch, LimiterTypeOK
<1>4. CASE UNCHANGED <<now, limiterVars>>
  BY <1>4 DEF limiterVars, LimiterTypeOK
<1> QED
  BY <1>1, <1>2, <1>3, <1>4 DEF LimiterNext

LEMMA LimiterTyped == LimiterSpec => []LimiterTypeOK
<1>1. now = 0 /\ LimiterInit => LimiterTypeOK
  BY RateInNat, ClockAssumption DEF LimiterInit, LimiterTypeOK
<1>2. LimiterTypeOK /\ [LimiterNext]_<<now, limiterVars>> => LimiterTypeOK'
  BY LimiterStepTyped
<1> QED
  BY <1>1, <1>2, PTL DEF LimiterSpec

(***************************************************************************)
(* An address that evictIdle forgets had a full bucket: "evicting them     *)
(* loses no burst capacity" (ratelimit.go:88-91), and gains none, if the   *)
(* bucket fills up within IdleTTL.                                         *)
(***************************************************************************)
THEOREM EvictionIsNeutral ==
  ASSUME IdleRefills, LimiterTypeOK, NEW ip \in IPs
  PROVE  Tokens(ip) = Left(ip) /\ Left(ip) \in 0..Capacity
<1> USE RateInNat
<1>1. Left(ip) \in 0..Capacity
  BY TokensFit
<1>2. CASE ip \notin DOMAIN buckets
  BY <1>1, <1>2 DEF Tokens, Tracked, Left
<1>3. CASE ip \in Tracked
  BY <1>1, <1>3 DEF Tokens, Tracked, Left
<1>4. CASE ip \in DOMAIN buckets \ Tracked
  <2> DEFINE idle == now - lastRefill[ip]
  <2>1. idle \in Nat /\ buckets[ip] \in 0..Capacity /\ IdleTTL <= idle
    BY <1>4, ClockAssumption DEF LimiterTypeOK, Tracked
  <2>2. Rate * idle \in Nat /\ Rate * IdleTTL <= Rate * idle /\ Rate * IdleTTL \in Nat
    BY <2>1, MoreTimeMoreTokens
  <2>3. Capacity <= buckets[ip] + Rate * idle
    BY <2>1, <2>2 DEF IdleRefills
  <2> QED
    BY <1>1, <1>4, <2>1, <2>2, <2>3 DEF Tokens, Left, Least
<1> QED
  BY <1>2, <1>3, <1>4 DEF Tracked

LEMMA BudgetInitially ==
  ASSUME IdleRefills, now = 0, LimiterInit
  PROVE  BudgetInv
<1> USE RateInNat, ClockAssumption
<1>1. LimiterTypeOK
  BY DEF LimiterInit, LimiterTypeOK
<1>2. Balance
  <2>1. \A ip \in IPs : Left(ip) = Capacity /\ watch[ip] = [from |-> 0, used |-> 0]
    BY DEF LimiterInit, Left
  <2>2. Rate * (0 - 0) = 0
    OBVIOUS
  <2> QED
    BY <2>1, <2>2 DEF Balance
<1> QED
  BY <1>1, <1>2 DEF BudgetInv

\* What a request takes: one token of its own address, if it may pass.
LEMMA AllowTakesOne ==
  ASSUME IdleRefills, LimiterTypeOK, NEW ip \in IPs, Allow(ip), now' = now, NEW k \in IPs
  PROVE  Left(k)' = IF k = ip /\ MayPass(ip) THEN Left(k) - 1 ELSE Left(k)
<1> USE RateInNat, ClockAssumption
<1>1. CASE Capacity = 0
  BY <1>1 DEF Allow, MayPass, Left
<1>2. CASE Capacity # 0
  <2> DEFINE ok   == MayPass(ip)
             left == IF ok THEN Tokens(ip) - 1 ELSE Tokens(ip)
             keys == Tracked \cup {ip}
  <2>1. /\ buckets' = [j \in keys |-> IF j = ip THEN left ELSE buckets[j]]
        /\ lastRefill' = [j \in keys |-> IF j = ip THEN now ELSE lastRefill[j]]
    BY <1>2 DEF Allow
  <2>2. \A j \in IPs : Tokens(j) = Left(j) /\ Left(j) \in 0..Capacity
    BY EvictionIsNeutral
  <2>3. left \in 0..Capacity /\ (ok => left = Left(ip) - 1) /\ (~ ok => left = Left(ip))
    BY <2>2 DEF MayPass
  <2>4. Tracked \subseteq DOMAIN buckets
    BY DEF Tracked
  <2> HIDE DEF ok, left
  <2>5. CASE k = ip
    <3>1. buckets'[ip] = left /\ lastRefill'[ip] = now /\ ip \in DOMAIN buckets'
      BY <2>1
    <3>2. Rate * (now - now) = 0
      BY DEF LimiterTypeOK
    <3>3. Left(ip)' = left
      BY <3>1, <3>2, <2>3 DEF Left, Least, Capacity, Rate
    <3> QED
      BY <2>3, <2>5, <3>3 DEF ok
  <2>6. CASE k # ip
    <3>1. CASE k \in Tracked
      <4>1. /\ k \in DOMAIN buckets /\ k \in DOMAIN buckets'
            /\ buckets'[k] = buckets[k] /\ lastRefill'[k] = lastRefill[k]
        BY <2>1, <2>4, <2>6, <3>1
      <4> QED
        BY <2>6, <4>1 DEF Left
    <3>2. CASE k \notin Tracked
      <4>1. k \notin DOMAIN buckets'
        BY <2>1, <2>6, <3>2
      <4>2. Left(k)' = Capacity
        BY <4>1 DEF Left
      <4>3. Left(k) = Capacity
        BY <2>2, <3>2 DEF Tokens
      <4> QED
        BY <2>6, <4>2, <4>3
    <3> QED
      BY <3>1, <3>2
  <2> QED
    BY <2>5, <2>6
<1> QED
  BY <1>1, <1>2

\* What a tick brings.
LEMMA TickRefills ==
  ASSUME IdleRefills, LimiterTypeOK, LimiterTick, NEW k \in IPs
  PROVE  Left(k)' \in Int /\ Left(k)' <= Left(k) + Rate
<1> USE RateInNat, ClockAssumption
<1>1. /\ now' = now + 1 /\ now \in Nat
      /\ buckets' = buckets /\ lastRefill' = lastRefill
  BY DEF LimiterTick, Tick, limiterVars, LimiterTypeOK
<1>2. Left(k) \in 0..Capacity
  BY EvictionIsNeutral
<1>3. CASE k \notin DOMAIN buckets
  BY <1>1, <1>2, <1>3 DEF Left
<1>4. CASE k \in DOMAIN buckets
  <2> DEFINE idle == now - lastRefill[k]
  <2>1. idle \in Nat /\ now' - lastRefill[k] = idle + 1 /\ buckets[k] \in Nat
    <3>1. lastRefill[k] \in 0..now /\ buckets[k] \in 0..Capacity
      BY <1>4 DEF LimiterTypeOK
    <3> QED
      BY <1>1, <3>1
  <2>2. Rate * (idle + 1) = Rate * idle + Rate /\ Rate * idle \in Int
    <3>1. idle \in Int
      BY <2>1
    <3> HIDE DEF idle
    <3> QED
      BY <3>1, OneTickMore
  <2>3. Left(k) = Least(Capacity, buckets[k] + Rate * idle)
    BY <1>4 DEF Left
  <2>4. Left(k)' = Least(Capacity, buckets[k] + Rate * (idle + 1))
    BY <1>1, <1>4, <2>1 DEF Left, Capacity, Rate
  <2> HIDE DEF idle
  <2> QED
    BY <2>1, <2>2, <2>3, <2>4 DEF Least
<1> QED
  BY <1>3, <1>4

LEMMA AllowKeepsBudget ==
  ASSUME BudgetInv, NEW ip \in IPs, Allow(ip), now' = now
  PROVE  BudgetInv'
<1> USE RateInNat, ClockAssumption
<1>1. CASE Capacity = 0
  <2>1. UNCHANGED <<buckets, lastRefill, watch, now>>
    BY <1>1 DEF Allow
  <2> QED
    BY <2>1 DEF BudgetInv, LimiterTypeOK, Balance, Left
<1>2. CASE Capacity # 0
  <2> DEFINE ok   == MayPass(ip)
             left == IF ok THEN Tokens(ip) - 1 ELSE Tokens(ip)
             keys == Tracked \cup {ip}
  <2>1. /\ buckets' = [k \in keys |-> IF k = ip THEN left ELSE buckets[k]]
        /\ lastRefill' = [k \in keys |-> IF k = ip THEN now ELSE lastRefill[k]]
        /\ watch' = IF ok THEN [watch EXCEPT ![ip].used = @ + 1] ELSE watch
    BY <1>2 DEF Allow
  <2>2. \A k \in IPs : Tokens(k) = Left(k) /\ Left(k) \in 0..Capacity
    BY EvictionIsNeutral DEF BudgetInv
  <2>3. left \in 0..Capacity /\ (ok => left = Left(ip) - 1) /\ (~ ok => left = Left(ip))
    BY <2>2 DEF MayPass
  <2>4. Tracked \subseteq DOMAIN buckets /\ keys \subseteq IPs
    BY DEF Tracked, BudgetInv, LimiterTypeOK
  <2>5. watch \in [IPs -> [from : 0..now, used : Nat]]
    BY DEF BudgetInv, LimiterTypeOK
  <2> HIDE DEF ok, left
  <2>6. LimiterTypeOK'
    BY AllowTyped DEF BudgetInv
  <2>7. ASSUME NEW k \in IPs
        PROVE  watch'[k].used + Left(k)' <= Capacity + Rate * (now - watch'[k].from)
    <3>1. watch[k].used + Left(k) <= Capacity + Rate * (now - watch[k].from)
      BY DEF BudgetInv, Balance
    <3>2. Left(k)' = IF k = ip /\ ok THEN Left(k) - 1 ELSE Left(k)
      BY AllowTakesOne DEF ok, BudgetInv
    <3>3. /\ watch'[k].from = watch[k].from
          /\ watch'[k].used = IF k = ip /\ ok THEN watch[k].used + 1 ELSE watch[k].used
      BY <2>1, <2>5
    <3>4. watch[k].used \in Nat /\ Left(k) \in Nat
      BY <2>2, <2>5
    <3> QED
      BY <3>1, <3>2, <3>3, <3>4
  <2> QED
    BY <2>6, <2>7 DEF BudgetInv, Balance
<1> QED
  BY <1>1, <1>2

LEMMA WatchKeepsBudget ==
  ASSUME BudgetInv, NEW ip \in IPs, Watch(ip), now' = now
  PROVE  BudgetInv'
<1> USE RateInNat, ClockAssumption
<1>1. LimiterTypeOK'
  BY DEF Watch, BudgetInv, LimiterTypeOK
<1>2. ASSUME NEW k \in IPs
      PROVE  watch'[k].used + Left(k)' <= Capacity + Rate * (now - watch'[k].from)
  <2>1. Left(k)' = Left(k) /\ Left(k) \in 0..Capacity
    BY EvictionIsNeutral DEF Watch, Left, BudgetInv
  <2>2. watch' = [watch EXCEPT ![ip] = [from |-> now, used |-> 0]]
    BY DEF Watch
  <2>3. CASE k = ip
    <3>1. watch'[k] = [from |-> now, used |-> 0]
      BY <2>2, <2>3 DEF BudgetInv, LimiterTypeOK
    <3>2. Rate * (now - now) = 0
      BY DEF BudgetInv, LimiterTypeOK
    <3> QED
      BY <2>1, <3>1, <3>2
  <2>4. CASE k # ip
    BY <2>1, <2>2, <2>4 DEF BudgetInv, LimiterTypeOK, Balance
  <2> QED
    BY <2>3, <2>4
<1> QED
  BY <1>1, <1>2 DEF BudgetInv, Balance

LEMMA TickKeepsBudget ==
  ASSUME BudgetInv, LimiterTick
  PROVE  BudgetInv'
<1> USE RateInNat, ClockAssumption
<1>1. /\ now' = now + 1 /\ now \in Nat /\ now' \in 0..MaxTime
      /\ buckets' = buckets /\ lastRefill' = lastRefill /\ watch' = watch
  BY DEF LimiterTick, Tick, limiterVars, BudgetInv, LimiterTypeOK
<1>2. LimiterTypeOK'
  BY <1>1 DEF BudgetInv, LimiterTypeOK
<1>3. ASSUME NEW k \in IPs
      PROVE  watch'[k].used + Left(k)' <= Capacity + Rate * (now' - watch'[k].from)
  <2>1. watch[k].used + Left(k) <= Capacity + Rate * (now - watch[k].from)
    BY DEF BudgetInv, Balance
  <2>2. watch[k].from \in 0..now /\ watch[k].used \in Nat
    BY DEF BudgetInv, LimiterTypeOK
  <2>3. Rate * (now' - watch[k].from) = Rate * (now - watch[k].from) + Rate
        /\ Rate * (now - watch[k].from) \in Int
    <3>1. now' - watch[k].from = (now - watch[k].from) + 1
      BY <1>1, <2>2
    <3> QED
      BY <1>1, <2>2, <3>1, OneTickMore
  <2>4. Left(k) \in 0..Capacity
    BY EvictionIsNeutral DEF BudgetInv
  <2>5. Left(k)' <= Left(k) + Rate /\ Left(k)' \in Int
    BY TickRefills DEF BudgetInv
  <2> QED
    BY <1>1, <2>1, <2>2, <2>3, <2>4, <2>5
<1> QED
  BY <1>2, <1>3 DEF BudgetInv, Balance

LEMMA BudgetStep == BudgetInv /\ [LimiterNext]_<<now, limiterVars>> => BudgetInv'
<1> SUFFICES ASSUME BudgetInv, [LimiterNext]_<<now, limiterVars>> PROVE BudgetInv'
  OBVIOUS
<1>1. CASE LimiterTick
  BY <1>1, TickKeepsBudget
<1>2. ASSUME NEW ip \in IPs, Limit(ip), now' = now PROVE BudgetInv'
  <2>1. CASE IPRate > 0
    BY <1>2, <2>1, AllowKeepsBudget DEF Limit
  <2>2. CASE ~ (IPRate > 0)
    BY <1>2, <2>2 DEF Limit, limiterVars, BudgetInv, LimiterTypeOK, Balance, Left
  <2> QED
    BY <2>1, <2>2
<1>3. ASSUME NEW ip \in IPs, Watch(ip), now' = now PROVE BudgetInv'
  BY <1>3, WatchKeepsBudget
<1>4. CASE UNCHANGED <<now, limiterVars>>
  BY <1>4 DEF limiterVars, BudgetInv, LimiterTypeOK, Balance, Left
<1> QED
  BY <1>1, <1>2, <1>3, <1>4 DEF LimiterNext

\* No address gets more than its budget, from whatever moment one counts
\* (ratelimit.go:52-86), if a bucket fills up within the time that makes it idle.
THEOREM LimiterSafe ==
  ASSUME IdleRefills
  PROVE  LimiterSpec => [](BudgetInv /\ AdmittedInBudget)
<1>1. now = 0 /\ LimiterInit => BudgetInv
  BY BudgetInitially
<1>2. BudgetInv /\ [LimiterNext]_<<now, limiterVars>> => BudgetInv'
  BY BudgetStep
<1>3. BudgetInv => AdmittedInBudget
  <2> SUFFICES ASSUME BudgetInv, NEW ip \in IPs
               PROVE  watch[ip].used <= Capacity + Rate * (now - watch[ip].from)
    BY DEF BudgetInv, AdmittedInBudget
  <2>1. Left(ip) \in 0..Capacity /\ watch[ip].used \in Nat
    BY EvictionIsNeutral DEF BudgetInv, LimiterTypeOK
  <2>2. watch[ip].used + Left(ip) <= Capacity + Rate * (now - watch[ip].from)
    BY DEF BudgetInv, Balance
  <2>3. Rate * (now - watch[ip].from) \in Int
    BY RateInNat, ClockAssumption DEF BudgetInv, LimiterTypeOK
  <2> QED
    BY <2>1, <2>2, <2>3, RateInNat
<1> QED
  BY <1>1, <1>2, <1>3, PTL DEF LimiterSpec

(***************************************************************************)
(* The calls.  Sound says what a call that retried can have done so far,   *)
(* Dated what the JWT in the cache or under way can be worth to it.        *)
(***************************************************************************)
Sound(c) ==
  /\ delivered[c] <= 1
  /\ call[c].step \in {"new", "get", "expired"} => ~ call[c].posted /\ delivered[c] = 0
  /\ call[c].posted => delivered[c] = 0 /\ call[c].answer \in {"none", "error"}
  /\ call[c].step = "new" => call[c].attempt = 0 /\ call[c].answer = "none"
  /\ call[c].step = "expired" => call[c].attempt = 0
  /\ call[c].answer = "ok" => delivered[c] = 1
  /\ call[c].answer = "expired" => delivered[c] = 0

Dated(c) ==
  /\ call[c].posted => call[c].jwt.key <= rotated
  /\ call[c].posted /\ call[c].step = "wait" => call[c].at + Lead < call[c].jwt.exp
  /\ call[c].answer = "expired" => rotated > 0
  /\ call[c].attempt = 1 =>
       /\ call[c].step = "get" => cached = NoJWT \/ cached.key >= call[c].seen
       /\ call[c].posted => call[c].jwt.key >= call[c].seen
       /\ call[c].answer = "expired" /\ call[c].step \in {"wait", "done"}
            => rotated > call[c].seen

TokenInv == TokenTypeOK /\ \A c \in Calls : Sound(c) /\ Dated(c)

CallRecord ==
  [step : {"new", "get", "wait", "expired", "done"}, attempt : 0..1,
   jwt : JWTs \cup {NoJWT}, at : 0..now, posted : BOOLEAN,
   answer : Answers \cup {"none"}, seen : 0..rotated]

LEMMA Known ==
  ASSUME TokenInv
  PROVE  /\ now \in 0..MaxTime
         /\ cached \in JWTs \cup {NoJWT} /\ cached.key \in Nat
         /\ rotated \in Nat /\ rotated <= MaxRotated /\ cached.key <= rotated
         /\ call \in [Calls -> CallRecord] /\ delivered \in [Calls -> 0..2]
BY TokenAssumption DEF TokenInv, TokenTypeOK, CallRecord, JWTs, NoJWT

\* The ways in which a step edits a call leave it a call.
Steps == {"new", "get", "wait", "expired", "done"}

LEMMA EditPost ==
  ASSUME NEW rec \in CallRecord, NEW s \in Steps, NEW j \in JWTs \cup {NoJWT},
         NEW t \in 0..now, NEW p \in BOOLEAN, NEW w \in Answers \cup {"none"}
  PROVE  [rec EXCEPT !.step = s, !.jwt = j, !.at = t, !.posted = p, !.answer = w]
           \in CallRecord
BY DEF CallRecord, Steps

LEMMA EditEnd ==
  ASSUME NEW rec \in CallRecord, NEW s \in Steps, NEW j \in JWTs \cup {NoJWT},
         NEW t \in 0..now, NEW w \in Answers \cup {"none"}
  PROVE  [rec EXCEPT !.step = s, !.answer = w, !.at = t, !.jwt = j] \in CallRecord
BY DEF CallRecord, Steps

LEMMA EditJudge ==
  ASSUME NEW rec \in CallRecord, NEW p \in BOOLEAN, NEW j \in JWTs \cup {NoJWT},
         NEW w \in Answers \cup {"none"}, NEW n \in 0..rotated
  PROVE  [rec EXCEPT !.posted = p, !.jwt = j, !.answer = w, !.seen = n] \in CallRecord
BY DEF CallRecord

LEMMA EditStep ==
  ASSUME NEW rec \in CallRecord, NEW s \in Steps
  PROVE  [rec EXCEPT !.step = s] \in CallRecord
BY DEF CallRecord, Steps

LEMMA EditSteps ==
  ASSUME NEW rec \in CallRecord, NEW s \in Steps, NEW a \in 0..1,
         NEW w \in Answers \cup {"none"}
  PROVE  /\ [rec EXCEPT !.step = s, !.answer = w] \in CallRecord
         /\ [rec EXCEPT !.step = s, !.attempt = a] \in CallRecord
BY DEF CallRecord, Steps

\* A step that changes one call: what there is to show of it.
LEMMA OneCall ==
  ASSUME TokenInv, NEW c \in Calls, NEW new,
         call' = [call EXCEPT ![c] = new], now' = now, rotated' = rotated,
         new \in CallRecord, new.step = "wait" => now - new.at <= Timeout,
         cached' \in JWTs \cup {NoJWT}, cached'.key <= rotated,
         \A d \in Calls : call[d].step = "get" /\ call[d].attempt = 1
                            /\ (cached = NoJWT \/ cached.key >= call[d].seen)
                          => cached' = NoJWT \/ cached'.key >= call[d].seen,
         delivered' \in [Calls -> 0..2],
         \A d \in Calls \ {c} : delivered'[d] = delivered[d],
         Sound(c)', Dated(c)'
  PROVE  TokenInv'
<1> USE ClockAssumption, TokenAssumption, Known
<1>1. call \in [Calls -> CallRecord]
  OBVIOUS
<1>2. call' \in [Calls -> CallRecord] /\ call'[c] = new
      /\ \A d \in Calls \ {c} : call'[d] = call[d]
  BY <1>1
<1>3. TokenTypeOK'
  <2>1. \A d \in Calls : call'[d].step = "wait" => now - call'[d].at <= Timeout
    BY <1>2 DEF TokenInv, TokenTypeOK
  <2>2. rotated \in cached'.key..MaxRotated
    BY DEF TokenInv, TokenTypeOK, JWTs, NoJWT
  <2> QED
    BY <1>2, <2>1, <2>2 DEF TokenTypeOK, CallRecord
<1>4. ASSUME NEW d \in Calls PROVE Sound(d)' /\ Dated(d)'
  <2>1. CASE d = c
    BY <2>1
  <2>2. CASE d # c
    BY <1>2, <2>2 DEF TokenInv, Sound, Dated
  <2> QED
    BY <2>1, <2>2
<1> QED
  BY <1>3, <1>4 DEF TokenInv

LEMMA PostKeeps ==
  ASSUME TokenInv, NEW c \in Calls, Post(c), now' = now
  PROVE  TokenInv'
<1> USE ClockAssumption, TokenAssumption, Known
<1> DEFINE new == [call[c] EXCEPT !.step = "wait", !.jwt = cached', !.at = now,
                                  !.posted = TRUE, !.answer = "none"]
<1>1. /\ call[c].step = "get" /\ call[c].attempt \in 0..1 /\ call[c].seen \in 0..rotated
      /\ rotated' = rotated /\ delivered' = delivered
      /\ Sound(c) /\ Dated(c) /\ call[c] \in CallRecord
  BY DEF CallRecord, Post, TokenInv
<1>2. /\ cached' \in JWTs \cup {NoJWT} /\ cached'.key <= rotated
      /\ now + Lead < cached'.exp
      /\ (cached' = cached /\ cached # NoJWT) \/ cached'.key = rotated
  BY DEF Post, Get, Fresh, Sign, JWTs, NoJWT
<1>3. call' = [call EXCEPT ![c] = new] /\ call'[c] = new
  BY DEF Post
<1>8. new \in CallRecord
  <2>1. "wait" \in Steps /\ now \in 0..now /\ TRUE \in BOOLEAN
        /\ "none" \in Answers \cup {"none"}
    BY DEF Steps
  <2> QED
    BY <1>1, <1>2, <2>1, EditPost
<1>4. /\ new.step = "wait" /\ new.jwt = cached' /\ new.at = now /\ new.posted
      /\ new.answer = "none" /\ new.attempt = call[c].attempt /\ new.seen = call[c].seen
  BY <1>1, <1>2 DEF CallRecord
<1> HIDE DEF new
<1>5. Sound(c)'
  BY <1>1, <1>3, <1>4 DEF Sound
<1>6. Dated(c)'
  BY <1>1, <1>2, <1>3, <1>4 DEF Dated, JWTs, NoJWT
<1>7. \A d \in Calls : call[d].step = "get" /\ call[d].attempt = 1
                          /\ (cached = NoJWT \/ cached.key >= call[d].seen)
                        => cached' = NoJWT \/ cached'.key >= call[d].seen
  BY <1>2 DEF CallRecord
<1>9. now - new.at <= Timeout
  BY <1>4
<1> QED
  BY <1>9, <1>1, <1>2, <1>3, <1>4, <1>5, <1>6, <1>7, <1>8, OneCall

LEMMA EndKeeps ==
  ASSUME TokenInv, NEW c \in Calls, SignFails(c) \/ Answer(c) \/ TimesOut(c), now' = now
  PROVE  TokenInv'
<1> USE ClockAssumption, TokenAssumption, Known
<1> DEFINE new == call'[c]
<1>1. /\ cached' = cached /\ rotated' = rotated /\ delivered' = delivered
      /\ Sound(c) /\ Dated(c) /\ call[c] \in CallRecord
  BY DEF SignFails, Answer, TimesOut, TokenInv
<1>2. call' = [call EXCEPT ![c] = new]
  BY DEF SignFails, Answer, TimesOut
<1>3. CASE SignFails(c)
  <2>1. /\ call[c].step = "get" /\ new = [call[c] EXCEPT !.step = "done", !.answer = "error"]
    BY <1>3 DEF SignFails
  <2>2. /\ new.step = "done" /\ new.answer = "error" /\ new.posted = call[c].posted
        /\ new.attempt = call[c].attempt /\ new \in CallRecord
    BY <1>1, <2>1 DEF CallRecord, Answers
  <2> HIDE DEF new
  <2>3. Sound(c)' /\ Dated(c)'
    BY <1>1, <1>2, <2>1, <2>2 DEF Sound, Dated
  <2> QED
    BY <1>1, <1>2, <2>2, <2>3, OneCall
<1>4. CASE Answer(c) \/ TimesOut(c)
  <2>1. PICK answer \in Answers \cup {"none"} :
          /\ call[c].step = "wait" /\ new = Conclude(c, answer)
          /\ answer = "error" \/ (~ call[c].posted /\ answer = call[c].answer)
    BY <1>1, <1>4 DEF Answer, TimesOut, CallRecord, Answers
  <2> DEFINE next == IF Again(c, answer) THEN "expired" ELSE "done"
             jwt  == IF call[c].posted THEN call[c].jwt ELSE NoJWT
  <2>6. new = [call[c] EXCEPT !.step = next, !.answer = answer, !.at = 0, !.jwt = jwt]
        /\ next \in {"expired", "done"} /\ jwt \in JWTs \cup {NoJWT}
    BY <1>1, <2>1 DEF Conclude, CallRecord
  <2> HIDE DEF next, jwt, new
  <2>8. new \in CallRecord
    <3>1. next \in Steps /\ 0 \in 0..now
      BY <2>6 DEF Steps
    <3> QED
      BY <1>1, <2>6, <3>1, EditEnd
  <2>7. /\ new.step = next /\ new.answer = answer /\ new.posted = call[c].posted /\ new.at = 0
        /\ new.attempt = call[c].attempt /\ new.seen = call[c].seen /\ new.jwt = jwt
    BY <1>1, <2>6 DEF CallRecord
  <2>2. /\ new.step = IF Again(c, answer) THEN "expired" ELSE "done"
        /\ new.answer = answer /\ new.posted = call[c].posted /\ new.at = 0
        /\ new.attempt = call[c].attempt /\ new.seen = call[c].seen
        /\ new.jwt = IF call[c].posted THEN call[c].jwt ELSE NoJWT
        /\ new \in CallRecord
    BY <2>7, <2>8 DEF next, jwt
  <2>3. call[c].attempt \in 0..1 /\ call[c].posted \in BOOLEAN
    BY <1>1 DEF CallRecord
  <2>4. Sound(c)'
    BY <1>1, <1>2, <2>1, <2>2, <2>3 DEF Sound, Again
  <2>5. Dated(c)'
    BY <1>1, <1>2, <2>1, <2>2, <2>3 DEF Dated, Again
  <2> QED
    BY <1>1, <1>2, <2>2, <2>4, <2>5, OneCall
<1> QED
  BY <1>3, <1>4

LEMMA InvalidateKeeps ==
  ASSUME TokenInv, NEW c \in Calls, Invalidate(c), now' = now
  PROVE  TokenInv'
<1> USE ClockAssumption, TokenAssumption, Known
<1> DEFINE new == call'[c]
<1>1. /\ cached' = NoJWT /\ rotated' = rotated /\ delivered' = delivered
      /\ Sound(c) /\ Dated(c) /\ call[c] \in CallRecord /\ call[c].step = "expired"
  BY DEF Invalidate, ForceInvalidate, TokenInv
<1>2. call' = [call EXCEPT ![c] = new]
      /\ new = [call[c] EXCEPT !.step = "get", !.attempt = @ + 1]
  BY DEF Invalidate
<1>6. new = [call[c] EXCEPT !.step = "get", !.attempt = 1]
  <2>1. call[c].attempt + 1 = 1
    BY <1>1 DEF Sound
  <2> QED
    BY <1>1, <1>2, <2>1
<1> HIDE DEF new
<1>3. /\ new.step = "get" /\ new.answer = call[c].answer /\ new.posted = call[c].posted
      /\ new.attempt = 1 /\ new \in CallRecord
  <2>1. "get" \in Steps /\ 1 \in 0..1
    BY DEF Steps
  <2>2. new \in CallRecord
    BY <1>1, <1>6, <2>1, EditSteps
  <2> QED
    BY <1>1, <1>6, <2>2 DEF CallRecord
<1>4. Sound(c)' /\ Dated(c)'
  BY <1>1, <1>2, <1>3 DEF Sound, Dated
<1>5. cached' \in JWTs \cup {NoJWT} /\ cached'.key <= rotated
  BY <1>1 DEF NoJWT
<1> QED
  BY <1>1, <1>2, <1>3, <1>4, <1>5, OneCall

LEMMA JudgeKeeps ==
  ASSUME TokenInv, NEW c \in Calls, Judge(c), now' = now
  PROVE  TokenInv'
<1> USE ClockAssumption, TokenAssumption, Known
<1> DEFINE new == call'[c]
<1>1. /\ cached' = cached /\ rotated' = rotated /\ call[c].posted
      /\ Sound(c) /\ Dated(c) /\ call[c] \in CallRecord
  BY DEF Judge, TokenInv
<1>2. PICK taken \in BOOLEAN, page \in {"none", "error", "blank"} :
       LET verdict == Verdict(taken, call[c].jwt)
           heard   == IF call[c].step # "wait" THEN call[c].answer
                      ELSE IF page # "none" THEN page ELSE verdict
           seen    == IF verdict = "expired" /\ call[c].attempt = 0
                      THEN rotated ELSE call[c].seen
       IN /\ taken => Accepts(call[c].jwt)
          /\ delivered' = [delivered EXCEPT ![c] = IF taken THEN @ + 1 ELSE @]
          /\ call' = [call EXCEPT ![c] = [@ EXCEPT !.posted = FALSE, !.jwt = NoJWT,
                                                  !.answer = heard, !.seen = seen]]
  BY Zenon DEF Judge
<1> DEFINE verdict == Verdict(taken, call[c].jwt)
           told    == IF call[c].step # "wait" THEN call[c].answer
                      ELSE IF page # "none" THEN page ELSE verdict
           seen    == IF verdict = "expired" /\ call[c].attempt = 0
                      THEN rotated ELSE call[c].seen
<1>17. /\ taken => Accepts(call[c].jwt)
       /\ delivered' = [delivered EXCEPT ![c] = IF taken THEN @ + 1 ELSE @]
       /\ call' = [call EXCEPT ![c] = [@ EXCEPT !.posted = FALSE, !.jwt = NoJWT,
                                               !.answer = told, !.seen = seen]]
  BY <1>2
<1> HIDE DEF verdict, told, seen
<1>11. /\ seen \in 0..rotated
       /\ call[c].attempt = 1 => seen = call[c].seen
  BY <1>1 DEF CallRecord, seen
<1>12. told \in Answers \cup {"none"}
  BY <1>1 DEF CallRecord, Answers, told, verdict, Verdict
<1>18. /\ call[c].step # "wait" => told = call[c].answer
       /\ call[c].step = "wait" /\ told = "ok" => taken
       /\ call[c].step = "wait" /\ told = "expired" => ~ taken /\ ~ Accepts(call[c].jwt)
  BY DEF told, verdict, Verdict
<1>13. new = [call[c] EXCEPT !.posted = FALSE, !.jwt = NoJWT, !.answer = told, !.seen = seen]
  BY <1>17
<1>14. call' = [call EXCEPT ![c] = new]
  BY <1>17, <1>13
<1> HIDE DEF new
<1>15. /\ new.step = call[c].step /\ ~ new.posted /\ new.jwt = NoJWT
       /\ new.attempt = call[c].attempt /\ new.at = call[c].at
       /\ new.answer = told /\ new.seen = seen /\ new \in CallRecord
  <2>1. FALSE \in BOOLEAN /\ NoJWT \in JWTs \cup {NoJWT}
    OBVIOUS
  <2>2. new \in CallRecord
    BY <1>1, <1>11, <1>12, <1>13, <2>1, EditJudge
  <2> QED
    BY <1>1, <1>13, <2>2 DEF CallRecord
<1>4. delivered'[c] = (IF taken THEN 1 ELSE 0) /\ delivered' \in [Calls -> 0..2]
      /\ \A d \in Calls \ {c} : delivered'[d] = delivered[d]
  BY <1>1, <1>17 DEF Sound
<1>5. call[c].step \in {"wait", "done"}
  BY <1>1 DEF Sound, CallRecord
<1>6. Sound(c)'
  BY <1>1, <1>4, <1>5, <1>14, <1>15, <1>18 DEF Sound
<1>7. call[c].step = "wait" /\ told = "expired" => call[c].jwt.key < rotated
  <2> SUFFICES ASSUME call[c].step = "wait", told = "expired"
               PROVE  call[c].jwt.key < rotated
    OBVIOUS
  <2>1. ~ Accepts(call[c].jwt)
    BY <1>18
  <2>2. now - call[c].at <= Timeout /\ call[c].at + Lead < call[c].jwt.exp
    BY <1>1 DEF TokenInv, TokenTypeOK, Dated
  <2>3. call[c].at \in Nat /\ call[c].jwt.exp \in Nat /\ call[c].jwt.key \in Nat
    BY <1>1 DEF CallRecord, JWTs, NoJWT
  <2>4. now + Ahead < call[c].jwt.exp
    BY <2>2, <2>3
  <2>5. call[c].jwt.key # rotated /\ call[c].jwt.key <= rotated
    BY <1>1, <2>1, <2>4 DEF Accepts, Dated
  <2> QED
    BY <2>3, <2>5
<1>8. Dated(c)'
  <2>1. call[c].jwt.key \in Nat /\ call[c].seen \in Nat /\ call[c].attempt \in 0..1
    BY <1>1 DEF CallRecord, JWTs, NoJWT
  <2> QED
    BY <1>1, <1>5, <1>7, <1>11, <1>14, <1>15, <1>18, <2>1 DEF Dated, Sound
<1>9. new.step = "wait" => now - new.at <= Timeout
  BY <1>1, <1>15 DEF TokenInv, TokenTypeOK
<1> QED
  BY <1>1, <1>4, <1>6, <1>8, <1>9, <1>14, <1>15, OneCall

LEMMA RotateKeeps ==
  ASSUME TokenInv, Rotate, now' = now
  PROVE  TokenInv'
<1> USE ClockAssumption, TokenAssumption, Known
<1>1. /\ rotated' = rotated + 1 /\ rotated' <= MaxRotated /\ cached' = cached
      /\ call' = call /\ delivered' = delivered
  BY DEF Rotate
<1>2. TokenTypeOK'
  <2>2. \A c \in Calls : call[c].seen \in 0..rotated'
    BY <1>1 DEF CallRecord
  <2> QED
    BY <1>1, <2>2 DEF TokenInv, TokenTypeOK, CallRecord
<1>3. ASSUME NEW c \in Calls PROVE Sound(c)' /\ Dated(c)'
  <2>1. call[c].seen \in Nat /\ call[c].jwt.key \in Nat
    BY DEF CallRecord, JWTs, NoJWT
  <2> QED
    BY <1>1, <2>1 DEF TokenInv, Sound, Dated
<1> QED
  BY <1>2, <1>3 DEF TokenInv

LEMMA TimeKeeps ==
  ASSUME TokenInv, Tick, TimersRun, UNCHANGED tokenVars
  PROVE  TokenInv'
<1> USE ClockAssumption, TokenAssumption, Known
<1>1. now' = now + 1 /\ now' \in 0..MaxTime /\ UNCHANGED <<cached, call, rotated, delivered>>
  BY DEF Tick, tokenVars
<1>2. TokenTypeOK'
  <2>1. \A c \in Calls : call[c].at \in 0..now' /\ call[c].at \in Nat
    BY <1>1 DEF CallRecord
  <2>2. \A c \in Calls : call[c].step = "wait" => now' - call[c].at <= Timeout
    BY <1>1, <2>1 DEF TimersRun
  <2> QED
    BY <1>1, <2>1, <2>2 DEF TokenInv, TokenTypeOK, CallRecord
<1> QED
  BY <1>1, <1>2 DEF TokenInv, Sound, Dated

LEMMA StartKeeps ==
  ASSUME TokenInv, NEW r \in Requests, NEW n \in 1..Widest, StartCalls(r, n),
         \A c \in Calls : c[1] = r => call[c].step = "new",
         UNCHANGED <<now, cached, rotated, delivered>>
  PROVE  TokenInv'
<1> USE ClockAssumption, TokenAssumption, Known
<1>1. ASSUME NEW c \in Calls
      PROVE  /\ call'[c] = call[c] \/ (call[c].step = "new"
                                        /\ call'[c] = [call[c] EXCEPT !.step = "get"])
             /\ call'[c] \in CallRecord
             /\ call'[c].step = call[c].step \/ (call[c].step = "new" /\ call'[c].step = "get")
             /\ call'[c].attempt = call[c].attempt /\ call'[c].jwt = call[c].jwt
             /\ call'[c].at = call[c].at /\ call'[c].posted = call[c].posted
             /\ call'[c].answer = call[c].answer /\ call'[c].seen = call[c].seen
  <2>1. call[c] \in CallRecord /\ "get" \in Steps
    BY DEF Steps
  <2>2. [call[c] EXCEPT !.step = "get"] \in CallRecord
    BY <2>1, EditStep
  <2>3. call'[c] = call[c] \/ (call[c].step = "new"
                               /\ call'[c] = [call[c] EXCEPT !.step = "get"])
    <3>1. call'[c] = IF c[1] = r /\ c[2] <= n
                     THEN [call[c] EXCEPT !.step = "get"] ELSE call[c]
      BY DEF StartCalls
    <3> QED
      BY <3>1
  <2> QED
    BY <2>1, <2>2, <2>3 DEF CallRecord
<1>2. call' \in [Calls -> CallRecord]
  BY <1>1 DEF StartCalls
<1>3. TokenTypeOK'
  BY <1>1, <1>2 DEF TokenInv, TokenTypeOK, CallRecord
<1>4. ASSUME NEW c \in Calls PROVE Sound(c)' /\ Dated(c)'
  <2>1. Sound(c) /\ Dated(c)
    BY DEF TokenInv
  <2>2. cached' = cached /\ rotated' = rotated /\ delivered' = delivered
    OBVIOUS
  <2>3. Sound(c)'
    BY <1>1, <2>1, <2>2 DEF Sound
  <2>4. CASE call[c].step = "new"
    <3>1. call[c].attempt # 1 /\ ~ call[c].posted /\ call[c].answer # "expired"
      BY <2>1, <2>4 DEF Sound
    <3>2. call'[c].attempt # 1 /\ call'[c].answer # "expired"
      BY <1>1, <3>1
    <3>3. ~ call'[c].posted
      <4>1. call'[c].posted = call[c].posted
        BY <1>1
      <4> QED
        BY <3>1, <4>1, Zenon
    <3> QED
      BY <2>3, <3>2, <3>3 DEF Dated
  <2>5. CASE call[c].step # "new"
    <3>1. call'[c] = call[c]
      BY <1>1, <2>5
    <3> QED
      BY <2>1, <2>2, <2>3, <3>1 DEF Dated
  <2> QED
    BY <2>4, <2>5
<1> QED
  BY <1>3, <1>4 DEF TokenInv

(***************************************************************************)
(* The requests: what a reply says stays true, for a call that ended does  *)
(* not change any more.                                                    *)
(***************************************************************************)
Reported(r, i) == IF http[r].batch THEN http[r].result[i] ELSE http[r].code

Sizes   == 0..Widest
Flags   == BOOLEAN
Codes   == {0, 200, 400, 429, 500}
Results == Seq({200, 500})

HttpRecord == [ip : IPs, size : Sizes, batch : Flags, code : Codes, result : Results]

HttpTypeOK == http \in [Requests -> HttpRecord]

StartedNamed ==
  \A r \in Requests, i \in 1..Widest : call[<<r, i>>].step # "new" => i <= http[r].size

RepliesStand ==
  \A r \in Requests :
    /\ http[r].batch \/ http[r].size <= 1
    /\ http[r].batch /\ http[r].code = 200 => DOMAIN http[r].result = 1..http[r].size
    /\ http[r].code \in {200, 500} => \A i \in 1..http[r].size :
         /\ call[<<r, i>>].step = "done"
         /\ Reported(r, i) = 200 => Succeeded(call[<<r, i>>].answer)

HttpInv == HttpTypeOK /\ StartedNamed /\ RepliesStand

LEMMA CallsAre == Calls = Requests \X (1..Widest) /\ Widest \in Nat
BY TrafficAssumption

LEMMA TokenInvUnchanged ==
  ASSUME TokenInv, UNCHANGED <<now, tokenVars>>
  PROVE  TokenInv'
BY DEF TokenInv, TokenTypeOK, Sound, Dated, Accepts, tokenVars

\* What the calls' own steps leave of them.
Settled ==
  \A d \in Calls :
    /\ call'[d].step # "new" => call[d].step # "new"
    /\ call[d].step = "done" =>
         call'[d].step = "done" /\ call'[d].answer = call[d].answer

LEMMA CallStepsSettle ==
  ASSUME TokenInv, NEW c \in Calls,
         Post(c) \/ SignFails(c) \/ Answer(c) \/ TimesOut(c) \/ Invalidate(c) \/ Judge(c)
  PROVE  Settled
<1> USE Known
<1> SUFFICES ASSUME NEW d \in Calls
             PROVE  /\ call'[d].step # "new" => call[d].step # "new"
                    /\ call[d].step = "done" =>
                         call'[d].step = "done" /\ call'[d].answer = call[d].answer
  BY DEF Settled
<1>1. CASE d # c
  BY <1>1 DEF Post, SignFails, Answer, TimesOut, Invalidate, Judge
<1>2. CASE d = c
  <2>1. call[c] \in CallRecord
    OBVIOUS
  <2>2. CASE call[c].step \notin {"new", "done"}
    BY <1>2, <2>2
  <2>3. CASE call[c].step \in {"new", "done"}
    <3>1. Judge(c)
      BY <2>3 DEF Post, SignFails, Answer, TimesOut, Invalidate
    <3>2. Sound(c)
      BY DEF TokenInv
    <3>3. call[c].step = "done"
      BY <2>3, <3>1, <3>2 DEF Judge, Sound
    <3>4. PICK seen : call'[c] = [call[c] EXCEPT !.posted = FALSE, !.jwt = NoJWT,
                                                !.answer = call[c].answer, !.seen = seen]
      BY <3>1, <3>3 DEF Judge
    <3> QED
      BY <1>2, <2>1, <3>3, <3>4 DEF CallRecord
  <2> QED
    BY <2>2, <2>3
<1> QED
  BY <1>1, <1>2

LEMMA HttpKeptBySettled ==
  ASSUME HttpInv, Settled, http' = http
  PROVE  HttpInv'
<1> USE CallsAre
<1>1. HttpTypeOK' /\ StartedNamed'
  <2>1. HttpTypeOK'
    BY DEF HttpInv, HttpTypeOK
  <2>2. StartedNamed'
    BY DEF HttpInv, StartedNamed, Settled
  <2> QED
    BY <2>1, <2>2
<1>2. RepliesStand'
  <2> SUFFICES ASSUME NEW r \in Requests
               PROVE  /\ http[r].batch \/ http[r].size <= 1
                      /\ http[r].batch /\ http[r].code = 200
                            => DOMAIN http[r].result = 1..http[r].size
                      /\ http[r].code \in {200, 500} => \A i \in 1..http[r].size :
                           /\ call'[<<r, i>>].step = "done"
                           /\ Reported(r, i) = 200 => Succeeded(call'[<<r, i>>].answer)
    BY DEF RepliesStand, Reported
  <2>1. \A i \in 1..http[r].size : <<r, i>> \in Calls
    <3>1. http[r].size \in 0..Widest
      BY DEF HttpInv, HttpTypeOK, HttpRecord, Sizes
    <3>2. Widest \in Nat
      OBVIOUS
    <3> QED
      BY <3>1, <3>2
  <2> QED
    BY <2>1 DEF HttpInv, RepliesStand, Settled
<1> QED
  BY <1>1, <1>2 DEF HttpInv

LEMMA RequestRecord ==
  ASSUME NEW rec \in HttpRecord, NEW n \in Sizes, NEW b \in Flags, NEW k \in Codes
  PROVE  [rec EXCEPT !.size = n, !.batch = b, !.code = k] \in HttpRecord
BY DEF HttpRecord

LEMMA EditReply ==
  ASSUME NEW rec \in HttpRecord, NEW k \in Codes, NEW s \in Results
  PROVE  [rec EXCEPT !.code = k, !.result = s] \in HttpRecord
BY DEF HttpRecord

LEMMA ItemsAreSeq ==
  ASSUME NEW n \in Nat, NEW f \in [1..n -> {200, 500}]
  PROVE  f \in Seq({200, 500}) /\ DOMAIN f = 1..n
OBVIOUS

LEMMA ArriveKeeps ==
  ASSUME TokenInv, HttpInv, NEW r \in Requests, NEW ip \in IPs,
         NEW n \in 1..Widest, NEW batch \in BOOLEAN, Arrive(r, ip, n, batch)
  PROVE  TokenInv' /\ HttpInv'
<1> USE CallsAre
<1> DEFINE code == IF PushLimited(ip) THEN 429
                   ELSE IF batch /\ TooMany(n) THEN 400 ELSE 0
           new == [NewHttp(ip) EXCEPT !.size = n, !.batch = batch, !.code = code]
<1>1. /\ http[r].size = 0 /\ http' = [http EXCEPT ![r] = new]
      /\ (IF code = 0 THEN StartCalls(r, n) ELSE UNCHANGED call)
      /\ UNCHANGED <<now, cached, rotated, delivered>>
      /\ code \in {0, 429, 400} /\ (batch \/ n = 1)
  BY DEF Arrive
<1> HIDE DEF code
<1>2. new \in HttpRecord /\ new.size = n /\ new.batch = batch /\ new.code = code
  <2>1. n \in Sizes /\ batch \in Flags /\ code \in Codes
    BY <1>1 DEF Sizes, Flags, Codes
  <2>2. NewHttp(ip) \in HttpRecord
    BY DEF NewHttp, HttpRecord, Sizes, Flags, Codes, Results
  <2>3. new = [NewHttp(ip) EXCEPT !.size = n, !.batch = batch, !.code = code]
    OBVIOUS
  <2> HIDE DEF new
  <2>4. new \in HttpRecord
    BY <2>1, <2>2, <2>3, RequestRecord
  <2>5. new.size = n /\ new.batch = batch /\ new.code = code
    BY <2>2, <2>3 DEF HttpRecord
  <2> QED
    BY <2>4, <2>5
<1> HIDE DEF new
<1>3. http \in [Requests -> HttpRecord]
  BY DEF HttpTypeOK, HttpInv
<1>4. /\ http'[r].size = n /\ http'[r].batch = batch /\ http'[r].code = code
      /\ http'[r] \in HttpRecord
      /\ \A q \in Requests \ {r} : http'[q] = http[q]
      /\ http' \in [Requests -> HttpRecord]
  BY <1>1, <1>2, <1>3
<1>5. \A c \in Calls : c[1] = r => call[c].step = "new"
  <2> SUFFICES ASSUME NEW i \in 1..Widest PROVE call[<<r, i>>].step = "new"
    OBVIOUS
  <2> QED
    BY <1>1 DEF HttpInv, StartedNamed
<1>6. \A q \in Requests, i \in 1..Widest :
        call'[<<q, i>>] = call[<<q, i>>] \/ (q = r /\ i <= n)
  <2>1. CASE code = 0
    BY <1>1, <2>1 DEF StartCalls
  <2>2. CASE code # 0
    BY <1>1, <2>2
  <2> QED
    BY <2>1, <2>2
<1>7. TokenInv'
  <2>1. CASE code = 0
    BY <1>1, <1>5, <2>1, StartKeeps
  <2>2. CASE code # 0
    BY <1>1, <2>2, TokenInvUnchanged DEF tokenVars
  <2> QED
    BY <2>1, <2>2
<1>8. HttpTypeOK'
  <2>1. http' \in [Requests -> HttpRecord]
    BY <1>4
  <2> QED
    BY <2>1 DEF HttpTypeOK
<1>9. StartedNamed'
  BY <1>1, <1>4, <1>6 DEF HttpInv, StartedNamed
<1>10. RepliesStand'
  <2> SUFFICES ASSUME NEW q \in Requests
               PROVE  /\ http'[q].batch \/ http'[q].size <= 1
                      /\ http'[q].batch /\ http'[q].code = 200
                            => DOMAIN http'[q].result = 1..http'[q].size
                      /\ http'[q].code \in {200, 500} => \A i \in 1..http'[q].size :
                           /\ call'[<<q, i>>].step = "done"
                           /\ Reported(q, i)' = 200 => Succeeded(call'[<<q, i>>].answer)
    BY DEF RepliesStand
  <2>1. CASE q = r
    BY <1>1, <1>4, <2>1
  <2>2. CASE q # r
    <3>1. http'[q] = http[q] /\ http[q].size \in 0..Widest
      BY <1>3, <1>4, <2>2 DEF HttpRecord, Sizes
    <3>2. \A i \in 1..http[q].size : call'[<<q, i>>] = call[<<q, i>>]
      BY <1>6, <2>2, <3>1
    <3> QED
      BY <3>1, <3>2 DEF HttpInv, RepliesStand, Reported
  <2> QED
    BY <2>1, <2>2
<1> QED
  BY <1>7, <1>8, <1>9, <1>10 DEF HttpInv

LEMMA ReplyKeeps ==
  ASSUME TokenInv, HttpInv, NEW r \in Requests, Reply(r)
  PROVE  TokenInv' /\ HttpInv'
<1> USE CallsAre
<1> DEFINE n == http[r].size
           items == [i \in 1..n |-> ItemCode(<<r, i>>)]
           code == IF http[r].batch THEN 200 ELSE ItemCode(<<r, 1>>)
           result == IF http[r].batch THEN items ELSE <<>>
<1>1. /\ http[r].size > 0 /\ CallsEnded(r) /\ call' = call
      /\ UNCHANGED <<now, tokenVars>>
      /\ http' = [http EXCEPT ![r] = [http[r] EXCEPT !.code = code, !.result = result]]
  <2>1. /\ http[r].size > 0 /\ CallsEnded(r) /\ call' = call /\ UNCHANGED <<now, tokenVars>>
        /\ http' = [http EXCEPT ![r].code = code, ![r].result = result]
    BY DEF Reply, tokenVars
  <2>2. http \in [Requests -> HttpRecord]
    BY DEF HttpTypeOK, HttpInv
  <2> HIDE DEF n, items, code, result
  <2>3. http' = [http EXCEPT ![r] = [http[r] EXCEPT !.code = code, !.result = result]]
    BY <2>1, <2>2
  <2> QED
    BY <2>1, <2>3 DEF n
<1>2. http \in [Requests -> HttpRecord]
  BY DEF HttpTypeOK, HttpInv
<1>3. http[r] \in HttpRecord /\ n \in 1..Widest /\ http[r].batch \in BOOLEAN
  BY <1>1, <1>2 DEF HttpRecord, Sizes, Flags
<1>4. \A c : ItemCode(c) \in {200, 500} /\ (ItemCode(c) = 200 => Succeeded(call[c].answer))
  BY DEF ItemCode
<1>5. items \in Seq({200, 500}) /\ DOMAIN items = 1..n
  <2>1. items \in [1..n -> {200, 500}] /\ n \in Nat
    BY <1>3, <1>4
  <2> HIDE DEF items
  <2> QED
    BY <2>1, ItemsAreSeq
<1>6. result \in Seq({200, 500}) /\ code \in {200, 500}
  BY <1>4, <1>5
<1>7. http'[r] = [http[r] EXCEPT !.code = code, !.result = result]
      /\ \A q \in Requests \ {r} : http'[q] = http[q]
  BY <1>1, <1>2
<1>8. /\ http'[r].code = code /\ http'[r].result = result
      /\ http'[r].batch = http[r].batch /\ http'[r].size = n
      /\ http'[r] \in HttpRecord
  <2> HIDE DEF code, result
  <2>1. code \in Codes /\ result \in Results
    BY <1>6 DEF Codes, Results
  <2>2. http'[r] \in HttpRecord
    <3>1. [http[r] EXCEPT !.code = code, !.result = result] \in HttpRecord
      BY <1>3, <2>1, EditReply
    <3> QED
      BY <1>7, <3>1
  <2>3. /\ http'[r].code = code /\ http'[r].result = result
        /\ http'[r].batch = http[r].batch /\ http'[r].size = http[r].size
    BY <1>3, <1>7 DEF HttpRecord
  <2> QED
    BY <2>2, <2>3
<1>9. TokenInv'
  BY <1>1, TokenInvUnchanged
<1>10. HttpTypeOK'
  <2>1. http' \in [Requests -> HttpRecord]
    BY <1>1, <1>2, <1>7, <1>8
  <2> QED
    BY <2>1 DEF HttpTypeOK
<1>11. StartedNamed'
  BY <1>1, <1>7, <1>8 DEF HttpInv, StartedNamed
<1>12. RepliesStand'
  <2> SUFFICES ASSUME NEW q \in Requests
               PROVE  /\ http'[q].batch \/ http'[q].size <= 1
                      /\ http'[q].batch /\ http'[q].code = 200
                            => DOMAIN http'[q].result = 1..http'[q].size
                      /\ http'[q].code \in {200, 500} => \A i \in 1..http'[q].size :
                           /\ call[<<q, i>>].step = "done"
                           /\ Reported(q, i)' = 200 => Succeeded(call[<<q, i>>].answer)
    BY <1>1 DEF RepliesStand
  <2>1. CASE q # r
    <3>1. http'[q] = http[q]
      BY <1>7, <2>1
    <3> QED
      BY <3>1 DEF HttpInv, RepliesStand, Reported
  <2>2. CASE q = r
    <3>1. \A i \in 1..n : call[<<r, i>>].step = "done"
      BY <1>1 DEF CallsEnded
    <3>2. \A i \in 1..n : Reported(r, i)' = ItemCode(<<r, i>>)
      <4> SUFFICES ASSUME NEW i \in 1..n PROVE Reported(r, i)' = ItemCode(<<r, i>>)
        OBVIOUS
      <4>1. CASE http[r].batch
        <5>1. http'[r].batch /\ http'[r].result = items
          BY <1>8, <4>1
        <5>2. items[i] = ItemCode(<<r, i>>)
          OBVIOUS
        <5> HIDE DEF items
        <5> QED
          BY <5>1, <5>2 DEF Reported
      <4>2. CASE ~ http[r].batch
        <5>1. http'[r].code = ItemCode(<<r, 1>>) /\ ~ http'[r].batch
          BY <1>8, <4>2
        <5>2. n <= 1 /\ n \in Nat
          BY <1>3, <4>2 DEF HttpInv, RepliesStand
        <5>3. i = 1
          BY <5>2
        <5> QED
          BY <5>1, <5>3 DEF Reported
      <4> QED
        BY <4>1, <4>2
    <3>3. http'[r].batch \/ n <= 1
      BY <1>8 DEF HttpInv, RepliesStand
    <3>4. http'[r].batch => DOMAIN http'[r].result = 1..n
      BY <1>5, <1>8
    <3> HIDE DEF items, code, result, n
    <3> QED
      BY <1>4, <1>8, <2>2, <3>1, <3>2, <3>3, <3>4
  <2> QED
    BY <2>1, <2>2
<1> QED
  BY <1>9, <1>10, <1>11, <1>12 DEF HttpInv

(***************************************************************************)
(* All of it.                                                              *)
(***************************************************************************)
Invariant == TokenInv /\ HttpInv

LEMMA TrafficStarts == TrafficInit => Invariant
<1> SUFFICES ASSUME TrafficInit PROVE Invariant
  OBVIOUS
<1> USE CallsAre, ClockAssumption, TokenAssumption
<1> DEFINE ip == CHOOSE ip \in IPs : TRUE
<1>1. /\ now = 0 /\ cached = NoJWT /\ rotated = 0
      /\ call = [c \in Calls |-> NewCall] /\ delivered = [c \in Calls |-> 0]
      /\ http = [r \in Requests |-> NewHttp(ip)]
  BY DEF TrafficInit, TokenInit
<1>2. NewCall \in CallRecord
  BY <1>1 DEF NewCall, CallRecord, Answers
<1>3. TokenTypeOK
  BY <1>1, <1>2 DEF TokenTypeOK, CallRecord, NewCall, NoJWT
<1>4. ASSUME NEW c \in Calls PROVE Sound(c) /\ Dated(c)
  BY <1>1 DEF Sound, Dated, NewCall, NoJWT
<1>5. ASSUME NEW r \in Requests PROVE http[r] \in HttpRecord /\ http[r].size = 0 /\ http[r].code = 0
  <2>1. ip \in IPs /\ <<>> \in Results /\ 0 \in Sizes /\ FALSE \in Flags /\ 0 \in Codes
    BY TrafficAssumption DEF Results, Sizes, Flags, Codes
  <2> HIDE DEF ip
  <2> QED
    BY <1>1, <2>1 DEF NewHttp, HttpRecord
<1>6. HttpTypeOK
  BY <1>1, <1>5 DEF HttpTypeOK
<1>7. StartedNamed /\ RepliesStand
  BY <1>1, <1>5 DEF StartedNamed, RepliesStand, NewCall
<1> QED
  BY <1>3, <1>4, <1>6, <1>7 DEF Invariant, TokenInv, HttpInv

LEMMA TrafficStep == Invariant /\ [TrafficNext]_trafficVars => Invariant'
<1> SUFFICES ASSUME Invariant, [TrafficNext]_trafficVars PROVE Invariant'
  OBVIOUS
<1> USE DEF Invariant
<1>1. ASSUME NEW r \in Requests, NEW ip \in IPs, NEW n \in 1..Widest,
             NEW batch \in BOOLEAN, Arrive(r, ip, n, batch)
      PROVE  Invariant'
  BY <1>1, ArriveKeeps
<1>2. ASSUME NEW r \in Requests, Reply(r) PROVE Invariant'
  BY <1>2, ReplyKeeps
<1>3. ASSUME UNCHANGED <<now, tokenVars, http>> PROVE Invariant'
  <2>1. Settled
    BY <1>3 DEF Settled, tokenVars
  <2> QED
    BY <1>3, <2>1, TokenInvUnchanged, HttpKeptBySettled
<1>4. ASSUME NEW ip \in IPs, Other(ip) \/ Observe(ip) PROVE Invariant'
  BY <1>3, <1>4 DEF Other, Observe
<1>5. ASSUME NEW c \in Calls, CallStep(c) PROVE Invariant'
  <2>1. Settled /\ http' = http /\ now' = now
    BY <1>5, CallStepsSettle DEF CallStep
  <2>2. TokenInv'
    BY <1>5, PostKeeps, EndKeeps, InvalidateKeeps DEF CallStep
  <2> QED
    BY <2>1, <2>2, HttpKeptBySettled
<1>6. CASE Service
  <2>1. http' = http /\ now' = now
    BY <1>6 DEF Service
  <2>2. CASE Rotate
    <3>1. Settled
      BY <2>2 DEF Rotate, Settled
    <3> QED
      BY <2>1, <2>2, <3>1, RotateKeeps, HttpKeptBySettled
  <2>3. ASSUME NEW c \in Calls, Judge(c) PROVE Invariant'
    BY <2>1, <2>3, CallStepsSettle, JudgeKeeps, HttpKeptBySettled
  <2> QED
    BY <1>6, <2>2, <2>3 DEF Service
<1>7. CASE TimePasses
  <2>1. Settled /\ http' = http
    BY <1>7 DEF TimePasses, Settled, tokenVars
  <2> QED
    BY <1>7, <2>1, TimeKeeps, HttpKeptBySettled DEF TimePasses
<1> QED
  BY <1>1, <1>2, <1>3, <1>4, <1>5, <1>6, <1>7 DEF TrafficNext, trafficVars

(***************************************************************************)
(* What the fan-out of an address may cost: every token its bucket gave    *)
(* away was worth PerRequest calls.                                        *)
(***************************************************************************)
Metered == LimitPush /\ IPRate > 0 /\ MaxBatch # -1

Spent ==
  \A ip \in IPs :
    /\ IsFiniteSet(Started(ip))
    /\ Cardinality(Started(ip)) <= PerRequest * (Capacity + Rate * now - Left(ip))

LEMMA WidthIsNat == Metered => PerRequest \in Nat /\ PerRequest > 0
BY TrafficAssumption DEF Metered, PerRequest

\* An address that was given k tokens more may have k * PerRequest calls more.
LEMMA MoreBudget ==
  ASSUME NEW w \in Nat, NEW a \in Int, NEW b \in Int, NEW k \in Nat, b >= a + k
  PROVE  w * a \in Int /\ w * b \in Int /\ w * b >= w * a + w * k
<1>1. b = a + (k + (b - a - k)) /\ b - a - k \in Nat
  OBVIOUS
<1>2. PICK d \in Nat : d = b - a - k
  BY <1>1
<1>3. w * b = w * a + w * k + w * d
  BY <1>1, <1>2
<1>4. w * d \in Nat /\ w * a \in Int /\ w * k \in Int
  OBVIOUS
<1> QED
  BY <1>3, <1>4

LeftNat == \A ip \in IPs : Left(ip) \in Nat

LEMMA LeftIsNat == BudgetInv => LeftNat
BY EvictionIsNeutral, RateInNat DEF BudgetInv, LeftNat

\* A step after which no address has more calls or, for its time, more tokens.
LEMMA SpentKept ==
  ASSUME BudgetInv, BudgetInv', Metered, Spent, now' \in Nat, now' >= now,
         \A ip \in IPs : /\ Started(ip)' \subseteq Started(ip)
                         /\ Left(ip)' <= Left(ip) + Rate * (now' - now)
  PROVE  Spent'
<1> SUFFICES ASSUME NEW ip \in IPs
             PROVE  /\ IsFiniteSet(Started(ip)')
                    /\ Cardinality(Started(ip)')
                         <= PerRequest * (Capacity + Rate * now' - Left(ip)')
  BY DEF Spent, PerRequest, Capacity, Rate
<1>1. IsFiniteSet(Started(ip)') /\ Cardinality(Started(ip)') <= Cardinality(Started(ip))
  BY FS_Subset DEF Spent
<1>2. Cardinality(Started(ip)') \in Nat /\ Cardinality(Started(ip)) \in Nat
  BY <1>1, FS_CardinalityType DEF Spent
<1>3. now \in Nat /\ Left(ip) \in Nat /\ Left(ip)' \in Nat
  <2>1. LeftNat /\ LeftNat'
    BY LeftIsNat, PTL
  <2> QED
    BY <2>1, ClockAssumption DEF LeftNat, BudgetInv, LimiterTypeOK
<1>4. Rate * now' = Rate * now + Rate * (now' - now) /\ Rate * now \in Int
      /\ Rate * (now' - now) \in Int
  BY <1>3, RateInNat
<1>5. Capacity + Rate * now' - Left(ip)' >= (Capacity + Rate * now - Left(ip)) + 0
  BY <1>3, <1>4, RateInNat
<1> DEFINE a == Capacity + Rate * now - Left(ip)
           b == Capacity + Rate * now' - Left(ip)'
<1>6. a \in Int /\ b \in Int /\ b >= a + 0
  BY <1>3, <1>4, <1>5, RateInNat
<1>7. Cardinality(Started(ip)) <= PerRequest * a
  BY DEF Spent
<1> HIDE DEF a, b
<1>8. PerRequest * a \in Int /\ PerRequest * b \in Int /\ PerRequest * b >= PerRequest * a + PerRequest * 0
  BY <1>6, WidthIsNat, MoreBudget
<1>9. Cardinality(Started(ip)') <= PerRequest * b
  BY <1>1, <1>2, <1>7, <1>8, WidthIsNat
<1> QED
  BY <1>1, <1>9 DEF b

\* A request that goes through costs a token, and starts PerRequest calls at most.
LEMMA SpentByArrival ==
  ASSUME BudgetInv, BudgetInv', Metered, HttpInv, Spent, NEW r \in Requests, NEW ip \in IPs,
         NEW n \in 1..Widest, NEW batch \in BOOLEAN, Arrive(r, ip, n, batch)
  PROVE  Spent'
<1> USE CallsAre, RateInNat
<1> DEFINE code == IF PushLimited(ip) THEN 429
                   ELSE IF batch /\ TooMany(n) THEN 400 ELSE 0
           new == [NewHttp(ip) EXCEPT !.size = n, !.batch = batch, !.code = code]
<1>1. /\ http[r].size = 0 /\ http' = [http EXCEPT ![r] = new]
      /\ (IF code = 0 THEN StartCalls(r, n) ELSE UNCHANGED call)
      /\ now' = now /\ now \in Nat /\ (batch \/ n = 1) /\ Allow(ip)
  BY ClockAssumption DEF Arrive, Metered, Guarded, Limit, BudgetInv, LimiterTypeOK
<1>2. new.ip = ip
  BY DEF NewHttp
<1>3. \A k \in IPs : Left(k)' = IF k = ip /\ MayPass(ip) THEN Left(k) - 1 ELSE Left(k)
  BY <1>1, AllowTakesOne DEF BudgetInv
<1>4. /\ http'[r].ip = ip
      /\ \A q \in Requests \ {r} : http'[q] = http[q]
  BY <1>1, <1>2 DEF HttpInv, HttpTypeOK
<1>5. \A c \in Calls : c[1] \in Requests /\ (c[1] = r => call[c].step = "new")
  <2>1. \A i \in 1..Widest : call[<<r, i>>].step = "new"
    BY <1>1 DEF HttpInv, StartedNamed
  <2> QED
    BY <2>1
<1> HIDE DEF new
<1>6. CASE code # 0
  <2>1. call' = call
    BY <1>1, <1>6
  <2>2. \A k \in IPs : Started(k)' \subseteq Started(k)
    BY <1>4, <1>5, <2>1 DEF Started
  <2>3. Rate * (now' - now) = 0
    BY <1>1
  <2>4. \A k \in IPs : Left(k) \in Nat /\ Left(k)' <= Left(k) + Rate * (now' - now)
    BY <1>3, <2>3, LeftIsNat DEF LeftNat
  <2> HIDE DEF code
  <2> QED
    BY <1>1, <2>2, <2>4, SpentKept
<1>7. CASE code = 0
  <2>1. MayPass(ip) /\ n \in Nat /\ n <= PerRequest
    BY <1>1, <1>7, TrafficAssumption
       DEF PushLimited, Guarded, ShouldLimit, TooMany, Metered, PerRequest
  <2>2. StartCalls(r, n)
    BY <1>1, <1>7
  <2> DEFINE items == {<<r, i>> : i \in 1..n}
  <2>3. IsFiniteSet(items) /\ Cardinality(items) <= n
    <3> DEFINE item == [i \in 1..n |-> <<r, i>>]
    <3>1. item \in Surjection(1..n, items)
      BY DEF Surjection
    <3>2. IsFiniteSet(1..n) /\ Cardinality(1..n) <= n
      BY <2>1, FS_Interval
    <3> HIDE DEF item, items
    <3>3. Cardinality(items) <= Cardinality(1..n) /\ IsFiniteSet(items)
      BY <3>1, <3>2, FS_Surjection
    <3> QED
      BY <2>1, <3>2, <3>3, FS_CardinalityType
  <2>4. \A c \in Calls : call'[c].step # "new" => call[c].step # "new" \/ c \in items
    BY <2>2 DEF StartCalls
  <2> HIDE DEF code
  <2> SUFFICES ASSUME NEW k \in IPs
               PROVE  /\ IsFiniteSet(Started(k)')
                      /\ Cardinality(Started(k)')
                           <= PerRequest * (Capacity + Rate * now - Left(k)')
    BY <1>1 DEF Spent, PerRequest, Capacity, Rate
  <2>5. IsFiniteSet(Started(k)) /\ Cardinality(Started(k)) \in Nat
        /\ Cardinality(Started(k)) <= PerRequest * (Capacity + Rate * now - Left(k))
    BY FS_CardinalityType DEF Spent
  <2>6. CASE k # ip
    <3>1. Started(k)' \subseteq Started(k)
      BY <1>4, <1>5, <2>4, <2>6 DEF Started
    <3>2. IsFiniteSet(Started(k)') /\ Cardinality(Started(k)') <= Cardinality(Started(k))
          /\ Cardinality(Started(k)') \in Nat
      BY <2>5, <3>1, FS_Subset, FS_CardinalityType
    <3>3. PerRequest * (Capacity + Rate * now - Left(k)) \in Int
      BY <1>1, WidthIsNat, LeftIsNat DEF LeftNat
    <3>4. Left(k)' = Left(k)
      BY <1>3, <2>6
    <3> QED
      BY <2>5, <3>2, <3>3, <3>4
  <2>7. CASE k = ip
    <3> HIDE DEF items
    <3>1. Started(k)' \subseteq Started(k) \cup items
      BY <1>4, <1>5, <2>4 DEF Started
    <3>2. /\ IsFiniteSet(Started(k) \cup items)
          /\ Cardinality(Started(k) \cup items) \in Nat
          /\ Cardinality(Started(k) \cup items) <= Cardinality(Started(k)) + n
      <4>1. Cardinality(items) \in Nat
        BY <2>3, FS_CardinalityType
      <4>2. IsFiniteSet(Started(k) \cap items)
        BY <2>3, FS_Intersection
      <4>3. Cardinality(Started(k) \cap items) \in Nat
        BY <4>2, FS_CardinalityType
      <4>4. /\ IsFiniteSet(Started(k) \cup items)
            /\ Cardinality(Started(k) \cup items)
                 = Cardinality(Started(k)) + Cardinality(items) - Cardinality(Started(k) \cap items)
        BY <2>3, <2>5, FS_Union
      <4>5. Cardinality(Started(k) \cup items) \in Nat
        BY <4>4, FS_CardinalityType
      <4> QED
        BY <2>1, <2>3, <2>5, <4>1, <4>3, <4>4, <4>5
    <3>3. /\ IsFiniteSet(Started(k)') /\ Cardinality(Started(k)') \in Nat
          /\ Cardinality(Started(k)') <= Cardinality(Started(k)) + n
      BY <2>1, <2>5, <3>1, <3>2, FS_Subset, FS_CardinalityType
    <3> DEFINE a == Capacity + Rate * now - Left(k)
               b == Capacity + Rate * now - Left(k)'
    <3>4. a \in Int /\ b \in Int /\ b >= a + 1
      BY <1>1, <1>3, <2>1, <2>7, LeftIsNat DEF LeftNat
    <3>5. Cardinality(Started(k)) <= PerRequest * a
      BY <2>5
    <3> HIDE DEF a, b
    <3>6. /\ PerRequest * a \in Int /\ PerRequest * b \in Int
          /\ PerRequest * b >= PerRequest * a + PerRequest * 1
      BY <3>4, WidthIsNat, MoreBudget
    <3>7. Cardinality(Started(k)') <= PerRequest * b
      BY <2>1, <2>5, <3>3, <3>5, <3>6, WidthIsNat
    <3> QED
      BY <3>3, <3>7 DEF b
  <2> QED
    BY <2>6, <2>7
<1> QED
  BY <1>6, <1>7

LEMMA SpentInitially == TrafficInit => Spent
<1> SUFFICES ASSUME TrafficInit, NEW ip \in IPs
             PROVE  /\ IsFiniteSet(Started(ip))
                    /\ Cardinality(Started(ip)) <= PerRequest * (Capacity + Rate * now - Left(ip))
  BY DEF Spent
<1>1. Started(ip) = {}
  BY DEF TrafficInit, TokenInit, NewCall, Started
<1>2. Left(ip) = Capacity /\ Rate * 0 = 0 /\ now = 0
  BY RateInNat DEF TrafficInit, LimiterInit, Left
<1>3. Capacity + Rate * now - Left(ip) = 0 /\ PerRequest * 0 = 0
  BY <1>2, RateInNat, TrafficAssumption DEF PerRequest
<1> QED
  BY <1>1, <1>3, FS_EmptySet

LEMMA SpentStep ==
  ASSUME BudgetInv, BudgetInv', Invariant, Metered, Spent, [TrafficNext]_trafficVars
  PROVE  Spent'
<1> USE CallsAre, RateInNat
<1>1. now \in Nat /\ LeftNat /\ Rate * (now - now) = 0 /\ Rate * ((now + 1) - now) = Rate
  BY LeftIsNat, ClockAssumption DEF BudgetInv, LimiterTypeOK
<1>2. \A ip \in IPs, r \in Requests : Reply(r) => Started(ip)' = Started(ip)
  BY DEF Reply, Started, Invariant, HttpInv, HttpTypeOK, tokenVars
<1>3. ASSUME Settled, http' = http
      PROVE  \A ip \in IPs : Started(ip)' \subseteq Started(ip)
  BY <1>3 DEF Started, Settled
<1>4. ASSUME now' = now, \A ip \in IPs : Left(ip)' <= Left(ip),
             \A ip \in IPs : Started(ip)' \subseteq Started(ip)
      PROVE  Spent'
  BY <1>1, <1>4, SpentKept DEF LeftNat
<1>5. ASSUME UNCHANGED <<now, buckets, lastRefill>>
      PROVE  now' = now /\ \A ip \in IPs : Left(ip)' <= Left(ip)
  BY <1>1, <1>5 DEF Left, LeftNat
<1>6. ASSUME UNCHANGED <<tokenVars, http>>
      PROVE  \A ip \in IPs : Started(ip)' \subseteq Started(ip)
  BY <1>6 DEF Started, tokenVars
<1>7. ASSUME NEW r \in Requests, NEW ip \in IPs, NEW n \in 1..Widest, NEW batch \in BOOLEAN,
             Arrive(r, ip, n, batch)
      PROVE  Spent'
  BY <1>7, SpentByArrival DEF Invariant
<1>8. ASSUME NEW r \in Requests, Reply(r) PROVE Spent'
  BY <1>2, <1>4, <1>5, <1>8 DEF Reply, limiterVars
<1>9. ASSUME NEW ip \in IPs, Other(ip) PROVE Spent'
  <2>1. Allow(ip) /\ now' = now /\ UNCHANGED <<tokenVars, http>>
    BY <1>9 DEF Other, Limit, Metered
  <2>2. \A k \in IPs : Left(k)' = IF k = ip /\ MayPass(ip) THEN Left(k) - 1 ELSE Left(k)
    BY <2>1, AllowTakesOne DEF BudgetInv
  <2>3. \A k \in IPs : Left(k)' <= Left(k)
    BY <1>1, <2>2 DEF LeftNat
  <2> QED
    BY <1>4, <1>6, <2>1, <2>3
<1>10. ASSUME NEW ip \in IPs, Observe(ip) PROVE Spent'
  BY <1>4, <1>5, <1>6, <1>10 DEF Observe, Watch
<1>11. ASSUME NEW c \in Calls, CallStep(c) PROVE Spent'
  BY <1>3, <1>4, <1>5, <1>11, CallStepsSettle DEF CallStep, Invariant, limiterVars
<1>12. CASE Service
  <2>1. Settled
    BY <1>12, CallStepsSettle DEF Service, Rotate, Settled, Invariant
  <2> QED
    BY <1>3, <1>4, <1>5, <1>12, <2>1 DEF Service, limiterVars
<1>13. CASE TimePasses
  <2>1. LimiterTick /\ now' = now + 1 /\ UNCHANGED <<tokenVars, http>>
    BY <1>13 DEF TimePasses, LimiterTick, Tick
  <2>2. \A ip \in IPs : Left(ip)' <= Left(ip) + Rate
    BY <2>1, TickRefills DEF BudgetInv
  <2> QED
    BY <1>1, <1>6, <2>1, <2>2, SpentKept
<1>14. CASE UNCHANGED trafficVars
  BY <1>4, <1>5, <1>6, <1>14 DEF trafficVars, limiterVars
<1> QED
  BY <1>7, <1>8, <1>9, <1>10, <1>11, <1>12, <1>13, <1>14 DEF TrafficNext

(***************************************************************************)
(* To the limiter the rest of the traffic is a stutter.                    *)
(***************************************************************************)
THEOREM TrafficUsesLimiter == TrafficSpec => LimiterSpec
<1>1. TrafficInit => now = 0 /\ LimiterInit
  BY DEF TrafficInit
<1>2. [TrafficNext]_trafficVars => [LimiterNext]_<<now, limiterVars>>
  <2> SUFFICES ASSUME TrafficNext \/ UNCHANGED trafficVars
               PROVE  LimiterNext \/ UNCHANGED <<now, limiterVars>>
    BY DEF trafficVars
  <2>1. ASSUME NEW r \in Requests, NEW ip \in IPs, NEW n \in 1..Widest,
               NEW batch \in BOOLEAN, Arrive(r, ip, n, batch)
        PROVE  LimiterNext \/ UNCHANGED <<now, limiterVars>>
    BY <2>1 DEF Arrive, LimiterNext
  <2>2. ASSUME NEW r \in Requests, Reply(r)
        PROVE  UNCHANGED <<now, limiterVars>>
    BY <2>2 DEF Reply
  <2>3. ASSUME NEW ip \in IPs, Other(ip) \/ Observe(ip) PROVE LimiterNext
    BY <2>3 DEF Other, Observe, LimiterNext
  <2>4. ASSUME NEW c \in Calls, CallStep(c) PROVE UNCHANGED <<now, limiterVars>>
    BY <2>4 DEF CallStep
  <2>5. CASE Service
    BY <2>5 DEF Service
  <2>6. CASE TimePasses
    BY <2>6 DEF TimePasses, LimiterNext, LimiterTick
  <2>7. CASE UNCHANGED trafficVars
    BY <2>7 DEF trafficVars
  <2> QED
    BY <2>1, <2>2, <2>3, <2>4, <2>5, <2>6, <2>7 DEF TrafficNext
<1> QED
  BY <1>1, <1>2, PTL DEF TrafficSpec, LimiterSpec

(***************************************************************************)
(* What a sender and the operator rely on.                                 *)
(***************************************************************************)
LEMMA TrafficInvariant == TrafficSpec => []Invariant
BY TrafficStarts, TrafficStep, PTL DEF TrafficSpec

LEMMA TrafficInBudget ==
  ASSUME IdleRefills
  PROVE  TrafficSpec => []BudgetInv
BY TrafficUsesLimiter, LimiterSafe, PTL

\* Requests, calls and replies are well formed; no call is under way for an item that
\* its request does not name, and a batch is answered item by item.
THEOREM TrafficTyped == TrafficSpec => []TrafficTypeOK
<1>1. Invariant /\ LimiterTypeOK => TrafficTypeOK
  <2> SUFFICES ASSUME Invariant, LimiterTypeOK PROVE TrafficTypeOK
    OBVIOUS
  <2>1. LimiterTypeOK /\ TokenTypeOK /\ HttpTypeOK /\ StartedNamed /\ RepliesStand
    BY DEF Invariant, TokenInv, HttpInv
  <2>2. http \in [Requests -> [ip : IPs, size : 0..Widest, batch : BOOLEAN,
                               code : {0, 200, 400, 429, 500}, result : Seq({200, 500})]]
    BY <2>1, Zenon DEF HttpTypeOK, HttpRecord, Sizes, Flags, Codes, Results
  <2>3. \A r \in Requests :
          /\ \A i \in 1..Widest : call[<<r, i>>].step # "new" => i <= http[r].size
          /\ http[r].batch /\ http[r].code = 200 => DOMAIN http[r].result = 1..http[r].size
    BY <2>1, Zenon DEF StartedNamed, RepliesStand
  <2> QED
    BY <2>1, <2>2, <2>3, Zenon DEF TrafficTypeOK
<1> QED
  BY <1>1, TrafficInvariant, TrafficUsesLimiter, LimiterTyped, PTL

\* The limiter keeps its budget with all its clients at work (ratelimit.go:52-86).
THEOREM TrafficAdmitted ==
  ASSUME IdleRefills
  PROVE  TrafficSpec => []AdmittedInBudget
BY TrafficUsesLimiter, LimiterSafe, PTL

\* No call ever meets an expired JWT: what the service calls expired was signed before
\* a rotation (token.go:26-28, client.go:415).
THEOREM TokensServe == TrafficSpec => []ExpiredMeansRotated
<1>1. Invariant => ExpiredMeansRotated
  <2> SUFFICES ASSUME Invariant PROVE ExpiredMeansRotated
    OBVIOUS
  <2>1. \A c \in Calls : Sound(c) /\ Dated(c)
    BY DEF Invariant, TokenInv
  <2> QED
    BY <2>1 DEF ExpiredMeansRotated, Sound, Dated
<1> QED
  BY <1>1, TrafficInvariant, PTL

\* Whatever times out, gets lost or is tried again: nothing is delivered twice, and an
\* answer accounts for every item (route_push.go:252-289, client.go:415).
THEOREM RepliesAreTrue == TrafficSpec => []RepliesTruly
<1>1. Invariant => RepliesTruly
  <2> SUFFICES ASSUME Invariant PROVE RepliesTruly
    OBVIOUS
  <2>1. \A c \in Calls : Sound(c)
    BY DEF Invariant, TokenInv
  <2>2. DeliveredOnce
    BY <2>1 DEF DeliveredOnce, Sound
  <2> SUFFICES ASSUME NEW r \in Requests, http[r].code \in {200, 500},
                      NEW i \in 1..http[r].size
               PROVE  /\ call[<<r, i>>].step = "done"
                      /\ Reported(r, i) = 200
                           => delivered[<<r, i>>] = 1 \/ call[<<r, i>>].answer = "blank"
    BY <2>2 DEF RepliesTruly, Reported
  <2>3. <<r, i>> \in Calls
    BY CallsAre DEF HttpTypeOK, Invariant, HttpInv, HttpRecord, Sizes
  <2> QED
    BY <2>1, <2>3 DEF Invariant, HttpInv, RepliesStand, Sound, Succeeded
<1> QED
  BY <1>1, TrafficInvariant, PTL

\* The posts of a number of calls.
LEMMA TwoPostsEach ==
  ASSUME Invariant, NEW ip \in IPs, IsFiniteSet(Started(ip))
  PROVE  /\ Cardinality(Attempts(ip)) \in Nat /\ Cardinality(Started(ip)) \in Nat
         /\ Cardinality(Attempts(ip)) <= 2 * Cardinality(Started(ip))
<1> DEFINE pairs == Started(ip) \X (0..1)
<1>1. Attempts(ip) \subseteq pairs
  <2>1. \A c \in Calls : call[c].attempt \in 0..1
    BY Known DEF Invariant, CallRecord
  <2> QED
    BY <2>1 DEF Attempts, Started
<1>2. IsFiniteSet(0..1) /\ Cardinality(0..1) = 2
  <2>1. 0 \in Int /\ 1 \in Int /\ (IF 0 > 1 THEN 0 ELSE 1 - 0 + 1) = 2
    OBVIOUS
  <2> QED
    BY <2>1, FS_Interval
<1>3. IsFiniteSet(pairs) /\ Cardinality(pairs) = Cardinality(Started(ip)) * 2
  BY <1>2, FS_Product
<1> HIDE DEF pairs
<1>4. /\ IsFiniteSet(Attempts(ip)) /\ Cardinality(Attempts(ip)) <= Cardinality(pairs)
      /\ Cardinality(Attempts(ip)) \in Nat /\ Cardinality(Started(ip)) \in Nat
  BY <1>1, <1>3, FS_Subset, FS_CardinalityType
<1> QED
  BY <1>3, <1>4

\* With limiter and batch limit on, the calls of an address stay within what its
\* requests may cost, and its posts within twice that, however many addresses and
\* requests there are (route_push.go:243-246, route_rate_limit.go:53-61,
\* client.go:415), if a bucket fills up within the time that makes it idle.
THEOREM FanOutBounded ==
  ASSUME IdleRefills
  PROVE  TrafficSpec => []FanOutInBudget
<1>1. TrafficInit => (Metered => Spent)
  BY SpentInitially
<1>2. /\ Invariant /\ BudgetInv /\ (Metered => Spent)
      /\ [TrafficNext]_trafficVars /\ BudgetInv'
      => (Metered => Spent)'
  BY SpentStep DEF Metered
<1>3. TrafficSpec => [](Metered => Spent)
  BY <1>1, <1>2, TrafficInvariant, TrafficInBudget, PTL DEF TrafficSpec
<1>4. Invariant /\ BudgetInv /\ (Metered => Spent) => FanOutInBudget
  <2> SUFFICES ASSUME Invariant, BudgetInv, Metered, Spent, NEW ip \in IPs
               PROVE  /\ Cardinality(Started(ip)) <= PerRequest * (Capacity + Rate * now)
                      /\ Cardinality(Attempts(ip))
                           <= 2 * (PerRequest * (Capacity + Rate * now))
    BY DEF FanOutInBudget, Metered
  <2> DEFINE a == Capacity + Rate * now - Left(ip)
             b == Capacity + Rate * now
  <2>1. Left(ip) \in Nat /\ now \in Nat /\ Rate * now \in Int
    BY LeftIsNat, RateInNat, ClockAssumption DEF LeftNat, BudgetInv, LimiterTypeOK
  <2>2. a \in Int /\ b \in Int /\ b >= a + 0
    BY <2>1, RateInNat
  <2>3. Cardinality(Started(ip)) \in Nat /\ Cardinality(Started(ip)) <= PerRequest * a
    BY FS_CardinalityType DEF Spent
  <2> HIDE DEF a, b
  <2>4. /\ PerRequest * a \in Int /\ PerRequest * b \in Int
        /\ PerRequest * b >= PerRequest * a + PerRequest * 0
    BY <2>2, WidthIsNat, MoreBudget
  <2>5. Cardinality(Started(ip)) <= PerRequest * b
    BY <2>3, <2>4, WidthIsNat
  <2>6. /\ Cardinality(Attempts(ip)) \in Nat
        /\ Cardinality(Attempts(ip)) <= 2 * Cardinality(Started(ip))
    BY TwoPostsEach DEF Spent
  <2>7. Cardinality(Attempts(ip)) <= 2 * (PerRequest * b)
    BY <2>3, <2>4, <2>5, <2>6
  <2> QED
    BY <2>5, <2>7 DEF b
<1> QED
  BY <1>3, <1>4, TrafficInvariant, TrafficInBudget, PTL
=============================================================================
