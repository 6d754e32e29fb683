----------------------------- MODULE PushTraffic -----------------------------
(***************************************************************************)
(* HTTP requests on their way through the rate limiter of their address to *)
(* the HarmonyOS push service: the middlewares of route_rate_limit.go on   *)
(* the routes of route_push.go and route_register.go, the batch of         *)
(* routeDoPushV2, and the calls of the Huawei client, which share its JWT. *)
(*                                                                         *)
(* What a push does besides its call of the service is in PushDelivery.    *)
(***************************************************************************)
EXTENDS RateLimiter, HarmonyToken, Sequences

CONSTANTS
  Requests,   \* push requests
  Widest,     \* bound: device keys a request names
  MaxBatch,   \* maxBatchPushCount, -1 for no limit
  LimitPush   \* rateLimitPush

ASSUME TrafficAssumption ==
  /\ Widest \in Nat /\ MaxBatch \in Nat \cup {-1} /\ LimitPush \in BOOLEAN
  /\ Calls = Requests \X (1..Widest) /\ IPs # {}

VARIABLE http  \* the push requests

trafficVars == <<now, limiterVars, tokenVars, http>>

(***************************************************************************)
(* A request: its address, the device keys it names (size), whether it     *)
(* names them in device_keys, the status code of its answer, and of each   *)
(* item of a batch the code reported.                                      *)
(***************************************************************************)
NewHttp(ip) == [ip |-> ip, size |-> 0, batch |-> FALSE, code |-> 0, result |-> <<>>]

TrafficTypeOK ==
  /\ LimiterTypeOK /\ TokenTypeOK
  /\ http \in [Requests -> [ip : IPs, size : 0..Widest, batch : BOOLEAN,
                            code : {0, 200, 400, 429, 500}, result : Seq({200, 500})]]
  /\ \A r \in Requests :
       /\ \A i \in 1..Widest : call[<<r, i>>].step # "new" => i <= http[r].size
       /\ http[r].batch /\ http[r].code = 200 =>
            DOMAIN http[r].result = 1..http[r].size

TrafficInit ==
  /\ now = 0 /\ LimiterInit /\ TokenInit
  /\ http = [r \in Requests |-> NewHttp(CHOOSE ip \in IPs : TRUE)]

TooMany(n) == n > MaxBatch /\ MaxBatch # -1

\* rateLimitPushMiddleware: whether the limiter guards the push routes.
Guarded == LimitPush

PushLimited(ip) == Guarded /\ ShouldLimit(ip)

\* Faulty: one goroutine more than there are keys.
StartCallsAndOne(r, n) ==
  call' = [c \in Calls |-> IF c[1] = r /\ c[2] <= n + 1
                           THEN [call[c] EXCEPT !.step = "get"] ELSE call[c]]

\* The goroutines of a batch, one for each key; a single push runs in place.
StartCalls(r, n) ==
  call' = [c \in Calls |-> IF c[1] = r /\ c[2] <= n
                           THEN [call[c] EXCEPT !.step = "get"] ELSE call[c]]

(***************************************************************************)
(* A push request arrives: the middleware, then routeDoPushV2.             *)
(***************************************************************************)
Arrive(r, ip, n, batch) ==
  LET code == IF PushLimited(ip) THEN 429 ELSE IF batch /\ TooMany(n) THEN 400 ELSE 0
  IN /\ http[r].size = 0
     /\ batch \/ n = 1
     /\ IF Guarded THEN Limit(ip) ELSE UNCHANGED limiterVars
     /\ http' = [http EXCEPT ![r] = [NewHttp(ip) EXCEPT !.size = n, !.batch = batch,
                                                       !.code = code]]
     /\ IF code = 0 THEN StartCalls(r, n) ELSE UNCHANGED call
     /\ UNCHANGED <<now, cached, rotated, delivered>>

\* Faulty: the answer is given when the first item is there.
FirstEnded(r) == \E i \in 1..http[r].size : call[<<r, i>>].step = "done"

\* wg.Wait, or the return of a single push: every call has ended.
CallsEnded(r) == \A i \in 1..http[r].size : call[<<r, i>>].step = "done"

\* An item is one call of the HarmonyOS service.  What push() makes of the call to
\* APNs for the same key, and its codes 400, 404 and 410, are in PushDelivery.
ItemCode(c) == IF Succeeded(call[c].answer) THEN 200 ELSE 500

Reply(r) ==
  /\ http[r].size > 0 /\ http[r].code = 0 /\ CallsEnded(r)
  /\ http' = [http EXCEPT
       ![r].code   = IF http[r].batch THEN 200 ELSE ItemCode(<<r, 1>>),
       ![r].result = IF http[r].batch
                     THEN [i \in 1..http[r].size |-> ItemCode(<<r, i>>)] ELSE <<>>]
  /\ UNCHANGED <<now, limiterVars, tokenVars>>

\* rateLimitMiddleware on /register and /mcp: the request counts, and is done.
Other(ip) == Limit(ip) /\ UNCHANGED <<now, tokenVars, http>>

Observe(ip) == Watch(ip) /\ UNCHANGED <<now, tokenVars, http>>

CallStep(c) ==
  /\ Post(c) \/ SignFails(c) \/ Answer(c) \/ TimesOut(c) \/ Invalidate(c)
  /\ UNCHANGED <<now, limiterVars, http>>

Service ==
  /\ Rotate \/ \E c \in Calls : Judge(c)
  /\ UNCHANGED <<now, limiterVars, http>>

TimePasses == Tick /\ TimersRun /\ UNCHANGED <<limiterVars, tokenVars, http>>

TrafficNext ==
  \/ \E r \in Requests, ip \in IPs, n \in 1..Widest, batch \in BOOLEAN :
       Arrive(r, ip, n, batch)
  \/ \E r \in Requests : Reply(r)
  \/ \E ip \in IPs : Other(ip) \/ Observe(ip)
  \/ \E c \in Calls : CallStep(c)
  \/ Service
  \/ TimePasses

\* Goroutines that can run do, and the clock moves; the service owes no answer.
TrafficFairness ==
  /\ \A c \in Calls : WF_trafficVars(CallStep(c))
  /\ \A r \in Requests : WF_trafficVars(Reply(r))
  /\ WF_trafficVars(TimePasses)

TrafficSpec == TrafficInit /\ [][TrafficNext]_trafficVars /\ TrafficFairness

(***************************************************************************)
(* Properties.                                                             *)
(***************************************************************************)
\* The calls that requests of an address have brought about.
Started(ip) == {c \in Calls : http[c[1]].ip = ip /\ call[c].step # "new"}

\* The calls of one request: a single push is no batch, and passes a limit of 0.
PerRequest == IF MaxBatch = 0 THEN 1 ELSE MaxBatch

\* The times they post to the service, or are about to.
Attempts(ip) == {p \in Started(ip) \X (0..2) : p[2] <= call[p[1]].attempt}

\* The limiter counts requests, the batch limit their items and withRetry the posts
\* of an item: with the first two on, an address brings about no more calls of the
\* HarmonyOS service than the limit for each request in its budget, and no more than
\* two posts for each call, over any number of requests (route_push.go:243-246,
\* route_rate_limit.go:53-61, client.go:415).  The APNs posts of a key are not counted.
FanOutInBudget ==
  LimitPush /\ IPRate > 0 /\ MaxBatch # -1 =>
    \A ip \in IPs :
      LET budget == PerRequest * (Capacity + Rate * now)
      IN /\ Cardinality(Started(ip)) <= budget
         /\ Cardinality(Attempts(ip)) <= 2 * budget

\* No message is delivered twice, and every item of an answered request is accounted
\* for: what the answer calls delivered was accepted by the service, exactly once, or
\* the client was told so by a body without a code; and no call is still under way
\* (route_push.go:252-289, client.go:513-537).
RepliesTruly ==
  /\ DeliveredOnce
  /\ \A r \in Requests : http[r].code \in {200, 500} =>
       \A i \in 1..http[r].size :
         /\ call[<<r, i>>].step = "done"
         /\ (IF http[r].batch THEN http[r].result[i] ELSE http[r].code) = 200
              => delivered[<<r, i>>] = 1 \/ call[<<r, i>>].answer = "blank"

\* Every push request is answered, though the service may never answer.
EveryPushEnds == \A r \in Requests : http[r].size > 0 ~> http[r].code # 0
=============================================================================
