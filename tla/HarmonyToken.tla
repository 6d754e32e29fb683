---------------------------- MODULE HarmonyToken ----------------------------
(***************************************************************************)
(* The service-account JWT of the HarmonyOS pushes (harmony/token.go) and  *)
(* the calls that present it (Send and Revoke of harmony/client.go).       *)
(*                                                                         *)
(* All calls of the process share one cached JWT.  A call takes it, posts  *)
(* its request, and when the service answers 80200003 (token expired) it   *)
(* empties the cache and tries once more.  Between a call's steps other    *)
(* calls refresh or empty the same cache.  The service (external) rejects  *)
(* a JWT that its own clock calls expired, and every JWT signed before it  *)
(* rotated the key; an answer may get lost or be replaced by the page of a *)
(* gateway, whether or not the service has accepted the message.           *)
(***************************************************************************)
EXTENDS Clock

CONSTANTS
  Calls,       \* calls of Send or Revoke, each made once
  Life,        \* tokenLifetime
  Lead,        \* refreshLeadTime
  Timeout,     \* http.Client.Timeout
  Ahead,       \* how far the clock of the service is ahead
  MaxRotated   \* bound: times the service rotates the key

\* The lead time covers the drift of the clocks and the way of a request.
ASSUME TokenAssumption ==
  /\ Life \in Nat /\ Lead \in Nat /\ Timeout \in Nat \ {0} /\ Ahead \in Nat
  /\ MaxRotated \in Nat
  /\ Timeout + Ahead <= Lead /\ Lead < Life

VARIABLES
  cached,    \* the JWT of the process, NoJWT when empty
  call,      \* the calls
  rotated,   \* times the service rotated the key
  delivered  \* history: times the service accepted the message of a call

tokenVars == <<cached, call, rotated, delivered>>

\* A JWT: when it expires, and the rotations before it was signed.
JWTs  == [exp : 1..MaxTime + Life, key : 0..MaxRotated]
NoJWT == [exp |-> 0, key |-> 0]

(***************************************************************************)
(* A call: its step, the number of this attempt, the JWT it presents, when *)
(* it was posted, whether the request is still on its way, the answer, and *)
(* how many rotations there had been when the service first rejected it.   *)
(***************************************************************************)
NewCall == [step |-> "new", attempt |-> 0, jwt |-> NoJWT, at |-> 0,
            posted |-> FALSE, answer |-> "none", seen |-> 0]

\* "ok", the code 80200003, or any other error: another code, an answer that
\* does not parse, a broken connection.  "blank" is a JSON body of status 200
\* without a code, which the client takes for a success (client.go:513-537).
Answers == {"ok", "expired", "error", "blank"}

Succeeded(answer) == answer \in {"ok", "blank"}

TokenTypeOK ==
  /\ now \in 0..MaxTime
  /\ cached \in JWTs \cup {NoJWT}
  /\ rotated \in cached.key..MaxRotated
  /\ delivered \in [Calls -> 0..2]
  /\ call \in [Calls -> [step    : {"new", "get", "wait", "expired", "done"},
                         attempt : 0..1, jwt : JWTs \cup {NoJWT}, at : 0..now,
                         posted  : BOOLEAN, answer : Answers \cup {"none"},
                         seen    : 0..rotated]]
  /\ \A c \in Calls : call[c].step = "wait" => now - call[c].at <= Timeout

TokenInit ==
  /\ cached = NoJWT /\ rotated = 0
  /\ call = [c \in Calls |-> NewCall]
  /\ delivered = [c \in Calls |-> 0]

(***************************************************************************)
(* The token source.                                                       *)
(***************************************************************************)
\* Faulty: refreshes only once the JWT has expired.
Unexpired(jwt) == jwt # NoJWT /\ now < jwt.exp

\* The cached JWT still serves: now.Add(refreshLeadTime).Before(cachedExp).
Fresh(jwt) == jwt # NoJWT /\ now + Lead < jwt.exp

Sign == [exp |-> now + Life, key |-> rotated]

\* Get: the JWT it returns is the new content of the cache.
Get == cached' = IF Fresh(cached) THEN cached ELSE Sign

\* Faulty: nothing to invalidate while the expiry is far.
InvalidateStale == cached' = IF Fresh(cached) THEN cached ELSE NoJWT

ForceInvalidate == cached' = NoJWT

(***************************************************************************)
(* Send and Revoke: withRetry over postOnce.  A call starts at step "get". *)
(***************************************************************************)
\* Post: takes the JWT and hands the request to the network.
Post(c) ==
  /\ call[c].step = "get"
  /\ Get
  /\ call' = [call EXCEPT ![c].step = "wait", ![c].jwt = cached', ![c].at = now,
                          ![c].posted = TRUE, ![c].answer = "none"]
  /\ UNCHANGED <<rotated, delivered>>

\* Signing fails and the call with it; the cache stays.
SignFails(c) ==
  /\ call[c].step = "get" /\ ~ Fresh(cached)
  /\ call' = [call EXCEPT ![c].step = "done", ![c].answer = "error"]
  /\ UNCHANGED <<cached, rotated, delivered>>

\* Faulty: also when no answer came that says whether the message was accepted.
AgainOnAnyError(c, answer) == ~ Succeeded(answer) /\ call[c].attempt = 0

\* What withRetry tries again for: the token was expired, at the first attempt.
Again(c, answer) == answer = "expired" /\ call[c].attempt = 0

\* withRetry looks at what the attempt came to.  Of a call that ended only a
\* request still on its way keeps its JWT.
Conclude(c, answer) ==
  [call[c] EXCEPT !.step = IF Again(c, answer) THEN "expired" ELSE "done",
                  !.answer = answer, !.at = 0,
                  !.jwt = IF call[c].posted THEN @ ELSE NoJWT]

\* The answer is there.
Answer(c) ==
  /\ call[c].step = "wait" /\ ~ call[c].posted
  /\ call' = [call EXCEPT ![c] = Conclude(c, call[c].answer)]
  /\ UNCHANGED <<cached, rotated, delivered>>

\* Faulty: an HTTP client without a timeout.
NoTimer(c) == FALSE

\* The timer of the HTTP client.  The request may still arrive.
TimesOut(c) ==
  /\ call[c].step = "wait"
  /\ now - call[c].at = Timeout \/ now = MaxTime
  /\ call' = [call EXCEPT ![c] = Conclude(c, "error")]
  /\ UNCHANGED <<cached, rotated, delivered>>

Invalidate(c) ==
  /\ call[c].step = "expired"
  /\ ForceInvalidate
  /\ call' = [call EXCEPT ![c].step = "get", ![c].attempt = @ + 1]
  /\ UNCHANGED <<rotated, delivered>>

(***************************************************************************)
(* The service.                                                            *)
(***************************************************************************)
Rotate ==
  /\ rotated < MaxRotated
  /\ rotated' = rotated + 1
  /\ UNCHANGED <<cached, call, delivered>>

Accepts(jwt) == now + Ahead < jwt.exp /\ jwt.key = rotated

Verdict(taken, jwt) ==
  IF taken THEN "ok" ELSE IF Accepts(jwt) THEN "error" ELSE "expired"

\* Takes a request that arrived, or refuses it.  On its way back the answer may
\* get lost: a connection reset, the page of a gateway, which may be JSON.
Judge(c) ==
  /\ call[c].posted
  /\ \E taken \in BOOLEAN, page \in {"none", "error", "blank"} :
       LET verdict == Verdict(taken, call[c].jwt)
           heard   == IF call[c].step # "wait" THEN call[c].answer
                      ELSE IF page # "none" THEN page ELSE verdict
           seen    == IF verdict = "expired" /\ call[c].attempt = 0
                      THEN rotated ELSE call[c].seen
       IN /\ taken => Accepts(call[c].jwt)
          /\ delivered' = [delivered EXCEPT ![c] = IF taken THEN @ + 1 ELSE @]
          /\ call' = [call EXCEPT ![c] = [@ EXCEPT !.posted = FALSE, !.jwt = NoJWT,
                                                  !.answer = heard, !.seen = seen]]
  /\ UNCHANGED <<cached, rotated>>

\* Time passes only while no timer is due.
TimersRun == \A c \in Calls : call[c].step = "wait" => now < call[c].at + Timeout

(***************************************************************************)
(* Properties.                                                             *)
(***************************************************************************)
\* A message reaches its device once, though calls time out, answers get lost
\* and calls are repeated; and a call that the service answered with success has
\* delivered it (client.go:415, 478-541).
DeliveredOnce ==
  \A c \in Calls : /\ delivered[c] <= 1
                   /\ call[c].answer = "ok" => delivered[c] = 1

\* No call meets an expired JWT: the service answers so only after it rotated the
\* key, and a second time only when it rotated it again in between, whatever the
\* other calls did to the cache (token.go:26-28, 121-124; client.go:415).
ExpiredMeansRotated ==
  \A c \in Calls : call[c].answer = "expired" =>
    /\ rotated > 0
    /\ call[c].attempt = 1 /\ call[c].step = "done" => rotated > call[c].seen
=============================================================================
