----------------------------- MODULE PushDelivery -----------------------------
(***************************************************************************)
(* From a push request to its answer: push and pushDelete of route_push.go *)
(* over the device database and the history, while devices register.       *)
(*                                                                         *)
(* A push looks up the devices of its key, stores one copy of the message  *)
(* in the history, and delivers to all platforms at once.  A delete        *)
(* request withdraws the notification, first from the HarmonyOS device,    *)
(* then from the iOS device, and then removes the history's copy.  Between *)
(* a lookup and the answers of the push services the database may change;  *)
(* a token the service calls dead is cleared when its answer comes.        *)
(*                                                                         *)
(* The token of a device is the number of times it was renewed, and 1 at   *)
(* first: a push service accepts the newest one only.  The history is the  *)
(* set of the requests whose message it holds.                             *)
(***************************************************************************)
EXTENDS BboltRegistry, FiniteSets

CONSTANTS
  Requests,    \* push requests
  Ids,         \* values of the id parameter, NoId for none
  Kinds,       \* messages: "plain", and with isArchive=0: "fleeting", "passive"
               \* (level=passive), "secret" (ciphertext)
  Asked,       \* values of the platform parameter, AnyOne for none
  MaxRenewed,  \* bound: devices that renew their tokens
  OldRecords   \* what an older release may have left: "none", "bare", "emptied"
               \* (bare, its token found dead), "harmony" (info:<key>)

NoId   == 0
AnyOne == "any"

ASSUME PushAssumption ==
  /\ Keys # {} /\ Ids \subseteq Nat
  /\ 1 \in Tokens /\ MaxRenewed \in Nat
  /\ Kinds \subseteq {"plain", "fleeting", "passive", "secret"}
  /\ Asked \subseteq Platforms \cup {AnyOne}
  /\ OldRecords \subseteq {"none", "bare", "emptied", "harmony"}

VARIABLES
  held,     \* the tokens the devices hold: <<key, platform>> -> token
  req,      \* the requests
  history,  \* the requests whose message is stored
  reported, \* history: <<key, platform, token>> that a push service called dead
  before    \* history: request -> those that had ended when it began

pushVars == <<registry, held, req, history, reported, before>>

(***************************************************************************)
(* A request: what it asks for, its targets with the tokens read, those    *)
(* still to be served, the answers under way, how each platform ended,     *)
(* what became of the history's copy, and the status code returned.        *)
(***************************************************************************)
NewRequest ==
  [step |-> "new", key |-> CHOOSE k \in Keys : TRUE, delete |-> FALSE, id |-> NoId,
   kind |-> "plain", targets |-> Nothing, todo |-> {}, calls |-> Nothing,
   ok |-> {}, failed |-> {}, copy |-> "none", code |-> 0]

Steps == {"new", "record", "deliver", "cleanup", "done"}

PushTypeOK ==
  /\ RegistryTypeOK
  /\ held \in [Keys \X Platforms -> Tokens]
  /\ history \subseteq Requests
  /\ \A r \in Requests :
       /\ req[r].step \in Steps /\ req[r].code \in {0, 200, 400, 404, 500}
       /\ req[r].key \in Keys /\ req[r].id \in Ids \cup {NoId}
       /\ req[r].copy \in {"none", "kept", "lost", "removed"}
       /\ DOMAIN req[r].targets \subseteq Platforms
       /\ {req[r].targets[p] : p \in DOMAIN req[r].targets} \subseteq Tokens
       /\ req[r].code # 0 <=> req[r].step = "done"
       /\ req[r].step \notin {"new", "done"} =>
            /\ req[r].todo \cup DOMAIN req[r].calls \cup req[r].ok \cup req[r].failed
                 = DOMAIN req[r].targets
            /\ req[r].ok \cap req[r].failed = {}
            /\ DOMAIN req[r].targets # {}

PushInit ==
  /\ \E old \in OldRecords :
       /\ legacy = IF old = "harmony"
                   THEN [k \in Keys |-> [platform |-> "harmony", token |-> 1]] ELSE Nothing
       /\ bare = IF old \in {"bare", "emptied"}
                 THEN [k \in Keys |-> IF old = "bare" THEN 1 ELSE NoToken] ELSE Nothing
  /\ info = Nothing
  /\ held = [kp \in Keys \X Platforms |-> 1]
  /\ req = [r \in Requests |-> NewRequest]
  /\ history = {} /\ reported = {}
  /\ before = [r \in Requests |-> {}]

Ended == {r \in Requests : req[r].step = "done"}

(***************************************************************************)
(* Devices.  A new token is registered at once or later (doRegister).      *)
(***************************************************************************)
Renew(k, p) ==
  /\ held[<<k, p>>] + 1 \in Tokens
  /\ Cardinality({kp \in DOMAIN held : held[kp] > 1}) < MaxRenewed
  /\ held' = [held EXCEPT ![<<k, p>>] = @ + 1]
  /\ UNCHANGED <<registry, req, history, reported, before>>

Register(k, p) ==
  /\ SaveDeviceInfo(k, p, held[<<k, p>>])
  /\ UNCHANGED <<held, req, history, reported, before>>

(***************************************************************************)
(* The lookup, with the checks on the parameters.                          *)
(***************************************************************************)
\* The devices of the key, less those without a token and those the platform
\* parameter leaves out.
Targets(k, only) ==
  LET found  == DevicesByKey(k)
      wanted == {p \in DOMAIN found : found[p] # NoToken /\ only \in {p, AnyOne}}
  IN [p \in wanted |-> found[p]]

\* A key without records gets 404 when it is one that scanners try (wellKnownProbeKeys).
Refusals(k) == IF DevicesByKey(k) = Nothing THEN {400, 404} ELSE {400}

Begin(r, asked, only) ==
  LET targets == Targets(asked.key, only)
      refused == DOMAIN targets = {} \/ (asked.delete /\ asked.id = NoId)
  IN /\ req[r].step = "new"
     /\ \E code \in Refusals(asked.key) :
          req' = [req EXCEPT ![r] =
                    IF refused THEN [NewRequest EXCEPT !.step = "done", !.code = code]
                    ELSE [asked EXCEPT !.step = IF asked.delete THEN "deliver" ELSE "record",
                                       !.targets = targets, !.todo = DOMAIN targets]]
     /\ before' = [before EXCEPT ![r] = IF asked.delete /\ ~ refused THEN Ended ELSE {}]
     /\ UNCHANGED <<registry, held, history, reported>>

Push(r) ==
  \E k \in Keys, i \in Ids, kind \in Kinds, only \in Asked :
    Begin(r, [NewRequest EXCEPT !.key = k, !.id = i, !.kind = kind], only)

PushDelete(r) ==
  \E k \in Keys, i \in Ids \cup {NoId}, only \in Asked :
    Begin(r, [NewRequest EXCEPT !.key = k, !.id = i, !.delete = TRUE], only)

(***************************************************************************)
(* The history's copy.  A push under an id replaces the one before it.     *)
(***************************************************************************)
Passive(r) == req[r].kind = "passive" /\ "harmony" \in DOMAIN req[r].targets

\* Faulty: a message that is not to be archived is not stored at all.
ArchivedOnly(r) == req[r].kind = "plain"

ShouldPublishHistory(r) ==
  \/ req[r].kind = "plain"
  \/ req[r].kind \in {"passive", "secret"} /\ "harmony" \in DOMAIN req[r].targets

SameId(r) ==
  {q \in history : req[q].key = req[r].key /\ req[q].id = req[r].id /\ req[r].id # NoId}

Record(r) ==
  /\ req[r].step = "record"
  /\ IF ShouldPublishHistory(r)
     THEN \/ /\ history' = (history \ SameId(r)) \cup {r}
             /\ req' = [req EXCEPT ![r].step = "deliver", ![r].copy = "kept"]
          \/ /\ req' = [req EXCEPT ![r].step = "deliver", ![r].copy = "lost"]
             /\ UNCHANGED history
     ELSE req' = [req EXCEPT ![r].step = "deliver"] /\ UNCHANGED history
  /\ UNCHANGED <<registry, held, reported, before>>

(***************************************************************************)
(* Delivery.  A passive message needs no call: for HarmonyOS its copy in   *)
(* the history is the delivery.                                            *)
(***************************************************************************)
\* Faulty: a dead token is counted as neither a success nor a failure.
DeliveredUncounted(r, p, end) ==
  [req[r] EXCEPT !.todo = @ \ {p}, !.calls = Without(@, p),
                 !.ok     = IF end = "ok" THEN @ \cup {p} ELSE @,
                 !.failed = IF end = "error" THEN @ \cup {p} ELSE @]

\* The delivery to p ends: "ok", "error" or "dead".
Delivered(r, p, end) ==
  [req[r] EXCEPT !.todo = @ \ {p}, !.calls = Without(@, p),
                 !.ok     = IF end = "ok" THEN @ \cup {p} ELSE @,
                 !.failed = IF end = "ok" THEN @ ELSE @ \cup {p}]

DeliverPassive(r) ==
  /\ req[r].step = "deliver" /\ Passive(r) /\ "harmony" \in req[r].todo
  /\ req' = [req EXCEPT ![r] =
               Delivered(r, "harmony", IF req[r].copy = "lost" THEN "error" ELSE "ok")]
  /\ UNCHANGED <<registry, held, history, reported, before>>

\* A delete request asks the services one after the other, HarmonyOS first.
MayCall(r, p) ==
  /\ req[r].step = "deliver" /\ p \in req[r].todo
  /\ ~ (p = "harmony" /\ Passive(r))
  /\ req[r].delete /\ p = "ios" => "harmony" \notin req[r].todo \cup DOMAIN req[r].calls

\* The push service decides on the token, or fails.
Call(r, p) ==
  LET newest  == held[<<req[r].key, p>>]
      verdict == IF req[r].targets[p] = newest THEN "ok" ELSE "dead"
  IN /\ MayCall(r, p)
     /\ \E answer \in {verdict, "error"} :
          req' = [req EXCEPT ![r].todo = @ \ {p}, ![r].calls = With(@, p, answer)]
     /\ UNCHANGED <<registry, held, history, reported, before>>

\* Faulty: an error is not counted, so the fan-out waits for it for ever.
CountedIfOk(r, p) == p \in DOMAIN req[r].calls /\ req[r].calls[p] = "ok"

Counted(r, p) == p \in DOMAIN req[r].calls

\* A dead token: 410 or BadDeviceToken from APNs, 80200001 from Huawei.
ClearDead(r, p) ==
  IF req[r].calls[p] = "dead"
  THEN /\ ClearDeviceTokenByKeyAndPlatform(req[r].key, p)
       /\ reported' = reported \cup {<<req[r].key, p, req[r].targets[p]>>}
  ELSE UNCHANGED <<registry, reported>>

\* The answer, in pushToAPNs, pushToHarmony or revokeHarmonyTokens.
Return(r, p) ==
  /\ Counted(r, p)
  /\ ClearDead(r, p)
  /\ req' = [req EXCEPT ![r] = Delivered(r, p, req[r].calls[p])]
  /\ UNCHANGED <<held, history, before>>

(***************************************************************************)
(* The end: one delivery that succeeded is a success.  A delete request    *)
(* first removes the history's copy, whatever became of the deliveries; an *)
(* error of the store does not change the answer.                          *)
(***************************************************************************)
\* Faulty: one delivery that failed is a failure.
StatusOfLast(r) == IF req[r].failed = {} THEN 200 ELSE 500

Status(r) == IF req[r].ok # {} THEN 200 ELSE 500

AllReturned(r) ==
  req[r].step = "deliver" /\ req[r].todo = {} /\ DOMAIN req[r].calls = {}

\* The request is answered; what only its delivery needed is forgotten.
AnsweredWith(r, copy) ==
  [NewRequest EXCEPT !.step = "done", !.key = req[r].key, !.id = req[r].id,
                     !.copy = copy, !.code = Status(r)]

Finish(r) ==
  /\ AllReturned(r)
  /\ req' = [req EXCEPT ![r] = IF req[r].delete THEN [@ EXCEPT !.step = "cleanup"]
                               ELSE AnsweredWith(r, "none")]
  /\ UNCHANGED <<registry, held, history, reported, before>>

\* Faulty: nothing is removed unless a notification was withdrawn.
RemovedIfWithdrawn(r) == IF req[r].ok = {} THEN {} ELSE SameId(r)

Removed(r) == SameId(r)

CleanUp(r) ==
  /\ req[r].step = "cleanup"
  /\ \/ /\ history' = history \ Removed(r)
        /\ req' = [req EXCEPT ![r] = AnsweredWith(r, "removed")]
     \/ /\ req' = [req EXCEPT ![r] = AnsweredWith(r, "lost")]
        /\ UNCHANGED history
  /\ UNCHANGED <<registry, held, reported, before>>

Serve(r) ==
  \/ Record(r) \/ DeliverPassive(r) \/ Finish(r) \/ CleanUp(r)
  \/ \E p \in Platforms : Call(r, p) \/ Return(r, p)

PushNext ==
  \/ \E k \in Keys, p \in Platforms : Renew(k, p) \/ Register(k, p)
  \/ \E r \in Requests : Push(r) \/ PushDelete(r) \/ Serve(r)

PushSpec == PushInit /\ [][PushNext]_pushVars

\* Calls of the push services return in the end: their clients have timeouts.
PushFairSpec == PushSpec /\ \A r \in Requests : WF_pushVars(Serve(r))

(***************************************************************************)
(* Properties.                                                             *)
(***************************************************************************)
(***************************************************************************)
(* The answer tells the truth: 200 when the message got to a device, or    *)
(* for a passive one into the history it is fetched from, and 500 when it  *)
(* got nowhere.                                                            *)
(***************************************************************************)
GotThere(r) ==
  {p \in req[r].ok : req[r].kind = "passive" /\ p = "harmony" => req[r].copy = "kept"}

Answered(r) == req[r].step \notin {"new", "done"} /\ req'[r].step = "done"

AnswersTruly ==
  [][\A r \in Requests : Answered(r) => (req'[r].code = 200 <=> GotThere(r) # {})]_pushVars

(***************************************************************************)
(* A token is cleared only where a push service has called a token of that *)
(* key and platform dead, and a token called dead is not served again,     *)
(* where a record of the current format holds it.                          *)
(***************************************************************************)
ClearedWasDead ==
  \A kp \in DOMAIN info :
    /\ info[kp] = NoToken => \E t \in Tokens : <<kp[1], kp[2], t>> \in reported
    /\ <<kp[1], kp[2], info[kp]>> \notin reported

(***************************************************************************)
(* What a delete request has withdrawn stays withdrawn: of the pushes      *)
(* under its id that had ended when it began, the history keeps none once  *)
(* it has ended, whether or not a push service withdrew the notification.  *)
(***************************************************************************)
WithdrawnStaysGone ==
  \A r \in Ended : req[r].copy = "removed" =>
    \A q \in before[r] \cap history :
      ~ (req[q].key = req[r].key /\ req[q].id = req[r].id)

(***************************************************************************)
(* Only invalid tokens are cleared: a record that holds the newest token   *)
(* of its device keeps it.                                                 *)
(***************************************************************************)
ValidTokensStay ==
  [][\A kp \in DOMAIN info : info[kp] = held[kp] => info'[kp] # NoToken]_pushVars

(***************************************************************************)
(* Every request is answered, whatever the push services say.              *)
(***************************************************************************)
EveryRequestEnds == \A r \in Requests : req[r].step # "new" ~> req[r].step = "done"
=============================================================================
