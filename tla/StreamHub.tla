------------------------------- MODULE StreamHub -------------------------------
(***************************************************************************)
(* The live stream of new messages: the Hub of internal/gotifycompat       *)
(* (hub.go), the publishers that feed it (service.go, PublishWithID) and   *)
(* the WebSocket handler that drains it (route_gotify.go,                  *)
(* routeGotifyStream).                                                     *)
(*                                                                         *)
(* A publisher stores a message and then hands it to the hub, in two       *)
(* steps; while it walks the subscribers it holds the read lock, so that   *)
(* publishers run at the same time and subscriptions wait for all of them. *)
(* A stream is two goroutines: the reader, which notices that the peer has *)
(* gone, and the loop, which writes frames and in the end unsubscribes.    *)
(***************************************************************************)
EXTENDS Naturals, FiniteSets, Sequences, SequencesExt

CONSTANTS
  Devices,       \* device keys
  Publishers,    \* goroutines that serve pushes
  Streams,       \* WebSocket connections, each of which may be opened again
  Buffer,        \* capacity of a subscriber's channel, 32 in the code
  MaxMessages    \* bound: messages that are published

\* The connections a process can have are finite, and every message has a device.
ASSUME HubAssumption ==
  /\ IsFiniteSet(Streams) /\ Devices # {}
  /\ Buffer \in Nat \ {0}
  /\ MaxMessages \in Nat

VARIABLES
  stored,     \* the history: id -> device, ids from 1
  publishing, \* publisher -> what it does, see Idle
  subs,       \* Hub.subs: stream -> the device it filters by and its channel
  stage,      \* where the handler of a stream stands
  peer,       \* the other end: "there", "closed" or "silent"
  done,       \* whether the reader has ended
  gauge,      \* the metric active_streams
  deferred,   \* stream -> the argument of its deferred SetActiveStreams
  asked,      \* history: stream -> the device it was opened for
  shown,      \* history: stream -> the frames written to it
  lost,       \* history: stream -> the frames its full channel has lost
  caughtUp,   \* history: stream -> the ids its client read, once it has done so
  finished,   \* history: the ids whose publication has ended
  before      \* history: id -> finished, at the time it was stored

hub     == <<stored, publishing, subs, finished, before, lost>>
conns   == <<stage, peer, done>>
metric  == <<gauge, deferred>>
client  == <<asked, shown, caughtUp>>
hubVars == <<hub, conns, metric, client>>

Ids == 1 .. MaxMessages

Idle == [step |-> "idle", id |-> 0, todo |-> {}]

\* The handler's stages, in order.
Stages == {"off", "upgraded", "subscribed", "counted", "looping", "leaving", "reported"}

HubTypeOK ==
  /\ stored \in Seq(Devices) /\ Len(stored) <= MaxMessages
  /\ publishing \in [Publishers -> [step : {"idle", "stored", "sending"},
                                    id   : Ids \cup {0}, todo : SUBSET Streams]]
  /\ DOMAIN subs \subseteq Streams
  /\ \A s \in DOMAIN subs : /\ subs[s].device \in Devices
                            /\ Len(subs[s].ch) <= Buffer
                            /\ Range(subs[s].ch) \subseteq DOMAIN stored
  /\ stage \in [Streams -> Stages]
  /\ peer \in [Streams -> {"there", "closed", "silent"}]
  /\ done \in [Streams -> BOOLEAN]
  /\ gauge \in Nat /\ deferred \in [Streams -> Nat]
  /\ asked \in [Streams -> Devices]
  /\ \A s \in Streams : Range(shown[s]) \cup lost[s] \subseteq DOMAIN stored
  /\ \A s \in DOMAIN caughtUp : caughtUp[s] \subseteq DOMAIN stored
  /\ finished \subseteq DOMAIN stored
  /\ DOMAIN before = DOMAIN stored

HubInit ==
  /\ stored = <<>> /\ before = <<>> /\ finished = {}
  /\ publishing = [p \in Publishers |-> Idle]
  /\ subs = [s \in {} |-> Idle]
  /\ stage = [s \in Streams |-> "off"]
  /\ peer = [s \in Streams |-> "closed"]
  /\ done = [s \in Streams |-> FALSE]
  /\ gauge = 0 /\ deferred = [s \in Streams |-> 0]
  /\ asked = [s \in Streams |-> CHOOSE d \in Devices : TRUE]
  /\ shown = [s \in Streams |-> <<>>]
  /\ lost = [s \in Streams |-> {}]
  /\ caughtUp = [s \in {} |-> {}]

With(f, x, v) == [y \in DOMAIN f \cup {x} |-> IF y = x THEN v ELSE f[y]]

Without(f, x) == [y \in DOMAIN f \ {x} |-> f[y]]

(***************************************************************************)
(* Publishing.  Readers of Hub.mu are the publishers that are sending; the *)
(* sections under the write lock are single steps.                         *)
(***************************************************************************)
Readers == {p \in Publishers : publishing[p].step = "sending"}

WriteLock == Readers = {}

\* store.Add, or UpsertByExtraID when nothing matches.
Store(p, device) ==
  /\ publishing[p].step = "idle" /\ Len(stored) < MaxMessages
  /\ stored' = Append(stored, device)
  /\ before' = Append(before, finished)
  /\ publishing' = [publishing EXCEPT ![p] =
                      [step |-> "stored", id |-> Len(stored'), todo |-> {}]]
  /\ UNCHANGED <<subs, lost, finished, conns, metric, client>>

StartSending(p) ==
  /\ publishing[p].step = "stored"
  /\ publishing' = [publishing EXCEPT ![p].step = "sending", ![p].todo = DOMAIN subs]
  /\ UNCHANGED <<stored, subs, lost, finished, before, conns, metric, client>>

Matches(s, id) == stored[id] = subs[s].device

\* Faulty: one frame too many.
HasRoomAtCapacity(ch) == Len(ch) <= Buffer

HasRoom(ch) == Len(ch) < Buffer

\* Faulty: the newest frame goes first.
EnqueueFirst(ch, id) == <<id>> \o ch

Enqueue(ch, id) == Append(ch, id)

\* One round of the loop over the subscribers: a full channel loses the message.
Send(p, s) ==
  LET id == publishing[p].id
  IN /\ s \in publishing[p].todo
     /\ publishing' = [publishing EXCEPT ![p].todo = @ \ {s}]
     /\ IF ~ Matches(s, id)
          THEN UNCHANGED <<subs, lost>>
        ELSE IF HasRoom(subs[s].ch)
          THEN subs' = [subs EXCEPT ![s].ch = Enqueue(@, id)] /\ UNCHANGED lost
          ELSE lost' = [lost EXCEPT ![s] = @ \cup {id}] /\ UNCHANGED subs
     /\ UNCHANGED <<stored, finished, before, conns, metric, client>>

\* Faulty: it may return in the midst of the loop.
StopSendingEarly(p) ==
  /\ publishing[p].step = "sending"
  /\ publishing' = [publishing EXCEPT ![p] = Idle]
  /\ finished' = finished \cup {publishing[p].id}
  /\ UNCHANGED <<stored, subs, lost, before, conns, metric, client>>

StopSending(p) ==
  /\ publishing[p].step = "sending" /\ publishing[p].todo = {}
  /\ publishing' = [publishing EXCEPT ![p] = Idle]
  /\ finished' = finished \cup {publishing[p].id}
  /\ UNCHANGED <<stored, subs, lost, before, conns, metric, client>>

(***************************************************************************)
(* A stream: the upgrade, answered before the handler runs, then the       *)
(* handler up to its loop.                                                 *)
(***************************************************************************)
Upgrade(s, device) ==
  /\ stage[s] = "off"
  /\ stage' = [stage EXCEPT ![s] = "upgraded"]
  /\ peer' = [peer EXCEPT ![s] = "there"]
  /\ asked' = [asked EXCEPT ![s] = device]
  /\ UNCHANGED <<hub, done, metric, shown, caughtUp>>

Subscribed(s) == With(subs, s, [device |-> asked[s], ch |-> <<>>])

Subscribe(s) ==
  /\ stage[s] = "upgraded" /\ WriteLock
  /\ stage' = [stage EXCEPT ![s] = "subscribed"]
  /\ subs' = Subscribed(s)
  /\ UNCHANGED <<stored, publishing, lost, finished, before, peer, done, metric, client>>

SubscriberCount == Cardinality(DOMAIN subs)

SetGauge(s) ==
  /\ stage[s] = "subscribed"
  /\ stage' = [stage EXCEPT ![s] = "counted"]
  /\ gauge' = SubscriberCount
  /\ UNCHANGED <<hub, peer, done, deferred, client>>

\* The defer statement evaluates the argument of the call it defers.
DeferGauge(s) ==
  /\ stage[s] = "counted"
  /\ stage' = [stage EXCEPT ![s] = "looping"]
  /\ deferred' = [deferred EXCEPT ![s] = SubscriberCount]
  /\ UNCHANGED <<hub, peer, done, gauge, client>>

(***************************************************************************)
(* The peer closes the connection, or vanishes without a word.             *)
(***************************************************************************)
Open(s) == stage[s] \notin {"off", "upgraded"}

HangUp(s, how) ==
  /\ peer[s] = "there" /\ how \in {"closed", "silent"}
  /\ peer' = [peer EXCEPT ![s] = how]
  /\ UNCHANGED <<hub, stage, done, metric, client>>

\* The reader gets an error at once from a closed connection; of a silent peer the
\* read deadline tells, which only its pings and pongs put off.
\* Faulty: without the deadline.
ReadFailsOnClose(s) == peer[s] = "closed"

ReadFails(s) == peer[s] \in {"closed", "silent"}

ReaderEnds(s) ==
  /\ stage[s] = "looping" /\ ~ done[s] /\ ReadFails(s)
  /\ done' = [done EXCEPT ![s] = TRUE]
  /\ UNCHANGED <<hub, stage, peer, metric, client>>

\* A write to a peer that has gone fails, or goes nowhere.
WriteFrame(s) ==
  /\ stage[s] = "looping" /\ subs[s].ch # <<>>
  /\ subs' = [subs EXCEPT ![s].ch = Tail(@)]
  /\ \/ /\ peer[s] = "there"
        /\ shown' = [shown EXCEPT ![s] = Append(@, Head(subs[s].ch))]
        /\ UNCHANGED <<stage, lost>>
     \/ /\ peer[s] # "there"
        /\ stage' \in {stage, [stage EXCEPT ![s] = "leaving"]}
        /\ lost' = [lost EXCEPT ![s] = @ \cup {Head(subs[s].ch)}]
        /\ UNCHANGED shown
  /\ UNCHANGED <<stored, publishing, finished, before, peer, done, metric, asked, caughtUp>>

\* The loop ends when the reader has, or when a ping cannot be written.
LeaveLoop(s) ==
  /\ stage[s] = "looping" /\ done[s]
  /\ stage' = [stage EXCEPT ![s] = "leaving"]
  /\ UNCHANGED <<hub, peer, done, metric, client>>

PingFails(s) ==
  /\ stage[s] = "looping" /\ peer[s] # "there"
  /\ stage' = [stage EXCEPT ![s] = "leaving"]
  /\ UNCHANGED <<hub, peer, done, metric, client>>

\* The deferred calls, last one first; then the connection is closed.
ResetGauge(s) ==
  /\ stage[s] = "leaving"
  /\ stage' = [stage EXCEPT ![s] = "reported"]
  /\ gauge' = deferred[s]
  /\ UNCHANGED <<hub, peer, done, deferred, client>>

\* Faulty: the lock is not taken.
MayUnsubscribeAnyTime(s) == stage[s] = "reported"

MayUnsubscribe(s) == stage[s] = "reported" /\ WriteLock

Unsubscribe(s) ==
  /\ MayUnsubscribe(s)
  /\ stage' = [stage EXCEPT ![s] = "off"]
  /\ peer' = [peer EXCEPT ![s] = "closed"]
  /\ done' = [done EXCEPT ![s] = FALSE]
  /\ subs' = Without(subs, s)
  /\ shown' = [shown EXCEPT ![s] = <<>>]
  /\ lost' = [lost EXCEPT ![s] = {}]
  /\ caughtUp' = Without(caughtUp, s)
  /\ UNCHANGED <<stored, publishing, finished, before, metric, asked>>

\* Once it is subscribed, the client reads the history of its device.
CatchUp(s) ==
  /\ Open(s) /\ peer[s] = "there"
  /\ caughtUp' = With(caughtUp, s, {id \in DOMAIN stored : stored[id] = asked[s]})
  /\ UNCHANGED <<hub, conns, metric, asked, shown>>

HubNext ==
  \/ \E p \in Publishers :
       \/ \E d \in Devices : Store(p, d)
       \/ StartSending(p) \/ StopSending(p)
       \/ \E s \in Streams : Send(p, s)
  \/ \E s \in Streams :
       \/ \E d \in Devices : Upgrade(s, d)
       \/ Subscribe(s) \/ SetGauge(s) \/ DeferGauge(s)
       \/ \E how \in {"closed", "silent"} : HangUp(s, how)
       \/ ReaderEnds(s) \/ WriteFrame(s) \/ LeaveLoop(s) \/ PingFails(s)
       \/ ResetGauge(s) \/ Unsubscribe(s) \/ CatchUp(s)

HubSpec == HubInit /\ [][HubNext]_hubVars

(***************************************************************************)
(* Fairness.  A step of a goroutine that can run does run.  A goroutine    *)
(* that waits for the write lock holds back new readers (sync.RWMutex), so *)
(* that it gets the lock in the end: strong fairness there.                *)
(***************************************************************************)
HubFairSpec ==
  /\ HubSpec
  /\ \A p \in Publishers :
       /\ WF_hubVars(StartSending(p)) /\ WF_hubVars(StopSending(p))
       /\ \A s \in Streams : WF_hubVars(Send(p, s))
  /\ \A s \in Streams :
       /\ SF_hubVars(Subscribe(s)) /\ SF_hubVars(Unsubscribe(s))
       /\ WF_hubVars(SetGauge(s)) /\ WF_hubVars(DeferGauge(s))
       /\ WF_hubVars(ReaderEnds(s)) /\ WF_hubVars(ResetGauge(s))
       /\ WF_hubVars(LeaveLoop(s))

(***************************************************************************)
(* Properties.                                                             *)
(***************************************************************************)
(***************************************************************************)
(* Nothing is sent on a closed channel, which would end the process: the   *)
(* subscribers a publisher has still to serve are registered, and a        *)
(* channel is closed only by the step that takes its subscriber out.       *)
(***************************************************************************)
SendsToOpenOnly ==
  \A p \in Publishers : publishing[p].todo \subseteq DOMAIN subs

(***************************************************************************)
(* A client that reads the history once it is subscribed misses nothing:   *)
(* a stored message of its device was in what it read, or has been shown,  *)
(* or waits in its channel, or was lost at a full channel, or is being     *)
(* published and will get to it.                                           *)
(***************************************************************************)
UnderWay(s, id) ==
  \E p \in Publishers : /\ publishing[p].id = id
                        /\ publishing[p].step = "stored" \/ s \in publishing[p].todo

NothingBetween ==
  \A s \in DOMAIN subs \cap DOMAIN caughtUp :
    \A id \in {x \in DOMAIN stored : stored[x] = asked[s]} :
      \/ id \in caughtUp[s] \cup lost[s]
      \/ id \in Range(shown[s]) \cup Range(subs[s].ch)
      \/ UnderWay(s, id)

(***************************************************************************)
(* Frames do not overtake each other: when the publication of b had ended  *)
(* before a was stored, no stream shows a before b.  (Of two publications  *)
(* that overlap it may show the second one first.)                         *)
(***************************************************************************)
Frames(s) == shown[s] \o (IF s \in DOMAIN subs THEN subs[s].ch ELSE <<>>)

InOrder ==
  \A s \in Streams : \A i, j \in DOMAIN Frames(s) :
    i < j => Frames(s)[j] \notin before[Frames(s)[i]]

(***************************************************************************)
(* The metric active_streams is the number of open streams, as soon as     *)
(* none is opening or closing.                                             *)
(***************************************************************************)
GaugeCounts ==
  (\A s \in Streams : stage[s] \in {"off", "looping"}) => gauge = SubscriberCount

(***************************************************************************)
(* The subscription of a peer that has gone is given up, whether it closed *)
(* the connection or fell silent.                                          *)
(***************************************************************************)
DeadStreamsLeave ==
  \A s \in Streams : (s \in DOMAIN subs /\ peer[s] # "there") ~> s \notin DOMAIN subs
=============================================================================
