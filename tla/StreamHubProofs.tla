--------------------------- MODULE StreamHubProofs ---------------------------
(***************************************************************************)
(* The hub and its streams, for any number of publishers, connections and  *)
(* devices and any capacity of the channels: no send on a closed channel,  *)
(* no message between the history and the stream, no frame before one that *)
(* had been published before.                                              *)
(*                                                                         *)
(* Roles ties the parts together: who is registered, who may still be sent *)
(* to, and that a message under way has one publisher and is not yet       *)
(* finished.  Order is InOrder without the concatenation.                  *)
(***************************************************************************)
EXTENDS StreamHub, SequenceTheorems, FiniteSetTheorems, TLAPS

Known == 1 .. Len(stored)

\* The frames of a sequence are ids of stored messages.
Within(seq, n) == \A i \in 1 .. Len(seq) : seq[i] \in 1 .. n

Shape ==
  /\ stored \in Seq(Devices) /\ Len(stored) <= MaxMessages
  /\ before \in Seq(SUBSET Nat) /\ Len(before) = Len(stored)
  /\ finished \subseteq Known
  /\ publishing \in [Publishers -> [step : {"idle", "stored", "sending"},
                                    id   : 0 .. Len(stored), todo : SUBSET Streams]]
  /\ DOMAIN subs \subseteq Streams
  /\ subs \in [DOMAIN subs -> [device : Devices, ch : Seq(Nat)]]
  /\ \A s \in DOMAIN subs : Len(subs[s].ch) <= Buffer /\ Within(subs[s].ch, Len(stored))
  /\ shown \in [Streams -> Seq(Nat)]
  /\ \A s \in Streams : Within(shown[s], Len(stored))
  /\ lost \in [Streams -> SUBSET Known]
  /\ DOMAIN caughtUp \subseteq DOMAIN subs
  /\ caughtUp \in [DOMAIN caughtUp -> SUBSET Known]

Conns ==
  /\ stage \in [Streams -> Stages]
  /\ peer \in [Streams -> {"there", "closed", "silent"}]
  /\ done \in [Streams -> BOOLEAN]
  /\ asked \in [Streams -> Devices]
  /\ gauge \in Nat /\ deferred \in [Streams -> Nat]

Roles ==
  /\ \A s \in Streams : s \in DOMAIN subs <=> Open(s)
  /\ \A s \in DOMAIN subs : subs[s].device = asked[s]
  /\ \A p \in Publishers :
       /\ publishing[p].todo # {} => publishing[p].step = "sending"
       /\ publishing[p].step # "idle" => publishing[p].id \in Known \ finished
       /\ \A q \in Publishers \ {p} :
            publishing[p].step # "idle" /\ publishing[q].step # "idle"
              => publishing[p].id # publishing[q].id
  /\ \A id \in Known : before[id] \subseteq finished

Ordered(seq) ==
  \A i, j \in 1 .. Len(seq) : i < j => seq[j] \notin before[seq[i]]

Follows(first, next) ==
  \A i \in 1 .. Len(first), j \in 1 .. Len(next) : next[j] \notin before[first[i]]

Order ==
  /\ \A s \in Streams : Ordered(shown[s])
  /\ \A s \in DOMAIN subs : Ordered(subs[s].ch) /\ Follows(shown[s], subs[s].ch)

HubInv == Shape /\ Conns /\ Roles /\ SendsToOpenOnly /\ Order /\ NothingBetween

(***************************************************************************)
(* Sequences of frames.                                                    *)
(***************************************************************************)
LEMMA Longer ==
  ASSUME NEW seq \in Seq(Nat), NEW id \in Nat
  PROVE  /\ Append(seq, id) \in Seq(Nat)
         /\ Len(Append(seq, id)) = Len(seq) + 1
         /\ \A i \in 1 .. Len(seq) : Append(seq, id)[i] = seq[i]
         /\ Append(seq, id)[Len(seq) + 1] = id
         /\ Range(Append(seq, id)) = Range(seq) \cup {id}
<1>1. Range(Append(seq, id)) = Range(seq) \cup {id}
  BY AppendProperties, LenProperties DEF Range
<1> QED
  BY <1>1, AppendProperties

LEMMA Shorter ==
  ASSUME NEW seq \in Seq(Nat), seq # <<>>
  PROVE  /\ Head(seq) \in Nat /\ Head(seq) = seq[1]
         /\ Tail(seq) \in Seq(Nat)
         /\ Len(seq) \in Nat \ {0}
         /\ Len(Tail(seq)) = Len(seq) - 1
         /\ \A i \in 1 .. Len(Tail(seq)) : Tail(seq)[i] = seq[i + 1]
         /\ Range(seq) = {Head(seq)} \cup Range(Tail(seq))
<1>1. /\ Head(seq) \in Nat /\ Head(seq) = seq[1]
      /\ Tail(seq) \in Seq(Nat) /\ Len(seq) \in Nat \ {0}
      /\ Len(Tail(seq)) = Len(seq) - 1
      /\ \A i \in 1 .. Len(Tail(seq)) : Tail(seq)[i] = seq[i + 1]
  BY HeadTailProperties, EmptySeq
<1>2. DOMAIN seq = 1 .. Len(seq) /\ DOMAIN Tail(seq) = 1 .. Len(seq) - 1
  BY <1>1, LenProperties
<1>3. ASSUME NEW i \in 1 .. Len(seq)
      PROVE  seq[i] \in {Head(seq)} \cup Range(Tail(seq))
  <2>1. CASE i = 1
    BY <1>1, <2>1
  <2>2. CASE i # 1
    <3>1. i - 1 \in 1 .. Len(Tail(seq)) /\ Tail(seq)[i - 1] = seq[i]
      BY <1>1, <2>2
    <3> QED
      BY <1>1, <1>2, <3>1 DEF Range
  <2> QED
    BY <2>1, <2>2
<1>4. ASSUME NEW i \in 1 .. Len(seq) - 1
      PROVE  Tail(seq)[i] \in Range(seq)
  BY <1>1, <1>2 DEF Range
<1>5. Head(seq) \in Range(seq)
  BY <1>1, <1>2 DEF Range
<1> QED
  BY <1>1, <1>2, <1>3, <1>4, <1>5 DEF Range

\* A frame that no frame before it must precede may be appended.
LEMMA AppendKeepsOrder ==
  ASSUME NEW seq \in Seq(Nat), NEW id \in Nat,
         Ordered(seq), \A i \in 1 .. Len(seq) : id \notin before[seq[i]]
  PROVE  Ordered(Append(seq, id))
<1> SUFFICES ASSUME NEW i \in 1 .. Len(seq) + 1, NEW j \in 1 .. Len(seq) + 1, i < j
             PROVE  Append(seq, id)[j] \notin before[Append(seq, id)[i]]
  BY Longer DEF Ordered
<1>1. i \in 1 .. Len(seq) /\ Append(seq, id)[i] = seq[i] /\ Len(seq) \in Nat
  BY Longer, LenProperties
<1>2. CASE j = Len(seq) + 1
  <2>1. Append(seq, id)[j] = id
    BY <1>2, Longer
  <2> QED
    BY <1>1, <2>1
<1>3. CASE j # Len(seq) + 1
  <2>1. j \in 1 .. Len(seq) /\ Append(seq, id)[j] = seq[j]
    BY <1>1, <1>3, Longer
  <2> QED
    BY <1>1, <2>1 DEF Ordered
<1> QED
  BY <1>2, <1>3

LEMMA TailKeepsOrder ==
  ASSUME NEW seq \in Seq(Nat), seq # <<>>, Ordered(seq)
  PROVE  /\ Ordered(Tail(seq))
         /\ \A j \in 1 .. Len(Tail(seq)) : Tail(seq)[j] \notin before[Head(seq)]
BY Shorter DEF Ordered

\* The inductive form says what InOrder says.
LEMMA OrderOfFrames ==
  ASSUME Shape, Order
  PROVE  InOrder
<1> SUFFICES ASSUME NEW s \in Streams, NEW i \in DOMAIN Frames(s), NEW j \in DOMAIN Frames(s),
                    i < j
             PROVE  Frames(s)[j] \notin before[Frames(s)[i]]
  BY DEF InOrder
<1> DEFINE rest == IF s \in DOMAIN subs THEN subs[s].ch ELSE <<>>
<1>1. shown[s] \in Seq(Nat) /\ rest \in Seq(Nat) /\ Frames(s) = shown[s] \o rest
  BY EmptySeq DEF Shape, Frames
<1>2. Ordered(shown[s]) /\ Ordered(rest) /\ Follows(shown[s], rest)
  <2>1. CASE s \in DOMAIN subs
    BY <2>1 DEF Order
  <2>2. CASE s \notin DOMAIN subs
    BY <2>2, EmptySeq DEF Order, Ordered, Follows
  <2> QED
    BY <2>1, <2>2
<1> HIDE DEF rest
<1>3. /\ i \in 1 .. Len(shown[s]) + Len(rest) /\ j \in 1 .. Len(shown[s]) + Len(rest)
      /\ Len(shown[s]) \in Nat /\ Len(rest) \in Nat
      /\ \A n \in 1 .. Len(shown[s]) + Len(rest) :
           Frames(s)[n] = IF n <= Len(shown[s]) THEN shown[s][n] ELSE rest[n - Len(shown[s])]
  BY <1>1, ConcatProperties, LenProperties
<1>4. ASSUME NEW n \in 1 .. Len(shown[s]) + Len(rest)
      PROVE  /\ n <= Len(shown[s]) => n \in 1 .. Len(shown[s]) /\ Frames(s)[n] = shown[s][n]
             /\ n > Len(shown[s]) => /\ n - Len(shown[s]) \in 1 .. Len(rest)
                                     /\ Frames(s)[n] = rest[n - Len(shown[s])]
  BY <1>3
<1>5. CASE j <= Len(shown[s])
  <2>1. i \in 1 .. Len(shown[s]) /\ j \in 1 .. Len(shown[s])
        /\ Frames(s)[i] = shown[s][i] /\ Frames(s)[j] = shown[s][j]
    BY <1>3, <1>4, <1>5
  <2> QED
    BY <1>2, <2>1 DEF Ordered
<1>6. CASE i <= Len(shown[s]) /\ j > Len(shown[s])
  <2>1. i \in 1 .. Len(shown[s]) /\ Frames(s)[i] = shown[s][i]
    BY <1>3, <1>4, <1>6
  <2>2. j - Len(shown[s]) \in 1 .. Len(rest) /\ Frames(s)[j] = rest[j - Len(shown[s])]
    BY <1>3, <1>4, <1>6
  <2> QED
    BY <1>2, <2>1, <2>2 DEF Follows
<1>7. CASE i > Len(shown[s])
  <2>1. i - Len(shown[s]) \in 1 .. Len(rest) /\ Frames(s)[i] = rest[i - Len(shown[s])]
    BY <1>3, <1>4, <1>7
  <2>2. j > Len(shown[s]) /\ i - Len(shown[s]) < j - Len(shown[s])
    BY <1>3, <1>7
  <2>3. j - Len(shown[s]) \in 1 .. Len(rest) /\ Frames(s)[j] = rest[j - Len(shown[s])]
    BY <1>3, <1>4, <2>2
  <2> QED
    BY <1>2, <2>1, <2>2, <2>3 DEF Ordered
<1>8. j <= Len(shown[s]) \/ (i <= Len(shown[s]) /\ j > Len(shown[s])) \/ i > Len(shown[s])
  BY <1>3
<1> QED
  BY <1>5, <1>6, <1>7, <1>8

(***************************************************************************)
(* The initial states.                                                     *)
(***************************************************************************)
LEMMA HubStarts ==
  ASSUME HubInit
  PROVE  HubInv
<1>1. <<>> \in Seq(Devices) /\ <<>> \in Seq(SUBSET Nat) /\ <<>> \in Seq(Nat) /\ Len(<<>>) = 0
  BY EmptySeq
<1>2. (CHOOSE d \in Devices : TRUE) \in Devices
  BY HubAssumption
<1>3. Shape
  BY <1>1, HubAssumption DEF HubInit, Shape, Known, Idle, Within
<1>4. Conns
  BY <1>2 DEF HubInit, Conns, Stages
<1>5. Roles
  BY <1>1 DEF HubInit, Roles, Open, Idle, Known
<1>6. SendsToOpenOnly /\ Order /\ NothingBetween
  BY <1>1 DEF HubInit, SendsToOpenOnly, Order, Ordered, NothingBetween, Idle
<1> QED
  BY <1>3, <1>4, <1>5, <1>6 DEF HubInv

(***************************************************************************)
(* The steps that touch neither the hub nor what a client has seen, and    *)
(* open or close no subscription.                                          *)
(***************************************************************************)
LEMMA QuietStep ==
  ASSUME HubInv, UNCHANGED <<hub, client>>, Conns',
         \A s \in Streams : Open(s)' <=> Open(s)
  PROVE  HubInv'
<1> USE DEF HubInv, hub, client
<1>1. Shape'
  BY DEF Shape, Known
<1>2. Roles'
  <2>1. \A s \in Streams : s \in DOMAIN subs' <=> Open(s)'
    BY DEF Roles
  <2> QED
    BY <2>1 DEF Roles, Known
<1>3. SendsToOpenOnly' /\ Order'
  BY DEF SendsToOpenOnly, Order, Ordered, Follows
<1>4. NothingBetween'
  BY DEF NothingBetween, UnderWay
<1> QED
  BY <1>1, <1>2, <1>3, <1>4

LEMMA GaugeInNat ==
  ASSUME Shape
  PROVE  SubscriberCount \in Nat
BY HubAssumption, FS_Subset, FS_CardinalityType DEF Shape, SubscriberCount

LEMMA QuietActions ==
  ASSUME HubInv, NEW s \in Streams,
         \/ SetGauge(s) \/ DeferGauge(s) \/ ReaderEnds(s) \/ LeaveLoop(s)
         \/ PingFails(s) \/ ResetGauge(s) \/ \E how \in {"closed", "silent"} : HangUp(s, how)
  PROVE  HubInv'
<1>1. Conns /\ SubscriberCount \in Nat
  BY GaugeInNat DEF HubInv
<1>2. CASE SetGauge(s)
  <2>1. UNCHANGED <<hub, client>> /\ Conns'
    BY <1>1, <1>2 DEF SetGauge, Conns, Stages, client
  <2>2. \A t \in Streams : Open(t)' <=> Open(t)
    BY <1>1, <1>2 DEF SetGauge, Conns, Open
  <2> QED
    BY <2>1, <2>2, QuietStep
<1>3. CASE DeferGauge(s)
  <2>1. UNCHANGED <<hub, client>> /\ Conns'
    BY <1>1, <1>3 DEF DeferGauge, Conns, Stages, client
  <2>2. \A t \in Streams : Open(t)' <=> Open(t)
    BY <1>1, <1>3 DEF DeferGauge, Conns, Open
  <2> QED
    BY <2>1, <2>2, QuietStep
<1>4. CASE ReaderEnds(s)
  <2>1. UNCHANGED <<hub, client, stage>> /\ Conns'
    BY <1>1, <1>4 DEF ReaderEnds, Conns, client, metric
  <2> QED
    BY <2>1, QuietStep DEF Open
<1>5. CASE LeaveLoop(s) \/ PingFails(s)
  <2>1. UNCHANGED <<hub, client>> /\ Conns'
    BY <1>1, <1>5 DEF LeaveLoop, PingFails, Conns, Stages, client, metric
  <2>2. \A t \in Streams : Open(t)' <=> Open(t)
    BY <1>1, <1>5 DEF LeaveLoop, PingFails, Conns, Open
  <2> QED
    BY <2>1, <2>2, QuietStep
<1>6. CASE ResetGauge(s)
  <2>1. UNCHANGED <<hub, client>> /\ Conns'
    BY <1>1, <1>6 DEF ResetGauge, Conns, Stages, client
  <2>2. \A t \in Streams : Open(t)' <=> Open(t)
    BY <1>1, <1>6 DEF ResetGauge, Conns, Open
  <2> QED
    BY <2>1, <2>2, QuietStep
<1>7. ASSUME NEW how \in {"closed", "silent"}, HangUp(s, how)
      PROVE  HubInv'
  <2>1. UNCHANGED <<hub, client, stage>> /\ Conns'
    BY <1>1, <1>7 DEF HangUp, Conns, client, metric
  <2> QED
    BY <2>1, QuietStep DEF Open
<1> QED
  BY <1>2, <1>3, <1>4, <1>5, <1>6, <1>7

(***************************************************************************)
(* Publishing.                                                             *)
(***************************************************************************)
LEMMA StoreKeeps ==
  ASSUME HubInv, NEW p \in Publishers, NEW d \in Devices, Store(p, d)
  PROVE  HubInv'
<1> DEFINE id == Len(stored) + 1
<1> USE DEF Store, conns, metric, client
<1>1. /\ Shape /\ Conns /\ Roles /\ SendsToOpenOnly /\ Order /\ NothingBetween
      /\ Len(stored) \in Nat /\ MaxMessages \in Nat
  BY HubAssumption, LenProperties DEF HubInv, Shape
<1>2. /\ stored' \in Seq(Devices) /\ Len(stored') = id
      /\ \A i \in Known : stored'[i] = stored[i]
      /\ DOMAIN stored = Known /\ DOMAIN stored' = 1 .. id
  BY <1>1, AppendProperties, LenProperties DEF Shape, Known
<1>3. /\ before' \in Seq(SUBSET Nat) /\ Len(before') = id
      /\ \A i \in Known : before'[i] = before[i]
      /\ before'[id] = finished
  <2>1. finished \in SUBSET Nat
    BY <1>1 DEF Shape, Known
  <2> QED
    BY <1>1, <2>1, AppendProperties DEF Shape, Known
<1>4. publishing' = [publishing EXCEPT ![p] = [step |-> "stored", id |-> id, todo |-> {}]]
  BY <1>2
<1>5. Known' = 1 .. id /\ Known \subseteq Known'
  BY <1>1, <1>2 DEF Known
<1>6. Shape'
  <2>1. ASSUME NEW seq, Within(seq, Len(stored)) PROVE Within(seq, id)
    BY <1>1, <2>1 DEF Within
  <2>2. publishing' \in [Publishers -> [step : {"idle", "stored", "sending"},
                                        id   : 0 .. id, todo : SUBSET Streams]]
    BY <1>1, <1>4 DEF Shape
  <2>3. /\ id <= MaxMessages /\ finished' \subseteq Known'
        /\ lost' \in [Streams -> SUBSET Known']
        /\ caughtUp' \in [DOMAIN caughtUp' -> SUBSET Known']
    BY <1>1, <1>5 DEF Shape
  <2> QED
    BY <1>1, <1>2, <1>3, <2>1, <2>2, <2>3 DEF Shape
<1>7. Roles'
  <2>1. \A q \in Publishers \ {p} : publishing'[q] = publishing[q]
    BY <1>1, <1>4 DEF Shape
  <2>2. /\ publishing'[p].step = "stored" /\ publishing'[p].id = id
        /\ publishing'[p].todo = {}
    BY <1>1, <1>4 DEF Shape
  <2>3. id \notin Known /\ id \notin finished
    BY <1>1 DEF Shape, Known
  <2>4. \A n \in Known' : before'[n] \subseteq finished
    BY <1>1, <1>3, <1>5 DEF Roles, Known
  <2>5. \A s \in Streams : s \in DOMAIN subs' <=> Open(s)'
    BY <1>1 DEF Roles, Open
  <2>6. \A q \in Publishers : publishing'[q].step # "idle" =>
          publishing'[q].id \in Known' \ finished
    <3> SUFFICES ASSUME NEW q \in Publishers, publishing'[q].step # "idle"
                 PROVE  publishing'[q].id \in Known' \ finished
      OBVIOUS
    <3>1. CASE q = p
      BY <1>1, <1>5, <2>2, <2>3, <3>1
    <3>2. CASE q # p
      BY <1>1, <1>5, <2>1, <3>2 DEF Roles
    <3> QED
      BY <3>1, <3>2
  <2>7. \A q \in Publishers : publishing'[q].todo # {} => publishing'[q].step = "sending"
    BY <1>1, <2>1, <2>2 DEF Roles
  <2>8. \A q, r \in Publishers : q # r /\ publishing'[q].step # "idle"
                                       /\ publishing'[r].step # "idle"
                               => publishing'[q].id # publishing'[r].id
    BY <1>1, <2>1, <2>2, <2>3 DEF Roles
  <2> QED
    BY <1>1, <2>4, <2>5, <2>6, <2>7, <2>8 DEF Roles
<1>8. SendsToOpenOnly'
  BY <1>1, <1>4 DEF SendsToOpenOnly, Shape
<1>9. Order'
  <2>1. ASSUME NEW seq \in Seq(Nat), Within(seq, Len(stored)), Ordered(seq)
        PROVE  Ordered(seq)'
    BY <1>3, <2>1 DEF Ordered, Within, Known
  <2>2. ASSUME NEW s \in DOMAIN subs, Follows(shown[s], subs[s].ch)
        PROVE  Follows(shown[s], subs[s].ch)'
    BY <1>1, <1>3, <2>2 DEF Follows, Shape, Within, Known
  <2>3. ASSUME NEW s \in Streams PROVE Ordered(shown[s])'
    BY <1>1, <1>3, <2>3 DEF Order, Shape, Ordered, Within, Known
  <2>4. ASSUME NEW s \in DOMAIN subs PROVE Ordered(subs[s].ch)'
    BY <1>1, <1>3, <2>4 DEF Order, Shape, Ordered, Within, Known
  <2> QED
    BY <1>1, <2>2, <2>3, <2>4 DEF Order
<1>10. NothingBetween'
  <2> SUFFICES ASSUME NEW s \in DOMAIN subs \cap DOMAIN caughtUp,
                      NEW n \in DOMAIN stored', stored'[n] = asked[s]
               PROVE  \/ n \in caughtUp[s] \cup lost[s]
                      \/ n \in Range(shown[s]) \cup Range(subs[s].ch)
                      \/ UnderWay(s, n)'
    BY DEF NothingBetween
  <2>1. CASE n = id
    BY <1>1, <1>4, <2>1 DEF UnderWay, Shape
  <2>2. CASE n \in Known
    <3>1. stored[n] = asked[s] /\ n \in DOMAIN stored
      BY <1>2, <2>2
    <3>2. ASSUME NEW q \in Publishers, publishing[q].id = n,
                 publishing[q].step = "stored" \/ s \in publishing[q].todo
          PROVE  UnderWay(s, n)'
      <4>1. q # p
        BY <1>1, <3>2 DEF Roles
      <4> QED
        BY <1>1, <1>4, <3>2, <4>1 DEF UnderWay, Shape
    <3>3. UnderWay(s, n) => UnderWay(s, n)'
      BY <3>2 DEF UnderWay
    <3> QED
      BY <1>1, <3>1, <3>3 DEF NothingBetween
  <2> QED
    BY <1>2, <2>1, <2>2 DEF Known
<1> QED
  BY <1>1, <1>6, <1>7, <1>8, <1>9, <1>10 DEF HubInv, Conns

LEMMA StartSendingKeeps ==
  ASSUME HubInv, NEW p \in Publishers, StartSending(p)
  PROVE  HubInv'
<1> USE DEF StartSending, conns, metric, client
<1>1. Shape /\ Conns /\ Roles /\ SendsToOpenOnly /\ Order /\ NothingBetween
  BY DEF HubInv
<1>2. /\ \A q \in Publishers \ {p} : publishing'[q] = publishing[q]
      /\ publishing'[p].step = "sending" /\ publishing'[p].todo = DOMAIN subs
      /\ publishing'[p].id = publishing[p].id /\ publishing[p].step = "stored"
  BY <1>1 DEF Shape
<1>3. Shape'
  <2>1. UNCHANGED <<stored, before, finished, subs, shown, lost, caughtUp>> /\ Known' = Known
    BY DEF Known
  <2>2. publishing' \in [Publishers -> [step : {"idle", "stored", "sending"},
                                        id : 0 .. Len(stored), todo : SUBSET Streams]]
    <3>1. publishing[p] \in [step : {"idle", "stored", "sending"}, id : 0 .. Len(stored),
                             todo : SUBSET Streams] /\ DOMAIN subs \subseteq Streams
      BY <1>1 DEF Shape
    <3>2. [publishing[p] EXCEPT !.step = "sending", !.todo = DOMAIN subs]
            \in [step : {"idle", "stored", "sending"}, id : 0 .. Len(stored),
                 todo : SUBSET Streams]
      BY <3>1
    <3>3. publishing' = [publishing EXCEPT
            ![p] = [publishing[p] EXCEPT !.step = "sending", !.todo = DOMAIN subs]]
      <4>1. publishing' = [publishing EXCEPT ![p].step = "sending", ![p].todo = DOMAIN subs]
        OBVIOUS
      <4> HIDE DEF StartSending
      <4> QED
        BY <1>1, <4>1 DEF Shape
    <3> HIDE DEF StartSending
    <3> QED
      BY <1>1, <3>2, <3>3 DEF Shape
  <2> HIDE DEF StartSending
  <2> QED
    BY <1>1, <2>1, <2>2 DEF Shape
<1>4. Roles'
  <2>1. ASSUME NEW q \in Publishers, publishing'[q].step # "idle"
        PROVE  publishing[q].step # "idle" /\ publishing'[q].id = publishing[q].id
    BY <1>2, <2>1
  <2>2. \A q \in Publishers : publishing'[q].todo # {} => publishing'[q].step = "sending"
    BY <1>1, <1>2 DEF Roles
  <2>3. \A q \in Publishers : publishing'[q].step # "idle" =>
          /\ publishing'[q].id \in Known \ finished
          /\ \A r \in Publishers \ {q} :
               publishing'[r].step # "idle" => publishing'[q].id # publishing'[r].id
    <3> HIDE DEF StartSending
    <3> QED
      BY <1>1, <2>1 DEF Roles
  <2>4. UNCHANGED <<stored, finished, before, subs, stage, asked>> /\ Known' = Known
    BY DEF Known
  <2> QED
    BY <1>1, <2>2, <2>3, <2>4 DEF Roles, Open
<1>5. SendsToOpenOnly' /\ Order'
  BY <1>1, <1>2 DEF SendsToOpenOnly, Order, Ordered, Follows
<1>6. NothingBetween'
  <2>1. ASSUME NEW s \in DOMAIN subs, NEW n, UnderWay(s, n) PROVE UnderWay(s, n)'
    BY <1>2, <2>1 DEF UnderWay
  <2> QED
    BY <1>1, <2>1 DEF NothingBetween
<1> QED
  BY <1>1, <1>3, <1>4, <1>5, <1>6 DEF HubInv, Conns

LEMMA StopSendingKeeps ==
  ASSUME HubInv, NEW p \in Publishers, StopSending(p)
  PROVE  HubInv'
<1> USE DEF StopSending, conns, metric, client
<1>1. Shape /\ Conns /\ Roles /\ SendsToOpenOnly /\ Order /\ NothingBetween
  BY DEF HubInv
<1>2. /\ \A q \in Publishers \ {p} : publishing'[q] = publishing[q]
      /\ publishing'[p] = Idle /\ Idle.step = "idle" /\ Idle.todo = {}
      /\ publishing[p].step = "sending" /\ publishing[p].todo = {}
      /\ publishing[p].id \in Known
  BY <1>1 DEF Shape, Idle, Roles
<1>3. Shape'
  BY <1>1, <1>2, LenProperties DEF Shape, Known, Idle
<1>4. Roles'
  <2>1. \A q \in Publishers : publishing'[q].step # "idle" =>
          publishing'[q].id \in Known' \ finished'
    BY <1>1, <1>2 DEF Roles, Known
  <2> QED
    BY <1>1, <1>2, <2>1 DEF Roles, Known, Open
<1>5. SendsToOpenOnly' /\ Order'
  BY <1>1, <1>2 DEF SendsToOpenOnly, Order, Ordered, Follows
<1>6. NothingBetween'
  <2>1. ASSUME NEW s \in DOMAIN subs, NEW n, UnderWay(s, n) PROVE UnderWay(s, n)'
    BY <1>2, <2>1 DEF UnderWay
  <2> QED
    BY <1>1, <2>1 DEF NothingBetween
<1> QED
  BY <1>1, <1>3, <1>4, <1>5, <1>6 DEF HubInv, Conns

LEMMA SendKeeps ==
  ASSUME HubInv, NEW p \in Publishers, NEW s \in Streams, Send(p, s)
  PROVE  HubInv'
<1> DEFINE id == publishing[p].id
<1> USE DEF Send, conns, metric, client
<1>1. Shape /\ Conns /\ Roles /\ SendsToOpenOnly /\ Order /\ NothingBetween
  BY DEF HubInv
<1>2. /\ s \in DOMAIN subs /\ s \in publishing[p].todo
      /\ id \in Known \ finished /\ publishing[p].step = "sending"
      /\ \A n \in Known : id \notin before[n]
      /\ subs[s].device = asked[s] /\ subs[s].ch \in Seq(Nat) /\ Len(subs[s].ch) \in Nat
  BY <1>1, LenProperties DEF Roles, SendsToOpenOnly, Shape
<1>3. /\ \A q \in Publishers \ {p} : publishing'[q] = publishing[q]
      /\ publishing'[p].step = publishing[p].step /\ publishing'[p].id = id
      /\ publishing'[p].todo = publishing[p].todo \ {s}
  BY <1>1 DEF Shape
<1>4. UNCHANGED <<stored, before, finished, asked, caughtUp, shown>> /\ Known' = Known
  BY DEF Known
<1>5. /\ DOMAIN subs' = DOMAIN subs
      /\ \A t \in DOMAIN subs : subs'[t].device = subs[t].device
      /\ \A t \in DOMAIN subs \ {s} : subs'[t] = subs[t]
  <2>1. \/ subs' = subs
        \/ subs' = [subs EXCEPT ![s].ch = Append(@, id)]
    BY DEF Enqueue
  <2>2. CASE subs' = subs
    BY <2>2
  <2>3. CASE subs' = [subs EXCEPT ![s].ch = Append(@, id)]
    <3>1. subs' = [subs EXCEPT ![s] = [subs[s] EXCEPT !.ch = Append(@, id)]]
      BY <2>3
    <3> HIDE DEF Send
    <3> QED
      BY <1>1, <1>2, <3>1 DEF Shape
  <2> QED
    BY <2>1, <2>2, <2>3
<1>6. \/ subs' = subs /\ UNCHANGED lost /\ ~ Matches(s, id)
      \/ subs' = subs /\ lost' = [lost EXCEPT ![s] = @ \cup {id}]
      \/ /\ subs'[s] = [subs[s] EXCEPT !.ch = Append(@, id)]
         /\ Len(subs[s].ch) < Buffer /\ UNCHANGED lost
  BY <1>1, <1>2 DEF HasRoom, Enqueue, Shape
<1> HIDE DEF Send
<1>7. /\ Append(subs[s].ch, id) \in Seq(Nat)
      /\ Len(Append(subs[s].ch, id)) = Len(subs[s].ch) + 1
      /\ Range(Append(subs[s].ch, id)) = Range(subs[s].ch) \cup {id}
      /\ \A i \in 1 .. Len(subs[s].ch) : Append(subs[s].ch, id)[i] = subs[s].ch[i]
      /\ Append(subs[s].ch, id)[Len(subs[s].ch) + 1] = id
  BY <1>2, Longer DEF Known
<1>8. Within(subs[s].ch, Len(stored)) /\ Within(shown[s], Len(stored))
  BY <1>1, <1>2 DEF Shape
<1>9. Shape'
  <2>1. publishing' \in [Publishers -> [step : {"idle", "stored", "sending"},
                                        id   : 0 .. Len(stored), todo : SUBSET Streams]]
    <3>1. publishing' = [publishing EXCEPT ![p].todo = @ \ {s}]
      BY DEF Send
    <3>2. publishing' = [publishing EXCEPT ![p] = [publishing[p] EXCEPT !.todo = @ \ {s}]]
      BY <3>1
    <3>3. publishing[p] \in [step : {"idle", "stored", "sending"}, id : 0 .. Len(stored),
                             todo : SUBSET Streams]
      BY <1>1 DEF Shape
    <3>4. [publishing[p] EXCEPT !.todo = @ \ {s}]
            \in [step : {"idle", "stored", "sending"}, id : 0 .. Len(stored),
                 todo : SUBSET Streams]
      BY <3>3
    <3> QED
      BY <1>1, <3>2, <3>4 DEF Shape
  <2>2. /\ subs'[s] \in [device : Devices, ch : Seq(Nat)]
        /\ Len(subs'[s].ch) <= Buffer /\ Within(subs'[s].ch, Len(stored))
    <3>1. subs[s] \in [device : Devices, ch : Seq(Nat)] /\ Len(subs[s].ch) <= Buffer
      BY <1>1, <1>2 DEF Shape
    <3>2. CASE subs' = subs
      BY <1>8, <3>1, <3>2
    <3>3. CASE subs'[s] = [subs[s] EXCEPT !.ch = Append(@, id)] /\ Len(subs[s].ch) < Buffer
      <4>1. subs'[s].ch = Append(subs[s].ch, id) /\ subs'[s].device = subs[s].device
        BY <3>1, <3>3
      <4>2. Within(Append(subs[s].ch, id), Len(stored))
        BY <1>2, <1>7, <1>8 DEF Within, Known
      <4>3. Len(Append(subs[s].ch, id)) <= Buffer
        BY <1>2, <1>7, <3>3, HubAssumption
      <4>4. subs'[s] \in [device : Devices, ch : Seq(Nat)]
        BY <1>7, <3>1, <3>3
      <4> QED
        BY <4>1, <4>2, <4>3, <4>4
    <3> QED
      BY <1>6, <3>2, <3>3
  <2>3. subs' \in [DOMAIN subs' -> [device : Devices, ch : Seq(Nat)]]
    <3>1. subs' = [t \in DOMAIN subs' |-> subs'[t]]
      BY <1>1, <1>6 DEF Send, Shape
    <3> QED
      BY <1>1, <1>5, <2>2, <3>1 DEF Shape
  <2>4. \A t \in DOMAIN subs' : Len(subs'[t].ch) <= Buffer /\ Within(subs'[t].ch, Len(stored))
    BY <1>1, <1>5, <2>2 DEF Shape
  <2>5. lost' \in [Streams -> SUBSET Known]
    <3>1. lost \in [Streams -> SUBSET Known] /\ id \in Known
      BY <1>1, <1>2 DEF Shape
    <3>2. [lost EXCEPT ![s] = @ \cup {id}] \in [Streams -> SUBSET Known]
      BY <3>1
    <3> QED
      BY <1>6, <3>1, <3>2
  <2> QED
    BY <1>1, <1>4, <1>5, <2>1, <2>3, <2>4, <2>5 DEF Shape
<1>10. Roles'
  <2>1. stage' = stage
    BY DEF Send
  <2> QED
    BY <1>1, <1>3, <1>4, <1>5, <2>1 DEF Roles, Open
<1>11. SendsToOpenOnly'
  BY <1>1, <1>3, <1>5 DEF SendsToOpenOnly
<1>12. Order'
  <2>1. Ordered(subs'[s].ch) /\ Follows(shown[s], subs'[s].ch)
    <3>1. Ordered(subs[s].ch) /\ Follows(shown[s], subs[s].ch)
      BY <1>1, <1>2 DEF Order
    <3>2. CASE subs' = subs
      BY <3>1, <3>2
    <3>3. CASE subs'[s] = [subs[s] EXCEPT !.ch = Append(@, id)]
      <4>1. subs'[s].ch = Append(subs[s].ch, id)
        BY <1>1, <1>2, <3>3 DEF Shape
      <4>2. \A i \in 1 .. Len(subs[s].ch) : id \notin before[subs[s].ch[i]]
        BY <1>2, <1>8 DEF Within, Known
      <4>3. Ordered(Append(subs[s].ch, id))
        BY <1>2, <3>1, <4>2, AppendKeepsOrder DEF Known
      <4>4. \A i \in 1 .. Len(shown[s]) : id \notin before[shown[s][i]]
        BY <1>2, <1>8 DEF Within, Known
      <4>5. Follows(shown[s], Append(subs[s].ch, id))
        BY <1>2, <1>7, <3>1, <4>4 DEF Follows
      <4> QED
        BY <4>1, <4>3, <4>5
    <3> QED
      BY <1>6, <3>2, <3>3
  <2> QED
    BY <1>1, <1>4, <1>5, <2>1 DEF Order, Ordered, Follows
<1>13. NothingBetween'
  <2> SUFFICES ASSUME NEW t \in DOMAIN subs \cap DOMAIN caughtUp,
                      NEW n \in DOMAIN stored, stored[n] = asked[t]
               PROVE  \/ n \in caughtUp[t] \cup lost'[t]
                      \/ n \in Range(shown[t]) \cup Range(subs'[t].ch)
                      \/ UnderWay(t, n)'
    BY <1>4, <1>5 DEF NothingBetween
  <2>1. lost[t] \subseteq lost'[t] /\ Range(subs[t].ch) \subseteq Range(subs'[t].ch)
    <3>1. lost[t] \subseteq lost'[t]
      BY <1>1, <1>6 DEF Shape
    <3>2. CASE t # s
      BY <1>5, <3>1, <3>2
    <3>3. CASE t = s
      <4>1. CASE subs' = subs
        BY <3>1, <4>1
      <4>2. CASE subs'[s] = [subs[s] EXCEPT !.ch = Append(@, id)]
        <5>1. subs'[s].ch = Append(subs[s].ch, id)
          BY <1>1, <1>2, <4>2 DEF Shape
        <5> QED
          BY <1>7, <3>1, <3>3, <5>1
      <4> QED
        BY <1>6, <4>1, <4>2
    <3> QED
      BY <3>2, <3>3
  <2>2. \/ n \in caughtUp[t] \cup lost[t]
        \/ n \in Range(shown[t]) \cup Range(subs[t].ch)
        \/ UnderWay(t, n)
    BY <1>1 DEF NothingBetween
  <2>3. CASE UnderWay(t, n)
    <3>1. PICK q \in Publishers : /\ publishing[q].id = n
                                  /\ publishing[q].step = "stored" \/ t \in publishing[q].todo
      BY <2>3 DEF UnderWay
    <3>2. CASE q = p /\ t = s
      <4>1. Matches(s, id) /\ id = n
        BY <1>2, <3>1, <3>2 DEF Matches
      <4>2. n \in lost'[t] \/ n \in Range(subs'[t].ch)
        <5>1. CASE lost' = [lost EXCEPT ![s] = @ \cup {id}]
          BY <1>1, <3>2, <4>1, <5>1 DEF Shape
        <5>2. CASE subs'[s] = [subs[s] EXCEPT !.ch = Append(@, id)]
          <6>1. subs'[s].ch = Append(subs[s].ch, id)
            BY <1>1, <1>2, <5>2 DEF Shape
          <6> QED
            BY <1>7, <3>2, <4>1, <6>1
        <5> QED
          BY <1>6, <4>1, <5>1, <5>2
      <4> QED
        BY <4>2
    <3>3. CASE q # p \/ t # s
      BY <1>2, <1>3, <3>1, <3>3 DEF UnderWay
    <3> QED
      BY <3>2, <3>3
  <2> QED
    BY <2>1, <2>2, <2>3
<1>14. Conns'
  BY <1>1 DEF Send, Conns
<1> QED
  BY <1>9, <1>10, <1>11, <1>12, <1>13, <1>14 DEF HubInv

(***************************************************************************)
(* Streams.                                                                *)
(***************************************************************************)
LEMMA UpgradeKeeps ==
  ASSUME HubInv, NEW s \in Streams, NEW d \in Devices, Upgrade(s, d)
  PROVE  HubInv'
<1> USE DEF Upgrade, hub, metric
<1>1. Shape /\ Conns /\ Roles /\ SendsToOpenOnly /\ Order /\ NothingBetween
  BY DEF HubInv
<1>2. s \notin DOMAIN subs /\ \A t \in DOMAIN subs : t # s /\ asked'[t] = asked[t]
  BY <1>1 DEF Roles, Open, Conns, Shape
<1>3. \A t \in Streams : Open(t)' <=> Open(t)
  BY <1>1 DEF Open, Conns
<1>4. Shape' /\ Conns'
  BY <1>1 DEF Shape, Conns, Stages, Known
<1>5. Roles'
  <2>1. UNCHANGED <<stored, publishing, finished, before, subs>> /\ Known' = Known
    BY DEF Known
  <2>2. \A t \in Streams : t \in DOMAIN subs' <=> Open(t)'
    BY <1>1, <1>3, <2>1 DEF Roles
  <2> QED
    BY <1>1, <1>2, <2>1, <2>2 DEF Roles
<1>6. SendsToOpenOnly' /\ Order'
  BY <1>1 DEF SendsToOpenOnly, Order, Ordered, Follows
<1>7. NothingBetween'
  BY <1>1, <1>2 DEF NothingBetween, UnderWay
<1> QED
  BY <1>4, <1>5, <1>6, <1>7 DEF HubInv

LEMMA SubscribeKeeps ==
  ASSUME HubInv, NEW s \in Streams, Subscribe(s)
  PROVE  HubInv'
<1> USE DEF Subscribe, metric, client
<1>1. Shape /\ Conns /\ Roles /\ SendsToOpenOnly /\ Order /\ NothingBetween
  BY DEF HubInv
<1>2. s \notin DOMAIN subs /\ s \notin DOMAIN caughtUp
  BY <1>1 DEF Roles, Open, Shape
<1>3. /\ DOMAIN subs' = DOMAIN subs \cup {s}
      /\ subs'[s] = [device |-> asked[s], ch |-> <<>>]
      /\ \A t \in DOMAIN subs : subs'[t] = subs[t]
  BY <1>2 DEF Subscribed, With
<1>4. <<>> \in Seq(Nat) /\ Len(<<>>) = 0 /\ asked[s] \in Devices
  BY <1>1, EmptySeq DEF Conns
<1>5. \A t \in Streams : Open(t)' <=> Open(t) \/ t = s
  BY <1>1 DEF Open, Conns
<1>6. Conns'
  BY <1>1 DEF Conns, Stages
<1>7. Shape'
  <2>1. /\ subs'[s] \in [device : Devices, ch : Seq(Nat)]
        /\ Len(subs'[s].ch) <= Buffer /\ Within(subs'[s].ch, Len(stored))
    BY <1>3, <1>4, HubAssumption DEF Within
  <2>2. subs' \in [DOMAIN subs' -> [device : Devices, ch : Seq(Nat)]]
    <3>1. subs' = [t \in DOMAIN subs' |-> subs'[t]]
      BY DEF Subscribed, With
    <3> QED
      BY <1>1, <1>3, <2>1, <3>1 DEF Shape
  <2>3. UNCHANGED <<stored, publishing, lost, finished, before, shown, caughtUp>>
        /\ Known' = Known
    BY DEF Known
  <2> QED
    BY <1>1, <1>3, <2>1, <2>2, <2>3 DEF Shape
<1>8. Roles'
  <2>1. UNCHANGED <<stored, publishing, finished, before, asked>> /\ Known' = Known
    BY DEF Known
  <2>2. \A t \in Streams : t \in DOMAIN subs' <=> Open(t)'
    BY <1>1, <1>3, <1>5 DEF Roles
  <2>3. \A t \in DOMAIN subs' : subs'[t].device = asked'[t]
    BY <1>1, <1>3, <2>1 DEF Roles
  <2> QED
    BY <1>1, <2>1, <2>2, <2>3 DEF Roles
<1>9. SendsToOpenOnly'
  BY <1>1, <1>3 DEF SendsToOpenOnly
<1>10. Order'
  BY <1>1, <1>3, <1>4 DEF Order, Ordered, Follows
<1>11. NothingBetween'
  BY <1>1, <1>2, <1>3 DEF NothingBetween, UnderWay
<1> QED
  BY <1>6, <1>7, <1>8, <1>9, <1>10, <1>11 DEF HubInv

LEMMA WriteFrameKeeps ==
  ASSUME HubInv, NEW s \in Streams, WriteFrame(s)
  PROVE  HubInv'
<1> DEFINE ch == subs[s].ch
<1>1. Shape /\ Conns /\ Roles /\ SendsToOpenOnly /\ Order /\ NothingBetween
  BY DEF HubInv
<1>2. /\ s \in DOMAIN subs /\ ch \in Seq(Nat) /\ ch # <<>>
      /\ Within(ch, Len(stored)) /\ Ordered(ch) /\ Ordered(shown[s]) /\ Follows(shown[s], ch)
      /\ shown[s] \in Seq(Nat) /\ Within(shown[s], Len(stored)) /\ Len(ch) <= Buffer
      /\ subs[s] \in [device : Devices, ch : Seq(Nat)]
      /\ lost \in [Streams -> SUBSET Known] /\ shown \in [Streams -> Seq(Nat)]
  BY <1>1 DEF WriteFrame, Roles, Open, Shape, Order
<1>3. /\ Head(ch) \in Nat /\ Head(ch) = ch[1] /\ Head(ch) \in Known
      /\ Tail(ch) \in Seq(Nat)
      /\ Len(ch) \in Nat \ {0} /\ Len(Tail(ch)) = Len(ch) - 1
      /\ \A i \in 1 .. Len(Tail(ch)) : Tail(ch)[i] = ch[i + 1]
      /\ Range(ch) = {Head(ch)} \cup Range(Tail(ch))
  BY <1>2, Shorter DEF Within, Known
<1>4. /\ DOMAIN subs' = DOMAIN subs
      /\ subs'[s].ch = Tail(ch) /\ subs'[s].device = subs[s].device
      /\ subs'[s] \in [device : Devices, ch : Seq(Nat)]
      /\ \A t \in DOMAIN subs \ {s} : subs'[t] = subs[t]
      /\ subs' = [t \in DOMAIN subs |-> subs'[t]]
  <2>1. subs' = [subs EXCEPT ![s].ch = Tail(@)]
    BY DEF WriteFrame
  <2>2. subs' = [subs EXCEPT ![s] = [subs[s] EXCEPT !.ch = Tail(ch)]]
    BY <2>1
  <2>3. [subs[s] EXCEPT !.ch = Tail(ch)] \in [device : Devices, ch : Seq(Nat)]
    BY <1>2, <1>3
  <2> QED
    BY <1>1, <1>2, <2>2, <2>3 DEF Shape
<1>5. \/ /\ shown' = [shown EXCEPT ![s] = Append(@, Head(ch))]
         /\ UNCHANGED <<stage, lost>>
      \/ /\ stage' \in {stage, [stage EXCEPT ![s] = "leaving"]}
         /\ lost' = [lost EXCEPT ![s] = @ \cup {Head(ch)}]
         /\ UNCHANGED shown
  BY DEF WriteFrame
<1>6. UNCHANGED <<stored, publishing, finished, before, peer, done, gauge, deferred, asked,
                  caughtUp>> /\ Known' = Known
  BY DEF WriteFrame, metric, Known
<1>7. stage[s] = "looping"
  BY DEF WriteFrame
<1>8. /\ Append(shown[s], Head(ch)) \in Seq(Nat)
      /\ Len(Append(shown[s], Head(ch))) = Len(shown[s]) + 1 /\ Len(shown[s]) \in Nat
      /\ \A i \in 1 .. Len(shown[s]) : Append(shown[s], Head(ch))[i] = shown[s][i]
      /\ Append(shown[s], Head(ch))[Len(shown[s]) + 1] = Head(ch)
      /\ Range(Append(shown[s], Head(ch))) = Range(shown[s]) \cup {Head(ch)}
  BY <1>2, <1>3, Longer, LenProperties
<1>9. Conns' /\ \A t \in Streams : Open(t)' <=> Open(t)
  BY <1>1, <1>5, <1>6, <1>7 DEF Conns, Stages, Open
<1> HIDE DEF ch
<1>9a. /\ shown' = [t \in Streams |-> shown'[t]] /\ lost' = [t \in Streams |-> lost'[t]]
       /\ shown'[s] = shown[s] \/ shown'[s] = Append(shown[s], Head(ch))
       /\ lost'[s] = lost[s] \/ lost'[s] = lost[s] \cup {Head(ch)}
       /\ \A t \in Streams \ {s} : shown'[t] = shown[t] /\ lost'[t] = lost[t]
  <2>1. CASE shown' = [shown EXCEPT ![s] = Append(@, Head(ch))] /\ UNCHANGED <<stage, lost>>
    BY <1>2, <2>1
  <2>2. CASE lost' = [lost EXCEPT ![s] = @ \cup {Head(ch)}] /\ UNCHANGED shown
    BY <1>2, <2>2
  <2> QED
    BY <1>5, <2>1, <2>2
<1>10. Shape'
  <2>1. Within(Tail(ch), Len(stored)) /\ Len(Tail(ch)) <= Buffer
    BY <1>2, <1>3, HubAssumption DEF Within
  <2>2. subs' \in [DOMAIN subs' -> [device : Devices, ch : Seq(Nat)]]
    BY <1>1, <1>4 DEF Shape
  <2>3. \A t \in DOMAIN subs' : Len(subs'[t].ch) <= Buffer /\ Within(subs'[t].ch, Len(stored))
    BY <1>1, <1>4, <2>1 DEF Shape
  <2>4. lost' \in [Streams -> SUBSET Known]
    <3>1. lost'[s] \subseteq Known
      BY <1>2, <1>3, <1>9a
    <3> QED
      BY <1>2, <1>9a, <3>1
  <2>5. Within(Append(shown[s], Head(ch)), Len(stored))
    BY <1>2, <1>3, <1>8 DEF Within, Known
  <2>6. shown' \in [Streams -> Seq(Nat)] /\ \A t \in Streams : Within(shown'[t], Len(stored))
    <3>1. shown'[s] \in Seq(Nat) /\ Within(shown'[s], Len(stored))
      BY <1>2, <1>8, <1>9a, <2>5
    <3> QED
      BY <1>1, <1>2, <1>9a, <3>1 DEF Shape
  <2> QED
    BY <1>1, <1>4, <1>6, <2>2, <2>3, <2>4, <2>6 DEF Shape
<1>11. Roles'
  <2>1. \A t \in DOMAIN subs' : subs'[t].device = asked'[t]
    BY <1>1, <1>4, <1>6 DEF Roles
  <2>2. \A t \in Streams : t \in DOMAIN subs' <=> Open(t)'
    BY <1>1, <1>4, <1>9 DEF Roles
  <2> QED
    BY <1>1, <1>6, <2>1, <2>2 DEF Roles
<1>12. SendsToOpenOnly'
  BY <1>1, <1>4, <1>6 DEF SendsToOpenOnly
<1>13. Order'
  <2>1. /\ Ordered(Tail(ch))
        /\ \A j \in 1 .. Len(Tail(ch)) : Tail(ch)[j] \notin before[Head(ch)]
    BY <1>2, TailKeepsOrder
  <2>2. /\ \A i \in 1 .. Len(shown[s]) : Head(ch) \notin before[shown[s][i]]
        /\ Follows(shown[s], Tail(ch))
    <3>1. Follows(shown[s], ch) /\ 1 \in 1 .. Len(ch) /\ ch[1] = Head(ch)
      BY <1>2, <1>3
    <3>2. ASSUME NEW j \in 1 .. Len(Tail(ch))
          PROVE  j + 1 \in 1 .. Len(ch) /\ Tail(ch)[j] = ch[j + 1]
      BY <1>3
    <3> QED
      BY <3>1, <3>2 DEF Follows
  <2>3. Ordered(Append(shown[s], Head(ch)))
    BY <1>2, <1>3, <2>2, AppendKeepsOrder
  <2>4. Follows(Append(shown[s], Head(ch)), Tail(ch))
    BY <1>8, <2>1, <2>2 DEF Follows
  <2>5. Ordered(shown'[s]) /\ Ordered(subs'[s].ch) /\ Follows(shown'[s], subs'[s].ch)
    BY <1>2, <1>4, <1>9a, <2>1, <2>2, <2>3, <2>4
  <2>6. ASSUME NEW t \in Streams \ {s}
        PROVE  /\ Ordered(shown'[t])
               /\ t \in DOMAIN subs => Ordered(subs'[t].ch) /\ Follows(shown'[t], subs'[t].ch)
    BY <1>1, <1>4, <1>9a DEF Order
  <2>7. ASSUME NEW t \in Streams
        PROVE  /\ Ordered(shown'[t])
               /\ t \in DOMAIN subs => Ordered(subs'[t].ch) /\ Follows(shown'[t], subs'[t].ch)
    BY <2>5, <2>6
  <2> QED
    BY <1>1, <1>4, <1>6, <2>7 DEF Order, Ordered, Follows, Shape
<1>14. NothingBetween'
  <2>1. \A t \in DOMAIN subs :
          lost[t] \cup Range(shown[t]) \cup Range(subs[t].ch)
            \subseteq lost'[t] \cup Range(shown'[t]) \cup Range(subs'[t].ch)
    <3>1. CASE shown' = [shown EXCEPT ![s] = Append(@, Head(ch))] /\ UNCHANGED lost
      BY <1>1, <1>2, <1>3, <1>4, <1>8, <3>1 DEF Shape, ch
    <3>2. CASE lost' = [lost EXCEPT ![s] = @ \cup {Head(ch)}] /\ UNCHANGED shown
      BY <1>1, <1>2, <1>3, <1>4, <3>2 DEF Shape, ch
    <3> QED
      BY <1>5, <3>1, <3>2
  <2> SUFFICES ASSUME NEW t \in DOMAIN subs \cap DOMAIN caughtUp,
                      NEW n \in DOMAIN stored, stored[n] = asked[t]
               PROVE  \/ n \in caughtUp[t] \cup lost'[t]
                      \/ n \in Range(shown'[t]) \cup Range(subs'[t].ch)
                      \/ UnderWay(t, n)
    BY <1>4, <1>6 DEF NothingBetween, UnderWay
  <2> QED
    BY <1>1, <2>1 DEF NothingBetween
<1> QED
  BY <1>9, <1>10, <1>11, <1>12, <1>13, <1>14 DEF HubInv

\* The lock is free: nobody is still to be sent to.
LEMMA UnsubscribeKeeps ==
  ASSUME HubInv, NEW s \in Streams, Unsubscribe(s)
  PROVE  HubInv'
<1> USE DEF Unsubscribe, MayUnsubscribe
<1>1. Shape /\ Conns /\ Roles /\ SendsToOpenOnly /\ Order /\ NothingBetween
  BY DEF HubInv
<1>2. /\ DOMAIN subs' = DOMAIN subs \ {s}
      /\ \A t \in DOMAIN subs' : subs'[t] = subs[t]
      /\ subs' = [t \in DOMAIN subs' |-> subs'[t]]
  BY DEF Without
<1>3. /\ DOMAIN caughtUp' = DOMAIN caughtUp \ {s}
      /\ \A t \in DOMAIN caughtUp' : caughtUp'[t] = caughtUp[t]
      /\ caughtUp' = [t \in DOMAIN caughtUp' |-> caughtUp'[t]]
  BY DEF Without
<1>4. /\ shown'[s] = <<>> /\ lost'[s] = {}
      /\ \A t \in Streams \ {s} : shown'[t] = shown[t] /\ lost'[t] = lost[t]
      /\ shown' = [t \in Streams |-> shown'[t]] /\ lost' = [t \in Streams |-> lost'[t]]
  BY <1>1 DEF Shape
<1>5. <<>> \in Seq(Nat) /\ Len(<<>>) = 0
  BY EmptySeq
<1>6. UNCHANGED <<stored, publishing, finished, before, gauge, deferred, asked>> /\ Known' = Known
  BY DEF metric, Known
<1>7. \A p \in Publishers : publishing[p].todo = {}
  BY <1>1 DEF WriteLock, Readers, Roles
<1>8. \A t \in Streams : Open(t)' <=> Open(t) /\ t # s
  BY <1>1 DEF Open, Conns
<1>9. Conns'
  BY <1>1, <1>6 DEF Conns, Stages
<1> HIDE DEF Unsubscribe, MayUnsubscribe
<1>10. Shape'
  <2>1. /\ subs' \in [DOMAIN subs' -> [device : Devices, ch : Seq(Nat)]]
        /\ DOMAIN subs' \subseteq Streams
        /\ \A t \in DOMAIN subs' : Len(subs'[t].ch) <= Buffer /\ Within(subs'[t].ch, Len(stored))
    BY <1>1, <1>2 DEF Shape
  <2>2. /\ shown' \in [Streams -> Seq(Nat)]
        /\ \A t \in Streams : Within(shown'[t], Len(stored))
    <3>1. shown'[s] \in Seq(Nat) /\ Within(shown'[s], Len(stored))
      BY <1>4, <1>5 DEF Within
    <3> QED
      BY <1>1, <1>4, <3>1 DEF Shape
  <2>3. lost' \in [Streams -> SUBSET Known]
    BY <1>1, <1>4 DEF Shape
  <2>4. /\ DOMAIN caughtUp' \subseteq DOMAIN subs'
        /\ caughtUp' \in [DOMAIN caughtUp' -> SUBSET Known]
    BY <1>1, <1>2, <1>3 DEF Shape
  <2> QED
    BY <1>1, <1>6, <2>1, <2>2, <2>3, <2>4 DEF Shape
<1>11. Roles'
  <2>1. \A t \in DOMAIN subs' : subs'[t].device = asked'[t]
    BY <1>1, <1>2, <1>6 DEF Roles
  <2>2. \A t \in Streams : t \in DOMAIN subs' <=> Open(t)'
    BY <1>1, <1>2, <1>8 DEF Roles
  <2> QED
    BY <1>1, <1>6, <2>1, <2>2 DEF Roles
<1>12. SendsToOpenOnly'
  BY <1>6, <1>7 DEF SendsToOpenOnly
<1>13. Order'
  <2>1. \A t \in DOMAIN subs' : Ordered(subs'[t].ch) /\ Follows(shown'[t], subs'[t].ch)
    BY <1>1, <1>2, <1>4 DEF Order, Shape
  <2>2. \A t \in Streams : Ordered(shown'[t])
    BY <1>1, <1>4, <1>5 DEF Order, Ordered
  <2> QED
    BY <1>6, <2>1, <2>2 DEF Order, Ordered, Follows
<1>14. NothingBetween'
  <2> SUFFICES ASSUME NEW t \in DOMAIN subs' \cap DOMAIN caughtUp',
                      NEW n \in DOMAIN stored, stored[n] = asked[t]
               PROVE  \/ n \in caughtUp'[t] \cup lost'[t]
                      \/ n \in Range(shown'[t]) \cup Range(subs'[t].ch)
                      \/ UnderWay(t, n)
    BY <1>6 DEF NothingBetween, UnderWay
  <2>1. t \in DOMAIN subs \cap DOMAIN caughtUp /\ t # s /\ t \in Streams
    BY <1>1, <1>2, <1>3 DEF Shape
  <2> QED
    BY <1>1, <1>2, <1>3, <1>4, <2>1 DEF NothingBetween
<1> QED
  BY <1>9, <1>10, <1>11, <1>12, <1>13, <1>14 DEF HubInv

LEMMA CatchUpKeeps ==
  ASSUME HubInv, NEW s \in Streams, CatchUp(s)
  PROVE  HubInv'
<1> DEFINE read == {id \in DOMAIN stored : stored[id] = asked[s]}
<1>1. Shape /\ Conns /\ Roles /\ SendsToOpenOnly /\ Order /\ NothingBetween
  BY DEF HubInv
<1>2. UNCHANGED <<stored, publishing, subs, finished, before, lost, stage, peer, done,
                  gauge, deferred, asked, shown>> /\ Known' = Known
  BY DEF CatchUp, hub, conns, metric, Known
<1>3. s \in DOMAIN subs
  BY <1>1 DEF CatchUp, Roles
<1>4. read \subseteq Known
  BY <1>1, LenProperties DEF Shape, Known
<1>5. /\ DOMAIN caughtUp' = DOMAIN caughtUp \cup {s} /\ caughtUp'[s] = read
      /\ \A t \in DOMAIN caughtUp \ {s} : caughtUp'[t] = caughtUp[t]
      /\ caughtUp' = [t \in DOMAIN caughtUp' |-> caughtUp'[t]]
  BY DEF CatchUp, With
<1>6. Shape'
  <2>1. /\ DOMAIN caughtUp' \subseteq DOMAIN subs
        /\ caughtUp' \in [DOMAIN caughtUp' -> SUBSET Known]
    BY <1>1, <1>3, <1>4, <1>5 DEF Shape
  <2> QED
    BY <1>1, <1>2, <2>1 DEF Shape
<1>7. Conns' /\ SendsToOpenOnly' /\ Order'
  BY <1>1, <1>2 DEF Conns, SendsToOpenOnly, Order, Ordered, Follows
<1>8. Roles'
  BY <1>1, <1>2 DEF Roles, Open
<1>9. NothingBetween'
  <2> SUFFICES ASSUME NEW t \in DOMAIN subs \cap DOMAIN caughtUp',
                      NEW n \in DOMAIN stored, stored[n] = asked[t]
               PROVE  \/ n \in caughtUp'[t] \cup lost[t]
                      \/ n \in Range(shown[t]) \cup Range(subs[t].ch)
                      \/ UnderWay(t, n)
    BY <1>2 DEF NothingBetween, UnderWay
  <2>1. CASE t = s
    BY <1>5, <2>1
  <2>2. CASE t # s
    BY <1>1, <1>5, <2>2 DEF NothingBetween
  <2> QED
    BY <2>1, <2>2
<1> QED
  BY <1>6, <1>7, <1>8, <1>9 DEF HubInv

(***************************************************************************)
(* Every step keeps the invariant.                                         *)
(***************************************************************************)
LEMMA HubStep ==
  ASSUME HubInv, [HubNext]_hubVars
  PROVE  HubInv'
<1>1. CASE UNCHANGED hubVars
  BY <1>1 DEF hubVars, hub, conns, metric, client, HubInv, Shape, Conns, Roles, Known, Open,
              SendsToOpenOnly, Order, Ordered, Follows, NothingBetween, UnderWay
<1>2. ASSUME NEW p \in Publishers, NEW d \in Devices, Store(p, d)
      PROVE  HubInv'
  BY <1>2, StoreKeeps
<1>3. ASSUME NEW p \in Publishers, StartSending(p)
      PROVE  HubInv'
  BY <1>3, StartSendingKeeps
<1>4. ASSUME NEW p \in Publishers, StopSending(p)
      PROVE  HubInv'
  BY <1>4, StopSendingKeeps
<1>5. ASSUME NEW p \in Publishers, NEW s \in Streams, Send(p, s)
      PROVE  HubInv'
  BY <1>5, SendKeeps
<1>6. ASSUME NEW s \in Streams, NEW d \in Devices, Upgrade(s, d)
      PROVE  HubInv'
  BY <1>6, UpgradeKeeps
<1>7. ASSUME NEW s \in Streams, Subscribe(s)
      PROVE  HubInv'
  BY <1>7, SubscribeKeeps
<1>8. ASSUME NEW s \in Streams,
             \/ SetGauge(s) \/ DeferGauge(s) \/ ReaderEnds(s) \/ LeaveLoop(s)
             \/ PingFails(s) \/ ResetGauge(s)
             \/ \E how \in {"closed", "silent"} : HangUp(s, how)
      PROVE  HubInv'
  BY <1>8, QuietActions
<1>9. ASSUME NEW s \in Streams, WriteFrame(s)
      PROVE  HubInv'
  BY <1>9, WriteFrameKeeps
<1>10. ASSUME NEW s \in Streams, Unsubscribe(s)
       PROVE  HubInv'
  BY <1>10, UnsubscribeKeeps
<1>11. ASSUME NEW s \in Streams, CatchUp(s)
       PROVE  HubInv'
  BY <1>11, CatchUpKeeps
<1> QED
  BY <1>1, <1>2, <1>3, <1>4, <1>5, <1>6, <1>7, <1>8, <1>9, <1>10, <1>11 DEF HubNext

\* The invariant holds in every state: the streams as a whole are sound.
THEOREM HubSafe == HubSpec => []HubInv
<1>1. HubInit => HubInv
  BY HubStarts
<1>2. HubInv /\ [HubNext]_hubVars => HubInv'
  BY HubStep
<1> QED
  BY <1>1, <1>2, PTL DEF HubSpec

(***************************************************************************)
(* The hub's state is well formed: what is queued, shown, lost or read is  *)
(* stored, and no channel holds more than its capacity.                    *)
(***************************************************************************)
THEOREM HubTyped == HubSpec => []HubTypeOK
<1>1. HubInv => HubTypeOK
  <2> SUFFICES ASSUME HubInv PROVE HubTypeOK
    OBVIOUS
  <2>1. Shape /\ Conns
    BY DEF HubInv
  <2>2. DOMAIN stored = Known /\ DOMAIN before = Known /\ 0 .. Len(stored) \subseteq Ids \cup {0}
    BY <2>1, HubAssumption, LenProperties DEF Shape, Known, Ids
  <2>3. ASSUME NEW seq \in Seq(Nat), Within(seq, Len(stored))
        PROVE  Range(seq) \subseteq Known
    BY <2>3, LenProperties DEF Within, Range, Known
  <2>4. publishing \in [Publishers -> [step : {"idle", "stored", "sending"},
                                       id   : Ids \cup {0}, todo : SUBSET Streams]]
    BY <2>1, <2>2 DEF Shape
  <2>5. \A s \in DOMAIN subs : /\ subs[s].device \in Devices
                               /\ Len(subs[s].ch) <= Buffer
                               /\ Range(subs[s].ch) \subseteq DOMAIN stored
    BY <2>1, <2>2, <2>3 DEF Shape
  <2>6. \A s \in Streams : Range(shown[s]) \cup lost[s] \subseteq DOMAIN stored
    BY <2>1, <2>2, <2>3 DEF Shape
  <2> QED
    BY <2>1, <2>2, <2>4, <2>5, <2>6 DEF HubTypeOK, Shape, Conns
<1> QED
  BY <1>1, HubSafe, PTL

(***************************************************************************)
(* No publisher ever sends on a closed channel: whom it has still to serve *)
(* is registered, however subscriptions come and go.                       *)
(***************************************************************************)
THEOREM OpenOnly == HubSpec => []SendsToOpenOnly
<1>1. HubInv => SendsToOpenOnly
  BY DEF HubInv
<1> QED
  BY <1>1, HubSafe, PTL

(***************************************************************************)
(* A client that subscribes first and reads the history then misses no     *)
(* message that was not lost at a full channel.                            *)
(***************************************************************************)
THEOREM NoGap == HubSpec => []NothingBetween
<1>1. HubInv => NothingBetween
  BY DEF HubInv
<1> QED
  BY <1>1, HubSafe, PTL

(***************************************************************************)
(* A stream shows a message whose publication had ended before another was *)
(* stored before that other one.                                           *)
(***************************************************************************)
THEOREM FramesInOrder == HubSpec => []InOrder
<1>1. HubInv => InOrder
  BY OrderOfFrames DEF HubInv
<1> QED
  BY <1>1, HubSafe, PTL
=============================================================================
