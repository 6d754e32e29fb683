--------------------------- MODULE GotifyStoreProofs ---------------------------
(***************************************************************************)
(* Proofs about GotifyStore, for every set of devices, extras.ids, ttls    *)
(* and caps, every history and every value of the bounds.                  *)
(***************************************************************************)
EXTENDS GotifyStore, FiniteSetTheorems, TLAPS

(***************************************************************************)
(* Numbers.                                                                *)
(***************************************************************************)
(***************************************************************************)
(* The key that a bbolt cursor finds first is a key of the bucket, and     *)
(* none is below it.                                                       *)
(***************************************************************************)
LEMMA LeastIsLeast ==
  ASSUME NEW S \in SUBSET Nat, S # {}
  PROVE  /\ Least(S) \in S
         /\ \A y \in S : Least(S) <= y
<1> DEFINE Lower == {p \in Nat \X Nat : p[1] < p[2]}
<1>1. IsWellFoundedOn(Lower, Nat)
  BY NatLessThanWellFounded DEF OpToRel
<1>2. PICK x \in S : \A y \in S : ~ (<<y, x>> \in Lower)
  <2> HIDE DEF Lower
  <2> QED  BY <1>1, WFMin
<1>3. ASSUME NEW y \in S
      PROVE  x <= y
  <2>1. <<y, x>> \notin Lower
    BY <1>2
  <2> QED
    BY <2>1
<1> QED
  BY <1>3 DEF Least

(***************************************************************************)
(* The key that it finds last, in a bucket whose keys have a bound.        *)
(***************************************************************************)
LEMMA GreatestIsGreatest ==
  ASSUME NEW S \in SUBSET Nat, S # {},
         NEW n \in Nat, \A x \in S : x <= n
  PROVE  /\ Greatest(S) \in S
         /\ \A y \in S : y <= Greatest(S)
<1> DEFINE Below == {n - x : x \in S}
<1>0. \A x \in S : n - x \in Nat
  OBVIOUS
<1>1. Below \in SUBSET Nat /\ Below # {}
  <2>1. Below \subseteq Nat
    BY <1>0
  <2>2. PICK x \in S : TRUE
    OBVIOUS
  <2>3. n - x \in Below
    BY <2>2
  <2> QED
    BY <2>1, <2>3
<1>2. Least(Below) \in Below /\ \A y \in Below : Least(Below) <= y
  BY <1>1, LeastIsLeast
<1>3. PICK x \in S : Least(Below) = n - x
  BY <1>2
<1>4. ASSUME NEW y \in S
      PROVE  y <= x
  <2>1. n - x <= n - y
    BY <1>2, <1>3
  <2> QED
    BY <2>1
<1> QED
  BY <1>4 DEF Greatest

(***************************************************************************)
(* A push evicts no message or one, and a pushDelete removes none or one.  *)
(***************************************************************************)
LEMMA AtMostOne ==
  ASSUME NEW S, S = {} \/ \E v : S = {v}
  PROVE  IsFiniteSet(S) /\ Cardinality(S) \in 0 .. 1
<1>1. CASE S = {}
  BY <1>1, FS_EmptySet
<1>2. ASSUME NEW v, S = {v}
      PROVE  IsFiniteSet(S) /\ Cardinality(S) = 1
  BY <1>2, FS_Singleton
<1> QED
  BY <1>1, <1>2

(***************************************************************************)
(* Rank numbers the elements of a finite set from 1 to its size.           *)
(***************************************************************************)
LEMMA RankNumbers ==
  ASSUME NEW S \in SUBSET Nat, IsFiniteSet(S)
  PROVE  /\ \A k \in S : Rank(k, S) \in 1 .. Cardinality(S)
         /\ \A j, k \in S : Rank(j, S) = Rank(k, S) => j = k
<1> DEFINE Upto(k) == {j \in S : j <= k}
<1>1. Cardinality(S) \in Nat
  BY FS_CardinalityType
<1>2. ASSUME NEW k \in S
      PROVE  IsFiniteSet(Upto(k)) /\ Rank(k, S) \in 1 .. Cardinality(S)
  <2>1. /\ IsFiniteSet(Upto(k))
        /\ Cardinality(Upto(k)) <= Cardinality(S)
    BY FS_Subset, Upto(k) \in SUBSET S
  <2>2. Cardinality(Upto(k)) \in Nat
    BY <2>1, FS_CardinalityType
  <2>3. Cardinality(Upto(k)) # 0
    BY <2>1, FS_EmptySet, k \in Upto(k)
  <2> QED
    BY <1>1, <2>1, <2>2, <2>3 DEF Rank
<1>3. ASSUME NEW j \in S, NEW k \in S, j < k
      PROVE  Rank(j, S) # Rank(k, S)
  <2>1. j \in Nat /\ k \in Nat /\ k \in Upto(k) /\ k \notin Upto(j)
    BY <1>3
  <2>2. Upto(j) \in SUBSET Upto(k)
    <3>1. ASSUME NEW i \in S, i <= j
          PROVE  i <= k
      <4>1. i \in Nat
        OBVIOUS
      <4> QED
        BY <1>3, <2>1, <3>1, <4>1
    <3> QED
      BY <3>1
  <2>3. Cardinality(Upto(k)) # Cardinality(Upto(j))
    BY <1>2, <2>1, <2>2, FS_Subset
  <2> QED
    BY <2>3 DEF Rank
<1>4. ASSUME NEW j \in S, NEW k \in S, Rank(j, S) = Rank(k, S)
      PROVE  j = k
  <2>1. j \in Nat /\ k \in Nat
    OBVIOUS
  <2>2. ~ (j < k)
    BY <1>3, <1>4
  <2>3. ~ (k < j)
    BY <1>3, <1>4
  <2> QED
    BY <2>1, <2>2, <2>3
<1> QED
  BY <1>2, <1>4

(***************************************************************************)
(* The deletion log.                                                       *)
(***************************************************************************)
LogTyped(lg) ==
  /\ DOMAIN lg.rows \subseteq Nat \ {0}
  /\ lg \in [seq   : Nat,
            rows  : [DOMAIN lg.rows -> Deletion],
            byDev : SUBSET (Devices \X Nat),
            byMsg : SUBSET (Devices \X Nat)]
  /\ \A c \in DOMAIN lg.rows : c <= lg.seq

Batch(recs) ==
  /\ DOMAIN recs \subseteq Nat /\ IsFiniteSet(DOMAIN recs)
  /\ recs \in [DOMAIN recs -> Deletion]

(***************************************************************************)
(* The records that are entered get cursors of their own, above all that   *)
(* were ever given, and each is stored under its cursor.                   *)
(***************************************************************************)
LEMMA AddDeletionsRows ==
  ASSUME NEW lg, LogTyped(lg), NEW recs, Batch(recs),
         NEW new, new = AddDeletions(lg, recs),
         NEW fresh, fresh = Fresh(lg, recs),
         NEW cursor, cursor = Cursors(lg, recs)
  PROVE  /\ lg.seq \in Nat /\ new.seq \in Nat /\ new.seq >= lg.seq
         /\ \A k \in fresh :
              /\ cursor[k] \in Nat /\ cursor[k] > lg.seq /\ cursor[k] <= new.seq
              /\ \A j \in fresh : cursor[j] = cursor[k] => j = k
              /\ cursor[k] \in DOMAIN new.rows
              /\ new.rows[cursor[k]] = recs[k]
         /\ \A c \in DOMAIN lg.rows : c \in DOMAIN new.rows /\ new.rows[c] = lg.rows[c]
         /\ DOMAIN new.rows = DOMAIN lg.rows \cup {cursor[k] : k \in fresh}
         /\ \A k \in fresh : k \in DOMAIN recs /\ recs[k] \in Deletion
<1> DEFINE added == {cursor[k] : k \in fresh}
           rows  == [c \in DOMAIN lg.rows \cup added |->
                       IF c \in added THEN recs[CHOOSE k \in fresh : cursor[k] = c]
                                      ELSE lg.rows[c]]
<1>1. /\ new.seq = lg.seq + Cardinality(fresh)
      /\ new.rows = rows
  BY DEF AddDeletions
<1>2. fresh \in SUBSET Nat /\ IsFiniteSet(fresh) /\ Cardinality(fresh) \in Nat
  <2>1. fresh \in SUBSET Nat /\ fresh \in SUBSET DOMAIN recs
    BY DEF Batch, Fresh
  <2> QED
    BY <2>1, FS_Subset, FS_CardinalityType DEF Batch
<1>3. lg.seq \in Nat
  BY DEF LogTyped
<1>4. /\ \A k \in fresh : Rank(k, fresh) \in 1 .. Cardinality(fresh)
      /\ \A j, k \in fresh : Rank(j, fresh) = Rank(k, fresh) => j = k
  BY <1>2, RankNumbers
<1>5. ASSUME NEW k \in fresh
      PROVE  /\ cursor[k] \in Nat /\ cursor[k] > lg.seq
             /\ cursor[k] <= lg.seq + Cardinality(fresh)
             /\ \A j \in fresh : cursor[j] = cursor[k] => j = k
  <2>1. \A j \in fresh : cursor[j] = lg.seq + Rank(j, fresh)
    BY DEF Cursors
  <2>2. \A j \in fresh : Rank(j, fresh) \in Nat /\ Rank(j, fresh) >= 1
                                           /\ Rank(j, fresh) <= Cardinality(fresh)
    BY <1>2, <1>4
  <2> QED
    BY <1>2, <1>3, <1>4, <2>1, <2>2
<1>6. ASSUME NEW k \in fresh
      PROVE  /\ cursor[k] \in DOMAIN new.rows
             /\ new.rows[cursor[k]] = recs[k]
  <2>1. cursor[k] \in added
    OBVIOUS
  <2>2. (CHOOSE j \in fresh : cursor[j] = cursor[k]) = k
    BY <1>5
  <2> QED
    BY <1>1, <2>1, <2>2
<1>7. ASSUME NEW c \in DOMAIN lg.rows
      PROVE  c \in DOMAIN new.rows /\ new.rows[c] = lg.rows[c]
  <2>1. c \in Nat /\ c <= lg.seq
    BY DEF LogTyped
  <2>2. c \notin added
    BY <1>3, <1>5, <2>1
  <2> QED
    BY <1>1, <2>2
<1>8. DOMAIN new.rows = DOMAIN lg.rows \cup {cursor[k] : k \in fresh}
  BY <1>1
<1>9. \A k \in fresh : k \in DOMAIN recs /\ recs[k] \in Deletion
  BY DEF Fresh, Batch
<1>10. /\ new.seq \in Nat /\ new.seq >= lg.seq
       /\ \A k \in fresh : cursor[k] <= new.seq
  BY <1>1, <1>2, <1>3, <1>5
<1> QED
  BY <1>3, <1>5, <1>6, <1>7, <1>8, <1>9, <1>10

(***************************************************************************)
(* What addDeletionTx does to the log, batch by batch: it touches no old   *)
(* row, appends only rows asked for, and each record is entered unless it  *)
(* was already.                                                            *)
(***************************************************************************)
LEMMA AddDeletionsAppends ==
  ASSUME NEW lg, LogTyped(lg), NEW recs, Batch(recs),
         NEW new, new = AddDeletions(lg, recs)
  PROVE  /\ LogTyped(new)
         /\ new.seq >= lg.seq
         /\ \A c \in DOMAIN lg.rows : c \in DOMAIN new.rows /\ new.rows[c] = lg.rows[c]
         /\ \A c \in DOMAIN new.rows \ DOMAIN lg.rows :
              /\ c > lg.seq
              /\ \E k \in DOMAIN recs : new.rows[c] = recs[k]
         /\ \A k \in DOMAIN recs :
              \/ Logged(lg, recs[k])
              \/ \E c \in DOMAIN new.rows : c > lg.seq /\ new.rows[c] = recs[k]
<1> DEFINE fresh  == Fresh(lg, recs)
           cursor == Cursors(lg, recs)
<1>1. /\ new.byDev = lg.byDev \cup {<<recs[k].device, cursor[k]>> : k \in fresh}
      /\ new.byMsg = lg.byMsg \cup
           {MsgKey(recs[k]) : k \in {j \in fresh : recs[j].kind = "single"}}
      /\ new = [seq |-> new.seq, rows |-> new.rows, byDev |-> new.byDev,
                byMsg |-> new.byMsg]
      /\ new.rows = [c \in DOMAIN new.rows |-> new.rows[c]]
  BY DEF AddDeletions
<1>2. /\ lg.seq \in Nat /\ new.seq \in Nat /\ new.seq >= lg.seq
      /\ \A k \in fresh :
           /\ cursor[k] \in Nat /\ cursor[k] > lg.seq /\ cursor[k] <= new.seq
           /\ cursor[k] \in DOMAIN new.rows
           /\ new.rows[cursor[k]] = recs[k]
      /\ \A c \in DOMAIN lg.rows : c \in DOMAIN new.rows /\ new.rows[c] = lg.rows[c]
      /\ DOMAIN new.rows = DOMAIN lg.rows \cup {cursor[k] : k \in fresh}
      /\ \A k \in fresh : k \in DOMAIN recs /\ recs[k] \in Deletion
  BY AddDeletionsRows
<1>3. \A k \in DOMAIN recs : Logged(lg, recs[k]) \/ k \in fresh
  BY DEF Fresh
<1> HIDE DEF fresh, cursor
<1>4. LogTyped(new)
  <2>1. \A c \in DOMAIN new.rows : c \in Nat \ {0} /\ c <= new.seq
    BY <1>2 DEF LogTyped
  <2>2. \A c \in DOMAIN new.rows : new.rows[c] \in Deletion
    BY <1>2 DEF LogTyped
  <2>3. new.rows \in [DOMAIN new.rows -> Deletion]
    BY <1>1, <2>2
  <2>4. new.byDev \in SUBSET (Devices \X Nat)
    BY <1>1, <1>2 DEF LogTyped, Deletion
  <2>5. new.byMsg \in SUBSET (Devices \X Nat)
    BY <1>1, <1>2 DEF LogTyped, Deletion, MsgKey
  <2> QED
    BY <1>1, <1>2, <2>1, <2>3, <2>4, <2>5 DEF LogTyped
<1> QED
  BY <1>2, <1>3, <1>4

(***************************************************************************)
(* Appending keeps the indexes of the log in agreement with its rows, when *)
(* the batch itself names no (device, id) twice.                           *)
(***************************************************************************)
LEMMA AddDeletionsKeepsIndexes ==
  ASSUME NEW lg, LogTyped(lg), IndexesMatchRows(lg), NEW recs, Batch(recs),
         \A j, k \in DOMAIN recs :
           (recs[j].kind = "single" /\ recs[k].kind = "single"
              /\ MsgKey(recs[j]) = MsgKey(recs[k])) => j = k,
         NEW new, new = AddDeletions(lg, recs)
  PROVE  IndexesMatchRows(new)
<1> DEFINE fresh  == Fresh(lg, recs)
           cursor == Cursors(lg, recs)
<1>1. /\ new.byDev = lg.byDev \cup {<<recs[k].device, cursor[k]>> : k \in fresh}
      /\ new.byMsg = lg.byMsg \cup
           {MsgKey(recs[k]) : k \in {j \in fresh : recs[j].kind = "single"}}
  BY DEF AddDeletions
<1>2. /\ \A k \in fresh :
           /\ cursor[k] \in DOMAIN new.rows
           /\ new.rows[cursor[k]] = recs[k]
      /\ \A c \in DOMAIN lg.rows : c \in DOMAIN new.rows /\ new.rows[c] = lg.rows[c]
      /\ DOMAIN new.rows = DOMAIN lg.rows \cup {cursor[k] : k \in fresh}
      /\ \A k \in fresh : k \in DOMAIN recs
  BY AddDeletionsRows
<1>3. \A k \in fresh : recs[k].kind = "single" => MsgKey(recs[k]) \notin lg.byMsg
  BY DEF Fresh, Logged
<1> HIDE DEF fresh, cursor
<1>4. new.byDev = {<<new.rows[c].device, c>> : c \in DOMAIN new.rows}
  BY <1>1, <1>2 DEF IndexesMatchRows
<1>5. SingleRows(new) = SingleRows(lg) \cup
                         {cursor[k] : k \in {j \in fresh : recs[j].kind = "single"}}
  BY <1>2 DEF SingleRows
<1>6. new.byMsg = {MsgKey(new.rows[c]) : c \in SingleRows(new)}
  <2>1. \A c \in SingleRows(lg) : new.rows[c] = lg.rows[c]
    BY <1>2 DEF SingleRows
  <2>2. lg.byMsg = {MsgKey(new.rows[c]) : c \in SingleRows(lg)}
    BY <2>1 DEF IndexesMatchRows
  <2> DEFINE singles == {j \in fresh : recs[j].kind = "single"}
  <2>3. {MsgKey(recs[k]) : k \in singles} =
          {MsgKey(new.rows[c]) : c \in {cursor[k] : k \in singles}}
    BY <1>2
  <2> QED
    BY <1>1, <1>5, <2>2, <2>3
<1>7. ASSUME NEW c \in SingleRows(new), NEW e \in SingleRows(new),
             MsgKey(new.rows[c]) = MsgKey(new.rows[e])
      PROVE  c = e
  <2>1. \A r \in SingleRows(lg) : new.rows[r] = lg.rows[r] /\ MsgKey(lg.rows[r]) \in lg.byMsg
    BY <1>2 DEF SingleRows, IndexesMatchRows
  <2>2. CASE c \in SingleRows(lg) /\ e \in SingleRows(lg)
    BY <1>7, <2>1, <2>2 DEF IndexesMatchRows
  <2>3. CASE c \notin SingleRows(lg) /\ e \notin SingleRows(lg)
    BY <1>2, <1>5, <1>7, <2>3
  <2>4. CASE (c \in SingleRows(lg)) # (e \in SingleRows(lg))
    BY <1>2, <1>3, <1>5, <1>7, <2>1, <2>4
  <2> QED
    BY <2>2, <2>3, <2>4
<1> QED
  BY <1>4, <1>6, <1>7 DEF IndexesMatchRows

(***************************************************************************)
(* Type correctness.  Evicting, deleting by extras.id and purging each     *)
(* pick a lowest or a highest key, which is one of the bucket's keys only  *)
(* because the ids and the cursors given out are bounded by the sequences  *)
(* of their buckets; TypeInv adds that to the type invariant.              *)
(***************************************************************************)
TypeInv ==
  /\ TypeOK
  /\ \A id \in DOMAIN messages : id <= msgSeq
  /\ LogTyped(log)

(***************************************************************************)
(* One row per removed message is a batch of deletion rows.                *)
(***************************************************************************)
LEMMA SinglesAreABatch ==
  ASSUME NEW msgs, NEW ids \in SUBSET Nat, IsFiniteSet(ids), now \in Nat,
         \A id \in ids : msgs[id].device \in Devices
  PROVE  Batch(Singles(msgs, ids))
<1>1. DOMAIN Singles(msgs, ids) = ids
  BY DEF Singles
<1>2. \A id \in ids : Singles(msgs, ids)[id] \in Deletion
  BY DEF Singles, Record, Deletion, Kinds
<1> QED
  BY <1>1, <1>2 DEF Batch, Singles

(***************************************************************************)
(* A transaction that removes stored messages and appends to the log keeps *)
(* the types.                                                              *)
(***************************************************************************)
LEMMA RemovalTyped ==
  ASSUME TypeInv, NEW ids \in SUBSET DOMAIN messages, RemoveMessages(ids),
         NEW keys, ttl' = Delete(ttl, keys), LogTyped(log')
  PROVE  TypeInv'
<1>1. /\ DOMAIN messages' = DOMAIN messages \ ids
      /\ \A id \in DOMAIN messages' : messages'[id] = messages[id]
      /\ messages' = [id \in DOMAIN messages' |-> messages[id]]
  BY DEF RemoveMessages, Delete, Restrict
<1>2. /\ DOMAIN messages' \subseteq Nat \ {0}
      /\ messages' \in [DOMAIN messages' -> Message]
      /\ \A id \in DOMAIN messages' : id <= msgSeq'
  BY <1>1 DEF TypeInv, TypeOK, RemoveMessages
<1>3. IsFiniteSet(ids)
  <2>1. ids \in SUBSET Nat /\ msgSeq \in Nat /\ \A id \in ids : id <= msgSeq
    BY DEF TypeInv, TypeOK
  <2> QED
    BY <2>1, FS_BoundedSetOfNaturals
<1>4. count' \in Nat
  <2>1. Cardinality(ids) \in Nat
    BY <1>3, FS_CardinalityType
  <2> QED
    BY <2>1 DEF TypeInv, TypeOK, RemoveMessages, Less
<1>5. devMsgs' \subseteq Devices \X Nat
  BY DEF TypeInv, TypeOK, RemoveMessages
<1>6. DOMAIN ttl' \subseteq Nat /\ ttl' \in [DOMAIN ttl' -> Nat]
  BY DEF TypeInv, TypeOK, Delete, Restrict
<1>7. DOMAIN removed' \subseteq Nat
      /\ removed' \in [DOMAIN removed' -> [device : Devices, at : Nat]]
  BY DEF TypeInv, TypeOK, RemoveMessages, NoteRemoved, Message, LogTyped
<1> QED
  BY <1>2, <1>4, <1>5, <1>6, <1>7 DEF TypeInv, TypeOK, LogTyped, RemoveMessages

(***************************************************************************)
(* Writing a message under a new id, with the eviction that follows.       *)
(***************************************************************************)
LEMMA InsertTyped ==
  ASSUME TypeInv, NEW d \in Devices, NEW x \in ExtraIDs \cup {NoID},
         NEW b \in Bodies, NEW t \in TTLs \cup {NoTTL}, Insert(d, x, b, t)
  PROVE  TypeInv'
<1> DEFINE id      == msgSeq + 1
           grown   == Put(messages, id, NewMessage(d, x, b, t))
           victims == Evicted(grown)
<1>1. /\ msgSeq' = id
      /\ messages' = Delete(grown, victims)
      /\ devMsgs' = (devMsgs \cup {<<d, id>>}) \ {<<grown[v].device, v>> : v \in victims}
      /\ ttl' = Delete(IF t = NoTTL THEN ttl ELSE Put(ttl, id, now + t), victims)
      /\ count' = count + 1 - Cardinality(victims)
      /\ log' = AddDeletions(log, Singles(grown, victims))
      /\ removed' = [i \in DOMAIN removed \cup (victims \ {id}) |->
                      IF i \in victims \ {id}
                        THEN [device |-> messages[i].device, at |-> log.seq]
                        ELSE removed[i]]
      /\ UNCHANGED <<max, opened, now, forgotten>>
  BY DEF Insert, NoteRemoved
<1>2. /\ t \in Nat /\ now \in Nat /\ msgSeq \in Nat /\ count \in Nat /\ max \in Nat
      /\ id \in Nat \ {0} /\ d \in Devices
  BY ConstantsAssumption DEF TypeInv, TypeOK, NoTTL
<1>3. /\ DOMAIN grown = DOMAIN messages \cup {id}
      /\ \A i \in DOMAIN grown : grown[i] \in Message
      /\ grown = [i \in DOMAIN grown |-> grown[i]]
  <2>1. NewMessage(d, x, b, t) \in Message
    BY <1>2 DEF NewMessage, Message, NoTTL
  <2> QED
    BY <2>1 DEF Put, TypeInv, TypeOK
<1>4. DOMAIN grown \in SUBSET (Nat \ {0}) /\ \A i \in DOMAIN grown : i <= id
  BY <1>2, <1>3 DEF TypeInv, TypeOK
<1>5. victims \in SUBSET DOMAIN grown
  BY <1>3, <1>4, LeastIsLeast DEF Evicted
<1>6. IsFiniteSet(victims) /\ Cardinality(victims) \in 0 .. 1
  <2>1. victims = {} \/ \E v : victims = {v}
    BY DEF Evicted
  <2> QED
    BY <2>1, AtMostOne
<1>7. LogTyped(log')
  <2>1. Batch(Singles(grown, victims))
    <3>1. \A i \in victims : grown[i].device \in Devices
      BY <1>3, <1>5 DEF Message
    <3>2. victims \in SUBSET Nat
      BY <1>4, <1>5
    <3> HIDE DEF grown, victims
    <3> QED
      BY <1>2, <1>6, <3>1, <3>2, SinglesAreABatch
  <2> QED
    BY <1>1, <2>1, AddDeletionsAppends DEF TypeInv
<1> HIDE DEF grown, victims
<1>8. /\ DOMAIN messages' \subseteq Nat \ {0}
      /\ messages' \in [DOMAIN messages' -> Message]
      /\ \A i \in DOMAIN messages' : i <= msgSeq'
  BY <1>1, <1>3, <1>4 DEF Delete, Restrict
<1>9. count' \in Nat
  BY <1>1, <1>2, <1>6
<1>10. devMsgs' \subseteq Devices \X Nat
  BY <1>1, <1>2 DEF TypeInv, TypeOK
<1>11. DOMAIN ttl' \subseteq Nat /\ ttl' \in [DOMAIN ttl' -> Nat]
  BY <1>1, <1>2 DEF TypeInv, TypeOK, Delete, Restrict, Put
<1>12. DOMAIN removed' \subseteq Nat
       /\ removed' \in [DOMAIN removed' -> [device : Devices, at : Nat]]
  <2>1. \A i \in victims \ {id} : i \in Nat /\ messages[i].device \in Devices
    BY <1>3, <1>5 DEF TypeInv, TypeOK, Message
  <2> QED
    BY <1>1, <2>1 DEF TypeInv, TypeOK, LogTyped
<1> QED
  BY <1>1, <1>2, <1>7, <1>8, <1>9, <1>10, <1>11, <1>12
  DEF TypeInv, TypeOK, LogTyped

(***************************************************************************)
(* The newest stored message with an extras.id is a stored message.        *)
(***************************************************************************)
LEMMA NewestMatch ==
  ASSUME TypeInv, NEW d, NEW x, Matches(d, x) # {}
  PROVE  /\ Greatest(Matches(d, x)) \in Matches(d, x)
         /\ Matches(d, x) \subseteq DOMAIN messages
<1>1. /\ Matches(d, x) \in SUBSET Nat /\ Matches(d, x) \subseteq DOMAIN messages
      /\ msgSeq \in Nat /\ \A id \in Matches(d, x) : id <= msgSeq
  BY DEF Matches, TypeInv, TypeOK
<1> QED
  BY <1>1, GreatestIsGreatest

(***************************************************************************)
(* Overwriting a stored message.                                           *)
(***************************************************************************)
LEMMA OverwriteTyped ==
  ASSUME TypeInv, NEW d \in Devices, NEW x \in ExtraIDs, NEW b \in Bodies,
         NEW t \in TTLs \cup {NoTTL}, Matches(d, x) # {}, Overwrite(d, x, b, t)
  PROVE  TypeInv'
<1> DEFINE id == Greatest(Matches(d, x))
<1>1. id \in DOMAIN messages /\ id \in Nat
  BY NewestMatch DEF TypeInv, TypeOK
<1>2. t \in Nat /\ now \in Nat
  BY ConstantsAssumption DEF TypeInv, TypeOK, NoTTL
<1>3. NewMessage(d, x, b, t) \in Message
  BY <1>2 DEF NewMessage, Message, NoTTL
<1>4. /\ messages' = Put(messages, id, NewMessage(d, x, b, t))
      /\ ttl' = IF t = NoTTL THEN ttl ELSE Put(ttl, id, now + t)
      /\ UNCHANGED <<msgSeq, count, devMsgs, log, max, opened, now, history>>
  BY DEF Overwrite
<1> HIDE DEF id
<1>5. DOMAIN messages' = DOMAIN messages /\ messages' \in [DOMAIN messages' -> Message]
  BY <1>1, <1>3, <1>4 DEF Put, TypeInv, TypeOK
<1>6. DOMAIN ttl' \subseteq Nat /\ ttl' \in [DOMAIN ttl' -> Nat]
  BY <1>1, <1>2, <1>4 DEF Put, TypeInv, TypeOK
<1> QED
  BY <1>4, <1>5, <1>6 DEF TypeInv, TypeOK, LogTyped, history

(***************************************************************************)
(* Deleting by id.                                                         *)
(***************************************************************************)
LEMMA DeleteByDeviceTyped ==
  ASSUME TypeInv, NEW scope, NEW id, DeleteByDevice(scope, id)
  PROVE  TypeInv'
<1>1. /\ {id} \in SUBSET DOMAIN messages
      /\ RemoveMessages({id})
      /\ ttl' = Delete(ttl, {id})
      /\ log' = AddDeletions(log, Singles(messages, {id}))
  BY DEF DeleteByDevice
<1>2. Batch(Singles(messages, {id}))
  <2>1. {id} \in SUBSET Nat /\ IsFiniteSet({id}) /\ now \in Nat
    BY <1>1, FS_Singleton DEF TypeInv, TypeOK
  <2>2. \A i \in {id} : messages[i].device \in Devices
    BY <1>1 DEF TypeInv, TypeOK, Message
  <2> QED
    BY <2>1, <2>2, SinglesAreABatch
<1>3. LogTyped(log')
  BY <1>1, <1>2, AddDeletionsAppends DEF TypeInv
<1> QED
  BY <1>1, <1>3, RemovalTyped

(***************************************************************************)
(* Deleting by extras.id.                                                  *)
(***************************************************************************)
LEMMA DeleteByExtraIDTyped ==
  ASSUME TypeInv, NEW d \in Devices, NEW x \in ExtraIDs, DeleteByExtraID(d, x)
  PROVE  TypeInv'
<1> DEFINE ids   == IF Matches(d, x) = {} THEN {} ELSE {Greatest(Matches(d, x))}
           extra == [k \in {x} |-> Record(d, "extra", x)]
           mid   == AddDeletions(log, Singles(messages, ids))
<1>1. /\ RemoveMessages(ids)
      /\ ttl' = Delete(ttl, ids)
      /\ log' = AddDeletions(mid, extra)
  BY DEF DeleteByExtraID
<1>2. ids \in SUBSET DOMAIN messages
  BY NewestMatch
<1>3. IsFiniteSet(ids)
  BY FS_EmptySet, FS_Singleton
<1>4. now \in Nat /\ x \in Nat
  BY ConstantsAssumption DEF TypeInv, TypeOK
<1>5. Batch(extra)
  <2>1. Record(d, "extra", x) \in Deletion
    BY <1>4 DEF Record, Deletion, Kinds
  <2>2. IsFiniteSet({x})
    BY FS_Singleton
  <2> QED
    BY <1>4, <2>1, <2>2 DEF Batch
<1> HIDE DEF ids, extra, mid
<1>6. Batch(Singles(messages, ids))
  <2>1. ids \in SUBSET Nat /\ \A i \in ids : messages[i].device \in Devices
    BY <1>2 DEF TypeInv, TypeOK, Message
  <2> QED
    BY <1>3, <1>4, <2>1, SinglesAreABatch
<1>7. LogTyped(mid)
  BY <1>6, AddDeletionsAppends DEF TypeInv, mid
<1>8. LogTyped(log')
  BY <1>1, <1>5, <1>7, AddDeletionsAppends
<1> QED
  BY <1>1, <1>2, <1>8, RemovalTyped

(***************************************************************************)
(* Purging: the ceiling of each affected device is one of its ids.         *)
(***************************************************************************)
LEMMA CeilingIsAnId ==
  ASSUME TypeInv, NEW ids \in SUBSET DOMAIN messages, NEW d,
         {id \in ids : messages[id].device = d} # {}
  PROVE  /\ Ceiling(d, ids) \in ids
         /\ \A id \in ids : messages[id].device = d => id <= Ceiling(d, ids)
<1> DEFINE S == {id \in ids : messages[id].device = d}
<1>1. S \in SUBSET Nat /\ msgSeq \in Nat /\ \A id \in S : id <= msgSeq
  BY DEF TypeInv, TypeOK
<1>2. Greatest(S) \in S /\ \A id \in S : id <= Greatest(S)
  <2> HIDE DEF S
  <2> QED  BY <1>1, GreatestIsGreatest DEF S
<1> QED
  BY <1>2 DEF Ceiling

(***************************************************************************)
(* Deleting all.                                                           *)
(***************************************************************************)
LEMMA DeleteAllByDeviceTyped ==
  ASSUME TypeInv, NEW scope, DeleteAllByDevice(scope)
  PROVE  TypeInv'
<1> DEFINE ids      == {id \in DOMAIN messages : InScope(scope, id)}
           affected == {messages[id].device : id \in ids}
           recs     == [d \in affected |-> Record(d, "purge", Ceiling(d, ids))]
<1>1. /\ RemoveMessages(ids)
      /\ ttl' = Delete(ttl, ids)
      /\ log' = AddDeletions(log, recs)
  BY DEF DeleteAllByDevice
<1>2. ids \in SUBSET DOMAIN messages
  OBVIOUS
<1>3. affected \in SUBSET Devices
  BY DEF TypeInv, TypeOK, Message
<1>4. ASSUME NEW d \in affected
      PROVE  Ceiling(d, ids) \in Nat
  <2>1. {id \in ids : messages[id].device = d} # {}
    OBVIOUS
  <2>2. Ceiling(d, ids) \in ids
    BY <1>2, <2>1, CeilingIsAnId
  <2> QED
    BY <2>2 DEF TypeInv, TypeOK
<1>5. Batch(recs)
  <2>1. IsFiniteSet(affected)
    BY <1>3, ConstantsAssumption, FS_Subset
  <2>2. affected \in SUBSET Nat /\ now \in Nat
    BY <1>3, ConstantsAssumption DEF TypeInv, TypeOK
  <2>3. \A d \in affected : recs[d] \in Deletion
    BY <1>3, <1>4, <2>2 DEF Record, Deletion, Kinds
  <2> QED
    BY <2>1, <2>2, <2>3 DEF Batch
<1>6. LogTyped(log')
  BY <1>1, <1>5, AddDeletionsAppends DEF TypeInv
<1> QED
  BY <1>1, <1>2, <1>6, RemovalTyped

(***************************************************************************)
(* The ttl sweep.                                                          *)
(***************************************************************************)
LEMMA ExpireMessagesTyped ==
  ASSUME TypeInv, ExpireMessages
  PROVE  TypeInv'
<1> DEFINE due == {id \in DOMAIN ttl : ttl[id] <= now}
           ids == due \cap DOMAIN messages
<1>1. /\ ids \in SUBSET DOMAIN messages
      /\ RemoveMessages(ids)
      /\ ttl' = Delete(ttl, due)
      /\ log' = AddDeletions(log, Singles(messages, ids))
  BY DEF ExpireMessages
<1> HIDE DEF due, ids
<1>2. ids \in SUBSET Nat /\ msgSeq \in Nat /\ now \in Nat
      /\ \A id \in ids : id <= msgSeq /\ messages[id].device \in Devices
  BY <1>1 DEF TypeInv, TypeOK, Message
<1>3. Batch(Singles(messages, ids))
  BY <1>2, FS_BoundedSetOfNaturals, SinglesAreABatch
<1>4. LogTyped(log')
  BY <1>1, <1>3, AddDeletionsAppends DEF TypeInv
<1> QED
  BY <1>1, <1>4, RemovalTyped

(***************************************************************************)
(* The retention sweep.                                                    *)
(***************************************************************************)
LEMMA DropRowsTyped ==
  ASSUME NEW lg, LogTyped(lg), NEW old
  PROVE  /\ LogTyped(DropRows(lg, old))
         /\ DropRows(lg, old).seq = lg.seq
         /\ DOMAIN DropRows(lg, old).rows = DOMAIN lg.rows \ old
         /\ \A c \in DOMAIN lg.rows \ old : DropRows(lg, old).rows[c] = lg.rows[c]
<1> DEFINE new == DropRows(lg, old)
<1>1. /\ new.seq = lg.seq
      /\ new.rows = Delete(lg.rows, old)
      /\ new.byDev \subseteq lg.byDev
      /\ new.byMsg \subseteq lg.byMsg
      /\ new = [seq |-> new.seq, rows |-> new.rows, byDev |-> new.byDev,
                byMsg |-> new.byMsg]
  BY DEF DropRows, LogTyped
<1>2. /\ DOMAIN new.rows = DOMAIN lg.rows \ old
      /\ \A c \in DOMAIN lg.rows \ old : new.rows[c] = lg.rows[c]
      /\ new.rows = [c \in DOMAIN new.rows |-> lg.rows[c]]
  BY <1>1 DEF Delete, Restrict
<1> HIDE DEF new
<1>3. /\ new.rows \in [DOMAIN new.rows -> Deletion]
      /\ new.byDev \in SUBSET (Devices \X Nat)
      /\ new.byMsg \in SUBSET (Devices \X Nat)
      /\ new.seq \in Nat
      /\ \A c \in DOMAIN new.rows : c \in Nat \ {0} /\ c <= new.seq
  BY <1>1, <1>2 DEF LogTyped
<1>4. LogTyped(new)
  BY <1>1, <1>3 DEF LogTyped
<1> QED
  BY <1>1, <1>2, <1>4 DEF new

LEMMA CleanupDeletionsTyped ==
  ASSUME TypeInv, CleanupDeletions
  PROVE  TypeInv'
<1> DEFINE affected == {log.rows[c].device : c \in OldRows}
           recs     == Resets(affected)
           marked   == AddDeletions(log, recs)
           events   == {c \in OldRows : log.rows[c].kind # "reset"}
           lost(d)  == {c \in events : log.rows[c].device = d}
<1>1. /\ log' = DropRows(marked, OldRows)
      /\ forgotten' = [d \in Devices |->
                        IF lost(d) = {} THEN forgotten[d] ELSE Greatest(lost(d))]
      /\ UNCHANGED <<tables, max, opened, now, removed>>
  BY DEF CleanupDeletions
<1>2. Batch(recs)
  <2>1. affected \in SUBSET Devices
    BY DEF OldRows, TypeInv, TypeOK, Deletion
  <2>2. IsFiniteSet(affected) /\ affected \in SUBSET Nat /\ now \in Nat
    BY <2>1, ConstantsAssumption, FS_Subset DEF TypeInv, TypeOK
  <2>3. \A d \in affected : recs[d] \in Deletion
    BY <2>1, <2>2 DEF Resets, Record, Deletion, Kinds
  <2> QED
    BY <2>2, <2>3 DEF Batch, Resets
<1>3. LogTyped(log')
  BY <1>1, <1>2, AddDeletionsAppends, DropRowsTyped DEF TypeInv
<1>4. ASSUME NEW d \in Devices, lost(d) # {}
      PROVE  Greatest(lost(d)) \in Nat
  <2>1. lost(d) \in SUBSET Nat /\ log.seq \in Nat /\ \A c \in lost(d) : c <= log.seq
    BY DEF OldRows, TypeInv, LogTyped
  <2> HIDE DEF lost
  <2> QED
    BY <1>4, <2>1, GreatestIsGreatest
<1>5. forgotten' \in [Devices -> Nat]
  <2> HIDE DEF lost
  <2> QED  BY <1>1, <1>4 DEF TypeInv, TypeOK
<1> QED
  BY <1>1, <1>3, <1>5 DEF TypeInv, TypeOK, LogTyped, tables

(***************************************************************************)
(* Opening a database, an older one included.                              *)
(***************************************************************************)
LEMMA OpenTyped ==
  ASSUME TypeInv, Open
  PROVE  TypeInv'
<1>1. /\ opened' = TRUE /\ max' \in MaxChoices
      /\ UNCHANGED <<messages, msgSeq, count, log, now, removed, forgotten>>
  BY DEF Open, history
<1>2. /\ devMsgs' \subseteq Devices \X Nat
      /\ DOMAIN ttl' \subseteq Nat /\ ttl' \in [DOMAIN ttl' -> Nat]
  <2>1. CASE devMsgs # {} \/ DOMAIN messages = {}
    BY <2>1 DEF Open, MigrateIndexes, TypeInv, TypeOK
  <2>2. CASE ~ (devMsgs # {} \/ DOMAIN messages = {})
    <3>1. /\ devMsgs' = {<<messages[id].device, id>> : id \in DOMAIN messages}
          /\ ttl' = [id \in {i \in DOMAIN messages : messages[i].deadline # NoTTL} |->
                       messages[id].deadline]
      BY <2>2 DEF Open, MigrateIndexes
    <3>2. \A id \in DOMAIN messages : /\ id \in Nat /\ messages[id].device \in Devices
                                      /\ messages[id].deadline \in Nat
      BY DEF TypeInv, TypeOK, Message
    <3> QED
      BY <3>1, <3>2
  <2> QED
    BY <2>1, <2>2
<1> QED
  BY <1>1, <1>2 DEF TypeInv, TypeOK, LogTyped

LEMMA InitTyped ==
  ASSUME Init
  PROVE  TypeInv
<1>1. PICK ids \in SUBSET LegacyIDs :
        /\ messages \in [ids -> [device : Devices, extraID : ExtraIDs \cup {NoID},
                                 body : Bodies, deadline : TTLs \cup {NoTTL}]]
        /\ msgSeq = IF ids = {} THEN 0 ELSE Greatest(ids)
        /\ count = Cardinality(ids)
  BY DEF Init
<1>2. /\ ids \in SUBSET Nat /\ ids \subseteq Nat \ {0} /\ IsFiniteSet(ids)
      /\ \A id \in ids : id <= MaxSeq
      /\ MaxSeq \in Nat
  BY ConstantsAssumption, FS_Subset
<1>3. DOMAIN messages = ids /\ messages \in [ids -> Message]
  <2> DEFINE Legacy == [device : Devices, extraID : ExtraIDs \cup {NoID},
                        body : Bodies, deadline : TTLs \cup {NoTTL}]
  <2>1. Legacy \subseteq Message
    <3>1. TTLs \cup {NoTTL} \subseteq Nat
      BY ConstantsAssumption DEF NoTTL
    <3> QED
      BY <3>1 DEF Message
  <2>2. messages \in [ids -> Legacy]
    BY <1>1
  <2> HIDE DEF Legacy
  <2> QED
    BY <2>1, <2>2
<1>4. msgSeq \in Nat /\ \A id \in ids : id <= msgSeq
  <2>1. CASE ids = {}
    BY <1>1, <2>1
  <2>2. CASE ids # {}
    BY <1>1, <1>2, <2>2, GreatestIsGreatest
  <2> QED
    BY <2>1, <2>2
<1>5. count \in Nat
  BY <1>1, <1>2, FS_CardinalityType
<1>6. LogTyped(log)
  BY DEF Init, EmptyLog, EmptyBucket, LogTyped
<1>7. DOMAIN messages \subseteq Nat \ {0} /\ messages \in [DOMAIN messages -> Message]
  BY <1>2, <1>3
<1> QED
  BY <1>3, <1>4, <1>5, <1>6, <1>7 DEF Init, TypeInv, TypeOK, LogTyped, EmptyBucket

(***************************************************************************)
(* Every step keeps the types.                                             *)
(***************************************************************************)
LEMMA StepTyped ==
  ASSUME TypeInv, [Next]_vars
  PROVE  TypeInv'
<1>1. CASE Open
  BY <1>1, OpenTyped
<1>2. CASE Crash
  BY <1>2 DEF Crash, TypeInv, TypeOK, LogTyped, tables, history
<1>3. ASSUME NEW d \in Devices, NEW b \in Bodies, NEW t \in TTLs \cup {NoTTL}, Add(d, b, t)
      PROVE  TypeInv'
  BY <1>3, InsertTyped DEF Add
<1>4. ASSUME NEW d \in Devices, NEW b \in Bodies, NEW t \in TTLs \cup {NoTTL},
             NEW x \in ExtraIDs, UpsertByExtraID(d, x, b, t)
      PROVE  TypeInv'
  BY <1>4, InsertTyped, OverwriteTyped DEF UpsertByExtraID
<1>5. ASSUME NEW scope \in Devices \cup {Any}, DeleteAllByDevice(scope)
      PROVE  TypeInv'
  BY <1>5, DeleteAllByDeviceTyped
<1>6. ASSUME NEW scope \in Devices \cup {Any}, NEW id \in DOMAIN messages,
             DeleteByDevice(scope, id)
      PROVE  TypeInv'
  BY <1>6, DeleteByDeviceTyped
<1>7. ASSUME NEW d \in Devices, NEW x \in ExtraIDs, DeleteByExtraID(d, x)
      PROVE  TypeInv'
  BY <1>7, DeleteByExtraIDTyped
<1>8. CASE ExpireMessages
  BY <1>8, ExpireMessagesTyped
<1>9. CASE CleanupDeletions
  BY <1>9, CleanupDeletionsTyped
<1>10. CASE Tick
  BY <1>10 DEF Tick, TypeInv, TypeOK, LogTyped, tables, history
<1>11. CASE StepClockBack
  BY <1>11, ConstantsAssumption DEF StepClockBack, TypeInv, TypeOK, LogTyped, tables, history
<1>12. CASE UNCHANGED vars
  BY <1>12 DEF vars, TypeInv, TypeOK, LogTyped
<1> QED
  BY <1>1, <1>2, <1>3, <1>4, <1>5, <1>6, <1>7, <1>8, <1>9, <1>10, <1>11, <1>12
  DEF Next, Publish, Remove, Maintain

(***************************************************************************)
(* In every behaviour of the store all its tables keep their types: each   *)
(* write transaction of store.go, the eviction and the sweeps included.    *)
(***************************************************************************)
THEOREM TypeCorrect == Spec => []TypeOK
<1>1. Init => TypeInv
  BY InitTyped
<1>2. TypeInv /\ [Next]_vars => TypeInv'
  BY StepTyped
<1>3. TypeInv => TypeOK
  BY DEF TypeInv
<1> QED
  BY <1>1, <1>2, <1>3, PTL DEF Spec

(***************************************************************************)
(* What store.go keeps beside the messages bucket, its two indexes and the *)
(* count in meta, always says what that bucket says.                       *)
(***************************************************************************)
IndexInv ==
  /\ TypeInv
  /\ IndexesAgree
  /\ CountExact

(***************************************************************************)
(* The size of a bucket whose ids are bounded.                             *)
(***************************************************************************)
LEMMA MessagesAreFinite ==
  ASSUME TypeInv
  PROVE  IsFiniteSet(DOMAIN messages)
<1>1. /\ DOMAIN messages \in SUBSET Nat /\ msgSeq \in Nat
      /\ \A id \in DOMAIN messages : id <= msgSeq
  BY DEF TypeInv, TypeOK
<1> QED
  BY <1>1, FS_BoundedSetOfNaturals

(***************************************************************************)
(* Removing messages with their index entries.  The ttl rows that go may   *)
(* be more than those of the removed messages.                             *)
(***************************************************************************)
LEMMA RemovalKeepsIndexes ==
  ASSUME IndexInv, TypeInv', opened, NEW ids \in SUBSET DOMAIN messages, RemoveMessages(ids),
         NEW keys, ids \subseteq keys, ttl' = Delete(ttl, keys)
  PROVE  IndexInv'
<1>1. /\ DOMAIN messages' = DOMAIN messages \ ids
      /\ \A id \in DOMAIN messages' : messages'[id] = messages[id]
      /\ devMsgs' = devMsgs \ {<<messages[id].device, id>> : id \in ids}
      /\ count' = Less(Cardinality(ids))
      /\ DOMAIN ttl' = DOMAIN ttl \ keys
  BY DEF RemoveMessages, Delete, Restrict
<1>2. IndexesExact
  BY DEF IndexInv, IndexesAgree, Unmigrated
<1>3. IndexesExact'
  BY <1>1, <1>2 DEF IndexesExact
<1>4. CountExact'
  <2>1. IsFiniteSet(DOMAIN messages)
    BY MessagesAreFinite DEF IndexInv
  <2>2. /\ Cardinality(DOMAIN messages') = Cardinality(DOMAIN messages) - Cardinality(ids)
        /\ Cardinality(ids) <= Cardinality(DOMAIN messages)
        /\ Cardinality(ids) \in Nat /\ Cardinality(DOMAIN messages) \in Nat
    <3>1. DOMAIN messages \cap ids = ids
      OBVIOUS
    <3>2. IsFiniteSet(ids) /\ Cardinality(ids) <= Cardinality(DOMAIN messages)
      BY <2>1, FS_Subset
    <3>3. Cardinality(DOMAIN messages \ ids) = Cardinality(DOMAIN messages) - Cardinality(ids)
      BY <2>1, <3>1, FS_Difference
    <3>4. Cardinality(ids) \in Nat /\ Cardinality(DOMAIN messages) \in Nat
      BY <2>1, <3>2, FS_CardinalityType
    <3> QED
      BY <1>1, <3>2, <3>3, <3>4
  <2>3. count = Cardinality(DOMAIN messages)
    BY DEF IndexInv, CountExact
  <2> QED
    BY <1>1, <2>2, <2>3 DEF CountExact, Less
<1> QED
  BY <1>3, <1>4 DEF IndexInv, IndexesAgree

(***************************************************************************)
(* A new message is entered in both indexes, and the one evicted for it is *)
(* taken out of them; the count steps by the difference.                   *)
(***************************************************************************)
LEMMA InsertKeepsIndexes ==
  ASSUME IndexInv, opened, NEW d \in Devices, NEW x \in ExtraIDs \cup {NoID},
         NEW b \in Bodies, NEW t \in TTLs \cup {NoTTL}, Insert(d, x, b, t)
  PROVE  IndexInv'
<1> DEFINE id      == msgSeq + 1
           grown   == Put(messages, id, NewMessage(d, x, b, t))
           victims == Evicted(grown)
           timed   == IF t = NoTTL THEN ttl ELSE Put(ttl, id, now + t)
<1>1. TypeInv'
  BY InsertTyped DEF IndexInv
<1>2. /\ messages' = Delete(grown, victims)
      /\ devMsgs' = (devMsgs \cup {<<d, id>>}) \ {<<grown[v].device, v>> : v \in victims}
      /\ ttl' = Delete(timed, victims)
      /\ count' = count + 1 - Cardinality(victims)
  BY DEF Insert
<1>3. /\ msgSeq \in Nat /\ count \in Nat
      /\ DOMAIN messages \in SUBSET Nat
      /\ id \notin DOMAIN messages
  BY DEF IndexInv, TypeInv, TypeOK
<1>4. /\ DOMAIN grown = DOMAIN messages \cup {id}
      /\ grown[id].device = d
      /\ \A i \in DOMAIN messages : grown[i] = messages[i]
  BY <1>3 DEF Put, NewMessage
<1>5. victims \in SUBSET DOMAIN grown
  BY <1>3, <1>4, LeastIsLeast DEF Evicted
<1>6. IsFiniteSet(victims) /\ Cardinality(victims) \in 0 .. 1
  <2>1. victims = {} \/ \E v : victims = {v}
    BY DEF Evicted
  <2> QED
    BY <2>1, AtMostOne
<1>7. DOMAIN timed \subseteq DOMAIN ttl \cup {id}
  BY DEF Put
<1> HIDE DEF grown, victims, timed
<1>8. /\ DOMAIN messages' = DOMAIN grown \ victims
      /\ \A i \in DOMAIN messages' : messages'[i] = grown[i]
      /\ DOMAIN ttl' \subseteq DOMAIN timed \ victims
  BY <1>2 DEF Delete, Restrict
<1>9. IndexesExact
  BY DEF IndexInv, IndexesAgree, Unmigrated
<1>10. IndexesExact'
  <2>1. devMsgs \cup {<<d, id>>} = {<<grown[i].device, i>> : i \in DOMAIN grown}
    BY <1>4, <1>9 DEF IndexesExact
  <2>2. devMsgs' = {<<messages'[i].device, i>> : i \in DOMAIN messages'}
    <3>1. devMsgs' = {<<grown[i].device, i>> : i \in DOMAIN grown \ victims}
      BY <1>2, <1>5, <2>1
    <3> QED
      BY <1>8, <3>1
  <2>3. DOMAIN ttl' \subseteq DOMAIN messages'
    BY <1>4, <1>7, <1>8, <1>9 DEF IndexesExact
  <2> QED
    BY <2>2, <2>3 DEF IndexesExact
<1>11. CountExact'
  <2>1. IsFiniteSet(DOMAIN messages) /\ count = Cardinality(DOMAIN messages)
    BY MessagesAreFinite DEF IndexInv, CountExact
  <2>2. IsFiniteSet(DOMAIN grown) /\ Cardinality(DOMAIN grown) = count + 1
    BY <1>3, <1>4, <2>1, FS_AddElement
  <2>3. DOMAIN grown \cap victims = victims
    BY <1>5
  <2>4. Cardinality(DOMAIN messages') = count + 1 - Cardinality(victims)
    <3>1. Cardinality(DOMAIN grown \ victims)
            = Cardinality(DOMAIN grown) - Cardinality(DOMAIN grown \cap victims)
      BY <2>2, FS_Difference
    <3>2. Cardinality(DOMAIN grown \cap victims) = Cardinality(victims)
      BY <2>3, Zenon
    <3>3. Cardinality(DOMAIN messages') = Cardinality(DOMAIN grown \ victims)
      <4>1. DOMAIN messages' = DOMAIN grown \ victims
        BY <1>8
      <4> QED
        BY <4>1, Zenon
    <3> QED
      BY <1>3, <1>6, <2>2, <3>1, <3>2, <3>3
  <2> QED
    BY <1>2, <2>4 DEF CountExact
<1> QED
  BY <1>1, <1>10, <1>11 DEF IndexInv, IndexesAgree

(***************************************************************************)
(* Overwriting touches no index entry but the deadline of the message.     *)
(***************************************************************************)
LEMMA OverwriteKeepsIndexes ==
  ASSUME IndexInv, opened, NEW d \in Devices, NEW x \in ExtraIDs, NEW b \in Bodies,
         NEW t \in TTLs \cup {NoTTL}, Matches(d, x) # {}, Overwrite(d, x, b, t)
  PROVE  IndexInv'
<1> DEFINE id == Greatest(Matches(d, x))
<1>1. TypeInv'
  BY OverwriteTyped DEF IndexInv
<1>2. id \in DOMAIN messages /\ messages[id].device = d
  <2>1. id \in Matches(d, x)
    BY NewestMatch DEF IndexInv
  <2> QED
    BY <2>1 DEF Matches
<1>3. /\ messages' = Put(messages, id, NewMessage(d, x, b, t))
      /\ ttl' = IF t = NoTTL THEN ttl ELSE Put(ttl, id, now + t)
      /\ devMsgs' = devMsgs /\ count' = count
  BY DEF Overwrite
<1> HIDE DEF id
<1>4. /\ DOMAIN messages' = DOMAIN messages
      /\ \A i \in DOMAIN messages' : messages'[i].device = messages[i].device
      /\ DOMAIN ttl' \subseteq DOMAIN ttl \cup {id}
  BY <1>2, <1>3 DEF Put, NewMessage
<1>5. IndexesExact
  BY DEF IndexInv, IndexesAgree, Unmigrated
<1>6. IndexesExact'
  BY <1>2, <1>3, <1>4, <1>5 DEF IndexesExact
<1>7. CountExact'
  BY <1>3, <1>4 DEF IndexInv, CountExact
<1> QED
  BY <1>1, <1>6, <1>7 DEF IndexInv, IndexesAgree

(***************************************************************************)
(* Opening: an index with an entry in it is taken to be complete, and an   *)
(* empty one is filled in from the messages.                               *)
(***************************************************************************)
LEMMA OpenKeepsIndexes ==
  ASSUME IndexInv, Open
  PROVE  IndexInv'
<1>1. TypeInv'
  BY OpenTyped DEF IndexInv
<1>2. messages' = messages /\ count' = count
  BY DEF Open
<1>3. IndexesExact'
  <2>1. CASE devMsgs # {} \/ DOMAIN messages = {}
    <3>1. UNCHANGED <<devMsgs, ttl>>
      BY <2>1 DEF Open, MigrateIndexes
    <3>2. IndexesExact
      BY <2>1 DEF IndexInv, IndexesAgree, IndexesExact, Unmigrated
    <3> QED
      BY <1>2, <3>1, <3>2 DEF IndexesExact
  <2>2. CASE ~ (devMsgs # {} \/ DOMAIN messages = {})
    BY <1>2, <2>2 DEF Open, MigrateIndexes, IndexesExact
  <2> QED
    BY <2>1, <2>2
<1>4. CountExact'
  BY <1>2 DEF IndexInv, CountExact
<1> QED
  BY <1>1, <1>3, <1>4 DEF IndexInv, IndexesAgree

LEMMA CrashKeepsIndexes ==
  ASSUME IndexInv, Crash
  PROVE  IndexInv'
<1>1. TypeInv'
  BY StepTyped DEF IndexInv, Next
<1>2. UNCHANGED <<messages, count, devMsgs, ttl>> /\ opened
  BY DEF Crash, tables
<1> QED
  BY <1>1, <1>2 DEF IndexInv, IndexesAgree, IndexesExact, Unmigrated, CountExact

LEMMA IdleStepKeepsIndexes ==
  ASSUME IndexInv, TypeInv', UNCHANGED <<messages, count, devMsgs, ttl, opened>>
  PROVE  IndexInv'
  BY DEF IndexInv, IndexesAgree, IndexesExact, Unmigrated, CountExact

LEMMA InitHasIndexes ==
  ASSUME Init
  PROVE  IndexInv
<1>1. TypeInv
  BY InitTyped
<1>2. /\ ~ opened /\ devMsgs = {} /\ DOMAIN ttl = {}
      /\ count = Cardinality(DOMAIN messages)
  BY DEF Init, EmptyBucket
<1> QED
  BY <1>1, <1>2 DEF IndexInv, IndexesAgree, Unmigrated, CountExact

LEMMA StepKeepsIndexes ==
  ASSUME IndexInv, [Next]_vars
  PROVE  IndexInv'
<1>1. TypeInv'
  BY StepTyped DEF IndexInv
<1>2. CASE Tick \/ StepClockBack \/ CleanupDeletions \/ UNCHANGED vars
  BY <1>1, <1>2, IdleStepKeepsIndexes
  DEF Tick, StepClockBack, CleanupDeletions, vars, tables, history
<1>3. CASE Open
  BY <1>3, OpenKeepsIndexes
<1>4. CASE Crash
  BY <1>4, CrashKeepsIndexes
<1>5. ASSUME NEW d \in Devices, NEW b \in Bodies, NEW t \in TTLs \cup {NoTTL}, Add(d, b, t)
      PROVE  IndexInv'
  BY <1>5, InsertKeepsIndexes DEF Add
<1>6. ASSUME NEW d \in Devices, NEW b \in Bodies, NEW t \in TTLs \cup {NoTTL},
             NEW x \in ExtraIDs, UpsertByExtraID(d, x, b, t)
      PROVE  IndexInv'
  BY <1>6, InsertKeepsIndexes, OverwriteKeepsIndexes DEF UpsertByExtraID
<1>7. ASSUME NEW scope \in Devices \cup {Any}, DeleteAllByDevice(scope)
      PROVE  IndexInv'
  <2> DEFINE ids == {id \in DOMAIN messages : InScope(scope, id)}
  <2>1. ids \in SUBSET DOMAIN messages /\ RemoveMessages(ids)
        /\ ttl' = Delete(ttl, ids) /\ opened
    BY <1>7 DEF DeleteAllByDevice
  <2> QED
    BY <1>1, <2>1, RemovalKeepsIndexes
<1>8. ASSUME NEW scope \in Devices \cup {Any}, NEW id \in DOMAIN messages,
             DeleteByDevice(scope, id)
      PROVE  IndexInv'
  <2>1. {id} \in SUBSET DOMAIN messages /\ RemoveMessages({id})
        /\ ttl' = Delete(ttl, {id}) /\ opened
    BY <1>8 DEF DeleteByDevice
  <2> QED
    BY <1>1, <2>1, RemovalKeepsIndexes
<1>9. ASSUME NEW d \in Devices, NEW x \in ExtraIDs, DeleteByExtraID(d, x)
      PROVE  IndexInv'
  <2> DEFINE ids == IF Matches(d, x) = {} THEN {} ELSE {Greatest(Matches(d, x))}
  <2>1. ids \in SUBSET DOMAIN messages
    BY NewestMatch DEF IndexInv
  <2>2. RemoveMessages(ids) /\ ttl' = Delete(ttl, ids) /\ opened
    BY <1>9 DEF DeleteByExtraID
  <2> HIDE DEF ids
  <2> QED
    BY <1>1, <2>1, <2>2, RemovalKeepsIndexes
<1>10. CASE ExpireMessages
  <2> DEFINE due == {id \in DOMAIN ttl : ttl[id] <= now}
             ids == due \cap DOMAIN messages
  <2>1. RemoveMessages(ids) /\ ttl' = Delete(ttl, due) /\ opened
    BY <1>10 DEF ExpireMessages
  <2>2. ids \in SUBSET DOMAIN messages /\ ids \subseteq due
    OBVIOUS
  <2> HIDE DEF due, ids
  <2> QED
    BY <1>1, <2>1, <2>2, RemovalKeepsIndexes
<1> QED
  BY <1>2, <1>3, <1>4, <1>5, <1>6, <1>7, <1>8, <1>9, <1>10
  DEF Next, Publish, Remove, Maintain

LEMMA IndexInvHolds == Spec => []IndexInv
<1>1. Init => IndexInv
  BY InitHasIndexes
<1>2. IndexInv /\ [Next]_vars => IndexInv'
  BY StepKeepsIndexes
<1> QED
  BY <1>1, <1>2, PTL DEF Spec

(***************************************************************************)
(* The (device, id) index and the ttl index agree with the messages after  *)
(* every operation, and a database of an older release is repaired before  *)
(* any operation can see it.                                               *)
(***************************************************************************)
THEOREM IndexesAlwaysAgree == Spec => []IndexesAgree
<1>1. IndexInv => IndexesAgree
  BY DEF IndexInv
<1> QED
  BY <1>1, IndexInvHolds, PTL

(***************************************************************************)
(* The count in meta never drifts from the number of stored messages.      *)
(***************************************************************************)
THEOREM CountAlwaysExact == Spec => []CountExact
<1>1. IndexInv => CountExact
  BY DEF IndexInv
<1> QED
  BY <1>1, IndexInvHolds, PTL

(***************************************************************************)
(* One stored message per (device, extras.id): a new row is inserted only  *)
(* when there is none, and an overwritten one keeps both.                  *)
(***************************************************************************)
LEMMA FewerNoTwins ==
  ASSUME NoTwins, DOMAIN messages' \subseteq DOMAIN messages,
         \A id \in DOMAIN messages' :
           /\ messages'[id].device = messages[id].device
           /\ messages'[id].extraID = messages[id].extraID
  PROVE  NoTwins'
BY DEF NoTwins

LEMMA InsertNoTwins ==
  ASSUME TypeInv, NoTwins, NEW d, NEW x, NEW b, NEW t,
         x = NoID \/ Matches(d, x) = {}, Insert(d, x, b, t)
  PROVE  NoTwins'
<1> DEFINE id    == msgSeq + 1
           grown == Put(messages, id, NewMessage(d, x, b, t))
<1>1. messages' = Delete(grown, Evicted(grown))
  BY DEF Insert
<1>2. /\ DOMAIN grown = DOMAIN messages \cup {id}
      /\ grown[id].device = d /\ grown[id].extraID = x
      /\ \A i \in DOMAIN messages \ {id} : grown[i] = messages[i]
  BY DEF Put, NewMessage
<1>3. id \notin DOMAIN messages
  BY DEF TypeInv, TypeOK
<1> HIDE DEF grown, id
<1>4. /\ DOMAIN messages' \subseteq DOMAIN grown
      /\ \A i \in DOMAIN messages' : messages'[i] = grown[i]
  BY <1>1 DEF Delete, Restrict
<1>5. \A i \in DOMAIN messages :
        ~ (messages[i].device = d /\ messages[i].extraID = x /\ x # NoID)
  BY DEF Matches
<1>6. ASSUME NEW i \in DOMAIN messages', NEW j \in DOMAIN messages',
             messages'[i].device = messages'[j].device,
             messages'[i].extraID = messages'[j].extraID, messages'[i].extraID # NoID
      PROVE  i = j \/ {i, j} \subseteq LegacyIDs
  <2>1. CASE i = id \/ j = id
    BY <1>2, <1>3, <1>4, <1>5, <1>6, <2>1
  <2>2. CASE i # id /\ j # id
    <3>1. /\ i \in DOMAIN messages /\ messages'[i] = messages[i]
          /\ j \in DOMAIN messages /\ messages'[j] = messages[j]
      BY <1>2, <1>4, <2>2
    <3> QED
      BY <1>6, <3>1 DEF NoTwins
  <2> QED
    BY <2>1, <2>2
<1> QED
  BY <1>6 DEF NoTwins

LEMMA OverwriteNoTwins ==
  ASSUME TypeInv, NoTwins, NEW d, NEW x, NEW b, NEW t, Matches(d, x) # {},
         Overwrite(d, x, b, t)
  PROVE  NoTwins'
<1> DEFINE id == Greatest(Matches(d, x))
<1>1. messages' = Put(messages, id, NewMessage(d, x, b, t))
  BY DEF Overwrite
<1>2. id \in DOMAIN messages /\ messages[id].device = d /\ messages[id].extraID = x
  <2>1. id \in Matches(d, x)
    BY NewestMatch
  <2> QED
    BY <2>1 DEF Matches
<1> HIDE DEF id
<1>3. /\ DOMAIN messages' = DOMAIN messages
      /\ messages'[id].device = d /\ messages'[id].extraID = x
      /\ \A i \in DOMAIN messages \ {id} : messages'[i] = messages[i]
  BY <1>1, <1>2 DEF Put, NewMessage
<1> QED
  BY <1>2, <1>3, FewerNoTwins

LEMMA RemovalNoTwins ==
  ASSUME NoTwins, NEW ids, RemoveMessages(ids)
  PROVE  NoTwins'
<1>1. /\ DOMAIN messages' \subseteq DOMAIN messages
      /\ \A id \in DOMAIN messages' : messages'[id] = messages[id]
  BY DEF RemoveMessages, Delete, Restrict
<1> QED
  BY <1>1, FewerNoTwins

LEMMA StepNoTwins ==
  ASSUME TypeInv, NoTwins, [Next]_vars
  PROVE  NoTwins'
<1>1. CASE Open \/ Crash \/ Tick \/ StepClockBack \/ CleanupDeletions \/ UNCHANGED vars
  <2>1. messages' = messages
    BY <1>1 DEF Open, Crash, Tick, StepClockBack, CleanupDeletions, vars, tables
  <2> QED
    BY <2>1, FewerNoTwins
<1>2. ASSUME NEW d, NEW b, NEW t, Add(d, b, t)
      PROVE  NoTwins'
  BY <1>2, InsertNoTwins DEF Add
<1>3. ASSUME NEW d, NEW b, NEW t, NEW x, UpsertByExtraID(d, x, b, t)
      PROVE  NoTwins'
  BY <1>3, InsertNoTwins, OverwriteNoTwins DEF UpsertByExtraID
<1>4. ASSUME NEW ids, RemoveMessages(ids)
      PROVE  NoTwins'
  BY <1>4, RemovalNoTwins
<1> QED
  BY <1>1, <1>2, <1>3, <1>4
  DEF Next, Publish, Remove, Maintain, DeleteByDevice, DeleteByExtraID,
      DeleteAllByDevice, ExpireMessages

(***************************************************************************)
(* However often a notification is pushed under one extras.id, one message *)
(* is stored for it; two can only be both from an older release            *)
(* (UpsertByExtraID).                                                      *)
(***************************************************************************)
THEOREM NeverTwins == Spec => []NoTwins
<1>1. Init => NoTwins
  <2> SUFFICES ASSUME Init PROVE NoTwins
    OBVIOUS
  <2>1. DOMAIN messages \subseteq LegacyIDs
    BY DEF Init
  <2> QED
    BY <2>1 DEF NoTwins
<1>2. TypeInv /\ NoTwins /\ [Next]_vars => NoTwins'
  BY StepNoTwins
<1>3. IndexInv => TypeInv
  BY DEF IndexInv
<1> QED
  BY <1>1, <1>2, <1>3, IndexInvHolds, PTL DEF Spec

=============================================================================
