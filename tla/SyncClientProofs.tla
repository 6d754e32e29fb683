---------------------------- MODULE SyncClientProofs ----------------------------
(***************************************************************************)
(* Proofs that the client of SyncClient shows no deleted message for good  *)
(* and misses none, whatever its page size and the store's bounds, over    *)
(* crashes, lost requests and writes between the two transactions of an    *)
(* answer.                                                                 *)
(***************************************************************************)
EXTENDS SyncClient, GotifyStoreSafetyProofs

(***************************************************************************)
(* What the store promises a client from one step to the next.             *)
(***************************************************************************)
(***************************************************************************)
(* No row is ever written over or below another.  A row that goes is below *)
(* all that its device has left, and its device has one left.              *)
(***************************************************************************)
LogGrows ==
  /\ log'.seq >= log.seq
  /\ \A c \in DOMAIN log.rows :
       \/ c \in DOMAIN log'.rows /\ log'.rows[c] = log.rows[c]
       \/ /\ \E e \in DOMAIN log'.rows : log'.rows[e].device = log.rows[c].device
          /\ \A e \in DOMAIN log'.rows : c < e
  /\ \A c \in DOMAIN log'.rows :
       \/ c \in DOMAIN log.rows /\ log'.rows[c] = log.rows[c]
       \/ c > log.seq

LEMMA AppendedGrows ==
  ASSUME TypeInv, TypeInv', Appended(log')
  PROVE  LogGrows
BY DEF LogGrows, Appended

LEMMA SweepGrows ==
  ASSUME SafeInv, CleanupDeletions
  PROVE  LogGrows
<1>1. /\ log'.seq >= log.seq
      /\ \A c \in DOMAIN log.rows \ OldRows :
           c \in DOMAIN log'.rows /\ log'.rows[c] = log.rows[c]
      /\ \A c \in DOMAIN log'.rows :
           \/ c \in DOMAIN log.rows \ OldRows /\ log'.rows[c] = log.rows[c]
           \/ c > log.seq
      /\ \A c \in OldRows :
           \E e \in DOMAIN log'.rows : log'.rows[e].device = log.rows[c].device
      /\ \A c \in OldRows, e \in DOMAIN log.rows \ OldRows : c < e
  BY SweptLog
<1>2. TypeInv'
  BY CleanupDeletionsTyped DEF SafeInv
<1>3. /\ log.seq \in Nat
      /\ \A c \in DOMAIN log.rows : c \in Nat /\ c <= log.seq
      /\ \A c \in DOMAIN log'.rows : c \in Nat
  BY <1>2 DEF SafeInv, TypeInv, LogTyped
<1>4. ASSUME NEW c \in OldRows
      PROVE  \A e \in DOMAIN log'.rows : c < e
  <2>1. c \in DOMAIN log.rows
    BY DEF OldRows
  <2> QED
    BY <1>1, <1>3, <2>1
<1> QED
  BY <1>1, <1>4 DEF LogGrows

LEMMA StepGrows ==
  ASSUME SafeInv, [Next]_vars
  PROVE  LogGrows
<1>1. TypeInv /\ TypeInv'
  BY StepTyped DEF SafeInv
<1>2. CASE log' = log
  BY <1>1, <1>2 DEF LogGrows, TypeInv, LogTyped
<1>3. ASSUME NEW d \in Devices, NEW x, NEW b, NEW t, Insert(d, x, b, t)
      PROVE  LogGrows
  BY <1>1, <1>3, InsertAppends, AppendedGrows
<1>4. ASSUME NEW scope, DeleteAllByDevice(scope)
      PROVE  LogGrows
  BY <1>1, <1>4, DeleteAllAppends, AppendedGrows
<1>5. ASSUME NEW scope, NEW id, DeleteByDevice(scope, id)
      PROVE  LogGrows
  <2>1. {id} \in SUBSET DOMAIN messages /\ log' = AddDeletions(log, Singles(messages, {id}))
    BY <1>5 DEF DeleteByDevice
  <2> QED
    BY <1>1, <2>1, RemovedAreAppended, AppendedGrows
<1>6. ASSUME NEW d \in Devices, NEW x \in ExtraIDs, DeleteByExtraID(d, x)
      PROVE  LogGrows
  BY <1>1, <1>6, DeleteByExtraIDAppends, AppendedGrows
<1>7. CASE ExpireMessages
  <2> DEFINE ids == {id \in DOMAIN ttl : ttl[id] <= now} \cap DOMAIN messages
  <2>1. ids \in SUBSET DOMAIN messages /\ log' = AddDeletions(log, Singles(messages, ids))
    BY <1>7 DEF ExpireMessages
  <2> HIDE DEF ids
  <2> QED
    BY <1>1, <2>1, RemovedAreAppended, AppendedGrows
<1>8. CASE CleanupDeletions
  BY <1>8, SweepGrows
<1> QED
  BY <1>2, <1>3, <1>4, <1>5, <1>6, <1>7, <1>8
  DEF Next, Publish, Remove, Maintain, Add, UpsertByExtraID, Overwrite, Open, Crash,
      Tick, StepClockBack, vars

(***************************************************************************)
(* A stored message keeps its device and extras.id for as long as it is    *)
(* stored, a new one gets an id above all others, and one that goes is     *)
(* noted with the end of the log just before.                              *)
(***************************************************************************)
Keeps(id) ==
  /\ id \in DOMAIN messages
  /\ messages'[id].device = messages[id].device
  /\ messages'[id].extraID = messages[id].extraID

Noted(id) ==
  /\ id \in DOMAIN removed'
  /\ removed'[id].device = messages[id].device
  /\ removed'[id].at = log.seq

MessagesLast ==
  /\ msgSeq' >= msgSeq
  /\ \A id \in DOMAIN messages' : Keeps(id) \/ id > msgSeq
  /\ \A id \in DOMAIN messages \ DOMAIN messages' : Noted(id)

LEMMA RemovalLasts ==
  ASSUME TypeInv, NEW ids, RemoveMessages(ids)
  PROVE  MessagesLast
<1>1. /\ DOMAIN messages' = DOMAIN messages \ ids
      /\ \A id \in DOMAIN messages' : messages'[id] = messages[id]
      /\ msgSeq' = msgSeq /\ msgSeq \in Nat
  BY DEF RemoveMessages, Delete, Restrict, TypeInv, TypeOK
<1>2. \A id \in ids : Noted(id)
  BY DEF RemoveMessages, NoteRemoved, Noted
<1> QED
  BY <1>1, <1>2 DEF MessagesLast, Keeps

LEMMA InsertLasts ==
  ASSUME TypeInv, NEW d, NEW x, NEW b, NEW t, Insert(d, x, b, t)
  PROVE  MessagesLast
<1> DEFINE id      == msgSeq + 1
           grown   == Put(messages, id, NewMessage(d, x, b, t))
           victims == Evicted(grown)
<1>1. /\ messages' = Delete(grown, victims)
      /\ msgSeq' = id /\ msgSeq \in Nat
      /\ NoteRemoved(victims \ {id})
  BY DEF Insert, TypeInv, TypeOK
<1>2. /\ DOMAIN grown = DOMAIN messages \cup {id}
      /\ \A i \in DOMAIN messages \ {id} : grown[i] = messages[i]
  BY DEF Put
<1>3. id \notin DOMAIN messages
  BY DEF TypeInv, TypeOK
<1> HIDE DEF grown, victims
<1>4. /\ DOMAIN messages' = DOMAIN grown \ victims
      /\ \A i \in DOMAIN messages' : messages'[i] = grown[i]
  BY <1>1 DEF Delete, Restrict
<1>5. \A i \in victims \ {id} : Noted(i)
  BY <1>1 DEF NoteRemoved, Noted
<1>6. \A i \in DOMAIN messages' : i = id \/ Keeps(i)
  BY <1>2, <1>4 DEF Keeps
<1>7. \A i \in DOMAIN messages \ DOMAIN messages' : i \in victims \ {id}
  BY <1>2, <1>3, <1>4
<1> QED
  BY <1>1, <1>5, <1>6, <1>7 DEF MessagesLast

LEMMA OverwriteLasts ==
  ASSUME TypeInv, NEW d, NEW x, NEW b, NEW t, Matches(d, x) # {}, Overwrite(d, x, b, t)
  PROVE  MessagesLast
<1> DEFINE id == Greatest(Matches(d, x))
<1>1. /\ id \in DOMAIN messages
      /\ messages[id].device = d /\ messages[id].extraID = x
  <2>1. id \in Matches(d, x)
    BY NewestMatch
  <2> QED
    BY <2>1 DEF Matches
<1>2. /\ messages' = Put(messages, id, NewMessage(d, x, b, t))
      /\ msgSeq' = msgSeq /\ msgSeq \in Nat
  BY DEF Overwrite, TypeInv, TypeOK
<1> HIDE DEF id
<1>3. /\ DOMAIN messages' = DOMAIN messages
      /\ messages'[id].device = d /\ messages'[id].extraID = x
      /\ \A i \in DOMAIN messages \ {id} : messages'[i] = messages[i]
  BY <1>1, <1>2 DEF Put, NewMessage
<1> QED
  BY <1>1, <1>2, <1>3 DEF MessagesLast, Keeps

LEMMA StepLasts ==
  ASSUME TypeInv, [Next]_vars
  PROVE  MessagesLast
<1>1. CASE UNCHANGED <<messages, msgSeq>>
  BY <1>1 DEF MessagesLast, Keeps, TypeInv, TypeOK
<1>2. ASSUME NEW ids, RemoveMessages(ids)
      PROVE  MessagesLast
  BY <1>2, RemovalLasts
<1>3. ASSUME NEW d, NEW x, NEW b, NEW t, Insert(d, x, b, t)
      PROVE  MessagesLast
  BY <1>3, InsertLasts
<1>4. ASSUME NEW d, NEW x, NEW b, NEW t, Matches(d, x) # {}, Overwrite(d, x, b, t)
      PROVE  MessagesLast
  BY <1>4, OverwriteLasts
<1> QED
  BY <1>1, <1>2, <1>3, <1>4
  DEF Next, Publish, Remove, Maintain, Add, UpsertByExtraID, Open, Crash, Tick,
      StepClockBack, CleanupDeletions, DeleteByDevice, DeleteByExtraID,
      DeleteAllByDevice, ExpireMessages, vars, tables

(***************************************************************************)
(* An "extra" row names an extras.id, so it never hits a message that      *)
(* carries none.                                                           *)
(***************************************************************************)
ExtrasNamed(lg) ==
  \A c \in DOMAIN lg.rows : lg.rows[c].kind = "extra" => lg.rows[c].target \in ExtraIDs

LEMMA BatchNames ==
  ASSUME NEW lg, LogTyped(lg), ExtrasNamed(lg), NEW recs, Batch(recs),
         \A k \in DOMAIN recs : recs[k].kind = "extra" => recs[k].target \in ExtraIDs
  PROVE  ExtrasNamed(AddDeletions(lg, recs)) /\ LogTyped(AddDeletions(lg, recs))
<1> DEFINE new == AddDeletions(lg, recs)
<1>1. /\ LogTyped(new)
      /\ \A c \in DOMAIN lg.rows : new.rows[c] = lg.rows[c]
      /\ \A c \in DOMAIN new.rows \ DOMAIN lg.rows :
           \E k \in DOMAIN recs : new.rows[c] = recs[k]
  BY AddDeletionsAppends
<1> HIDE DEF new
<1>2. ExtrasNamed(new)
  BY <1>1 DEF ExtrasNamed
<1> QED
  BY <1>1, <1>2 DEF new

LEMMA SinglesName ==
  ASSUME TypeInv, ExtrasNamed(log), NEW msgs, NEW ids \in SUBSET Nat, NEW n \in Nat,
         \A id \in ids : id <= n /\ msgs[id].device \in Devices
  PROVE  /\ ExtrasNamed(AddDeletions(log, Singles(msgs, ids)))
         /\ LogTyped(AddDeletions(log, Singles(msgs, ids)))
<1>1. Batch(Singles(msgs, ids))
  BY FS_BoundedSetOfNaturals, SinglesAreABatch DEF TypeInv, TypeOK
<1>2. \A id \in DOMAIN Singles(msgs, ids) : Singles(msgs, ids)[id].kind = "single"
  BY DEF Singles, Record
<1> QED
  BY <1>1, <1>2, BatchNames DEF TypeInv

LEMMA RemovedName ==
  ASSUME TypeInv, ExtrasNamed(log), NEW ids \in SUBSET DOMAIN messages
  PROVE  /\ ExtrasNamed(AddDeletions(log, Singles(messages, ids)))
         /\ LogTyped(AddDeletions(log, Singles(messages, ids)))
<1>1. /\ ids \in SUBSET Nat /\ msgSeq \in Nat
      /\ \A id \in ids : id <= msgSeq /\ messages[id].device \in Devices
  BY DEF TypeInv, TypeOK, Message
<1> QED
  BY <1>1, SinglesName

LEMMA InsertNames ==
  ASSUME TypeInv, ExtrasNamed(log), NEW d \in Devices, NEW x, NEW b, NEW t,
         Insert(d, x, b, t)
  PROVE  ExtrasNamed(log')
<1> DEFINE id      == msgSeq + 1
           grown   == Put(messages, id, NewMessage(d, x, b, t))
           victims == Evicted(grown)
<1>1. log' = AddDeletions(log, Singles(grown, victims))
  BY DEF Insert
<1>2. /\ msgSeq \in Nat /\ id \in Nat
      /\ \A i \in DOMAIN messages : i \in Nat /\ i <= id /\ messages[i].device \in Devices
  BY DEF TypeInv, TypeOK, Message
<1>3. /\ DOMAIN grown = DOMAIN messages \cup {id}
      /\ \A i \in DOMAIN grown : i \in Nat /\ i <= id /\ grown[i].device \in Devices
  BY <1>2 DEF Put, NewMessage
<1>4. victims \in SUBSET DOMAIN grown
  BY <1>2, <1>3, LeastIsLeast DEF Evicted
<1> HIDE DEF grown, victims, id
<1> QED
  BY <1>1, <1>2, <1>3, <1>4, SinglesName

LEMMA DeleteByExtraIDNames ==
  ASSUME TypeInv, ExtrasNamed(log), NEW d \in Devices, NEW x \in ExtraIDs,
         DeleteByExtraID(d, x)
  PROVE  ExtrasNamed(log')
<1> DEFINE ids   == IF Matches(d, x) = {} THEN {} ELSE {Greatest(Matches(d, x))}
           extra == [k \in {x} |-> Record(d, "extra", x)]
           mid   == AddDeletions(log, Singles(messages, ids))
<1>1. log' = AddDeletions(mid, extra)
  BY DEF DeleteByExtraID
<1>2. ids \in SUBSET DOMAIN messages
  BY NewestMatch
<1>3. Batch(extra)
  <2>1. Record(d, "extra", x) \in Deletion
    BY ConstantsAssumption DEF TypeInv, TypeOK, Record, Deletion, Kinds
  <2>2. IsFiniteSet({x}) /\ x \in Nat
    BY FS_Singleton, ConstantsAssumption
  <2> QED
    BY <2>1, <2>2 DEF Batch, Record
<1>4. \A k \in DOMAIN extra : extra[k].target \in ExtraIDs
  BY DEF Record
<1> HIDE DEF ids, extra
<1>5. ExtrasNamed(mid) /\ LogTyped(mid)
  BY <1>2, RemovedName
<1> QED
  BY <1>1, <1>3, <1>4, <1>5, BatchNames

LEMMA DeleteAllNames ==
  ASSUME TypeInv, ExtrasNamed(log), NEW scope, DeleteAllByDevice(scope)
  PROVE  ExtrasNamed(log')
<1> DEFINE ids      == {id \in DOMAIN messages : InScope(scope, id)}
           affected == {messages[id].device : id \in ids}
           recs     == [d \in affected |-> Record(d, "purge", Ceiling(d, ids))]
<1>1. log' = AddDeletions(log, recs)
  BY DEF DeleteAllByDevice
<1>2. LogTyped(log')
  BY DeleteAllByDeviceTyped DEF TypeInv
<1>3. ids \in SUBSET DOMAIN messages /\ affected \in SUBSET Devices /\ ids \in SUBSET Nat
  BY DEF TypeInv, TypeOK, Message
<1>4. ASSUME NEW d \in affected
      PROVE  recs[d] \in Deletion /\ recs[d].kind = "purge"
  <2>1. {id \in ids : messages[id].device = d} # {}
    OBVIOUS
  <2>2. Ceiling(d, ids) \in ids
    BY <1>3, <2>1, CeilingIsAnId
  <2> QED
    BY <1>3, <2>2 DEF Record, Deletion, Kinds, TypeInv, TypeOK
<1>5. IsFiniteSet(affected) /\ affected \in SUBSET Nat
  BY <1>3, ConstantsAssumption, FS_Subset
<1>6. Batch(recs) /\ DOMAIN recs = affected
  BY <1>4, <1>5 DEF Batch
<1>7. \A k \in DOMAIN recs : recs[k].kind # "extra"
  BY <1>4, <1>6
<1> HIDE DEF recs
<1> QED
  BY <1>1, <1>6, <1>7, BatchNames DEF TypeInv

LEMMA SweepNames ==
  ASSUME SafeInv, ExtrasNamed(log), CleanupDeletions
  PROVE  ExtrasNamed(log')
<1>1. \A c \in DOMAIN log'.rows :
        \/ c \in DOMAIN log.rows /\ log'.rows[c] = log.rows[c]
        \/ log'.rows[c].kind = "reset"
  BY SweptLog
<1> QED
  BY <1>1 DEF ExtrasNamed

LEMMA StepNames ==
  ASSUME SafeInv, ExtrasNamed(log), [Next]_vars
  PROVE  ExtrasNamed(log')
<1>1. TypeInv
  BY DEF SafeInv
<1>2. ASSUME NEW d \in Devices, NEW x, NEW b, NEW t, Insert(d, x, b, t)
      PROVE  ExtrasNamed(log')
  BY <1>1, <1>2, InsertNames
<1>3. ASSUME NEW scope, DeleteAllByDevice(scope)
      PROVE  ExtrasNamed(log')
  BY <1>1, <1>3, DeleteAllNames
<1>4. ASSUME NEW scope, NEW id, DeleteByDevice(scope, id)
      PROVE  ExtrasNamed(log')
  <2>1. {id} \in SUBSET DOMAIN messages /\ log' = AddDeletions(log, Singles(messages, {id}))
    BY <1>4 DEF DeleteByDevice
  <2> QED
    BY <1>1, <2>1, RemovedName
<1>5. ASSUME NEW d \in Devices, NEW x \in ExtraIDs, DeleteByExtraID(d, x)
      PROVE  ExtrasNamed(log')
  BY <1>1, <1>5, DeleteByExtraIDNames
<1>6. CASE ExpireMessages
  <2> DEFINE ids == {id \in DOMAIN ttl : ttl[id] <= now} \cap DOMAIN messages
  <2>1. ids \in SUBSET DOMAIN messages /\ log' = AddDeletions(log, Singles(messages, ids))
    BY <1>6 DEF ExpireMessages
  <2> HIDE DEF ids
  <2> QED
    BY <1>1, <2>1, RemovedName
<1>7. CASE CleanupDeletions
  BY <1>7, SweepNames
<1>8. CASE log' = log
  BY <1>8
<1> QED
  BY <1>2, <1>3, <1>4, <1>5, <1>6, <1>7, <1>8
  DEF Next, Publish, Remove, Maintain, Add, UpsertByExtraID, Overwrite, Open, Crash,
      Tick, StepClockBack, vars

(***************************************************************************)
(* The store as the client meets it.                                       *)
(***************************************************************************)
StoreInv == SafeInv /\ IndexInv /\ ExtrasNamed(log)

(***************************************************************************)
(* A step of the composition is a step of the store or leaves it alone.    *)
(***************************************************************************)
LEMMA SyncStepIsStoreStep == [SyncNext]_syncVars => [Next]_vars
BY DEF SyncNext, StoreStep, Ask, Lose, ReadMessages, Answer, syncVars

LEMMA StoreInvHolds == SyncSpec => []StoreInv
<1>1. SyncInit => StoreInv
  <2> SUFFICES ASSUME Init PROVE StoreInv
    BY DEF SyncInit
  <2>1. ExtrasNamed(log)
    BY DEF Init, EmptyLog, EmptyBucket, ExtrasNamed
  <2> QED
    BY <2>1, InitIsSafe, InitHasIndexes DEF StoreInv
<1>2. StoreInv /\ [SyncNext]_syncVars => StoreInv'
  BY SyncStepIsStoreStep, StepIsSafe, StepKeepsIndexes, StepNames DEF StoreInv
<1> QED
  BY <1>1, <1>2, PTL DEF SyncSpec

(***************************************************************************)
(* The page of messages that the first transaction reads.                  *)
(***************************************************************************)
LEMMA LiveIsFinite ==
  ASSUME TypeInv
  PROVE  /\ Live \in SUBSET Nat /\ IsFiniteSet(Live) /\ msgSeq \in Nat
         /\ \A id \in Live : id # 0 /\ id <= msgSeq
<1>1. /\ Live \in SUBSET Nat /\ msgSeq \in Nat
      /\ \A id \in Live : id # 0 /\ id <= msgSeq
  BY DEF TypeInv, TypeOK, Live
<1> QED
  BY <1>1, FS_BoundedSetOfNaturals

\* A page holds no more than was asked for.
LEMMA PageIsBounded ==
  ASSUME NEW S \in SUBSET Nat, IsFiniteSet(S), NEW n \in Nat \ {0},
         NEW b \in Nat, \A j \in S : j <= b
  PROVE  Cardinality(FirstOf(S, n)) <= n
<1> DEFINE page == FirstOf(S, n)
<1>1. page \in SUBSET S /\ IsFiniteSet(page)
  BY FS_Subset DEF FirstOf
<1>2. CASE page = {}
  BY <1>2, FS_EmptySet
<1>3. CASE page # {}
  <2>1. PICK top \in page : \A j \in page : j <= top
    <3>1. page \in SUBSET Nat /\ \A j \in page : j <= b
      BY <1>1
    <3> QED
      BY <1>3, <3>1, GreatestIsGreatest
  <2>2. page \subseteq {j \in S : j <= top} /\ Rank(top, S) <= n
    BY <1>1, <2>1 DEF FirstOf
  <2>3. /\ IsFiniteSet({j \in S : j <= top})
        /\ Cardinality(page) <= Rank(top, S)
    BY <2>2, FS_Subset DEF Rank
  <2>4. Cardinality(page) \in Nat /\ Rank(top, S) \in Nat
    BY <1>1, <2>3, FS_CardinalityType DEF Rank
  <2> QED
    BY <2>2, <2>3, <2>4
<1> QED
  BY <1>2, <1>3

\* Forward reading: all the messages above the cursor up to the last of the page.
LEMMA AfterPage ==
  ASSUME StoreInv, opened, NEW after \in Nat, NEW page,
         page = AfterByDevice(Self, after, Limit)
  PROVE  /\ page.ids \subseteq Live
         /\ page.hasMore \in BOOLEAN
         /\ page.hasMore => page.ids # {}
         /\ Cardinality(page.ids) <= Limit
         /\ \A id \in Live, m \in page.ids : after < id /\ id <= m => id \in page.ids
<1> DEFINE found == {id \in Scan(devMsgs, Self) : id > after /\ id \in DOMAIN messages}
<1>1. /\ page.ids = FirstOf(found, Limit)
      /\ page.hasMore = (FirstOf(found, Limit) # found)
  BY DEF AfterByDevice
<1>2. devMsgs = {<<messages[id].device, id>> : id \in DOMAIN messages}
  BY DEF StoreInv, IndexInv, IndexesAgree, IndexesExact, Unmigrated
<1>3. Scan(devMsgs, Self) = Live
  <2>1. ASSUME NEW id \in Scan(devMsgs, Self)
        PROVE  id \in Live
    <3>1. PICK p \in devMsgs : p[1] = Self /\ p[2] = id
      BY DEF Scan
    <3> QED
      BY <1>2, <3>1 DEF Live
  <2>2. ASSUME NEW id \in Live
        PROVE  id \in Scan(devMsgs, Self)
    <3>1. <<Self, id>> \in devMsgs
      BY <1>2 DEF Live
    <3> QED
      BY <3>1 DEF Scan
  <2> QED
    BY <2>1, <2>2
<1>4. found = {id \in Live : id > after}
  BY <1>3 DEF Live
<1> HIDE DEF found
<1>5. /\ found \in SUBSET Nat /\ IsFiniteSet(found) /\ found \subseteq Live
      /\ msgSeq \in Nat /\ \A id \in found : id <= msgSeq
  BY <1>4, LiveIsFinite, FS_Subset DEF StoreInv, SafeInv
<1>6. /\ FirstOf(found, Limit) \subseteq found
      /\ found # {} => FirstOf(found, Limit) # {}
      /\ \A j \in FirstOf(found, Limit), k \in found \ FirstOf(found, Limit) : j < k
  BY <1>5, ClientAssumption, PageIsLowerPart
<1>7. ASSUME NEW id \in Live, NEW m \in page.ids, after < id, id <= m
      PROVE  id \in page.ids
  <2>1. id \in found /\ id \in Nat /\ m \in Nat
    BY <1>1, <1>4, <1>5, <1>6, <1>7
  <2> QED
    BY <1>1, <1>6, <1>7, <2>1
<1>8. Cardinality(page.ids) <= Limit
  BY <1>1, <1>5, ClientAssumption, PageIsBounded
<1> QED
  BY <1>1, <1>5, <1>6, <1>7, <1>8

(***************************************************************************)
(* Backward reading: all the messages below the cursor (0: none), unless   *)
(* more are announced: then those from the lowest of the page on.          *)
(***************************************************************************)
LEMMA RecentPage ==
  ASSUME TypeInv, NEW since \in Nat, NEW page,
         page = RecentPageByDevice(Self, Limit, since)
  PROVE  /\ page.ids \subseteq Live
         /\ page.hasMore \in BOOLEAN
         /\ page.hasMore => page.ids # {}
         /\ Cardinality(page.ids) <= Limit
         /\ since # 0 => \A m \in page.ids : m < since
         /\ \A id \in Live :
              /\ since = 0 \/ id < since
              /\ page.hasMore => \E m \in page.ids : m <= id
              => id \in page.ids
<1> DEFINE found   == {id \in DOMAIN messages : InScope(Self, id) /\ (since = 0 \/ id < since)}
           From(k) == {j \in found : j >= k}
<1>1. /\ page.ids = {id \in found : Cardinality(From(id)) <= Limit}
      /\ page.hasMore = (page.ids # found)
  BY DEF RecentPageByDevice
<1>2. found = {id \in Live : since = 0 \/ id < since}
  BY ConstantsAssumption, ClientAssumption DEF InScope, Live
<1>3. found \in SUBSET Nat /\ IsFiniteSet(found) /\ msgSeq \in Nat
      /\ \A id \in found : id <= msgSeq
  <2>1. found \in SUBSET Live
    BY <1>2
  <2> QED
    BY <2>1, LiveIsFinite, FS_Subset
<1> HIDE DEF found
<1>4. ASSUME NEW k \in found
      PROVE  IsFiniteSet(From(k)) /\ Cardinality(From(k)) \in Nat
  BY <1>3, From(k) \in SUBSET found, FS_Subset, FS_CardinalityType
<1>5. ASSUME NEW m \in page.ids, NEW id \in found, m <= id
      PROVE  id \in page.ids
  <2>1. m \in found /\ m \in Nat /\ id \in Nat
    BY <1>1, <1>3
  <2>2. From(id) \in SUBSET From(m)
    <3>1. ASSUME NEW j \in found, j >= id
          PROVE  j >= m
      <4>1. j \in Nat
        BY <1>3
      <4> QED
        BY <1>5, <2>1, <3>1, <4>1
    <3> QED
      BY <3>1
  <2>3. Cardinality(From(id)) <= Cardinality(From(m))
    BY <1>4, <2>1, <2>2, FS_Subset
  <2>4. Cardinality(From(m)) <= Limit
    BY <1>1
  <2>5. Cardinality(From(id)) \in Nat /\ Cardinality(From(m)) \in Nat /\ Limit \in Nat
    BY <1>4, <2>1, ClientAssumption
  <2>6. Cardinality(From(id)) <= Limit
    BY <2>3, <2>4, <2>5
  <2> QED
    BY <1>1, <2>6
<1>6. ASSUME page.hasMore
      PROVE  page.ids # {}
  <2>1. found # {}
    BY <1>1, <1>6
  <2>2. Greatest(found) \in found /\ \A y \in found : y <= Greatest(found)
    BY <1>3, <2>1, GreatestIsGreatest
  <2>3. From(Greatest(found)) = {Greatest(found)}
    <3>1. ASSUME NEW j \in From(Greatest(found))
          PROVE  j = Greatest(found)
      <4>1. j \in found /\ j >= Greatest(found) /\ j \in Nat /\ Greatest(found) \in Nat
        BY <1>3, <2>2
      <4>2. j <= Greatest(found)
        BY <2>2, <4>1
      <4> QED
        BY <4>1, <4>2
    <3>2. Greatest(found) \in From(Greatest(found))
      BY <1>3, <2>2
    <3> HIDE DEF From
    <3> QED
      BY <3>1, <3>2
  <2>4. Cardinality(From(Greatest(found))) = 1
    BY <2>3, FS_Singleton
  <2> QED
    BY <1>1, <2>2, <2>4, ClientAssumption
<1>7. ASSUME NEW id \in Live, since = 0 \/ id < since,
             page.hasMore => \E m \in page.ids : m <= id
      PROVE  id \in page.ids
  <2>1. id \in found
    BY <1>2, <1>7
  <2>2. CASE page.hasMore
    BY <1>5, <1>7, <2>1, <2>2
  <2>3. CASE ~ page.hasMore
    BY <1>1, <2>1, <2>3
  <2> QED
    BY <2>2, <2>3
<1>8. page.ids \subseteq found /\ page.hasMore \in BOOLEAN
  BY <1>1
<1>9. page.ids \subseteq Live /\ (since # 0 => \A m \in page.ids : m < since)
  BY <1>2, <1>8
<1>10. Cardinality(page.ids) <= Limit
  <2>1. CASE page.ids = {}
    BY <2>1, FS_EmptySet, ClientAssumption
  <2>2. CASE page.ids # {}
    <3>1. page.ids \in SUBSET Nat
      BY <1>3, <1>8
    <3>2. Least(page.ids) \in page.ids /\ \A m \in page.ids : Least(page.ids) <= m
      BY <2>2, <3>1, LeastIsLeast
    <3>3. Least(page.ids) \in found /\ page.ids \subseteq From(Least(page.ids))
      BY <1>3, <1>8, <3>1, <3>2
    <3>4. /\ Cardinality(page.ids) \in Nat
          /\ Cardinality(page.ids) <= Cardinality(From(Least(page.ids)))
      BY <1>4, <3>3, FS_Subset, FS_CardinalityType
    <3>5. Cardinality(From(Least(page.ids))) <= Limit
      BY <1>1, <3>2
    <3> QED
      BY <1>4, <3>3, <3>4, <3>5, ClientAssumption
  <2> QED
    BY <2>1, <2>2
<1> QED
  BY <1>6, <1>7, <1>8, <1>9, <1>10

(***************************************************************************)
(* The page of deletions that the second transaction reads: whatever it    *)
(* names, a row of the device names; its cursor is one of the device's     *)
(* rows; and a client below all of these is told to start afresh.          *)
(***************************************************************************)
Named(targets, kind) ==
  \A t \in targets : \E c \in DeviceRows(Self) : log.rows[c].kind = kind /\ log.rows[c].target = t

LEMMA TargetsAreNamed ==
  ASSUME NEW S \in SUBSET DeviceRows(Self), NEW kind
  PROVE  Named(Targets(S, kind), kind)
BY DEF Named, Targets

LEMMA DeletionPage ==
  ASSUME SafeInv, NEW since \in Nat, NEW page, page = DeletionsByDevice(Self, since)
  PROVE  /\ Named(page.ids, "single")
         /\ Named(page.purges, "purge")
         /\ Named(page.extraIDs, "extra")
         /\ page.reset \in BOOLEAN
         /\ page.cursor \in Nat /\ page.cursor <= log.seq
         /\ DeviceRows(Self) # {} => page.cursor # 0
         /\ since # 0 /\ ~ page.reset => ~ BelowAllRows(Self, since)
<1> DEFINE mine   == Scan(log.byDev, Self)
           events == Events(Self, since)
           onPage == FirstOf(events, PageLimit)
<1>1. mine = DeviceRows(Self)
  BY ScanIsRows DEF SafeInv
<1>2. /\ log.seq \in Nat
      /\ \A c \in DOMAIN log.rows : c \in Nat /\ c # 0 /\ c <= log.seq
  BY DEF SafeInv, TypeInv, LogTyped
<1>3. /\ mine \in SUBSET Nat /\ \A c \in mine : c # 0 /\ c <= log.seq
      /\ events \in SUBSET mine
  BY <1>1, <1>2 DEF DeviceRows, Events
<1>4. onPage \in SUBSET events /\ (events # {} => onPage # {})
  <2>1. events \in SUBSET Nat /\ IsFiniteSet(events)
    <3> HIDE DEF events
    <3> QED  BY <1>2, <1>3, FS_BoundedSetOfNaturals, FS_Subset
  <2> HIDE DEF events
  <2> QED
    BY <2>1, ConstantsAssumption, PageIsLowerPart
<1>5. page = IF mine = {} THEN Page({}, 0, FALSE, FALSE)
             ELSE IF since = 0 THEN Page({}, Greatest(mine), FALSE, FALSE)
             ELSE IF since < Least(mine) THEN Page({}, Greatest(mine), FALSE, TRUE)
             ELSE IF onPage = events THEN Page(events, Greatest(mine), FALSE, FALSE)
             ELSE Page(onPage, Greatest(onPage), TRUE, FALSE)
  BY DEF DeletionsByDevice
<1> HIDE DEF mine, events, onPage
<1>6. mine # {} => /\ Greatest(mine) \in mine
                   /\ Least(mine) \in mine
  BY <1>2, <1>3, GreatestIsGreatest, LeastIsLeast
<1>7. onPage # {} => Greatest(onPage) \in onPage
  <2>1. onPage \in SUBSET Nat /\ \A c \in onPage : c <= log.seq
    BY <1>3, <1>4
  <2> QED
    BY <1>2, <2>1, GreatestIsGreatest
<1>8. /\ Named(page.ids, "single") /\ Named(page.purges, "purge")
      /\ Named(page.extraIDs, "extra")
  <2>1. PICK S \in SUBSET DeviceRows(Self) :
          /\ page.ids = Targets(S, "single")
          /\ page.purges = Targets(S, "purge")
          /\ page.extraIDs = Targets(S, "extra")
    <3>1. \E S \in {{}, events, onPage} :
            /\ page.ids = Targets(S, "single")
            /\ page.purges = Targets(S, "purge")
            /\ page.extraIDs = Targets(S, "extra")
      BY <1>5 DEF Page
    <3>2. {{}, events, onPage} \subseteq SUBSET DeviceRows(Self)
      BY <1>1, <1>3, <1>4
    <3> QED
      BY <3>1, <3>2
  <2> QED
    BY <2>1, TargetsAreNamed
<1>9. /\ page.reset \in BOOLEAN
      /\ mine = {} => page.cursor = 0
      /\ mine # {} => page.cursor \in mine
  <2>1. onPage # events => Greatest(onPage) \in mine
    BY <1>3, <1>4, <1>7
  <2>2. /\ page.reset \in BOOLEAN
        /\ mine = {} => page.cursor = 0
        /\ mine # {} => \/ page.cursor = Greatest(mine)
                        \/ onPage # events /\ page.cursor = Greatest(onPage)
    BY <1>5 DEF Page
  <2> QED
    BY <1>6, <2>1, <2>2
<1>10. ASSUME since # 0, BelowAllRows(Self, since)
       PROVE  page.reset
  <2>1. mine # {} /\ since < Least(mine)
    BY <1>1, <1>6, <1>10 DEF BelowAllRows
  <2> QED
    BY <1>5, <1>10, <2>1 DEF Page
<1> QED
  BY <1>1, <1>2, <1>3, <1>8, <1>9, <1>10

(***************************************************************************)
(* What the client does with an answer.                                    *)
(***************************************************************************)
Hit(page, id, extraID) ==
  \/ id \in page.ids
  \/ \E ceiling \in page.purges : id <= ceiling
  \/ extraID \in page.extraIDs

(***************************************************************************)
(* What the client holds, and what an answer under way brings it, is known *)
(* by an id that the store gave out to a message of its device: as long as *)
(* that is stored it has the same extras.id, and no later message gets the *)
(* id again.                                                               *)
(***************************************************************************)
Copies(f) ==
  \A id \in DOMAIN f :
    /\ id \in Nat \ {0} /\ id <= msgSeq
    /\ id \in DOMAIN messages =>
         /\ messages[id].device = Self
         /\ messages[id].extraID = f[id].extraID

Held ==
  /\ SyncTypeOK
  /\ Copies(local) /\ Copies(request.msgs)
  /\ high <= msgSeq /\ before <= msgSeq
  /\ mode # "follow" /\ before = 0 => DOMAIN local = {}
  /\ request.hasMore => DOMAIN request.msgs # {}

LEMMA NoRequestFacts ==
  /\ NoRequest.stage = "none" /\ NoRequest.hasMore = FALSE /\ DOMAIN NoRequest.msgs = {}
  /\ NoRequest.msgs \in [DOMAIN NoRequest.msgs -> Content]
  /\ [NoRequest EXCEPT !.stage = "sent"].stage = "sent"
  /\ [NoRequest EXCEPT !.stage = "sent"].hasMore = FALSE
  /\ [NoRequest EXCEPT !.stage = "sent"].msgs = NoRequest.msgs
  /\ Cardinality(DOMAIN NoRequest.msgs) <= Limit
<1>1. DOMAIN NoRequest.msgs = {} /\ Cardinality({}) <= Limit
  BY FS_EmptySet, ClientAssumption DEF NoRequest, EmptyBucket
<1> QED
  BY <1>1 DEF NoRequest, EmptyBucket

LEMMA InitHeld ==
  ASSUME SyncInit
  PROVE  Held
<1>1. TypeInv
  BY InitTyped DEF SyncInit
<1>2. /\ DOMAIN local = {} /\ local \in [DOMAIN local -> Content]
      /\ cursor = 0 /\ high = 0 /\ before = 0 /\ request = NoRequest
      /\ mode \in {"baseline", "first"} /\ msgSeq \in Nat /\ TypeOK
  BY <1>1 DEF SyncInit, EmptyBucket, StartMode, TypeInv, TypeOK
<1>3. SyncTypeOK
  <2>1. log.seq \in Nat
    BY <1>1 DEF TypeInv, LogTyped
  <2>2. cursor \in Nat /\ cursor <= log.seq
    BY <1>2, <2>1
  <2>3. /\ request.stage = "none" /\ request.hasMore = FALSE
        /\ request.msgs \in [DOMAIN request.msgs -> Content]
        /\ Cardinality(DOMAIN request.msgs) <= Limit
    BY <1>2, NoRequestFacts
  <2> QED
    BY <1>2, <2>2, <2>3 DEF SyncTypeOK, Modes
<1>4. Copies(local) /\ Copies(request.msgs)
  BY <1>2, NoRequestFacts DEF Copies
<1> QED
  BY <1>2, <1>3, <1>4, NoRequestFacts DEF Held

LEMMA StoreStepHeld ==
  ASSUME StoreInv, StoreInv', Held, StoreStep
  PROVE  Held'
<1>1. MessagesLast
  BY StepLasts DEF StoreInv, SafeInv, StoreStep
<1>2. TypeOK' /\ msgSeq \in Nat /\ msgSeq' \in Nat
  BY DEF StoreInv, SafeInv, TypeInv, TypeOK
<1>3. /\ UNCHANGED <<mode, local, cursor, high, before>>
      /\ request' = IF opened' THEN request ELSE NoRequest
  BY DEF StoreStep, client
<1>4. Copies(local)'
  BY <1>1, <1>2, <1>3 DEF Copies, Held, MessagesLast, Keeps
<1>5. Copies(request.msgs)'
  <2>1. CASE request' = request
    BY <1>1, <1>2, <2>1 DEF Copies, Held, MessagesLast, Keeps
  <2>2. CASE request' = NoRequest
    BY <2>2, NoRequestFacts DEF Copies
  <2> QED
    BY <1>3, <2>1, <2>2
<1>6. high' <= msgSeq' /\ before' <= msgSeq'
  BY <1>1, <1>2, <1>3 DEF Held, SyncTypeOK, MessagesLast
<1>7. SyncTypeOK' /\ (request.hasMore => DOMAIN request.msgs # {})'
  <2>1. /\ log'.seq >= log.seq
        /\ log.seq \in Nat /\ log'.seq \in Nat
    BY StepGrows DEF StoreInv, SafeInv, StoreStep, LogGrows, TypeInv, LogTyped
  <2>2. cursor' \in Nat /\ cursor' <= log'.seq
    BY <1>3, <2>1 DEF Held, SyncTypeOK
  <2>3. CASE opened'
    BY <1>2, <1>3, <2>2, <2>3 DEF Held, SyncTypeOK
  <2>4. CASE ~ opened'
    BY <1>2, <1>3, <2>2, <2>4, NoRequestFacts DEF Held, SyncTypeOK
  <2> QED
    BY <2>3, <2>4
<1> QED
  BY <1>3, <1>4, <1>5, <1>6, <1>7 DEF Held

LEMMA AskHeld ==
  ASSUME Held, Ask \/ Lose
  PROVE  Held'
<1>1. /\ UNCHANGED <<vars, client>>
      /\ request' \in {NoRequest, [NoRequest EXCEPT !.stage = "sent"]}
      /\ request'.stage # "none" => opened
  BY NoRequestFacts DEF Ask, Lose
<1>2. /\ request'.stage \in {"none", "sent"} /\ request'.hasMore = FALSE
      /\ DOMAIN request'.msgs = {} /\ request'.msgs \in [DOMAIN request'.msgs -> Content]
      /\ Cardinality(DOMAIN request'.msgs) <= Limit
  BY <1>1, NoRequestFacts
<1> QED
  BY <1>1, <1>2 DEF Held, SyncTypeOK, TypeOK, Copies, vars, client

(***************************************************************************)
(* The first transaction.                                                  *)
(***************************************************************************)
LEMMA PageIsLive ==
  ASSUME StoreInv, Held, opened
  PROVE  /\ MessagePage.ids \subseteq Live
         /\ MessagePage.hasMore \in BOOLEAN
         /\ MessagePage.hasMore => MessagePage.ids # {}
         /\ Cardinality(MessagePage.ids) <= Limit
<1>1. high \in Nat /\ before \in Nat /\ TypeInv
  BY DEF Held, SyncTypeOK, StoreInv, SafeInv
<1>2. CASE mode = "follow"
  BY <1>1, <1>2, AfterPage DEF MessagePage
<1>3. CASE mode # "follow"
  BY <1>1, <1>3, RecentPage DEF MessagePage
<1> QED
  BY <1>2, <1>3

LEMMA ReadFacts ==
  ASSUME ReadMessages
  PROVE  /\ UNCHANGED <<vars, client>> /\ opened
         /\ request'.stage = "half" /\ request'.hasMore = MessagePage.hasMore
         /\ DOMAIN request'.msgs = MessagePage.ids
         /\ \A id \in MessagePage.ids :
              request'.msgs[id] = [extraID |-> messages[id].extraID,
                                   body    |-> messages[id].body]
         /\ request'.msgs = [id \in DOMAIN request'.msgs |-> request'.msgs[id]]
BY DEF ReadMessages

LEMMA ReadMessagesHeld ==
  ASSUME StoreInv, Held, ReadMessages
  PROVE  Held'
<1>1. /\ UNCHANGED <<vars, client>> /\ opened
      /\ request'.stage = "half" /\ request'.hasMore = MessagePage.hasMore
      /\ DOMAIN request'.msgs = MessagePage.ids
      /\ \A id \in MessagePage.ids :
           request'.msgs[id] = [extraID |-> messages[id].extraID,
                                body    |-> messages[id].body]
      /\ request'.msgs = [id \in DOMAIN request'.msgs |-> request'.msgs[id]]
  BY ReadFacts
<1>2. /\ MessagePage.ids \subseteq Live
      /\ MessagePage.hasMore \in BOOLEAN
      /\ MessagePage.hasMore => MessagePage.ids # {}
      /\ Cardinality(MessagePage.ids) <= Limit
  BY <1>1, PageIsLive
<1>3. \A id \in Live : /\ id \in DOMAIN messages /\ id \in Nat \ {0} /\ id <= msgSeq
                       /\ messages[id].device = Self /\ messages[id] \in Message
  BY DEF Live, StoreInv, SafeInv, TypeInv, TypeOK
<1>4. ASSUME NEW id \in DOMAIN request'.msgs
      PROVE  /\ id \in Live
             /\ request'.msgs[id] \in Content
             /\ request'.msgs[id].extraID = messages[id].extraID
  <2>1. id \in MessagePage.ids /\ id \in Live
    BY <1>1, <1>2
  <2>2. request'.msgs[id] = [extraID |-> messages[id].extraID, body |-> messages[id].body]
    BY <1>1, <2>1
  <2>3. messages[id].extraID \in ExtraIDs \cup {NoID} /\ messages[id].body \in Bodies
    BY <1>3, <2>1 DEF Message
  <2> QED
    BY <2>1, <2>2, <2>3 DEF Content
<1>5. request'.msgs \in [DOMAIN request'.msgs -> Content]
  BY <1>1, <1>4
<1>6. Copies(request.msgs)'
  <2>1. messages' = messages /\ msgSeq' = msgSeq
    BY <1>1 DEF vars
  <2> QED
    BY <1>3, <1>4, <2>1 DEF Copies
<1>7. /\ UNCHANGED <<messages, msgSeq, log, opened, mode, local, cursor, high, before>>
      /\ TypeOK'
  BY <1>1 DEF vars, client, Held, SyncTypeOK, TypeOK
<1>8. Copies(local)'
  BY <1>7 DEF Held, Copies
<1>9. SyncTypeOK'
  BY <1>1, <1>2, <1>5, <1>7 DEF Held, SyncTypeOK
<1> QED
  BY <1>1, <1>2, <1>6, <1>7, <1>8, <1>9 DEF Held

(***************************************************************************)
(* The second transaction and the answer.                                  *)
(***************************************************************************)
Merged == Over(local, request.msgs)

LEMMA MergedFacts ==
  /\ DOMAIN Merged = DOMAIN local \cup DOMAIN request.msgs
  /\ \A id \in DOMAIN request.msgs : Merged[id] = request.msgs[id]
  /\ \A id \in DOMAIN local \ DOMAIN request.msgs : Merged[id] = local[id]
  /\ Merged = [id \in DOMAIN Merged |-> Merged[id]]
BY DEF Merged, Over

LEMMA AppliedFacts ==
  ASSUME NEW page
  PROVE  /\ DOMAIN Applied(Merged, page)
              = {id \in DOMAIN Merged : ~ Hit(page, id, Merged[id].extraID)}
         /\ \A id \in DOMAIN Applied(Merged, page) : Applied(Merged, page)[id] = Merged[id]
         /\ Applied(Merged, page)
              = [id \in DOMAIN Applied(Merged, page) |-> Applied(Merged, page)[id]]
<1> HIDE DEF Merged
<1> QED
  BY DEF Applied, Delete, Restrict, Hit

LEMMA MergedCopies ==
  ASSUME Held
  PROVE  /\ Copies(Merged)
         /\ \A id \in DOMAIN Merged : Merged[id] \in Content
         /\ DOMAIN Merged \in SUBSET Nat
         /\ \A id \in DOMAIN Merged : id \in Nat /\ id # 0 /\ id <= msgSeq
<1>1. /\ DOMAIN Merged = DOMAIN local \cup DOMAIN request.msgs
      /\ \A id \in DOMAIN request.msgs : Merged[id] = request.msgs[id]
      /\ \A id \in DOMAIN local \ DOMAIN request.msgs : Merged[id] = local[id]
  BY MergedFacts
<1>2. \A id \in DOMAIN Merged : Merged[id] \in Content
  <2>1. \A id \in DOMAIN local : local[id] \in Content
    BY DEF Held, SyncTypeOK
  <2>2. \A id \in DOMAIN request.msgs : request.msgs[id] \in Content
    BY DEF Held, SyncTypeOK
  <2> QED
    BY <1>1, <2>1, <2>2
<1>3. Copies(Merged)
  BY <1>1 DEF Held, Copies
<1> QED
  BY <1>2, <1>3 DEF Copies

LEMMA AnswerFacts ==
  ASSUME StoreInv, Held, Answer,
         NEW page, page = DeletionsByDevice(Self, DeletedSince)
  PROVE  /\ TakeBaseline(page) \/ TakeSeedPage(page) \/ TakePoll(page) \/ TakeReset(page)
         /\ request' = NoRequest /\ UNCHANGED vars
         /\ request.stage = "half" /\ opened
         /\ DeletedSince \in Nat
         /\ page.cursor \in Nat /\ page.cursor <= log.seq
         /\ DeviceRows(Self) # {} => page.cursor # 0
<1>1. DeletedSince \in Nat
  BY DEF DeletedSince, Held, SyncTypeOK
<1>2. /\ page.cursor \in Nat /\ page.cursor <= log.seq
      /\ DeviceRows(Self) # {} => page.cursor # 0
  BY <1>1, DeletionPage DEF StoreInv
<1> QED
  BY <1>1, <1>2 DEF Answer

\* How the cache, the cursors and the place in the paging come out of an answer.
LEMMA AnswerHeldIf ==
  ASSUME StoreInv, Held, UNCHANGED vars, request' = NoRequest,
         mode' \in Modes, cursor' \in Nat, cursor' <= log.seq,
         high' \in Nat, high' <= msgSeq, before' \in Nat, before' <= msgSeq,
         before' # 0 => mode' = "seed",
         mode' # "follow" /\ before' = 0 => DOMAIN local' = {},
         local' = [id \in DOMAIN local' |-> local'[id]],
         \A id \in DOMAIN local' : /\ id \in DOMAIN local \/ id \in DOMAIN Merged
                                   /\ \/ id \in DOMAIN local /\ local'[id] = local[id]
                                      \/ id \in DOMAIN Merged /\ local'[id] = Merged[id]
  PROVE  Held'
<1>1. /\ Copies(Merged) /\ \A id \in DOMAIN Merged : Merged[id] \in Content
      /\ Copies(local) /\ \A id \in DOMAIN local : local[id] \in Content
  BY MergedCopies DEF Held, SyncTypeOK
<1>2. \A id \in DOMAIN local' : local'[id] \in Content
  BY <1>1
<1>3. Copies(local)'
  <2>1. messages' = messages /\ msgSeq' = msgSeq
    BY DEF vars
  <2> QED
    BY <1>1, <2>1 DEF Copies
<1>4. TypeOK' /\ msgSeq' = msgSeq /\ log' = log
  BY DEF Held, SyncTypeOK, TypeOK, vars
<1>5. SyncTypeOK'
  BY <1>2, <1>4, NoRequestFacts DEF SyncTypeOK
<1>6. Copies(request.msgs)'
  BY NoRequestFacts DEF Copies
<1> QED
  BY <1>3, <1>4, <1>5, <1>6, NoRequestFacts DEF Held

LEMMA TakeBaselineHeld ==
  ASSUME StoreInv, Held, NEW page, page.cursor \in Nat, page.cursor <= log.seq,
         TakeBaseline(page), UNCHANGED vars, request' = NoRequest
  PROVE  Held'
<1>1. /\ mode' = "seed" /\ cursor' \in Nat /\ cursor' <= log.seq
      /\ UNCHANGED <<local, high, before>>
      /\ mode = "baseline"
  BY DEF TakeBaseline
<1>2. /\ high \in Nat /\ before = 0 /\ high <= msgSeq /\ before <= msgSeq
      /\ DOMAIN local = {} /\ local = [id \in DOMAIN local |-> local[id]]
  BY <1>1 DEF Held, SyncTypeOK
<1> QED
  BY <1>1, <1>2, AnswerHeldIf DEF Modes

LEMMA TakeSeedPageHeld ==
  ASSUME StoreInv, Held, NEW page, page.cursor \in Nat, page.cursor <= log.seq,
         TakeSeedPage(page), UNCHANGED vars, request' = NoRequest
  PROVE  Held'
<1>1. /\ mode \in {"first", "seed"} /\ local' = Merged /\ cursor' \in {page.cursor, cursor}
  BY DEF TakeSeedPage, Merged
<1>2. /\ cursor \in Nat /\ cursor <= log.seq
      /\ high \in Nat /\ high <= msgSeq /\ msgSeq \in Nat
      /\ DOMAIN request.msgs \in SUBSET Nat
      /\ \A id \in DOMAIN request.msgs : id # 0 /\ id <= msgSeq
  BY DEF Held, SyncTypeOK, Copies, StoreInv, SafeInv, TypeInv, TypeOK
<1>3. Merged = [id \in DOMAIN Merged |-> Merged[id]]
  BY MergedFacts
<1>4. CASE request.hasMore
  <2>1. before' = Least(DOMAIN request.msgs) /\ mode' = "seed" /\ high' = high
    BY <1>4 DEF TakeSeedPage
  <2>2. before' \in DOMAIN request.msgs
    BY <1>2, <1>4, <2>1, LeastIsLeast DEF Held
  <2>3. before' \in Nat /\ before' # 0 /\ before' <= msgSeq
    BY <1>2, <2>2
  <2> QED
    BY <1>1, <1>2, <1>3, <2>1, <2>3, AnswerHeldIf DEF Modes
<1>5. CASE ~ request.hasMore
  <2>1. before' = 0 /\ mode' = "follow" /\ high' = HighestOf(DOMAIN local', 0)
    BY <1>5 DEF TakeSeedPage
  <2>2. high' \in Nat /\ high' <= msgSeq
    <3>1. /\ DOMAIN Merged \in SUBSET Nat
          /\ \A id \in DOMAIN Merged : id <= msgSeq
      BY MergedCopies
    <3>2. CASE DOMAIN Merged = {}
      BY <1>1, <1>2, <2>1, <3>2 DEF HighestOf
    <3>3. CASE DOMAIN Merged # {}
      <4>1. Greatest(DOMAIN Merged) \in DOMAIN Merged
        BY <1>2, <3>1, <3>3, GreatestIsGreatest
      <4>2. high' = Greatest(DOMAIN Merged)
        BY <1>1, <2>1, <3>3 DEF HighestOf
      <4> QED
        BY <3>1, <4>1, <4>2
    <3> QED
      BY <3>2, <3>3
  <2> QED
    BY <1>1, <1>2, <1>3, <2>1, <2>2, AnswerHeldIf DEF Modes
<1> QED
  BY <1>4, <1>5

LEMMA TakePollHeld ==
  ASSUME StoreInv, Held, NEW page, page.cursor \in Nat, page.cursor <= log.seq,
         TakePoll(page), UNCHANGED vars, request' = NoRequest
  PROVE  Held'
<1>1. /\ mode' = "follow" /\ mode = "follow" /\ before' = before
      /\ cursor' \in Nat /\ cursor' <= log.seq
      /\ local' = Applied(Merged, page)
      /\ high' = HighestOf(DOMAIN request.msgs, high)
  BY DEF TakePoll, Merged
<1>2. /\ high \in Nat /\ high <= msgSeq /\ msgSeq \in Nat
      /\ before = 0 /\ before <= msgSeq
      /\ DOMAIN request.msgs \in SUBSET Nat
      /\ \A id \in DOMAIN request.msgs : id <= msgSeq
  BY <1>1 DEF Held, SyncTypeOK, Copies, StoreInv, SafeInv, TypeInv, TypeOK
<1>3. high' \in Nat /\ high' <= msgSeq
  <2>1. CASE DOMAIN request.msgs = {}
    BY <1>1, <1>2, <2>1 DEF HighestOf
  <2>2. CASE DOMAIN request.msgs # {}
    <3>1. Greatest(DOMAIN request.msgs) \in DOMAIN request.msgs
      BY <1>2, <2>2, GreatestIsGreatest
    <3>2. high' = Greatest(DOMAIN request.msgs)
      BY <1>1, <2>2 DEF HighestOf
    <3> QED
      BY <1>2, <3>1, <3>2
  <2> QED
    BY <2>1, <2>2
<1>4. /\ DOMAIN local' \subseteq DOMAIN Merged
      /\ \A id \in DOMAIN local' : local'[id] = Merged[id]
      /\ local' = [id \in DOMAIN local' |-> local'[id]]
  BY <1>1, AppliedFacts
<1> QED
  BY <1>1, <1>2, <1>3, <1>4, AnswerHeldIf DEF Modes

LEMMA TakeResetHeld ==
  ASSUME StoreInv, Held, NEW page, page.cursor \in Nat, page.cursor <= log.seq,
         TakeReset(page), UNCHANGED vars, request' = NoRequest
  PROVE  Held'
<1>1. /\ mode' = "seed" /\ local' = EmptyBucket /\ high' = 0 /\ before' = 0
      /\ cursor' \in Nat /\ cursor' <= log.seq /\ msgSeq \in Nat
  BY DEF TakeReset, StoreInv, SafeInv, TypeInv, TypeOK
<1>2. DOMAIN local' = {} /\ local' = [id \in DOMAIN local' |-> local'[id]]
  BY <1>1 DEF EmptyBucket
<1> QED
  BY <1>1, <1>2, AnswerHeldIf DEF Modes

LEMMA StepHeld ==
  ASSUME StoreInv, StoreInv', Held, [SyncNext]_syncVars
  PROVE  Held'
<1>1. CASE StoreStep
  BY <1>1, StoreStepHeld
<1>2. CASE Ask \/ Lose
  BY <1>2, AskHeld
<1>3. CASE ReadMessages
  BY <1>3, ReadMessagesHeld
<1>4. CASE Answer
  BY <1>4, AnswerFacts, TakeBaselineHeld, TakeSeedPageHeld, TakePollHeld, TakeResetHeld
<1>5. CASE UNCHANGED syncVars
  BY <1>5 DEF syncVars, vars, client, Held, SyncTypeOK, TypeOK, Copies
<1> QED
  BY <1>1, <1>2, <1>3, <1>4, <1>5 DEF SyncNext

LEMMA HeldHolds == SyncSpec => []Held
<1>1. SyncInit => Held
  BY InitHeld
<1>2. StoreInv /\ StoreInv' /\ Held /\ [SyncNext]_syncVars => Held'
  BY StepHeld
<1> QED
  BY <1>1, <1>2, StoreInvHolds, PTL DEF SyncSpec

(***************************************************************************)
(* The client's tables keep their types: what it takes for its cursors,    *)
(* the highest id it holds and the lowest of a page, are ids.              *)
(***************************************************************************)
THEOREM SyncTypeCorrect == SyncSpec => []SyncTypeOK
<1>1. Held => SyncTypeOK
  BY DEF Held
<1> QED
  BY <1>1, HeldHolds, PTL

(***************************************************************************)
(* Missing nothing.  While the client pages backwards it holds all that is *)
(* stored between the lowest id it asked below and the highest it holds;   *)
(* an answer under way brings all that is stored between what the client   *)
(* holds and the page's end.  Messages pushed in the meantime lie above    *)
(* all of this, since ids only grow.                                       *)
(***************************************************************************)
Seeded ==
  mode = "seed" =>
    \A id \in Plain(Live), m \in DOMAIN local :
      before <= id /\ id <= m => id \in DOMAIN local

PollReads ==
  mode = "follow" =>
    \A id \in Plain(Live), m \in DOMAIN request.msgs :
      high < id /\ id <= m => id \in DOMAIN request.msgs

InReach(id) ==
  /\ IF before = 0 THEN \E m \in DOMAIN request.msgs : id <= m ELSE id < before
  /\ request.hasMore => \E m \in DOMAIN request.msgs : m <= id

SeedReads ==
  request.stage = "half" /\ mode # "follow" =>
    /\ before # 0 => \A m \in DOMAIN request.msgs : m < before
    /\ \A id \in Plain(Live) : InReach(id) => id \in DOMAIN request.msgs

MissInv == Seeded /\ PollReads /\ SeedReads /\ NothingMissed

LEMMA PlainIds ==
  ASSUME TypeInv
  PROVE  \A id \in Plain(Live) : id \in Live /\ id \in Nat /\ id # 0 /\ id <= msgSeq
BY LiveIsFinite DEF Plain

\* Whatever is stored of the device after a step was stored before it, or is new.
LEMMA PlainLasts ==
  ASSUME MessagesLast, NEW id \in Plain(Live)'
  PROVE  id \in Plain(Live) \/ id > msgSeq
<1>1. /\ id \in DOMAIN messages' /\ messages'[id].device = Self
      /\ messages'[id].extraID = NoID
  BY DEF Plain, Live
<1>2. Keeps(id) \/ id > msgSeq
  BY <1>1 DEF MessagesLast
<1> QED
  BY <1>1, <1>2 DEF Keeps, Plain, Live

LEMMA InitMisses ==
  ASSUME SyncInit
  PROVE  MissInv
<1>1. /\ DOMAIN local = {} /\ request = NoRequest /\ mode \in {"baseline", "first"}
  BY DEF SyncInit, EmptyBucket, StartMode
<1> QED
  BY <1>1, NoRequestFacts DEF MissInv, Seeded, PollReads, SeedReads, NothingMissed

LEMMA StoreStepMisses ==
  ASSUME StoreInv, StoreInv', Held, MissInv, StoreStep
  PROVE  MissInv'
<1>1. MessagesLast /\ TypeInv
  BY StepLasts DEF StoreInv, SafeInv, StoreStep
<1>2. \A id \in Plain(Live)' : id \in Nat /\ (id \in Plain(Live) \/ id > msgSeq)
  <2>1. \A id \in Plain(Live)' : id \in Nat
    BY DEF Plain, Live, StoreInv, SafeInv, TypeInv, TypeOK
  <2>2. \A id \in Plain(Live)' : id \in Plain(Live) \/ id > msgSeq
    BY <1>1, PlainLasts
  <2> QED
    BY <2>1, <2>2
<1>3. /\ UNCHANGED <<mode, local, cursor, high, before>>
      /\ \/ request' = request
         \/ request'.stage = "none" /\ DOMAIN request'.msgs = {}
  BY NoRequestFacts DEF StoreStep, client
<1>4. /\ msgSeq \in Nat /\ high \in Nat /\ before \in Nat
      /\ high <= msgSeq /\ before <= msgSeq
      /\ \A m \in DOMAIN local : m \in Nat /\ m <= msgSeq
      /\ \A m \in DOMAIN request.msgs : m \in Nat /\ m <= msgSeq
  BY <1>1 DEF Held, SyncTypeOK, Copies, TypeInv, TypeOK
<1>5. Seeded'
  BY <1>2, <1>3, <1>4 DEF MissInv, Seeded
<1>6. NothingMissed'
  BY <1>2, <1>3, <1>4 DEF MissInv, NothingMissed, HoldsAllSeen
<1>7. PollReads'
  BY <1>2, <1>3, <1>4 DEF MissInv, PollReads
<1>8. SeedReads'
  <2>1. CASE request' = request
    <3>1. ASSUME NEW id \in Plain(Live)', InReach(id)', request.stage = "half", mode # "follow"
          PROVE  id \in DOMAIN request.msgs
      <4>1. InReach(id)
        BY <1>3, <2>1, <3>1 DEF InReach
      <4>2. id \in Plain(Live)
        BY <1>2, <1>4, <4>1 DEF InReach
      <4> QED
        BY <3>1, <4>1, <4>2 DEF MissInv, SeedReads
    <3> QED
      BY <1>3, <2>1, <3>1 DEF MissInv, SeedReads
  <2>2. CASE request'.stage = "none"
    BY <2>2 DEF SeedReads
  <2> QED
    BY <1>3, <2>1, <2>2
<1> QED
  BY <1>5, <1>6, <1>7, <1>8 DEF MissInv

LEMMA AskMisses ==
  ASSUME MissInv, Ask \/ Lose
  PROVE  MissInv'
<1>1. /\ UNCHANGED <<vars, client>>
      /\ request'.stage # "half" /\ DOMAIN request'.msgs = {}
  BY NoRequestFacts DEF Ask, Lose
<1>2. Plain(Live)' = Plain(Live)
  BY <1>1 DEF Plain, Live, vars
<1> QED
  BY <1>1, <1>2 DEF MissInv, Seeded, PollReads, SeedReads, NothingMissed, HoldsAllSeen, client

LEMMA ReadMessagesMisses ==
  ASSUME StoreInv, Held, MissInv, ReadMessages
  PROVE  MissInv'
<1>1. /\ UNCHANGED <<vars, client>> /\ opened
      /\ request'.stage = "half" /\ request'.hasMore = MessagePage.hasMore
      /\ DOMAIN request'.msgs = MessagePage.ids
  BY ReadFacts
<1>2. /\ Plain(Live)' = Plain(Live)
      /\ UNCHANGED <<mode, local, cursor, high, before>>
  BY <1>1 DEF Plain, Live, vars, client
<1>3. high \in Nat /\ before \in Nat /\ TypeInv
  BY DEF Held, SyncTypeOK, StoreInv, SafeInv
<1>4. \A id \in Plain(Live) : id \in Live
  BY DEF Plain
<1>5. ASSUME mode = "follow"
      PROVE  \A id \in Live, m \in MessagePage.ids :
               high < id /\ id <= m => id \in MessagePage.ids
  BY <1>1, <1>3, <1>5, AfterPage DEF MessagePage
<1>6. PollReads'
  BY <1>1, <1>2, <1>4, <1>5 DEF PollReads
<1>7. ASSUME mode # "follow"
      PROVE  /\ before # 0 => \A m \in MessagePage.ids : m < before
             /\ \A id \in Live :
                  /\ before = 0 \/ id < before
                  /\ MessagePage.hasMore => \E m \in MessagePage.ids : m <= id
                  => id \in MessagePage.ids
  BY <1>3, <1>7, RecentPage DEF MessagePage
<1>8. SeedReads'
  BY <1>1, <1>2, <1>4, <1>7 DEF SeedReads, InReach
<1>9. Seeded' /\ NothingMissed'
  BY <1>2 DEF MissInv, Seeded, NothingMissed, HoldsAllSeen
<1> QED
  BY <1>6, <1>8, <1>9 DEF MissInv

(***************************************************************************)
(* No event hits a stored message that carries no extras.id.               *)
(***************************************************************************)
LEMMA PageSparesPlain ==
  ASSUME StoreInv, NEW since \in Nat, NEW page, page = DeletionsByDevice(Self, since),
         NEW id \in Plain(Live)
  PROVE  ~ Hit(page, id, NoID)
<1>1. /\ Named(page.ids, "single")
      /\ Named(page.purges, "purge")
      /\ Named(page.extraIDs, "extra")
  BY DeletionPage DEF StoreInv
<1>2. id \in DOMAIN messages /\ messages[id].device = Self
  BY DEF Plain, Live
<1>3. \A c \in DeviceRows(Self) : ~ Covers(log.rows[c], id)
  BY <1>2 DEF StoreInv, SafeInv, EventsSpareTheLiving, DeviceRows
<1>4. id \notin page.ids
  BY <1>1, <1>3 DEF Named, Covers
<1>5. \A ceiling \in page.purges : ~ (id <= ceiling)
  BY <1>1, <1>3 DEF Named, Covers
<1>6. NoID \notin page.extraIDs
  <2>1. \A c \in DeviceRows(Self) :
          log.rows[c].kind = "extra" => log.rows[c].target \in ExtraIDs
    BY DEF StoreInv, ExtrasNamed, DeviceRows
  <2>2. NoID \notin ExtraIDs
    BY ConstantsAssumption
  <2> QED
    BY <1>1, <2>1, <2>2 DEF Named
<1> QED
  BY <1>4, <1>5, <1>6 DEF Hit

(***************************************************************************)
(* After a page: what lies between its lowest id and the highest held.     *)
(***************************************************************************)
LEMMA MergedIsFull ==
  ASSUME StoreInv, Held, MissInv, mode \in {"first", "seed"}, request.stage = "half",
         NEW id \in Plain(Live),
         request.hasMore => \E k \in DOMAIN request.msgs : k <= id,
         NEW m \in DOMAIN Merged, id <= m
  PROVE  id \in DOMAIN Merged
<1>1. DOMAIN Merged = DOMAIN local \cup DOMAIN request.msgs
  BY MergedFacts
<1>2. /\ before \in Nat /\ id \in Nat /\ m \in Nat
      /\ \A k \in DOMAIN request.msgs : k \in Nat
  BY PlainIds, MergedCopies DEF Held, SyncTypeOK, Copies, StoreInv, SafeInv
<1>3. InReach(id) => id \in DOMAIN request.msgs
  BY DEF MissInv, SeedReads
<1>4. CASE before = 0
  <2>1. m \in DOMAIN request.msgs
    BY <1>1, <1>4 DEF Held
  <2> QED
    BY <1>1, <1>3, <1>4, <2>1 DEF InReach
<1>5. CASE before # 0 /\ id < before
  BY <1>1, <1>3, <1>5 DEF InReach
<1>6. CASE before # 0 /\ ~ (id < before)
  <2>1. \A k \in DOMAIN request.msgs : k < before
    BY <1>6 DEF MissInv, SeedReads
  <2>2. m \in DOMAIN local
    BY <1>1, <1>2, <1>6, <2>1
  <2>3. mode = "seed"
    BY <1>6 DEF Held, SyncTypeOK
  <2>4. before <= id
    BY <1>2, <1>6
  <2> QED
    BY <1>1, <2>2, <2>3, <2>4 DEF MissInv, Seeded
<1> QED
  BY <1>4, <1>5, <1>6

LEMMA TakeSeedPageMisses ==
  ASSUME StoreInv, Held, MissInv, NEW page, TakeSeedPage(page), request.stage = "half",
         UNCHANGED vars, request' = NoRequest
  PROVE  MissInv'
<1>1. /\ mode \in {"first", "seed"} /\ local' = Merged
  BY DEF TakeSeedPage, Merged
<1>2. Plain(Live)' = Plain(Live)
  BY DEF Plain, Live, vars
<1>3. /\ DOMAIN Merged \in SUBSET Nat /\ msgSeq \in Nat
      /\ \A m \in DOMAIN Merged : m <= msgSeq
      /\ DOMAIN request.msgs \in SUBSET Nat
  BY MergedCopies DEF Held, Copies, StoreInv, SafeInv, TypeInv, TypeOK
<1>4. PollReads' /\ SeedReads'
  BY NoRequestFacts DEF PollReads, SeedReads
<1>5. CASE request.hasMore
  <2>1. before' = Least(DOMAIN request.msgs) /\ mode' = "seed"
    BY <1>5 DEF TakeSeedPage
  <2>2. before' \in DOMAIN request.msgs
    BY <1>3, <1>5, <2>1, LeastIsLeast DEF Held
  <2>3. ASSUME NEW id \in Plain(Live), NEW m \in DOMAIN Merged, before' <= id, id <= m
        PROVE  id \in DOMAIN Merged
    BY <1>1, <2>2, <2>3, MergedIsFull
  <2>4. Seeded' /\ NothingMissed'
    BY <1>1, <1>2, <2>1, <2>3 DEF Seeded, NothingMissed
  <2> QED
    BY <1>4, <2>4 DEF MissInv
<1>6. CASE ~ request.hasMore
  <2>1. mode' = "follow" /\ high' = HighestOf(DOMAIN Merged, 0)
    BY <1>1, <1>6 DEF TakeSeedPage
  <2>2. ASSUME NEW id \in Plain(Live), id <= high'
        PROVE  id \in DOMAIN Merged
    <3>1. id \in Nat /\ id # 0
      BY PlainIds DEF StoreInv, SafeInv
    <3>2. DOMAIN Merged # {}
      <4> SUFFICES ASSUME DOMAIN Merged = {} PROVE FALSE
        OBVIOUS
      <4>1. high' = 0
        BY <2>1 DEF HighestOf
      <4> QED
        BY <2>2, <3>1, <4>1
    <3>3. high' \in DOMAIN Merged
      <4>1. Greatest(DOMAIN Merged) \in DOMAIN Merged
        BY <1>3, <3>2, GreatestIsGreatest
      <4> QED
        BY <2>1, <3>2, <4>1 DEF HighestOf
    <3> QED
      BY <1>1, <1>6, <2>2, <3>3, MergedIsFull
  <2>3. Seeded' /\ NothingMissed'
    BY <1>1, <1>2, <2>1, <2>2 DEF Seeded, NothingMissed, HoldsAllSeen
  <2> QED
    BY <1>4, <2>3 DEF MissInv
<1> QED
  BY <1>5, <1>6

LEMMA TakePollMisses ==
  ASSUME StoreInv, Held, MissInv, NEW since \in Nat, NEW page,
         page = DeletionsByDevice(Self, since), TakePoll(page),
         UNCHANGED vars, request' = NoRequest
  PROVE  MissInv'
<1>1. /\ mode' = "follow" /\ mode = "follow"
      /\ local' = Applied(Merged, page)
      /\ high' = HighestOf(DOMAIN request.msgs, high)
  BY DEF TakePoll, Merged
<1>2. Plain(Live)' = Plain(Live)
  BY DEF Plain, Live, vars
<1>3. /\ DOMAIN request.msgs \in SUBSET Nat /\ msgSeq \in Nat /\ high \in Nat
      /\ \A m \in DOMAIN request.msgs : m <= msgSeq
  BY DEF Held, SyncTypeOK, Copies, StoreInv, SafeInv, TypeInv, TypeOK
<1>4. ASSUME NEW id \in Plain(Live), id <= high'
      PROVE  id \in DOMAIN Merged
  <2>1. id \in Nat
    BY PlainIds DEF StoreInv, SafeInv
  <2>2. DOMAIN Merged = DOMAIN local \cup DOMAIN request.msgs
    BY MergedFacts
  <2>3. CASE id <= high
    BY <1>1, <2>2, <2>3 DEF MissInv, NothingMissed, HoldsAllSeen
  <2>4. CASE ~ (id <= high)
    <3>1. DOMAIN request.msgs # {}
      BY <1>1, <1>4, <2>4 DEF HighestOf
    <3>2. high' \in DOMAIN request.msgs
      BY <1>1, <1>3, <3>1, GreatestIsGreatest DEF HighestOf
    <3>3. high < id
      BY <1>3, <2>1, <2>4
    <3> QED
      BY <1>1, <1>4, <2>2, <3>2, <3>3 DEF MissInv, PollReads
  <2> QED
    BY <2>3, <2>4
<1>5. ASSUME NEW id \in Plain(Live), id \in DOMAIN Merged
      PROVE  id \in DOMAIN local'
  <2>1. Merged[id].extraID = NoID
    BY <1>5, MergedCopies DEF Copies, Plain, Live
  <2>2. ~ Hit(page, id, Merged[id].extraID)
    BY <2>1, PageSparesPlain
  <2>3. DOMAIN local' = {i \in DOMAIN Merged : ~ Hit(page, i, Merged[i].extraID)}
    BY <1>1, AppliedFacts
  <2> QED
    BY <1>5, <2>2, <2>3
<1>6. NothingMissed'
  BY <1>1, <1>2, <1>4, <1>5 DEF NothingMissed, HoldsAllSeen
<1>7. Seeded' /\ PollReads' /\ SeedReads'
  BY <1>1, NoRequestFacts DEF Seeded, PollReads, SeedReads
<1> QED
  BY <1>6, <1>7 DEF MissInv

LEMMA AnswerMisses ==
  ASSUME StoreInv, Held, MissInv, Answer
  PROVE  MissInv'
<1> DEFINE page == DeletionsByDevice(Self, DeletedSince)
<1>1. /\ TakeBaseline(page) \/ TakeSeedPage(page) \/ TakePoll(page) \/ TakeReset(page)
      /\ request' = NoRequest /\ UNCHANGED vars
      /\ request.stage = "half" /\ DeletedSince \in Nat
  BY AnswerFacts
<1>2. CASE TakeBaseline(page)
  <2>1. mode = "baseline" /\ mode' = "seed" /\ local' = local
    BY <1>2 DEF TakeBaseline
  <2>2. DOMAIN local = {}
    BY <2>1 DEF Held, SyncTypeOK
  <2>3. Seeded'
    BY <2>1, <2>2 DEF Seeded
  <2>4. PollReads' /\ SeedReads' /\ NothingMissed'
    BY <1>1, <2>1, NoRequestFacts DEF PollReads, SeedReads, NothingMissed
  <2> QED
    BY <2>3, <2>4 DEF MissInv
<1>3. CASE TakeSeedPage(page)
  BY <1>1, <1>3, TakeSeedPageMisses
<1>4. CASE TakePoll(page)
  BY <1>1, <1>4, TakePollMisses
<1>5. CASE TakeReset(page)
  <2>1. mode' = "seed" /\ DOMAIN local' = {}
    BY <1>5 DEF TakeReset, EmptyBucket
  <2> QED
    BY <1>1, <2>1, NoRequestFacts
    DEF MissInv, Seeded, PollReads, SeedReads, NothingMissed
<1> QED
  BY <1>1, <1>2, <1>3, <1>4, <1>5

LEMMA StepMisses ==
  ASSUME StoreInv, StoreInv', Held, MissInv, [SyncNext]_syncVars
  PROVE  MissInv'
<1>1. CASE UNCHANGED syncVars
  BY <1>1 DEF syncVars, vars, client, MissInv, Seeded, PollReads, SeedReads, InReach,
              NothingMissed, HoldsAllSeen, Plain, Live
<1> QED
  BY <1>1, StoreStepMisses, AskMisses, ReadMessagesMisses, AnswerMisses DEF SyncNext

(***************************************************************************)
(* A client of the sync protocol that polls holds every stored message,    *)
(* but for those with an extras.id, up to the highest id it has seen:      *)
(* paging backwards and then forwards (routeGotifyDeviceMessage) leaves no *)
(* gap, whatever is pushed, deleted, lost or restarted in between.         *)
(***************************************************************************)
THEOREM NeverMissed == SyncSpec => []NothingMissed
<1>1. SyncInit => MissInv
  BY InitMisses
<1>2. StoreInv /\ StoreInv' /\ Held /\ MissInv /\ [SyncNext]_syncVars => MissInv'
  BY StepMisses
<1>3. MissInv => NothingMissed
  BY DEF MissInv
<1> QED
  BY <1>1, <1>2, <1>3, StoreInvHolds, HeldHolds, PTL DEF SyncSpec

(***************************************************************************)
(* Showing nothing deleted for good.  The client has a cursor of the log   *)
(* before it asks for its first page, and its device has had an event; so  *)
(* whatever goes after that is told above the cursor, and what was told    *)
(* above it is told there until the client asks, or the client is told to  *)
(* start afresh.                                                           *)
(***************************************************************************)
HasCursor == mode \in {"seed", "follow"} => 1 <= cursor /\ cursor <= log.seq

HasEvents ==
  mode \in {"seed", "follow"} \/ request.stage # "none" => DeviceRows(Self) # {}

ReadsNotStale ==
  mode \in {"seed", "follow"} =>
    \A id \in DOMAIN request.msgs \ Live : WillDrop(id, request.msgs[id].extraID)

StaleInv ==
  /\ mode # "first"
  /\ HasCursor /\ HasEvents
  /\ ReadsNotStale /\ NothingStale

LEMMA RowsLast ==
  ASSUME TypeInv, TypeInv', LogGrows, NEW d
  PROVE  /\ DeviceRows(d) # {} => DeviceRows(d)' # {}
         /\ \A n \in Nat : n <= log.seq /\ BelowAllRows(d, n) => BelowAllRows(d, n)'
<1>1. /\ log.seq \in Nat
      /\ \A c \in DOMAIN log.rows : c \in Nat /\ c <= log.seq
  BY DEF TypeInv, LogTyped
<1>2. DeviceRows(d) # {} => DeviceRows(d)' # {}
  BY DEF LogGrows, DeviceRows
<1>3. ASSUME NEW n \in Nat, n <= log.seq, BelowAllRows(d, n)
      PROVE  BelowAllRows(d, n)'
  <2>1. ASSUME NEW c \in DeviceRows(d)'
        PROVE  n < c
    <3>1. c \in DOMAIN log'.rows /\ log'.rows[c].device = d
      BY DEF DeviceRows
    <3>2. CASE c \in DOMAIN log.rows /\ log'.rows[c] = log.rows[c]
      BY <1>3, <3>1, <3>2 DEF BelowAllRows, DeviceRows
    <3>3. CASE c > log.seq
      <4>1. c \in Nat
        BY <3>1 DEF TypeInv, LogTyped
      <4> QED
        BY <1>1, <1>3, <3>3, <4>1
    <3> QED
      BY <3>1, <3>2, <3>3 DEF LogGrows
  <2> QED
    BY <1>2, <1>3, <2>1 DEF BelowAllRows
<1> QED
  BY <1>2, <1>3

\* What the client will drop now it will drop after any step of the store.
LEMMA WillDropLasts ==
  ASSUME TypeInv, TypeInv', LogGrows, cursor' = cursor, cursor \in Nat, cursor <= log.seq,
         NEW id, NEW x, WillDrop(id, x)
  PROVE  WillDrop(id, x)'
<1>1. CASE BelowAllRows(Self, cursor)
  <2>1. \A n \in Nat : n <= log.seq /\ BelowAllRows(Self, n) => BelowAllRows(Self, n)'
    BY RowsLast
  <2>2. PICK n \in Nat : n = cursor
    OBVIOUS
  <2>3. BelowAllRows(Self, n) /\ n <= log.seq
    BY <1>1, <2>2
  <2>4. BelowAllRows(Self, n)'
    BY <2>1, <2>3
  <2> QED
    BY <2>2, <2>4 DEF WillDrop, BelowAllRows
<1>2. ASSUME NEW c \in DeviceRows(Self), c > cursor,
             \/ Covers(log.rows[c], id)
             \/ log.rows[c].kind = "extra" /\ log.rows[c].target = x
      PROVE  WillDrop(id, x)'
  <2>1. c \in DOMAIN log.rows /\ log.rows[c].device = Self /\ c \in Nat
    BY DEF DeviceRows, TypeInv, LogTyped
  <2>2. CASE c \in DOMAIN log'.rows /\ log'.rows[c] = log.rows[c]
    <3>1. c \in DeviceRows(Self)'
      BY <2>1, <2>2 DEF DeviceRows
    <3>2. \/ Covers(log'.rows[c], id)
          \/ log'.rows[c].kind = "extra" /\ log'.rows[c].target = x
      BY <1>2, <2>2
    <3>3. c > cursor'
      BY <1>2
    <3> QED
      BY <3>1, <3>2, <3>3 DEF WillDrop, Covers
  <2>3. CASE /\ \E e \in DOMAIN log'.rows : log'.rows[e].device = log.rows[c].device
             /\ \A e \in DOMAIN log'.rows : c < e
    <3>1. \A e \in DOMAIN log'.rows : cursor' < e
      <4>1. \A e \in DOMAIN log'.rows : e \in Nat
        BY DEF TypeInv, LogTyped
      <4> QED
        BY <1>2, <2>1, <2>3, <4>1
    <3>2. BelowAllRows(Self, cursor)'
      BY <2>1, <2>3, <3>1 DEF BelowAllRows, DeviceRows
    <3> QED
      BY <3>2 DEF WillDrop
  <2> QED
    BY <2>1, <2>2, <2>3 DEF LogGrows
<1> QED
  BY <1>1, <1>2 DEF WillDrop

\* What the store removes in a step, however it does, the client will drop.
LEMMA RemovedWillDrop ==
  ASSUME StoreInv', MessagesLast, cursor' = cursor, cursor \in Nat, cursor <= log.seq,
         log.seq \in Nat, NEW id \in Live \ DOMAIN messages', NEW x
  PROVE  WillDrop(id, x)'
<1>1. /\ id \in DOMAIN removed' /\ removed'[id].device = Self
      /\ removed'[id].at = log.seq
  BY DEF MessagesLast, Noted, Live
<1>2. NoSilentRemoval'
  BY DEF StoreInv, SafeInv
<1>3. \A c \in DOMAIN log'.rows : c \in Nat
  BY DEF StoreInv, SafeInv, TypeInv, LogTyped
<1>4. CASE Told(id)'
  <2>1. PICK c \in DOMAIN log'.rows : /\ c > log.seq /\ log'.rows[c].device = Self
                                      /\ Covers(log'.rows[c], id)
    BY <1>1, <1>4 DEF Told, Covers
  <2>2. c \in DeviceRows(Self)' /\ c > cursor'
    BY <1>3, <2>1 DEF DeviceRows
  <2> QED
    BY <2>1, <2>2 DEF WillDrop, Covers
<1>5. CASE BelowAllRows(removed[id].device, removed[id].at)'
  <2>1. BelowAllRows(Self, cursor)'
    BY <1>1, <1>3, <1>5 DEF BelowAllRows, DeviceRows
  <2> QED
    BY <2>1 DEF WillDrop
<1> QED
  BY <1>1, <1>2, <1>4, <1>5 DEF NoSilentRemoval

LEMMA InitStale ==
  ASSUME BaselineFirst = TRUE, SyncInit
  PROVE  StaleInv
<1>1. mode = "baseline" /\ request.stage = "none"
  BY NoRequestFacts DEF SyncInit, StartMode
<1> QED
  BY <1>1 DEF StaleInv, HasCursor, HasEvents, ReadsNotStale, NothingStale

\* What a step takes from the device's messages, with ids held from before it.
LEMMA GoneWillDrop ==
  ASSUME StoreInv, StoreInv', LogGrows, MessagesLast,
         cursor' = cursor, cursor \in Nat, cursor <= log.seq,
         NEW id \in Nat, id <= msgSeq, id \notin Live', NEW x,
         id \notin Live => WillDrop(id, x)
  PROVE  WillDrop(id, x)'
<1>1. CASE id \notin Live
  BY <1>1, WillDropLasts DEF StoreInv, SafeInv
<1>2. CASE id \in Live
  <2>1. id \notin DOMAIN messages'
    <3> SUFFICES ASSUME id \in DOMAIN messages' PROVE FALSE
      OBVIOUS
    <3>1. msgSeq \in Nat
      BY DEF StoreInv, SafeInv, TypeInv, TypeOK
    <3>2. Keeps(id)
      BY <3>1 DEF MessagesLast
    <3> QED
      BY <1>2, <3>2 DEF Keeps, Live
  <2>2. log.seq \in Nat
    BY DEF StoreInv, SafeInv, TypeInv, LogTyped
  <2> QED
    BY <1>2, <2>1, <2>2, RemovedWillDrop
<1> QED
  BY <1>1, <1>2

LEMMA StoreStepStale ==
  ASSUME StoreInv, StoreInv', Held, StaleInv, StoreStep
  PROVE  StaleInv'
<1>1. MessagesLast /\ LogGrows
  BY StepLasts, StepGrows DEF StoreInv, SafeInv, StoreStep
<1>2. TypeInv /\ TypeInv'
  BY DEF StoreInv, SafeInv
<1>3. /\ UNCHANGED <<mode, local, cursor, high, before>>
      /\ \/ request' = request
         \/ request'.stage = "none" /\ DOMAIN request'.msgs = {}
  BY NoRequestFacts DEF StoreStep, client
<1>4. cursor \in Nat
  BY DEF Held, SyncTypeOK
<1>5. HasCursor'
  BY <1>1, <1>2, <1>3, <1>4 DEF StaleInv, HasCursor, LogGrows, TypeInv, LogTyped
<1>6. HasEvents'
  BY <1>1, <1>2, <1>3, RowsLast DEF StaleInv, HasEvents
<1>7. ASSUME mode \in {"seed", "follow"}
      PROVE  \A id \in DOMAIN local \ Live' : WillDrop(id, local[id].extraID)'
  <2> SUFFICES ASSUME NEW id \in DOMAIN local, id \notin Live'
               PROVE  WillDrop(id, local[id].extraID)'
    OBVIOUS
  <2>1. cursor <= log.seq
    BY <1>7 DEF StaleInv, HasCursor
  <2>2. id \in Nat /\ id <= msgSeq
    BY DEF Held, Copies
  <2>3. PICK x : x = local[id].extraID
    OBVIOUS
  <2>4. id \notin Live => WillDrop(id, x)
    BY <1>7, <2>3 DEF StaleInv, NothingStale
  <2>5. WillDrop(id, x)'
    BY <1>1, <1>3, <1>4, <2>1, <2>2, <2>4, GoneWillDrop
  <2> QED
    BY <1>3, <2>3, <2>5 DEF WillDrop
<1>8. ASSUME mode \in {"seed", "follow"}, request' = request
      PROVE  \A id \in DOMAIN request.msgs \ Live' : WillDrop(id, request.msgs[id].extraID)'
  <2> SUFFICES ASSUME NEW id \in DOMAIN request.msgs, id \notin Live'
               PROVE  WillDrop(id, request.msgs[id].extraID)'
    OBVIOUS
  <2>1. cursor <= log.seq
    BY <1>8 DEF StaleInv, HasCursor
  <2>2. id \in Nat /\ id <= msgSeq
    BY DEF Held, Copies
  <2>3. PICK x : x = request.msgs[id].extraID
    OBVIOUS
  <2>4. id \notin Live => WillDrop(id, x)
    BY <1>8, <2>3 DEF StaleInv, ReadsNotStale
  <2>5. WillDrop(id, x)'
    BY <1>1, <1>3, <1>4, <2>1, <2>2, <2>4, GoneWillDrop
  <2> QED
    BY <1>8, <2>3, <2>5 DEF WillDrop
<1>9. NothingStale'
  BY <1>3, <1>7 DEF NothingStale
<1>10. ReadsNotStale'
  <2>1. CASE request' = request
    BY <1>3, <1>8, <2>1 DEF ReadsNotStale
  <2>2. CASE DOMAIN request'.msgs = {}
    BY <2>2 DEF ReadsNotStale
  <2> QED
    BY <1>3, <2>1, <2>2
<1> QED
  BY <1>3, <1>5, <1>6, <1>9, <1>10 DEF StaleInv

LEMMA AskStale ==
  ASSUME BaselineFirst = TRUE, ColdStart = FALSE, Held, StaleInv, Ask \/ Lose
  PROVE  StaleInv'
<1>1. /\ UNCHANGED <<vars, client>> /\ DOMAIN request'.msgs = {}
      /\ Lose => request'.stage = "none"
  BY NoRequestFacts DEF Ask, Lose
<1>2. Ask => DeviceRows(Self) # {}
  BY DEF Ask, StartMode, Held, SyncTypeOK, Modes, StaleInv, HasEvents
<1>3. HasEvents'
  BY <1>1, <1>2 DEF StaleInv, HasEvents, DeviceRows, vars, client
<1>4. NothingStale'
  BY <1>1 DEF StaleInv, NothingStale, Live, WillDrop, BelowAllRows, DeviceRows, Covers,
              vars, client
<1>5. HasCursor' /\ ReadsNotStale' /\ mode' # "first"
  BY <1>1 DEF StaleInv, HasCursor, ReadsNotStale, vars, client
<1> QED
  BY <1>3, <1>4, <1>5 DEF StaleInv

LEMMA ReadMessagesStale ==
  ASSUME StoreInv, Held, StaleInv, ReadMessages
  PROVE  StaleInv'
<1>1. /\ UNCHANGED <<vars, client>> /\ opened
      /\ DOMAIN request'.msgs = MessagePage.ids
      /\ request.stage # "none"
  BY ReadFacts DEF ReadMessages
<1>2. MessagePage.ids \subseteq Live
  BY <1>1, PageIsLive
<1>3. Live' = Live
  BY <1>1 DEF Live, vars
<1>4. HasEvents'
  BY <1>1 DEF StaleInv, HasEvents, DeviceRows, vars, client
<1>5. NothingStale'
  BY <1>1 DEF StaleInv, NothingStale, Live, WillDrop, BelowAllRows, DeviceRows, Covers,
              vars, client
<1>6. ReadsNotStale'
  BY <1>1, <1>2, <1>3 DEF ReadsNotStale
<1>7. HasCursor' /\ mode' # "first"
  BY <1>1 DEF StaleInv, HasCursor, vars, client
<1> QED
  BY <1>4, <1>5, <1>6, <1>7 DEF StaleInv

LEMMA MergedWillDrop ==
  ASSUME StaleInv, mode \in {"seed", "follow"}, NEW id \in DOMAIN Merged \ Live
  PROVE  WillDrop(id, Merged[id].extraID)
<1>1. /\ DOMAIN Merged = DOMAIN local \cup DOMAIN request.msgs
      /\ \A i \in DOMAIN request.msgs : Merged[i] = request.msgs[i]
      /\ \A i \in DOMAIN local \ DOMAIN request.msgs : Merged[i] = local[i]
  BY MergedFacts
<1>2. CASE id \in DOMAIN request.msgs
  BY <1>1, <1>2 DEF StaleInv, ReadsNotStale
<1>3. CASE id \notin DOMAIN request.msgs
  BY <1>1, <1>3 DEF StaleInv, NothingStale
<1> QED
  BY <1>2, <1>3

\* A page of a poll that is not reset leaves the client only what a later one drops.
LEMMA LeftWillDrop ==
  ASSUME StoreInv, Held, StaleInv, NEW page, page = DeletionsByDevice(Self, cursor),
         mode = "follow", ~ page.reset,
         NEW id, NEW x, WillDrop(id, x), ~ Hit(page, id, x)
  PROVE  \E c \in DeviceRows(Self) :
           /\ c > page.cursor
           /\ \/ Covers(log.rows[c], id)
              \/ log.rows[c].kind = "extra" /\ log.rows[c].target = x
<1>1. /\ cursor \in 1 .. log.seq /\ cursor \in Nat /\ cursor # 0
      /\ DeviceRows(Self) # {} /\ Self \in Devices
  BY ClientAssumption
  DEF StaleInv, HasCursor, HasEvents, Held, SyncTypeOK, StoreInv, SafeInv, TypeInv, LogTyped
<1>2. ~ BelowAllRows(Self, cursor) /\ page.cursor \in Nat
  BY <1>1, DeletionPage DEF StoreInv
<1> DEFINE due == Between(Self, cursor, page.cursor)
<1>3. /\ page.ids = Targets(due, "single")
      /\ page.purges = Targets(due, "purge")
      /\ page.extraIDs = Targets(due, "extra")
  BY <1>1, PagesAreExact DEF StoreInv, PagesExact
<1>4. PICK c \in DeviceRows(Self) :
        /\ c > cursor
        /\ \/ Covers(log.rows[c], id)
           \/ log.rows[c].kind = "extra" /\ log.rows[c].target = x
  BY <1>2 DEF WillDrop
<1>5. c \in DOMAIN log.rows /\ log.rows[c].device = Self /\ c \in Nat
  BY DEF DeviceRows, StoreInv, SafeInv, TypeInv, LogTyped
<1>6. ASSUME c <= page.cursor
      PROVE  FALSE
  <2>1. c \in due
    BY <1>1, <1>4, <1>5, <1>6 DEF Between
  <2> HIDE DEF due
  <2>2. \A kind : log.rows[c].kind = kind => log.rows[c].target \in Targets(due, kind)
    BY <2>1 DEF Targets
  <2>3. CASE log.rows[c].kind = "single" /\ log.rows[c].target = id
    BY <1>3, <2>2, <2>3 DEF Hit
  <2>4. CASE log.rows[c].kind = "purge" /\ id <= log.rows[c].target
    BY <1>3, <2>2, <2>4 DEF Hit
  <2>5. CASE log.rows[c].kind = "extra" /\ log.rows[c].target = x
    BY <1>3, <2>2, <2>5 DEF Hit
  <2> QED
    BY <1>4, <2>3, <2>4, <2>5 DEF Covers
<1>7. c > page.cursor
  BY <1>2, <1>5, <1>6
<1> QED
  BY <1>4, <1>7

LEMMA TakePollStale ==
  ASSUME StoreInv, Held, StaleInv, NEW page, page = DeletionsByDevice(Self, cursor),
         TakePoll(page), UNCHANGED vars, request' = NoRequest,
         page.cursor \in Nat, page.cursor <= log.seq, page.cursor # 0
  PROVE  StaleInv'
<1>1. /\ mode = "follow" /\ mode' = "follow" /\ ~ page.reset
      /\ local' = Applied(Merged, page)
      /\ cursor' = page.cursor
  BY DEF TakePoll, Merged
<1>2. messages' = messages /\ log' = log
  BY DEF vars
<1>3. /\ DOMAIN local' = {i \in DOMAIN Merged : ~ Hit(page, i, Merged[i].extraID)}
      /\ \A i \in DOMAIN local' : local'[i] = Merged[i]
  BY <1>1, AppliedFacts
<1>4. ASSUME NEW id \in DOMAIN local' \ Live'
      PROVE  WillDrop(id, local[id].extraID)'
  <2>1. id \in DOMAIN Merged \ Live /\ ~ Hit(page, id, Merged[id].extraID)
    BY <1>2, <1>3 DEF Live
  <2>2. PICK x : x = Merged[id].extraID
    OBVIOUS
  <2>3. WillDrop(id, x)
    BY <1>1, <2>1, <2>2, MergedWillDrop
  <2>4. \E c \in DeviceRows(Self) :
          /\ c > page.cursor
          /\ \/ Covers(log.rows[c], id)
             \/ log.rows[c].kind = "extra" /\ log.rows[c].target = x
    BY <1>1, <2>1, <2>2, <2>3, LeftWillDrop
  <2>5. local'[id].extraID = x
    BY <1>3, <2>2
  <2> QED
    BY <1>1, <1>2, <2>4, <2>5 DEF WillDrop, DeviceRows, Covers
<1>5. NothingStale'
  BY <1>4 DEF NothingStale
<1>6. HasEvents'
  BY <1>1, <1>2 DEF StaleInv, HasEvents, DeviceRows
<1>7. HasCursor' /\ ReadsNotStale' /\ mode' # "first"
  <2>1. 1 <= cursor' /\ cursor' <= log'.seq
    BY <1>1, <1>2
  <2> QED
    BY <1>1, <2>1, NoRequestFacts DEF HasCursor, ReadsNotStale
<1> QED
  BY <1>5, <1>6, <1>7 DEF StaleInv

LEMMA TakeSeedPageStale ==
  ASSUME StoreInv, Held, StaleInv, NEW page, TakeSeedPage(page),
         UNCHANGED vars, request' = NoRequest
  PROVE  StaleInv'
<1>1. /\ mode = "seed" /\ mode' \in {"seed", "follow"}
      /\ local' = Merged /\ cursor' = cursor
  BY DEF TakeSeedPage, Merged, StaleInv
<1>2. messages' = messages /\ log' = log
  BY DEF vars
<1>3. ASSUME NEW id \in DOMAIN local' \ Live'
      PROVE  WillDrop(id, local[id].extraID)'
  <2>1. id \in DOMAIN Merged \ Live
    BY <1>1, <1>2, <1>3 DEF Live
  <2>2. WillDrop(id, Merged[id].extraID)
    BY <1>1, <2>1, MergedWillDrop
  <2> QED
    BY <1>1, <1>2, <2>2 DEF WillDrop, BelowAllRows, DeviceRows, Covers
<1>4. NothingStale'
  BY <1>3 DEF NothingStale
<1>5. HasEvents' /\ HasCursor'
  BY <1>1, <1>2 DEF StaleInv, HasEvents, HasCursor, DeviceRows
<1>6. ReadsNotStale' /\ mode' # "first"
  BY <1>1, NoRequestFacts DEF ReadsNotStale
<1> QED
  BY <1>4, <1>5, <1>6 DEF StaleInv

\* A client that starts, or starts afresh, holds nothing and takes the last cursor.
LEMMA StartStale ==
  ASSUME UNCHANGED vars, request' = NoRequest, mode' = "seed", DOMAIN local' = {},
         log.seq \in Nat, cursor' \in Nat, cursor' # 0, cursor' <= log.seq,
         DeviceRows(Self) # {}
  PROVE  StaleInv'
<1>1. log' = log
  BY DEF vars
<1>2. HasEvents' /\ HasCursor'
  BY <1>1 DEF HasEvents, HasCursor, DeviceRows
<1>3. NothingStale' /\ ReadsNotStale'
  BY NoRequestFacts DEF NothingStale, ReadsNotStale
<1> QED
  BY <1>2, <1>3 DEF StaleInv

LEMMA AnswerStale ==
  ASSUME StoreInv, Held, StaleInv, Answer
  PROVE  StaleInv'
<1> DEFINE page == DeletionsByDevice(Self, DeletedSince)
<1>1. /\ TakeBaseline(page) \/ TakeSeedPage(page) \/ TakePoll(page) \/ TakeReset(page)
      /\ request' = NoRequest /\ UNCHANGED vars
      /\ request.stage = "half"
      /\ page.cursor \in Nat /\ page.cursor <= log.seq
      /\ DeviceRows(Self) # {} => page.cursor # 0
  BY AnswerFacts
<1>2. DeviceRows(Self) # {} /\ page.cursor # 0 /\ log.seq \in Nat
  BY <1>1 DEF StaleInv, HasEvents, StoreInv, SafeInv, TypeInv, LogTyped
<1>3. CASE TakeBaseline(page)
  <2>1. mode = "baseline" /\ mode' = "seed" /\ local' = local /\ cursor' = page.cursor
    BY <1>3 DEF TakeBaseline
  <2>2. DOMAIN local = {}
    BY <2>1 DEF Held, SyncTypeOK
  <2> QED
    BY <1>1, <1>2, <2>1, <2>2, StartStale
<1>4. CASE TakeSeedPage(page)
  BY <1>1, <1>4, TakeSeedPageStale
<1>5. CASE TakePoll(page)
  <2>1. DeletedSince = cursor
    BY <1>5 DEF TakePoll, DeletedSince
  <2> QED
    BY <1>1, <1>2, <1>5, <2>1, TakePollStale
<1>6. CASE TakeReset(page)
  <2>1. mode' = "seed" /\ DOMAIN local' = {} /\ cursor' = page.cursor
    BY <1>6 DEF TakeReset, EmptyBucket
  <2> QED
    BY <1>1, <1>2, <2>1, StartStale
<1> QED
  BY <1>1, <1>3, <1>4, <1>5, <1>6

LEMMA StepStale ==
  ASSUME BaselineFirst = TRUE, ColdStart = FALSE,
         StoreInv, StoreInv', Held, StaleInv, [SyncNext]_syncVars
  PROVE  StaleInv'
<1>1. CASE UNCHANGED syncVars
  BY <1>1 DEF syncVars, vars, client, StaleInv, HasCursor, HasEvents, ReadsNotStale,
              NothingStale, Live, WillDrop, BelowAllRows, DeviceRows, Covers
<1> QED
  BY <1>1, StoreStepStale, AskStale, ReadMessagesStale, AnswerStale DEF SyncNext

(***************************************************************************)
(* A client that fetches its baseline cursor in a request of its own, and  *)
(* only once its device has had an event, never shows a deleted message    *)
(* for good: what it holds is stored, or an event past its cursor removes  *)
(* it, or its next poll is answered with "reset" (DeletionsByDevice and    *)
(* routeGotifyDeviceMessage).  Without either condition this is false, as  *)
(* the runs sync_seed_race and sync_cold_start show.                       *)
(***************************************************************************)
THEOREM NeverStale ==
  ASSUME BaselineFirst = TRUE, ColdStart = FALSE
  PROVE  SyncSpec => []NothingStale
<1>1. SyncInit => StaleInv
  BY InitStale
<1>2. StoreInv /\ StoreInv' /\ Held /\ StaleInv /\ [SyncNext]_syncVars => StaleInv'
  BY StepStale
<1>3. StaleInv => NothingStale
  BY DEF StaleInv
<1> QED
  BY <1>1, <1>2, <1>3, StoreInvHolds, HeldHolds, PTL DEF SyncSpec

=============================================================================
