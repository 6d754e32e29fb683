------------------------ MODULE GotifyStoreSafetyProofs ------------------------
(***************************************************************************)
(* Proofs of the safety of the message history: ids are never used again,  *)
(* the deletion log never hits a stored message, and no message goes       *)
(* without a word.                                                         *)
(***************************************************************************)
EXTENDS GotifyStoreProofs

(***************************************************************************)
(* The inductive invariant.  An event in the log spares the messages that  *)
(* are still to come because its target is at most the sequence of the     *)
(* messages bucket, and what was removed stays told because the log had    *)
(* not gone further, at the removal, than it has now.                      *)
(***************************************************************************)
TargetsBounded ==
  \A c \in DOMAIN log.rows :
    log.rows[c].kind \in {"single", "purge"} => log.rows[c].target <= msgSeq

RemovedBefore ==
  \A id \in DOMAIN removed : removed[id].at <= log.seq

SafeInv ==
  /\ TypeInv
  /\ NoResurrection
  /\ IndexesMatchRows(log)
  /\ TargetsBounded
  /\ EventsSpareTheLiving
  /\ RemovedBefore
  /\ NoSilentRemoval

(***************************************************************************)
(* A transaction that only appends to the log.  gone are the messages it   *)
(* removes, and whatever it stores it stores under a new id or in place.   *)
(***************************************************************************)
LEMMA AppendingStepIsSafe ==
  ASSUME SafeInv, TypeInv', IndexesMatchRows(log'),
         NEW gone \in SUBSET DOMAIN messages, NoteRemoved(gone),
         msgSeq' >= msgSeq,
         \A id \in DOMAIN messages' :
           \/ id \in DOMAIN messages \ gone /\ messages'[id].device = messages[id].device
           \/ id > msgSeq,
         log'.seq >= log.seq,
         \A c \in DOMAIN log.rows : c \in DOMAIN log'.rows /\ log'.rows[c] = log.rows[c],
         \A c \in DOMAIN log'.rows \ DOMAIN log.rows :
           /\ c > log.seq
           /\ log'.rows[c].kind \in {"single", "purge"} => log'.rows[c].target <= msgSeq'
           /\ \A id \in DOMAIN messages' :
                log'.rows[c].device = messages'[id].device => ~ Covers(log'.rows[c], id),
         \A id \in gone : \E c \in DOMAIN log'.rows :
           c > log.seq /\ log'.rows[c].device = messages[id].device
                       /\ Covers(log'.rows[c], id)
  PROVE  SafeInv'
<1>1. /\ DOMAIN removed' = DOMAIN removed \cup gone
      /\ \A id \in gone : removed'[id] = [device |-> messages[id].device, at |-> log.seq]
      /\ \A id \in DOMAIN removed \ gone : removed'[id] = removed[id]
  BY DEF NoteRemoved
<1>2. /\ msgSeq \in Nat /\ msgSeq' \in Nat /\ log.seq \in Nat /\ log'.seq \in Nat
      /\ \A id \in DOMAIN messages : id \in Nat /\ id <= msgSeq
      /\ \A id \in DOMAIN messages' : id \in Nat /\ id <= msgSeq'
      /\ \A id \in DOMAIN removed : id \in Nat /\ id <= msgSeq /\ removed[id].at \in Nat
      /\ \A c \in DOMAIN log.rows : c \in Nat /\ c <= log.seq /\ log.rows[c].target \in Nat
      /\ \A c \in DOMAIN log'.rows : c \in Nat /\ log'.rows[c].target \in Nat
  BY DEF SafeInv, TypeInv, TypeOK, NoResurrection, LogTyped, Deletion
<1>3. DOMAIN removed \cap gone = {}
  BY DEF SafeInv, NoResurrection
<1>4. NoResurrection'
  <2>1. ASSUME NEW id \in DOMAIN messages'
        PROVE  id \notin DOMAIN removed'
    BY <1>1, <1>2 DEF SafeInv, NoResurrection
  <2>2. \A id \in DOMAIN removed' : id <= msgSeq'
    BY <1>1, <1>2
  <2> QED
    BY <1>2, <2>1, <2>2 DEF NoResurrection
<1>5. TargetsBounded'
  BY <1>2 DEF SafeInv, TargetsBounded
<1>6. EventsSpareTheLiving'
  <2> SUFFICES ASSUME NEW c \in DOMAIN log'.rows, NEW id \in DOMAIN messages',
                      log'.rows[c].device = messages'[id].device
               PROVE  ~ Covers(log'.rows[c], id)
    BY DEF EventsSpareTheLiving, Covers
  <2>1. CASE c \notin DOMAIN log.rows
    BY <2>1
  <2>2. CASE c \in DOMAIN log.rows /\ id > msgSeq
    <3>1. log'.rows[c] = log.rows[c]
      BY <2>2
    <3>2. log.rows[c].kind \in {"single", "purge"} => log.rows[c].target <= msgSeq
      BY <2>2 DEF SafeInv, TargetsBounded
    <3> QED
      BY <1>2, <2>2, <3>1, <3>2 DEF Covers
  <2>3. CASE c \in DOMAIN log.rows /\ ~ (id > msgSeq)
    <3>1. /\ log'.rows[c] = log.rows[c]
          /\ id \in DOMAIN messages /\ messages'[id].device = messages[id].device
      BY <2>3
    <3> QED
      BY <2>3, <3>1 DEF SafeInv, EventsSpareTheLiving
  <2> QED
    BY <2>1, <2>2, <2>3
<1>7. RemovedBefore'
  BY <1>1, <1>2 DEF SafeInv, RemovedBefore
<1>8. NoSilentRemoval'
  <2> SUFFICES ASSUME NEW id \in DOMAIN removed'
               PROVE  Told(id)' \/ BelowAllRows(removed[id].device, removed[id].at)'
    BY DEF NoSilentRemoval
  <2>1. CASE id \in gone
    BY <1>1, <2>1 DEF Told
  <2>2. CASE id \notin gone /\ Told(id)
    <3>1. id \in DOMAIN removed /\ removed'[id] = removed[id]
      BY <1>1, <2>2
    <3> QED
      BY <2>2, <3>1 DEF Told
  <2>3. CASE id \notin gone /\ BelowAllRows(removed[id].device, removed[id].at)
    <3>1. id \in DOMAIN removed /\ removed'[id] = removed[id]
      BY <1>1, <2>3
    <3>2. removed[id].at \in Nat /\ removed[id].at <= log.seq
      BY <1>2, <3>1 DEF SafeInv, RemovedBefore
    <3>3. \A c \in DOMAIN log'.rows : c \in DOMAIN log.rows \/ c > removed[id].at
      BY <1>2, <3>2
    <3>4. \A c \in DOMAIN log'.rows :
            log'.rows[c].device = removed[id].device => removed[id].at < c
      BY <2>3, <3>3, <1>2, <3>2 DEF BelowAllRows, DeviceRows
    <3>5. \E c \in DOMAIN log'.rows : log'.rows[c].device = removed[id].device
      BY <2>3 DEF BelowAllRows, DeviceRows
    <3> QED
      BY <3>1, <3>4, <3>5 DEF BelowAllRows, DeviceRows
  <2>4. id \in gone \/ Told(id) \/ BelowAllRows(removed[id].device, removed[id].at)
    BY <1>1 DEF SafeInv, NoSilentRemoval
  <2> QED
    BY <2>1, <2>2, <2>3, <2>4
<1> QED
  BY <1>4, <1>5, <1>6, <1>7, <1>8 DEF SafeInv

(***************************************************************************)
(* Entering removed messages one by one.  The row of a message that was    *)
(* stored is always written anew: an older row for it would be an event    *)
(* that hits a stored message.                                             *)
(***************************************************************************)
LEMMA SinglesAppend ==
  ASSUME SafeInv, NEW msgs, NEW ids \in SUBSET Nat, IsFiniteSet(ids),
         \A id \in ids : msgs[id].device \in Devices,
         NEW new, new = AddDeletions(log, Singles(msgs, ids))
  PROVE  /\ LogTyped(new)
         /\ IndexesMatchRows(new)
         /\ new.seq >= log.seq
         /\ \A c \in DOMAIN log.rows : c \in DOMAIN new.rows /\ new.rows[c] = log.rows[c]
         /\ \A c \in DOMAIN new.rows \ DOMAIN log.rows :
              /\ c > log.seq
              /\ \E id \in ids : new.rows[c] = Record(msgs[id].device, "single", id)
         /\ \A id \in ids :
              id \in DOMAIN messages /\ msgs[id].device = messages[id].device =>
                \E c \in DOMAIN new.rows :
                  c > log.seq /\ new.rows[c] = Record(msgs[id].device, "single", id)
<1> DEFINE recs == Singles(msgs, ids)
<1>1. DOMAIN recs = ids /\ \A id \in ids : recs[id] = Record(msgs[id].device, "single", id)
  BY DEF Singles
<1> HIDE DEF recs
<1>2. ASSUME NEW id \in ids
       PROVE  MsgKey(recs[id]) = <<msgs[id].device, id>>
  <2>1. recs[id] = Record(msgs[id].device, "single", id)
    BY <1>1
  <2>2. recs[id].device = msgs[id].device /\ recs[id].target = id
    BY <2>1 DEF Record
  <2> QED
    BY <2>2 DEF MsgKey
<1>3. LogTyped(log) /\ IndexesMatchRows(log) /\ now \in Nat
  BY DEF SafeInv, TypeInv, TypeOK
<1>4. Batch(recs)
  BY <1>3, SinglesAreABatch DEF recs
<1>5. \A j, k \in DOMAIN recs : MsgKey(recs[j]) = MsgKey(recs[k]) => j = k
  <2> SUFFICES ASSUME NEW j \in ids, NEW k \in ids, MsgKey(recs[j]) = MsgKey(recs[k])
               PROVE  j = k
    BY <1>1
  <2> QED
    BY <1>2
<1>6. /\ LogTyped(new)
      /\ new.seq >= log.seq
      /\ \A c \in DOMAIN log.rows : c \in DOMAIN new.rows /\ new.rows[c] = log.rows[c]
      /\ \A c \in DOMAIN new.rows \ DOMAIN log.rows :
           /\ c > log.seq
           /\ \E k \in DOMAIN recs : new.rows[c] = recs[k]
      /\ \A k \in DOMAIN recs :
           \/ Logged(log, recs[k])
           \/ \E c \in DOMAIN new.rows : c > log.seq /\ new.rows[c] = recs[k]
  BY <1>3, <1>4, AddDeletionsAppends DEF recs
<1>7. IndexesMatchRows(new)
  BY <1>3, <1>4, <1>5, AddDeletionsKeepsIndexes DEF recs
<1>8. ASSUME NEW id \in ids, id \in DOMAIN messages, msgs[id].device = messages[id].device
      PROVE  ~ Logged(log, recs[id])
  <2> SUFFICES ASSUME Logged(log, recs[id])
               PROVE  FALSE
    OBVIOUS
  <2>1. <<messages[id].device, id>> \in log.byMsg
    BY <1>8, <1>2 DEF Logged
  <2>2. PICK c \in SingleRows(log) : MsgKey(log.rows[c]) = <<messages[id].device, id>>
    BY <1>3, <2>1 DEF IndexesMatchRows
  <2>3. /\ c \in DOMAIN log.rows /\ log.rows[c].kind = "single"
        /\ log.rows[c].device = messages[id].device /\ log.rows[c].target = id
    BY <2>2 DEF SingleRows, MsgKey
  <2> QED
    BY <1>8, <2>3 DEF SafeInv, EventsSpareTheLiving, Covers
<1>9. ASSUME NEW c \in DOMAIN new.rows \ DOMAIN log.rows
      PROVE  \E id \in ids : new.rows[c] = Record(msgs[id].device, "single", id)
  <2>1. PICK k \in DOMAIN recs : new.rows[c] = recs[k]
    BY <1>6
  <2> QED
    BY <1>1, <2>1
<1>10. ASSUME NEW id \in ids, id \in DOMAIN messages, msgs[id].device = messages[id].device
      PROVE  \E c \in DOMAIN new.rows :
               c > log.seq /\ new.rows[c] = Record(msgs[id].device, "single", id)
  <2>1. \E c \in DOMAIN new.rows : c > log.seq /\ new.rows[c] = recs[id]
    BY <1>1, <1>6, <1>8, <1>10
  <2> QED
    BY <1>1, <2>1
<1>11. \A c \in DOMAIN new.rows \ DOMAIN log.rows :
         /\ c > log.seq
         /\ \E id \in ids : new.rows[c] = Record(msgs[id].device, "single", id)
  BY <1>6, <1>9
<1>12. \A id \in ids :
         id \in DOMAIN messages /\ msgs[id].device = messages[id].device =>
           \E c \in DOMAIN new.rows :
             c > log.seq /\ new.rows[c] = Record(msgs[id].device, "single", id)
  BY <1>10
<1> HIDE DEF recs
<1> QED
  BY <1>6, <1>7, <1>11, <1>12

(***************************************************************************)
(* Deleting by id, by extras.id and by deadline: one "single" row for each *)
(* message that goes, after which "extra" rows may follow.                 *)
(***************************************************************************)
LEMMA RemovalBySinglesIsSafe ==
  ASSUME SafeInv, TypeInv', NEW ids \in SUBSET DOMAIN messages, RemoveMessages(ids),
         NEW mid, mid = AddDeletions(log, Singles(messages, ids)),
         IndexesMatchRows(mid) /\ LogTyped(mid) =>
           /\ IndexesMatchRows(log')
           /\ log'.seq >= mid.seq
           /\ \A c \in DOMAIN mid.rows : c \in DOMAIN log'.rows /\ log'.rows[c] = mid.rows[c]
           /\ \A c \in DOMAIN log'.rows \ DOMAIN mid.rows :
                c > mid.seq /\ log'.rows[c].kind \notin {"single", "purge"}
  PROVE  SafeInv'
<1>1. /\ ids \in SUBSET Nat /\ msgSeq \in Nat
      /\ \A id \in ids : id <= msgSeq /\ messages[id].device \in Devices
  BY DEF SafeInv, TypeInv, TypeOK, Message
<1>2. IsFiniteSet(ids)
  BY <1>1, FS_BoundedSetOfNaturals
<1>3. /\ LogTyped(mid)
      /\ IndexesMatchRows(mid)
      /\ mid.seq >= log.seq
      /\ \A c \in DOMAIN log.rows : c \in DOMAIN mid.rows /\ mid.rows[c] = log.rows[c]
      /\ \A c \in DOMAIN mid.rows \ DOMAIN log.rows :
           /\ c > log.seq
           /\ \E id \in ids : mid.rows[c] = Record(messages[id].device, "single", id)
      /\ \A id \in ids : \E c \in DOMAIN mid.rows :
           c > log.seq /\ mid.rows[c] = Record(messages[id].device, "single", id)
  BY <1>1, <1>2, SinglesAppend
<1>4. /\ IndexesMatchRows(log')
      /\ log'.seq >= mid.seq
      /\ \A c \in DOMAIN mid.rows : c \in DOMAIN log'.rows /\ log'.rows[c] = mid.rows[c]
      /\ \A c \in DOMAIN log'.rows \ DOMAIN mid.rows :
           c > mid.seq /\ log'.rows[c].kind \notin {"single", "purge"}
  BY <1>3
<1>5. /\ msgSeq' = msgSeq /\ NoteRemoved(ids)
      /\ DOMAIN messages' = DOMAIN messages \ ids
      /\ \A id \in DOMAIN messages' : messages'[id] = messages[id]
  BY DEF RemoveMessages, Delete, Restrict
<1>6. log.seq \in Nat /\ mid.seq \in Nat /\ log'.seq \in Nat
      /\ \A c \in DOMAIN log'.rows : c \in Nat
  BY <1>3 DEF SafeInv, TypeInv, TypeOK, LogTyped
<1>7. ASSUME NEW c \in DOMAIN log'.rows \ DOMAIN log.rows
      PROVE  /\ c > log.seq
             /\ log'.rows[c].kind \in {"single", "purge"} => log'.rows[c].target <= msgSeq'
             /\ \A id \in DOMAIN messages' : ~ Covers(log'.rows[c], id)
  <2>1. CASE c \in DOMAIN mid.rows
    <3>1. PICK i \in ids : mid.rows[c] = Record(messages[i].device, "single", i)
      BY <1>3, <2>1
    <3>2. log'.rows[c].kind = "single" /\ log'.rows[c].target = i
      BY <1>4, <2>1, <3>1 DEF Record
    <3> QED
      BY <1>1, <1>3, <1>5, <2>1, <3>2 DEF Covers
  <2>2. CASE c \notin DOMAIN mid.rows
    BY <1>3, <1>4, <1>6, <2>2 DEF Covers
  <2> QED
    BY <2>1, <2>2
<1>8. ASSUME NEW id \in ids
      PROVE  \E c \in DOMAIN log'.rows :
               c > log.seq /\ log'.rows[c].device = messages[id].device
                           /\ Covers(log'.rows[c], id)
  <2>1. PICK c \in DOMAIN mid.rows :
          c > log.seq /\ mid.rows[c] = Record(messages[id].device, "single", id)
    BY <1>3
  <2> QED
    BY <1>4, <2>1 DEF Record, Covers
<1>9. \A c \in DOMAIN log.rows : c \in DOMAIN log'.rows /\ log'.rows[c] = log.rows[c]
  BY <1>3, <1>4
<1>10. log'.seq >= log.seq /\ msgSeq' >= msgSeq
  BY <1>1, <1>3, <1>4, <1>5, <1>6
<1> QED
  BY <1>4, <1>5, <1>7, <1>8, <1>9, <1>10, AppendingStepIsSafe

(***************************************************************************)
(* The write operations, one by one.                                       *)
(***************************************************************************)
LEMMA DeleteByDeviceIsSafe ==
  ASSUME SafeInv, NEW scope, NEW id, DeleteByDevice(scope, id)
  PROVE  SafeInv'
<1>1. TypeInv'
  BY DeleteByDeviceTyped DEF SafeInv
<1>2. /\ {id} \in SUBSET DOMAIN messages
      /\ RemoveMessages({id})
      /\ log' = AddDeletions(log, Singles(messages, {id}))
  BY DEF DeleteByDevice
<1>3. log'.seq \in Nat
  BY <1>1 DEF TypeInv, TypeOK
<1> QED
  BY <1>1, <1>2, <1>3, RemovalBySinglesIsSafe

LEMMA ExpireMessagesIsSafe ==
  ASSUME SafeInv, ExpireMessages
  PROVE  SafeInv'
<1> DEFINE due == {id \in DOMAIN ttl : ttl[id] <= now}
           ids == due \cap DOMAIN messages
<1>1. TypeInv'
  BY ExpireMessagesTyped DEF SafeInv
<1>2. /\ ids \in SUBSET DOMAIN messages
      /\ RemoveMessages(ids)
      /\ log' = AddDeletions(log, Singles(messages, ids))
  BY DEF ExpireMessages
<1>3. log'.seq \in Nat
  BY <1>1 DEF TypeInv, TypeOK
<1> HIDE DEF ids
<1> QED
  BY <1>1, <1>2, <1>3, RemovalBySinglesIsSafe

(***************************************************************************)
(* A batch of rows of one device that is not "single".                     *)
(***************************************************************************)
LEMMA OtherRowsAppend ==
  ASSUME NEW lg, LogTyped(lg), IndexesMatchRows(lg), NEW recs, Batch(recs),
         \A k \in DOMAIN recs : recs[k].kind # "single",
         NEW new, new = AddDeletions(lg, recs)
  PROVE  /\ LogTyped(new)
         /\ IndexesMatchRows(new)
         /\ new.seq >= lg.seq
         /\ \A c \in DOMAIN lg.rows : c \in DOMAIN new.rows /\ new.rows[c] = lg.rows[c]
         /\ \A c \in DOMAIN new.rows \ DOMAIN lg.rows :
              c > lg.seq /\ \E k \in DOMAIN recs : new.rows[c] = recs[k]
         /\ \A k \in DOMAIN recs :
              \E c \in DOMAIN new.rows : c > lg.seq /\ new.rows[c] = recs[k]
<1>1. /\ LogTyped(new)
      /\ new.seq >= lg.seq
      /\ \A c \in DOMAIN lg.rows : c \in DOMAIN new.rows /\ new.rows[c] = lg.rows[c]
      /\ \A c \in DOMAIN new.rows \ DOMAIN lg.rows :
           c > lg.seq /\ \E k \in DOMAIN recs : new.rows[c] = recs[k]
      /\ \A k \in DOMAIN recs :
           \/ Logged(lg, recs[k])
           \/ \E c \in DOMAIN new.rows : c > lg.seq /\ new.rows[c] = recs[k]
  BY AddDeletionsAppends
<1>2. IndexesMatchRows(new)
  BY AddDeletionsKeepsIndexes
<1>3. \A k \in DOMAIN recs : ~ Logged(lg, recs[k])
  BY DEF Logged
<1> QED
  BY <1>1, <1>2, <1>3

LEMMA DeleteByExtraIDIsSafe ==
  ASSUME SafeInv, NEW d \in Devices, NEW x \in ExtraIDs, DeleteByExtraID(d, x)
  PROVE  SafeInv'
<1> DEFINE ids   == IF Matches(d, x) = {} THEN {} ELSE {Greatest(Matches(d, x))}
           extra == [k \in {x} |-> Record(d, "extra", x)]
           mid   == AddDeletions(log, Singles(messages, ids))
<1>1. TypeInv'
  BY DeleteByExtraIDTyped DEF SafeInv
<1>2. /\ RemoveMessages(ids)
      /\ log' = AddDeletions(mid, extra)
  BY DEF DeleteByExtraID
<1>3. ids \in SUBSET DOMAIN messages
  BY NewestMatch DEF SafeInv
<1>4. /\ DOMAIN extra = {x}
      /\ extra[x].kind = "extra"
      /\ Batch(extra)
  <2>1. Record(d, "extra", x) \in Deletion
    BY ConstantsAssumption DEF SafeInv, TypeInv, TypeOK, Record, Deletion, Kinds
  <2>2. IsFiniteSet({x}) /\ x \in Nat
    BY FS_Singleton, ConstantsAssumption
  <2> QED
    BY <2>1, <2>2 DEF Batch, Record
<1> HIDE DEF ids, extra, mid
<1>5. ASSUME LogTyped(mid), IndexesMatchRows(mid)
      PROVE  /\ IndexesMatchRows(log')
             /\ log'.seq >= mid.seq
             /\ \A c \in DOMAIN mid.rows : c \in DOMAIN log'.rows /\ log'.rows[c] = mid.rows[c]
             /\ \A c \in DOMAIN log'.rows \ DOMAIN mid.rows :
                  c > mid.seq /\ log'.rows[c].kind \notin {"single", "purge"}
  <2>1. \A k \in DOMAIN extra : extra[k].kind = "extra"
    BY <1>4
  <2>2. /\ IndexesMatchRows(log')
        /\ log'.seq >= mid.seq
        /\ \A c \in DOMAIN mid.rows : c \in DOMAIN log'.rows /\ log'.rows[c] = mid.rows[c]
        /\ \A c \in DOMAIN log'.rows \ DOMAIN mid.rows :
             c > mid.seq /\ \E k \in DOMAIN extra : log'.rows[c] = extra[k]
    BY <1>2, <1>4, <1>5, <2>1, OtherRowsAppend
  <2> QED
    BY <2>1, <2>2
<1> QED
  BY <1>1, <1>2, <1>3, <1>5, RemovalBySinglesIsSafe DEF mid

(***************************************************************************)
(* A purge spares the messages of the other devices by its device, and the *)
(* later ones of its own device by its ceiling.                            *)
(***************************************************************************)
LEMMA DeleteAllByDeviceIsSafe ==
  ASSUME SafeInv, NEW scope, DeleteAllByDevice(scope)
  PROVE  SafeInv'
<1> DEFINE ids      == {id \in DOMAIN messages : InScope(scope, id)}
           affected == {messages[id].device : id \in ids}
           recs     == [d \in affected |-> Record(d, "purge", Ceiling(d, ids))]
<1>1. TypeInv'
  BY DeleteAllByDeviceTyped DEF SafeInv
<1>2. /\ RemoveMessages(ids)
      /\ log' = AddDeletions(log, recs)
  BY DEF DeleteAllByDevice
<1>3. ids \in SUBSET DOMAIN messages /\ affected \in SUBSET Devices
  BY DEF SafeInv, TypeInv, TypeOK, Message
<1>4. ASSUME NEW d \in affected
      PROVE  /\ Ceiling(d, ids) \in ids
             /\ \A id \in ids : messages[id].device = d => id <= Ceiling(d, ids)
  <2>1. {id \in ids : messages[id].device = d} # {}
    OBVIOUS
  <2> QED
    BY <1>3, <2>1, CeilingIsAnId DEF SafeInv
<1>5. ASSUME NEW d \in affected
      PROVE  /\ recs[d].kind = "purge" /\ recs[d].device = d /\ recs[d].target = Ceiling(d, ids)
             /\ recs[d] \in Deletion
  BY <1>3, <1>4 DEF Record, Deletion, Kinds, SafeInv, TypeInv, TypeOK
<1>6. Batch(recs)
  <2>1. IsFiniteSet(affected) /\ affected \in SUBSET Nat
    BY <1>3, ConstantsAssumption, FS_Subset
  <2> QED
    BY <1>5, <2>1 DEF Batch
<1>7. DOMAIN recs = affected
  OBVIOUS
<1>8. ASSUME NEW id \in DOMAIN messages'
      PROVE  /\ id \in DOMAIN messages \ ids /\ messages'[id] = messages[id]
             /\ messages[id].device \notin affected
  BY <1>2 DEF RemoveMessages, Delete, Restrict, InScope
<1> HIDE DEF ids, affected, recs
<1>9. /\ IndexesMatchRows(log')
      /\ log'.seq >= log.seq
      /\ \A c \in DOMAIN log.rows : c \in DOMAIN log'.rows /\ log'.rows[c] = log.rows[c]
      /\ \A c \in DOMAIN log'.rows \ DOMAIN log.rows :
           c > log.seq /\ \E d \in affected : log'.rows[c] = recs[d]
      /\ \A d \in affected :
           \E c \in DOMAIN log'.rows : c > log.seq /\ log'.rows[c] = recs[d]
  <2>1. \A d \in DOMAIN recs : recs[d].kind # "single"
    BY <1>5, <1>7
  <2> QED
    BY <1>2, <1>6, <1>7, <2>1, OtherRowsAppend DEF SafeInv, TypeInv
<1>10. msgSeq' = msgSeq /\ msgSeq \in Nat /\ NoteRemoved(ids)
  BY <1>2 DEF RemoveMessages, SafeInv, TypeInv, TypeOK
<1>11. ASSUME NEW c \in DOMAIN log'.rows \ DOMAIN log.rows
       PROVE  /\ log'.rows[c].target <= msgSeq'
              /\ \A id \in DOMAIN messages' : log'.rows[c].device # messages'[id].device
  <2>1. PICK d \in affected : log'.rows[c] = recs[d]
    BY <1>9
  <2>2. log'.rows[c].device = d /\ log'.rows[c].target \in ids
    BY <1>4, <1>5, <2>1
  <2>3. log'.rows[c].target <= msgSeq
    BY <1>3, <2>2 DEF SafeInv, TypeInv
  <2> QED
    BY <1>8, <1>10, <2>2, <2>3
<1>12. ASSUME NEW id \in ids
       PROVE  \E c \in DOMAIN log'.rows :
                c > log.seq /\ log'.rows[c].device = messages[id].device
                            /\ Covers(log'.rows[c], id)
  <2>1. messages[id].device \in affected
    BY DEF affected
  <2>2. PICK c \in DOMAIN log'.rows :
          c > log.seq /\ log'.rows[c] = recs[messages[id].device]
    BY <1>9, <2>1
  <2> QED
    BY <1>4, <1>5, <2>1, <2>2 DEF Covers
<1> QED
  BY <1>1, <1>3, <1>8, <1>9, <1>10, <1>11, <1>12, AppendingStepIsSafe

(***************************************************************************)
(* An eviction goes out in the transaction of the push that caused it.     *)
(***************************************************************************)
LEMMA InsertIsSafe ==
  ASSUME SafeInv, NEW d \in Devices, NEW x \in ExtraIDs \cup {NoID},
         NEW b \in Bodies, NEW t \in TTLs \cup {NoTTL}, Insert(d, x, b, t)
  PROVE  SafeInv'
<1> DEFINE id      == msgSeq + 1
           grown   == Put(messages, id, NewMessage(d, x, b, t))
           victims == Evicted(grown)
           gone    == victims \ {id}
<1>1. TypeInv'
  BY InsertTyped DEF SafeInv
<1>2. /\ msgSeq' = id
      /\ messages' = Delete(grown, victims)
      /\ log' = AddDeletions(log, Singles(grown, victims))
      /\ NoteRemoved(gone)
  BY DEF Insert
<1>3. /\ msgSeq \in Nat
      /\ DOMAIN messages \in SUBSET Nat
      /\ \A i \in DOMAIN messages : i <= msgSeq /\ messages[i].device \in Devices
  BY DEF SafeInv, TypeInv, TypeOK, Message
<1>4. /\ DOMAIN grown = DOMAIN messages \cup {id}
      /\ grown[id].device = d
      /\ \A i \in DOMAIN messages : grown[i] = messages[i]
  BY <1>3 DEF Put, NewMessage
<1>5. victims \in SUBSET DOMAIN grown
  BY <1>3, <1>4, LeastIsLeast DEF Evicted
<1>6. IsFiniteSet(victims)
  <2>1. victims = {} \/ \E v : victims = {v}
    BY DEF Evicted
  <2> QED
    BY <2>1, AtMostOne
<1> HIDE DEF grown, victims
<1>7. /\ victims \in SUBSET Nat
      /\ \A v \in victims : grown[v].device \in Devices /\ v <= id
      /\ gone \in SUBSET DOMAIN messages
  BY <1>3, <1>4, <1>5
<1>8. /\ IndexesMatchRows(log')
      /\ log'.seq >= log.seq
      /\ \A c \in DOMAIN log.rows : c \in DOMAIN log'.rows /\ log'.rows[c] = log.rows[c]
      /\ \A c \in DOMAIN log'.rows \ DOMAIN log.rows :
           /\ c > log.seq
           /\ \E v \in victims : log'.rows[c] = Record(grown[v].device, "single", v)
      /\ \A v \in victims :
           v \in DOMAIN messages /\ grown[v].device = messages[v].device =>
             \E c \in DOMAIN log'.rows :
               c > log.seq /\ log'.rows[c] = Record(grown[v].device, "single", v)
  BY <1>2, <1>6, <1>7, SinglesAppend
<1>9. ASSUME NEW i \in DOMAIN messages'
      PROVE  /\ i \notin victims
             /\ \/ i \in DOMAIN messages \ gone /\ messages'[i].device = messages[i].device
                \/ i > msgSeq
  BY <1>2, <1>3, <1>4 DEF Delete, Restrict
<1>10. ASSUME NEW c \in DOMAIN log'.rows \ DOMAIN log.rows
       PROVE  /\ log'.rows[c].target <= msgSeq'
              /\ \A i \in DOMAIN messages' : ~ Covers(log'.rows[c], i)
  <2>1. PICK v \in victims : log'.rows[c] = Record(grown[v].device, "single", v)
    BY <1>8
  <2>2. log'.rows[c].kind = "single" /\ log'.rows[c].target = v
    BY <2>1 DEF Record
  <2> QED
    BY <1>2, <1>7, <1>9, <2>2 DEF Covers
<1>11. ASSUME NEW i \in gone
       PROVE  \E c \in DOMAIN log'.rows :
                c > log.seq /\ log'.rows[c].device = messages[i].device
                            /\ Covers(log'.rows[c], i)
  <2>1. i \in victims /\ i \in DOMAIN messages /\ grown[i].device = messages[i].device
    BY <1>4, <1>7
  <2>2. PICK c \in DOMAIN log'.rows :
          c > log.seq /\ log'.rows[c] = Record(messages[i].device, "single", i)
    BY <1>8, <2>1
  <2> QED
    BY <2>2 DEF Record, Covers
<1>12. msgSeq' >= msgSeq
  BY <1>2, <1>3
<1>13. \A c \in DOMAIN log'.rows \ DOMAIN log.rows :
         /\ c > log.seq
         /\ log'.rows[c].kind \in {"single", "purge"} => log'.rows[c].target <= msgSeq'
         /\ \A i \in DOMAIN messages' :
              log'.rows[c].device = messages'[i].device => ~ Covers(log'.rows[c], i)
  BY <1>8, <1>10
<1> HIDE DEF gone, id
<1> QED
  BY <1>1, <1>2, <1>7, <1>8, <1>9, <1>11, <1>12, <1>13, AppendingStepIsSafe

(***************************************************************************)
(* Overwriting keeps the id and the device of the message.                 *)
(***************************************************************************)
LEMMA OverwriteIsSafe ==
  ASSUME SafeInv, NEW d \in Devices, NEW x \in ExtraIDs, NEW b \in Bodies,
         NEW t \in TTLs \cup {NoTTL}, Matches(d, x) # {}, Overwrite(d, x, b, t)
  PROVE  SafeInv'
<1> DEFINE id == Greatest(Matches(d, x))
<1>1. TypeInv'
  BY OverwriteTyped DEF SafeInv
<1>2. id \in DOMAIN messages /\ messages[id].device = d
  <2>1. id \in Matches(d, x)
    BY NewestMatch DEF SafeInv
  <2> QED
    BY <2>1 DEF Matches
<1>3. /\ messages' = Put(messages, id, NewMessage(d, x, b, t))
      /\ UNCHANGED <<msgSeq, log, removed>>
  BY DEF Overwrite, history
<1> HIDE DEF id
<1>4. /\ DOMAIN messages' = DOMAIN messages
      /\ \A i \in DOMAIN messages' : messages'[i].device = messages[i].device
  BY <1>2, <1>3 DEF Put, NewMessage
<1>5. NoResurrection'
  BY <1>3, <1>4 DEF SafeInv, NoResurrection
<1>6. EventsSpareTheLiving'
  BY <1>3, <1>4 DEF SafeInv, EventsSpareTheLiving, Covers
<1>7. TargetsBounded' /\ RemovedBefore' /\ IndexesMatchRows(log')
  BY <1>3 DEF SafeInv, TargetsBounded, RemovedBefore
<1>8. NoSilentRemoval'
  BY <1>3 DEF SafeInv, NoSilentRemoval, Told, Covers, BelowAllRows, DeviceRows
<1> QED
  BY <1>1, <1>5, <1>6, <1>7, <1>8 DEF SafeInv

(***************************************************************************)
(* Dropping rows keeps the indexes of the log in agreement with its rows.  *)
(***************************************************************************)
LEMMA DropRowsKeepsIndexes ==
  ASSUME NEW lg, LogTyped(lg), IndexesMatchRows(lg), NEW old \in SUBSET DOMAIN lg.rows
  PROVE  IndexesMatchRows(DropRows(lg, old))
<1> DEFINE new == DropRows(lg, old)
<1>1. /\ new.byDev = lg.byDev \ {<<lg.rows[c].device, c>> : c \in old}
      /\ new.byMsg = lg.byMsg \ {MsgKey(lg.rows[c]) :
                                    c \in {e \in old : lg.rows[e].kind = "single"}}
  BY DEF DropRows
<1>2. /\ DOMAIN new.rows = DOMAIN lg.rows \ old
      /\ \A c \in DOMAIN new.rows : new.rows[c] = lg.rows[c]
  BY DropRowsTyped
<1> HIDE DEF new
<1>3. SingleRows(new) = SingleRows(lg) \ old
  BY <1>2 DEF SingleRows
<1>4. new.byDev = {<<new.rows[c].device, c>> : c \in DOMAIN new.rows}
  BY <1>1, <1>2 DEF IndexesMatchRows
<1>5. {e \in old : lg.rows[e].kind = "single"} = SingleRows(lg) \cap old
  BY DEF SingleRows
<1>6. new.byMsg = {MsgKey(lg.rows[c]) : c \in SingleRows(lg) \ old}
  <2>1. lg.byMsg = {MsgKey(lg.rows[c]) : c \in SingleRows(lg)}
    BY DEF IndexesMatchRows
  <2>2. \A c, e \in SingleRows(lg) : MsgKey(lg.rows[c]) = MsgKey(lg.rows[e]) => c = e
    BY DEF IndexesMatchRows
  <2> QED
    BY <1>1, <1>5, <2>1, <2>2
<1>7. \A c \in SingleRows(new) : new.rows[c] = lg.rows[c] /\ c \in SingleRows(lg)
  BY <1>2, <1>3 DEF SingleRows
<1>8. new.byMsg = {MsgKey(new.rows[c]) : c \in SingleRows(new)}
  BY <1>3, <1>6, <1>7
<1> QED
  BY <1>4, <1>7, <1>8 DEF IndexesMatchRows, new

(***************************************************************************)
(* The retention sweep.  A client that had yet to read a dropped event is  *)
(* below every row that its device has left, for the rows that go are the  *)
(* oldest, and below the "reset" row, which makes sure there is one.       *)
(***************************************************************************)
LEMMA SweptLog ==
  ASSUME SafeInv, CleanupDeletions
  PROVE  /\ IndexesMatchRows(log')
         /\ log'.seq \in Nat /\ log'.seq >= log.seq
         /\ \A c \in DOMAIN log.rows \ OldRows :
              c \in DOMAIN log'.rows /\ log'.rows[c] = log.rows[c]
         /\ \A c \in DOMAIN log'.rows :
              \/ c \in DOMAIN log.rows \ OldRows /\ log'.rows[c] = log.rows[c]
              \/ c > log.seq /\ log'.rows[c].kind = "reset"
         /\ \A c \in OldRows :
              \E e \in DOMAIN log'.rows :
                e > log.seq /\ log'.rows[e].device = log.rows[c].device
         /\ \A c \in OldRows, e \in DOMAIN log.rows \ OldRows : c < e
<1> DEFINE affected == {log.rows[c].device : c \in OldRows}
           recs     == Resets(affected)
           marked   == AddDeletions(log, recs)
<1>1. log' = DropRows(marked, OldRows)
  BY DEF CleanupDeletions
<1>2. OldRows \in SUBSET DOMAIN log.rows
  BY DEF OldRows
<1>3. LogTyped(log) /\ log.seq \in Nat /\ now \in Nat
      /\ \A c \in DOMAIN log.rows : c \in Nat /\ c <= log.seq /\ log.rows[c] \in Deletion
  BY DEF SafeInv, TypeInv, TypeOK, LogTyped
<1>4. affected \in SUBSET Devices
  BY <1>2, <1>3 DEF Deletion
<1>5. /\ Batch(recs)
      /\ DOMAIN recs = affected
      /\ \A d \in affected : recs[d].kind = "reset" /\ recs[d].device = d
  <2>1. IsFiniteSet(affected) /\ affected \in SUBSET Nat
    BY <1>4, ConstantsAssumption, FS_Subset
  <2> QED
    BY <1>3, <1>4, <2>1 DEF Batch, Resets, Record, Deletion, Kinds
<1>6. \A c \in OldRows : log.rows[c].device \in affected
  OBVIOUS
<1> HIDE DEF affected, recs, marked
<1>7. /\ LogTyped(marked)
      /\ IndexesMatchRows(marked)
      /\ marked.seq >= log.seq
      /\ \A c \in DOMAIN log.rows : c \in DOMAIN marked.rows /\ marked.rows[c] = log.rows[c]
      /\ \A c \in DOMAIN marked.rows \ DOMAIN log.rows :
           c > log.seq /\ \E d \in affected : marked.rows[c] = recs[d]
      /\ \A d \in affected :
           \E c \in DOMAIN marked.rows : c > log.seq /\ marked.rows[c] = recs[d]
  BY <1>3, <1>5, OtherRowsAppend DEF SafeInv, marked
<1>8. OldRows \in SUBSET DOMAIN marked.rows
  BY <1>2, <1>7
<1>9. /\ log'.seq = marked.seq
      /\ DOMAIN log'.rows = DOMAIN marked.rows \ OldRows
      /\ \A c \in DOMAIN log'.rows : log'.rows[c] = marked.rows[c]
      /\ IndexesMatchRows(log')
  BY <1>1, <1>7, <1>8, DropRowsTyped, DropRowsKeepsIndexes
<1>10. ASSUME NEW c \in DOMAIN log'.rows
       PROVE  \/ c \in DOMAIN log.rows \ OldRows /\ log'.rows[c] = log.rows[c]
              \/ c > log.seq /\ log'.rows[c].kind = "reset"
  <2>1. CASE c \in DOMAIN log.rows
    BY <1>7, <1>9, <2>1
  <2>2. CASE c \notin DOMAIN log.rows
    <3>1. PICK d \in affected : marked.rows[c] = recs[d]
      BY <1>7, <1>9, <2>2
    <3> QED
      BY <1>5, <1>7, <1>9, <2>2, <3>1
  <2> QED
    BY <2>1, <2>2
<1>11. ASSUME NEW c \in OldRows
       PROVE  \E e \in DOMAIN log'.rows : e > log.seq /\ log'.rows[e].device = log.rows[c].device
  <2>1. PICK e \in DOMAIN marked.rows :
          e > log.seq /\ marked.rows[e] = recs[log.rows[c].device]
    BY <1>6, <1>7
  <2>2. e \notin OldRows
    BY <1>2, <1>3, <2>1
  <2> QED
    BY <1>5, <1>6, <1>9, <2>1, <2>2
<1>12. \A c \in OldRows, e \in DOMAIN log.rows \ OldRows : c < e
  BY <1>3 DEF OldRows
<1>13. log'.seq \in Nat /\ log'.seq >= log.seq
  BY <1>7, <1>9 DEF LogTyped
<1>14. \A c \in DOMAIN log.rows \ OldRows :
         c \in DOMAIN log'.rows /\ log'.rows[c] = log.rows[c]
  BY <1>7, <1>9
<1>15. \A c \in DOMAIN log'.rows :
         \/ c \in DOMAIN log.rows \ OldRows /\ log'.rows[c] = log.rows[c]
         \/ c > log.seq /\ log'.rows[c].kind = "reset"
  BY <1>10
<1>16. \A c \in OldRows :
         \E e \in DOMAIN log'.rows : e > log.seq /\ log'.rows[e].device = log.rows[c].device
  BY <1>11
<1>17. IndexesMatchRows(log')
  BY <1>9
<1> QED
  BY <1>12, <1>13, <1>14, <1>15, <1>16, <1>17

LEMMA CleanupDeletionsIsSafe ==
  ASSUME SafeInv, CleanupDeletions
  PROVE  SafeInv'
<1>1. TypeInv'
  BY CleanupDeletionsTyped DEF SafeInv
<1>2. UNCHANGED <<messages, msgSeq, removed>>
  BY DEF CleanupDeletions, tables
<1>3. log.seq \in Nat /\ \A c \in DOMAIN log.rows : c \in Nat /\ c <= log.seq
  BY DEF SafeInv, TypeInv, TypeOK, LogTyped
<1>4. \A c \in DOMAIN log.rows \ OldRows :
        c \in DOMAIN log'.rows /\ log'.rows[c] = log.rows[c]
  BY SweptLog
<1>5. IndexesMatchRows(log') /\ log'.seq \in Nat /\ log'.seq >= log.seq
  BY SweptLog
<1>6. ASSUME NEW c \in DOMAIN log'.rows
       PROVE  \/ c \in DOMAIN log.rows \ OldRows /\ log'.rows[c] = log.rows[c]
              \/ c > log.seq /\ log'.rows[c].kind = "reset"
  BY SweptLog
<1>7. ASSUME NEW c \in OldRows
       PROVE  \E e \in DOMAIN log'.rows : e > log.seq /\ log'.rows[e].device = log.rows[c].device
  BY SweptLog
<1>8. \A c \in OldRows, e \in DOMAIN log.rows \ OldRows : c < e
  BY SweptLog
<1>9. NoResurrection'
  BY <1>2 DEF SafeInv, NoResurrection
<1>10. TargetsBounded' /\ EventsSpareTheLiving'
  BY <1>2, <1>6 DEF SafeInv, TargetsBounded, EventsSpareTheLiving, Covers
<1>11. RemovedBefore'
  <2>1. \A id \in DOMAIN removed : removed[id].at \in Nat
    BY DEF SafeInv, TypeInv, TypeOK
  <2> QED
    BY <1>2, <1>3, <1>5, <2>1 DEF SafeInv, RemovedBefore
<1>12. NoSilentRemoval'
  <2> SUFFICES ASSUME NEW id \in DOMAIN removed'
               PROVE  Told(id)' \/ BelowAllRows(removed[id].device, removed[id].at)'
    BY DEF NoSilentRemoval
  <2> DEFINE d  == removed[id].device
             at == removed[id].at
  <2>1. id \in DOMAIN removed /\ removed' = removed /\ at \in Nat /\ at <= log.seq
    BY <1>2 DEF SafeInv, RemovedBefore, TypeInv, TypeOK
  <2>2. CASE Told(id)
    <3>1. PICK c \in DOMAIN log.rows :
            c > at /\ log.rows[c].device = d /\ Covers(log.rows[c], id)
      BY <2>2 DEF Told
    <3>2. CASE c \notin OldRows
      <4>1. c \in DOMAIN log'.rows /\ log'.rows[c] = log.rows[c]
        BY <1>4, <1>5, <3>2
      <4> QED
        BY <2>1, <3>1, <4>1 DEF Told
    <3>3. CASE c \in OldRows
      <4>1. ASSUME NEW e \in DOMAIN log'.rows
            PROVE  at < e
        <5>1. e > log.seq \/ (e \in DOMAIN log.rows /\ c < e)
          BY <1>6, <1>8, <3>3
        <5>2. at \in Nat /\ at <= log.seq /\ c \in Nat /\ c <= log.seq /\ c > at
              /\ log.seq \in Nat
          BY <1>3, <2>1, <3>1
        <5>3. e \in Nat
          BY <1>1 DEF TypeInv, TypeOK
        <5> HIDE DEF at
        <5> QED
          BY <5>1, <5>2, <5>3
      <4>2. \E e \in DOMAIN log'.rows : log'.rows[e].device = d
        BY <1>7, <3>1, <3>3
      <4> QED
        BY <2>1, <4>1, <4>2 DEF BelowAllRows, DeviceRows
    <3> QED
      BY <3>2, <3>3
  <2>3. CASE BelowAllRows(d, at)
    <3>1. \A c \in DOMAIN log.rows : log.rows[c].device = d => at < c
      BY <2>3 DEF BelowAllRows, DeviceRows
    <3>2. ASSUME NEW e \in DOMAIN log'.rows, log'.rows[e].device = d
          PROVE  at < e
      <4>1. e > log.seq \/ at < e
        BY <1>6, <3>1, <3>2
      <4>2. at \in Nat /\ at <= log.seq /\ log.seq \in Nat /\ e \in Nat
        BY <1>1, <1>3, <2>1 DEF TypeInv, TypeOK
      <4> HIDE DEF at
      <4> QED
        BY <4>1, <4>2
    <3>3. PICK c \in DOMAIN log.rows : log.rows[c].device = d
      BY <2>3 DEF BelowAllRows, DeviceRows
    <3>4. \E e \in DOMAIN log'.rows : log'.rows[e].device = d
      BY <1>4, <1>5, <1>7, <3>3
    <3> QED
      BY <2>1, <3>2, <3>4 DEF BelowAllRows, DeviceRows
  <2> QED
    BY <2>1, <2>2, <2>3 DEF SafeInv, NoSilentRemoval
<1> QED
  BY <1>1, <1>5, <1>9, <1>10, <1>11, <1>12 DEF SafeInv

(***************************************************************************)
(* Starting, stopping and the clock leave messages and log alone.          *)
(***************************************************************************)
LEMMA IdleStepIsSafe ==
  ASSUME SafeInv, TypeInv', UNCHANGED <<messages, msgSeq, log, removed>>
  PROVE  SafeInv'
<1>1. NoResurrection' /\ TargetsBounded' /\ RemovedBefore' /\ IndexesMatchRows(log')
  BY DEF SafeInv, NoResurrection, TargetsBounded, RemovedBefore
<1>2. EventsSpareTheLiving'
  BY DEF SafeInv, EventsSpareTheLiving, Covers
<1>3. NoSilentRemoval'
  BY DEF SafeInv, NoSilentRemoval, Told, Covers, BelowAllRows, DeviceRows
<1> QED
  BY <1>1, <1>2, <1>3 DEF SafeInv

LEMMA InitIsSafe ==
  ASSUME Init
  PROVE  SafeInv
<1>1. TypeInv
  BY InitTyped
<1>2. log = EmptyLog /\ removed = EmptyBucket
  BY DEF Init
<1>3. DOMAIN log.rows = {} /\ DOMAIN removed = {}
  BY <1>2 DEF EmptyLog, EmptyBucket
<1>4. IndexesMatchRows(log)
  BY <1>2, <1>3 DEF IndexesMatchRows, SingleRows, EmptyLog
<1>5. NoResurrection
  BY <1>1, <1>3 DEF NoResurrection, TypeInv
<1> QED
  BY <1>1, <1>3, <1>4, <1>5
  DEF SafeInv, TargetsBounded, EventsSpareTheLiving, RemovedBefore, NoSilentRemoval

LEMMA StepIsSafe ==
  ASSUME SafeInv, [Next]_vars
  PROVE  SafeInv'
<1>1. TypeInv'
  BY StepTyped DEF SafeInv
<1>2. CASE Open \/ Crash \/ Tick \/ StepClockBack \/ UNCHANGED vars
  BY <1>1, <1>2, IdleStepIsSafe DEF Open, Crash, Tick, StepClockBack, vars, tables, history
<1>3. ASSUME NEW d \in Devices, NEW b \in Bodies, NEW t \in TTLs \cup {NoTTL}, Add(d, b, t)
      PROVE  SafeInv'
  BY <1>3, InsertIsSafe DEF Add
<1>4. ASSUME NEW d \in Devices, NEW b \in Bodies, NEW t \in TTLs \cup {NoTTL},
             NEW x \in ExtraIDs, UpsertByExtraID(d, x, b, t)
      PROVE  SafeInv'
  BY <1>4, InsertIsSafe, OverwriteIsSafe DEF UpsertByExtraID
<1>5. ASSUME NEW scope \in Devices \cup {Any}, DeleteAllByDevice(scope)
      PROVE  SafeInv'
  BY <1>5, DeleteAllByDeviceIsSafe
<1>6. ASSUME NEW scope \in Devices \cup {Any}, NEW id \in DOMAIN messages,
             DeleteByDevice(scope, id)
      PROVE  SafeInv'
  BY <1>6, DeleteByDeviceIsSafe
<1>7. ASSUME NEW d \in Devices, NEW x \in ExtraIDs, DeleteByExtraID(d, x)
      PROVE  SafeInv'
  BY <1>7, DeleteByExtraIDIsSafe
<1>8. CASE ExpireMessages
  BY <1>8, ExpireMessagesIsSafe
<1>9. CASE CleanupDeletions
  BY <1>9, CleanupDeletionsIsSafe
<1> QED
  BY <1>2, <1>3, <1>4, <1>5, <1>6, <1>7, <1>8, <1>9 DEF Next, Publish, Remove, Maintain

LEMMA AlwaysSafe == Spec => []SafeInv
<1>1. Init => SafeInv
  BY InitIsSafe
<1>2. SafeInv /\ [Next]_vars => SafeInv'
  BY StepIsSafe
<1> QED
  BY <1>1, <1>2, PTL DEF Spec

(***************************************************************************)
(* Ids are never used again, across bulk deletes, evictions and restarts:  *)
(* no operation of store.go resets the sequence of the messages bucket.    *)
(***************************************************************************)
THEOREM NeverResurrected == Spec => []NoResurrection
<1>1. SafeInv => NoResurrection
  BY DEF SafeInv
<1> QED
  BY <1>1, AlwaysSafe, PTL

(***************************************************************************)
(* The three buckets of the deletion log agree after every operation.      *)
(***************************************************************************)
THEOREM LogIndexesAlwaysAgree == Spec => []LogIndexesAgree
<1>1. SafeInv => LogIndexesAgree
  BY DEF SafeInv, LogIndexesAgree, TypeInv, LogTyped
<1> QED
  BY <1>1, AlwaysSafe, PTL

(***************************************************************************)
(* No "single" or "purge" event in the log ever hits a stored message,     *)
(* whatever order pushes, deletes, evictions and sweeps come in.           *)
(***************************************************************************)
THEOREM EventsAlwaysSpareTheLiving == Spec => []EventsSpareTheLiving
<1>1. SafeInv => EventsSpareTheLiving
  BY DEF SafeInv
<1> QED
  BY <1>1, AlwaysSafe, PTL

(***************************************************************************)
(* No message ever disappears silently: a client from before its removal   *)
(* finds an event that covers it, or is answered with "reset".             *)
(***************************************************************************)
THEOREM NeverSilentlyRemoved == Spec => []NoSilentRemoval
<1>1. SafeInv => NoSilentRemoval
  BY DEF SafeInv
<1> QED
  BY <1>1, AlwaysSafe, PTL

(***************************************************************************)
(* The gap.  What a device has forgotten lies below every row it has left, *)
(* and it has one: the sweep drops the oldest rows, and every other        *)
(* transaction only appends.                                               *)
(***************************************************************************)
GapInv ==
  \A d \in Devices : forgotten[d] # 0 => BelowAllRows(d, forgotten[d])

Appended(lg) ==
  /\ lg.seq >= log.seq
  /\ \A c \in DOMAIN log.rows : c \in DOMAIN lg.rows /\ lg.rows[c] = log.rows[c]
  /\ \A c \in DOMAIN lg.rows \ DOMAIN log.rows : c > log.seq

LEMMA BatchIsAppended ==
  ASSUME LogTyped(log), NEW recs, Batch(recs)
  PROVE  Appended(AddDeletions(log, recs)) /\ LogTyped(AddDeletions(log, recs))
BY AddDeletionsAppends DEF Appended

LEMMA SinglesAreAppended ==
  ASSUME TypeInv, NEW msgs, NEW ids \in SUBSET DOMAIN msgs, NEW n \in Nat,
         \A id \in ids : id \in Nat /\ id <= n /\ msgs[id].device \in Devices
  PROVE  /\ Appended(AddDeletions(log, Singles(msgs, ids)))
         /\ LogTyped(AddDeletions(log, Singles(msgs, ids)))
<1>1. ids \in SUBSET Nat /\ now \in Nat /\ LogTyped(log)
  BY DEF TypeInv, TypeOK
<1>2. IsFiniteSet(ids)
  BY <1>1, FS_BoundedSetOfNaturals
<1>3. Batch(Singles(msgs, ids))
  BY <1>1, <1>2, SinglesAreABatch
<1> QED
  BY <1>1, <1>3, BatchIsAppended

LEMMA RemovedAreAppended ==
  ASSUME TypeInv, NEW ids \in SUBSET DOMAIN messages
  PROVE  /\ Appended(AddDeletions(log, Singles(messages, ids)))
         /\ LogTyped(AddDeletions(log, Singles(messages, ids)))
<1>1. /\ msgSeq \in Nat
      /\ \A id \in ids : id \in Nat /\ id <= msgSeq /\ messages[id].device \in Devices
  BY DEF TypeInv, TypeOK, Message
<1> QED
  BY <1>1, SinglesAreAppended

LEMMA InsertAppends ==
  ASSUME TypeInv, NEW d \in Devices, NEW x, NEW b, NEW t, Insert(d, x, b, t)
  PROVE  Appended(log')
<1> DEFINE id      == msgSeq + 1
           grown   == Put(messages, id, NewMessage(d, x, b, t))
           victims == Evicted(grown)
<1>1. log' = AddDeletions(log, Singles(grown, victims))
  BY DEF Insert
<1>2. /\ msgSeq \in Nat /\ id \in Nat
      /\ \A i \in DOMAIN messages : i \in Nat /\ i <= id /\ messages[i].device \in Devices
  BY DEF TypeInv, TypeOK, Message
<1>3. /\ DOMAIN grown = DOMAIN messages \cup {id}
      /\ \A i \in DOMAIN grown : i \in Nat /\ i <= id /\ grown[i].device \in Devices
  BY <1>2 DEF Put, NewMessage
<1>4. victims \in SUBSET DOMAIN grown
  BY <1>2, <1>3, LeastIsLeast DEF Evicted
<1> HIDE DEF grown, victims, id
<1> QED
  BY <1>1, <1>2, <1>3, <1>4, SinglesAreAppended

LEMMA DeleteByExtraIDAppends ==
  ASSUME TypeInv, NEW d \in Devices, NEW x \in ExtraIDs, DeleteByExtraID(d, x)
  PROVE  Appended(log')
<1> DEFINE ids   == IF Matches(d, x) = {} THEN {} ELSE {Greatest(Matches(d, x))}
           extra == [k \in {x} |-> Record(d, "extra", x)]
           mid   == AddDeletions(log, Singles(messages, ids))
<1>1. log' = AddDeletions(mid, extra)
  BY DEF DeleteByExtraID
<1>2. ids \in SUBSET DOMAIN messages
  BY NewestMatch
<1>3. Batch(extra)
  <2>1. Record(d, "extra", x) \in Deletion
    BY ConstantsAssumption DEF TypeInv, TypeOK, Record, Deletion, Kinds
  <2>2. IsFiniteSet({x}) /\ x \in Nat
    BY FS_Singleton, ConstantsAssumption
  <2> QED
    BY <2>1, <2>2 DEF Batch, Record
<1> HIDE DEF ids, extra
<1>4. Appended(mid) /\ LogTyped(mid)
  BY <1>2, RemovedAreAppended
<1>5. log.seq \in Nat /\ mid.seq \in Nat /\ mid.seq >= log.seq
  BY <1>4 DEF Appended, TypeInv, LogTyped
<1> HIDE DEF mid
<1>6. /\ \A c \in DOMAIN mid.rows : c \in DOMAIN log'.rows /\ log'.rows[c] = mid.rows[c]
      /\ \A c \in DOMAIN log'.rows \ DOMAIN mid.rows : c > mid.seq
      /\ \A c \in DOMAIN log'.rows : c \in Nat
      /\ log'.seq \in Nat /\ log'.seq >= mid.seq
  <2>1. LogTyped(log')
    BY <1>1, <1>3, <1>4, AddDeletionsAppends
  <2> QED
    BY <1>1, <1>3, <1>4, <2>1, AddDeletionsAppends DEF LogTyped
<1>7. ASSUME NEW c \in DOMAIN log'.rows \ DOMAIN log.rows
      PROVE  c > log.seq
  BY <1>4, <1>5, <1>6 DEF Appended
<1> QED
  BY <1>4, <1>5, <1>6, <1>7 DEF Appended

LEMMA DeleteAllAppends ==
  ASSUME TypeInv, NEW scope, DeleteAllByDevice(scope)
  PROVE  Appended(log')
<1> DEFINE ids      == {id \in DOMAIN messages : InScope(scope, id)}
           affected == {messages[id].device : id \in ids}
           recs     == [d \in affected |-> Record(d, "purge", Ceiling(d, ids))]
<1>1. log' = AddDeletions(log, recs)
  BY DEF DeleteAllByDevice
<1>2. ids \in SUBSET DOMAIN messages /\ affected \in SUBSET Devices /\ ids \in SUBSET Nat
  BY DEF TypeInv, TypeOK, Message
<1>3. ASSUME NEW d \in affected
      PROVE  recs[d] \in Deletion
  <2>1. {id \in ids : messages[id].device = d} # {}
    OBVIOUS
  <2>2. Ceiling(d, ids) \in ids
    BY <1>2, <2>1, CeilingIsAnId
  <2> QED
    BY <1>2, <2>2 DEF Record, Deletion, Kinds, TypeInv, TypeOK
<1>4. IsFiniteSet(affected) /\ affected \in SUBSET Nat
  BY <1>2, ConstantsAssumption, FS_Subset
<1>5. Batch(recs)
  BY <1>3, <1>4 DEF Batch
<1> HIDE DEF recs
<1> QED
  BY <1>1, <1>5, BatchIsAppended DEF TypeInv

LEMMA AppendKeepsGap ==
  ASSUME TypeInv, TypeInv', GapInv, Appended(log'), forgotten' = forgotten
  PROVE  GapInv'
<1> SUFFICES ASSUME NEW d \in Devices, forgotten[d] # 0
             PROVE  BelowAllRows(d, forgotten[d])'
  BY DEF GapInv
<1>1. /\ log.seq \in Nat /\ forgotten[d] \in Nat
      /\ \A c \in DOMAIN log.rows : c \in Nat /\ c <= log.seq
      /\ \A c \in DOMAIN log'.rows : c \in Nat
  BY DEF TypeInv, TypeOK, LogTyped
<1>2. /\ \A c \in DOMAIN log.rows : log.rows[c].device = d => forgotten[d] < c
      /\ \E c \in DOMAIN log.rows : log.rows[c].device = d
  BY DEF GapInv, BelowAllRows, DeviceRows
<1>3. forgotten[d] < log.seq \/ forgotten[d] = log.seq
  BY <1>1, <1>2
<1>4. ASSUME NEW c \in DOMAIN log'.rows, log'.rows[c].device = d
      PROVE  forgotten[d] < c
  <2>1. CASE c \in DOMAIN log.rows
    BY <1>2, <1>4, <2>1 DEF Appended
  <2>2. CASE c \notin DOMAIN log.rows
    BY <1>1, <1>3, <2>2 DEF Appended
  <2> QED
    BY <2>1, <2>2
<1>5. \E c \in DOMAIN log'.rows : log'.rows[c].device = d
  BY <1>2 DEF Appended
<1> QED
  BY <1>4, <1>5 DEF BelowAllRows, DeviceRows

LEMMA CleanupKeepsGap ==
  ASSUME SafeInv, GapInv, CleanupDeletions
  PROVE  GapInv'
<1> SUFFICES ASSUME NEW d \in Devices, forgotten'[d] # 0
             PROVE  BelowAllRows(d, forgotten[d])'
  BY DEF GapInv
<1> DEFINE lost == {c \in {e \in OldRows : log.rows[e].kind # "reset"} : log.rows[c].device = d}
<1>1. forgotten'[d] = IF lost = {} THEN forgotten[d] ELSE Greatest(lost)
  BY DEF CleanupDeletions
<1>2. /\ log.seq \in Nat /\ forgotten[d] \in Nat /\ LogTyped(log)
      /\ \A c \in DOMAIN log.rows : c \in Nat /\ c <= log.seq
      /\ OldRows \subseteq DOMAIN log.rows
  BY DEF SafeInv, TypeInv, TypeOK, LogTyped, OldRows
<1>3. TypeInv'
  BY CleanupDeletionsTyped DEF SafeInv
<1>4. \A c \in DOMAIN log'.rows : c \in Nat
  BY <1>3 DEF TypeInv, TypeOK
<1>5. CASE lost = {}
  <2>1. forgotten'[d] = forgotten[d] /\ BelowAllRows(d, forgotten[d])
    BY <1>1, <1>5 DEF GapInv
  <2>2. /\ \A c \in DOMAIN log.rows : log.rows[c].device = d => forgotten[d] < c
        /\ \E c \in DOMAIN log.rows : log.rows[c].device = d
    BY <2>1 DEF BelowAllRows, DeviceRows
  <2>3. forgotten[d] <= log.seq
    BY <1>2, <2>2
  <2>4. ASSUME NEW c \in DOMAIN log'.rows, log'.rows[c].device = d
        PROVE  forgotten[d] < c
    <3>1. \/ c \in DOMAIN log.rows /\ log'.rows[c] = log.rows[c]
          \/ c > log.seq
      BY SweptLog
    <3> QED
      BY <1>2, <1>4, <2>2, <2>3, <2>4, <3>1
  <2>5. \E c \in DOMAIN log'.rows : log'.rows[c].device = d
    <3>1. PICK c \in DOMAIN log.rows : log.rows[c].device = d
      BY <2>2
    <3> QED
      BY <3>1, SweptLog
  <2> QED
    BY <2>1, <2>4, <2>5 DEF BelowAllRows, DeviceRows
<1>6. CASE lost # {}
  <2>1. lost \in SUBSET Nat /\ \A c \in lost : c <= log.seq /\ c \in OldRows
    BY <1>2
  <2>2. forgotten'[d] \in lost
    BY <1>1, <1>2, <1>6, <2>1, GreatestIsGreatest
  <2>3. /\ forgotten'[d] \in OldRows /\ log.rows[forgotten'[d]].device = d
        /\ forgotten'[d] \in Nat /\ forgotten'[d] <= log.seq
    BY <2>1, <2>2
  <2>4. ASSUME NEW c \in DOMAIN log'.rows
        PROVE  forgotten'[d] < c
    <3>1. c \in DOMAIN log.rows \ OldRows \/ c > log.seq
      BY SweptLog
    <3>2. CASE c \in DOMAIN log.rows \ OldRows
      BY <2>3, <3>2, SweptLog
    <3>3. CASE c > log.seq
      BY <1>2, <1>4, <2>3, <3>3
    <3> QED
      BY <3>1, <3>2, <3>3
  <2>5. \E c \in DOMAIN log'.rows : log'.rows[c].device = d
    BY <2>3, SweptLog
  <2> QED
    BY <2>4, <2>5 DEF BelowAllRows, DeviceRows
<1> QED
  BY <1>5, <1>6

LEMMA StepKeepsGap ==
  ASSUME SafeInv, GapInv, [Next]_vars
  PROVE  GapInv'
<1>1. TypeInv /\ TypeInv'
  BY StepTyped DEF SafeInv
<1>2. CASE Open \/ Crash \/ Tick \/ StepClockBack \/ UNCHANGED vars
  <2>1. log' = log /\ forgotten' = forgotten
    BY <1>2 DEF Open, Crash, Tick, StepClockBack, vars, tables, history
  <2> QED
    BY <2>1 DEF GapInv, BelowAllRows, DeviceRows
<1>3. ASSUME NEW d \in Devices, NEW x, NEW b, NEW t, Insert(d, x, b, t)
      PROVE  GapInv'
  BY <1>1, <1>3, InsertAppends, AppendKeepsGap DEF Insert
<1>4. ASSUME NEW d, NEW x, NEW b, NEW t, Overwrite(d, x, b, t)
      PROVE  GapInv'
  BY <1>4 DEF Overwrite, history, GapInv, BelowAllRows, DeviceRows
<1>5. ASSUME NEW scope, DeleteAllByDevice(scope)
      PROVE  GapInv'
  <2>1. forgotten' = forgotten
    BY <1>5 DEF DeleteAllByDevice, RemoveMessages
  <2> QED
    BY <1>1, <1>5, <2>1, DeleteAllAppends, AppendKeepsGap
<1>6. ASSUME NEW scope, NEW id, DeleteByDevice(scope, id)
      PROVE  GapInv'
  <2>1. /\ {id} \in SUBSET DOMAIN messages /\ forgotten' = forgotten
        /\ log' = AddDeletions(log, Singles(messages, {id}))
    BY <1>6 DEF DeleteByDevice, RemoveMessages
  <2> QED
    BY <1>1, <2>1, RemovedAreAppended, AppendKeepsGap
<1>7. ASSUME NEW d \in Devices, NEW x \in ExtraIDs, DeleteByExtraID(d, x)
      PROVE  GapInv'
  <2>1. forgotten' = forgotten
    BY <1>7 DEF DeleteByExtraID, RemoveMessages
  <2> QED
    BY <1>1, <1>7, <2>1, DeleteByExtraIDAppends, AppendKeepsGap
<1>8. CASE ExpireMessages
  <2> DEFINE ids == {id \in DOMAIN ttl : ttl[id] <= now} \cap DOMAIN messages
  <2>1. /\ ids \in SUBSET DOMAIN messages /\ forgotten' = forgotten
        /\ log' = AddDeletions(log, Singles(messages, ids))
    BY <1>8 DEF ExpireMessages, RemoveMessages
  <2> HIDE DEF ids
  <2> QED
    BY <1>1, <2>1, RemovedAreAppended, AppendKeepsGap
<1>9. CASE CleanupDeletions
  BY <1>9, CleanupKeepsGap
<1> QED
  BY <1>2, <1>3, <1>4, <1>5, <1>6, <1>7, <1>8, <1>9
  DEF Next, Publish, Remove, Maintain, Add, UpsertByExtraID

(***************************************************************************)
(* Reading the deletion log: what the index of a device finds is its rows. *)
(***************************************************************************)
LEMMA ScanIsRows ==
  ASSUME IndexesMatchRows(log), NEW d
  PROVE  Scan(log.byDev, d) = DeviceRows(d)
<1>1. log.byDev = {<<log.rows[c].device, c>> : c \in DOMAIN log.rows}
  BY DEF IndexesMatchRows
<1>2. ASSUME NEW c \in Scan(log.byDev, d)
      PROVE  c \in DeviceRows(d)
  <2>1. PICK p \in log.byDev : p[1] = d /\ p[2] = c
    BY DEF Scan
  <2>2. PICK e \in DOMAIN log.rows : p = <<log.rows[e].device, e>>
    BY <1>1
  <2> QED
    BY <2>1, <2>2 DEF DeviceRows
<1>3. ASSUME NEW c \in DeviceRows(d)
      PROVE  c \in Scan(log.byDev, d)
  <2>1. <<d, c>> \in log.byDev
    BY <1>1, <1>3 DEF DeviceRows
  <2>2. <<d, c>>[1] = d /\ <<d, c>>[2] = c
    OBVIOUS
  <2> QED
    BY <2>1, <2>2 DEF Scan
<1> QED
  BY <1>2, <1>3

LEMMA GapStays == Spec => []GapInv
<1>1. Init => GapInv
  BY DEF Init, GapInv
<1>2. SafeInv /\ GapInv /\ [Next]_vars => GapInv'
  BY StepKeepsGap
<1> QED
  BY <1>1, <1>2, AlwaysSafe, PTL DEF Spec

(***************************************************************************)
(* A client whose cursor lies below an event that the retention sweep has  *)
(* dropped is answered with "reset", for ever, wherever the wall clock     *)
(* goes (CleanupDeletions and DeletionsByDevice of store.go).              *)
(***************************************************************************)
THEOREM GapAlwaysReported == Spec => []GapIsReported
<1>1. SafeInv /\ GapInv => GapIsReported
  <2> SUFFICES ASSUME SafeInv, GapInv, NEW d \in Devices, NEW since \in 1 .. forgotten[d] - 1
               PROVE  DeletionsByDevice(d, since).reset
    BY DEF GapIsReported
  <2> DEFINE mine == Scan(log.byDev, d)
  <2>1. forgotten[d] \in Nat /\ forgotten[d] # 0 /\ since \in Nat /\ since < forgotten[d] /\ since # 0
    BY DEF SafeInv, TypeInv, TypeOK
  <2>2. mine = DeviceRows(d)
    BY ScanIsRows DEF SafeInv
  <2>3. mine # {} /\ mine \in SUBSET Nat /\ \A c \in mine : forgotten[d] < c
    BY <2>1, <2>2 DEF GapInv, BelowAllRows, DeviceRows, SafeInv, TypeInv, TypeOK
  <2>4. Least(mine) \in mine
    BY <2>3, LeastIsLeast
  <2>5. since < Least(mine)
    BY <2>1, <2>3, <2>4
  <2>6. DeletionsByDevice(d, since) = Page({}, Greatest(mine), FALSE, TRUE)
    BY <2>1, <2>3, <2>5 DEF DeletionsByDevice
  <2> QED
    BY <2>6 DEF Page
<1> QED
  BY <1>1, AlwaysSafe, GapStays, PTL


(***************************************************************************)
(* Paging.  A page is the lower part of what is due: all the rows on it    *)
(* come before all the rows that are left, and it is empty only if nothing *)
(* is due.                                                                 *)
(***************************************************************************)
LEMMA RankGrows ==
  ASSUME NEW S \in SUBSET Nat, IsFiniteSet(S), NEW j \in S, NEW k \in S, j <= k
  PROVE  Rank(j, S) \in Nat /\ Rank(k, S) \in Nat /\ Rank(j, S) <= Rank(k, S)
<1> DEFINE Upto(n) == {i \in S : i <= n}
<1>1. Upto(k) \in SUBSET S /\ Upto(j) \in SUBSET Upto(k)
  <2>1. ASSUME NEW i \in S, i <= j
        PROVE  i <= k
    <3>1. i \in Nat /\ j \in Nat /\ k \in Nat
      OBVIOUS
    <3> QED
      BY <2>1, <3>1
  <2> QED
    BY <2>1
<1>2. IsFiniteSet(Upto(k)) /\ IsFiniteSet(Upto(j)) /\ Cardinality(Upto(j)) <= Cardinality(Upto(k))
  BY <1>1, FS_Subset
<1>3. Cardinality(Upto(j)) \in Nat /\ Cardinality(Upto(k)) \in Nat
  BY <1>2, FS_CardinalityType
<1> QED
  BY <1>2, <1>3 DEF Rank

LEMMA LeastHasRankOne ==
  ASSUME NEW S \in SUBSET Nat, S # {}
  PROVE  Least(S) \in S /\ Rank(Least(S), S) = 1
<1>1. Least(S) \in S /\ \A y \in S : Least(S) <= y
  BY LeastIsLeast
<1>2. {i \in S : i <= Least(S)} = {Least(S)}
  <2>1. ASSUME NEW i \in S, i <= Least(S)
        PROVE  i = Least(S)
    <3>1. i \in Nat /\ Least(S) \in Nat /\ Least(S) <= i
      BY <1>1
    <3> QED
      BY <2>1, <3>1
  <2>2. Least(S) <= Least(S)
    BY <1>1
  <2> QED
    BY <1>1, <2>1, <2>2
<1>3. Cardinality({Least(S)}) = 1
  BY FS_Singleton
<1> QED
  BY <1>1, <1>2, <1>3 DEF Rank

LEMMA PageIsLowerPart ==
  ASSUME NEW S \in SUBSET Nat, IsFiniteSet(S), NEW n \in Nat \ {0}
  PROVE  /\ FirstOf(S, n) \subseteq S
         /\ S # {} => FirstOf(S, n) # {}
         /\ \A j \in FirstOf(S, n), k \in S \ FirstOf(S, n) : j < k
<1>1. FirstOf(S, n) \subseteq S
  BY DEF FirstOf
<1>2. ASSUME S # {}
      PROVE  FirstOf(S, n) # {}
  <2>1. Least(S) \in S /\ Rank(Least(S), S) = 1 /\ 1 <= n
    BY <1>2, LeastHasRankOne
  <2> QED
    BY <2>1 DEF FirstOf
<1>3. ASSUME NEW j \in FirstOf(S, n), NEW k \in S \ FirstOf(S, n)
      PROVE  j < k
  <2>1. j \in S /\ Rank(j, S) <= n /\ ~ (Rank(k, S) <= n) /\ j \in Nat /\ k \in Nat
    BY DEF FirstOf
  <2> SUFFICES ASSUME k <= j PROVE FALSE
    BY <2>1
  <2>2. Rank(j, S) \in Nat /\ Rank(k, S) \in Nat /\ Rank(k, S) <= Rank(j, S)
    BY <2>1, RankGrows
  <2> QED
    BY <2>1, <2>2
<1> QED
  BY <1>1, <1>2, <1>3

LEMMA PagesAreExact == SafeInv => PagesExact
<1> SUFFICES ASSUME SafeInv, NEW d \in Devices, NEW since \in 1 .. log.seq,
                    DeviceRows(d) # {}, ~ DeletionsByDevice(d, since).reset
             PROVE  /\ DeletionsByDevice(d, since).ids
                         = Targets(Between(d, since, DeletionsByDevice(d, since).cursor), "single")
                    /\ DeletionsByDevice(d, since).purges
                         = Targets(Between(d, since, DeletionsByDevice(d, since).cursor), "purge")
                    /\ DeletionsByDevice(d, since).extraIDs
                         = Targets(Between(d, since, DeletionsByDevice(d, since).cursor), "extra")
                    /\ DeletionsByDevice(d, since).hasMore
                         <=> Events(d, DeletionsByDevice(d, since).cursor) # {}
                    /\ DeletionsByDevice(d, since).hasMore
                         => DeletionsByDevice(d, since).cursor > since
  BY DEF PagesExact
<1> DEFINE p      == DeletionsByDevice(d, since)
           mine   == Scan(log.byDev, d)
           events == Events(d, since)
           onPage == FirstOf(events, PageLimit)
           due    == Between(d, since, p.cursor)
<1>1. /\ log.seq \in Nat /\ since \in Nat /\ since # 0
      /\ \A c \in DOMAIN log.rows : c \in Nat /\ c <= log.seq
  BY DEF SafeInv, TypeInv, TypeOK, LogTyped
<1>2. mine = DeviceRows(d)
  BY ScanIsRows DEF SafeInv
<1>3. /\ mine # {} /\ mine \in SUBSET Nat /\ \A c \in mine : c <= log.seq
      /\ \A c : c \in mine <=> c \in DOMAIN log.rows /\ log.rows[c].device = d
  BY <1>1, <1>2 DEF DeviceRows
<1>4. ASSUME NEW s
      PROVE  Events(d, s) = {c \in mine : c > s /\ log.rows[c].kind # "reset"}
  BY <1>3 DEF Events
<1>5. Greatest(mine) \in mine /\ \A c \in mine : c <= Greatest(mine)
  BY <1>1, <1>3, GreatestIsGreatest
<1>6. /\ events \in SUBSET Nat /\ IsFiniteSet(events) /\ events \subseteq mine
      /\ \A c \in events : c <= log.seq
  <2>1. events \in SUBSET Nat /\ events \subseteq mine /\ \A c \in events : c <= log.seq
    BY <1>3, <1>4
  <2> HIDE DEF events
  <2> QED
    BY <1>1, <2>1, FS_BoundedSetOfNaturals
<1>7. ASSUME NEW kind \in {"single", "purge", "extra"}, NEW A, NEW B,
             A \subseteq mine, B \subseteq mine,
             \A c \in mine : log.rows[c].kind # "reset" => (c \in A <=> c \in B)
      PROVE  Targets(A, kind) = Targets(B, kind)
  <2>1. {e \in A : log.rows[e].kind = kind} = {e \in B : log.rows[e].kind = kind}
    BY <1>7
  <2> QED
    BY <2>1 DEF Targets
<1>8. p = IF onPage = events THEN Page(events, Greatest(mine), FALSE, FALSE)
          ELSE Page(onPage, Greatest(onPage), TRUE, FALSE)
  <2>1. ~ (since < Least(mine))
    <3> SUFFICES ASSUME since < Least(mine) PROVE FALSE
      OBVIOUS
    <3>1. p = Page({}, Greatest(mine), FALSE, TRUE)
      BY <1>1, <1>3 DEF DeletionsByDevice
    <3>2. p.reset
      BY <3>1 DEF Page
    <3> QED
      BY <3>2
  <2> QED
    BY <1>1, <1>3, <2>1 DEF DeletionsByDevice
<1>9. \A c : c \in due <=> c \in mine /\ since < c /\ c <= p.cursor
  BY <1>3 DEF Between
<1>10. due \subseteq mine
  BY <1>9
<1>11. \A c \in mine : c \in events <=> c > since /\ log.rows[c].kind # "reset"
  BY <1>4
<1> HIDE DEF p, mine, events, onPage, due
<1>12. CASE onPage = events
  <2>1. /\ p.ids = Targets(events, "single") /\ p.purges = Targets(events, "purge")
        /\ p.extraIDs = Targets(events, "extra")
        /\ p.cursor = Greatest(mine) /\ p.hasMore = FALSE
    BY <1>8, <1>12 DEF Page
  <2>2. \A c \in mine : log.rows[c].kind # "reset" => (c \in events <=> c \in due)
    <3> SUFFICES ASSUME NEW c \in mine, log.rows[c].kind # "reset"
                 PROVE  c \in events <=> c \in due
      OBVIOUS
    <3>1. c \in Nat /\ c <= p.cursor
      BY <1>3, <1>5, <2>1
    <3> QED
      BY <1>1, <1>9, <1>11, <3>1
  <2>3. Events(d, p.cursor) = {}
    <3>1. \A c \in mine : ~ (c > p.cursor)
      BY <1>3, <1>5, <2>1
    <3> QED
      BY <1>4, <3>1
  <2>4. \A kind \in {"single", "purge", "extra"} : Targets(events, kind) = Targets(due, kind)
    BY <1>6, <1>7, <1>10, <2>2
  <2> QED
    BY <2>1, <2>3, <2>4 DEF p, due
<1>13. CASE onPage # events
  <2>1. /\ p.ids = Targets(onPage, "single") /\ p.purges = Targets(onPage, "purge")
        /\ p.extraIDs = Targets(onPage, "extra")
        /\ p.cursor = Greatest(onPage) /\ p.hasMore = TRUE
    BY <1>8, <1>13 DEF Page
  <2>2. /\ onPage \subseteq events
        /\ events # {} => onPage # {}
        /\ \A j \in onPage, k \in events \ onPage : j < k
    BY <1>6, ConstantsAssumption, PageIsLowerPart DEF onPage
  <2>3. onPage # {} /\ onPage \in SUBSET Nat /\ \A c \in onPage : c <= log.seq
    BY <1>6, <1>13, <2>2
  <2>4. p.cursor \in onPage /\ \A c \in onPage : c <= p.cursor
    BY <1>1, <2>1, <2>3, GreatestIsGreatest
  <2>5. p.cursor \in mine /\ p.cursor > since /\ p.cursor \in Nat
    BY <1>3, <1>6, <1>11, <2>2, <2>4
  <2>6. \A c \in mine : log.rows[c].kind # "reset" => (c \in onPage <=> c \in due)
    <3> SUFFICES ASSUME NEW c \in mine, log.rows[c].kind # "reset"
                 PROVE  c \in onPage <=> c \in due
      OBVIOUS
    <3>1. c \in Nat
      BY <1>3
    <3>2. ASSUME c \in onPage PROVE c \in due
      BY <1>1, <1>9, <1>11, <2>2, <2>4, <3>1, <3>2
    <3>3. ASSUME c \in due PROVE c \in onPage
      <4>1. c \in events /\ c <= p.cursor
        BY <1>1, <1>9, <1>11, <3>1, <3>3
      <4>2. ~ (p.cursor < c)
        BY <2>5, <3>1, <4>1
      <4> QED
        BY <2>2, <2>4, <4>1, <4>2
    <3> QED
      BY <3>2, <3>3
  <2>7. PICK e \in events \ onPage : TRUE
    BY <1>13, <2>2
  <2>8. e \in mine /\ e > p.cursor /\ log.rows[e].kind # "reset"
    BY <1>3, <1>6, <1>11, <2>2, <2>4, <2>5, <2>7
  <2>9. Events(d, p.cursor) # {}
    BY <1>4, <2>8
  <2>10. \A kind \in {"single", "purge", "extra"} : Targets(onPage, kind) = Targets(due, kind)
    <3>1. onPage \subseteq mine
      BY <1>6, <2>2
    <3> QED
      BY <1>7, <1>10, <2>6, <3>1
  <2> QED
    BY <2>1, <2>5, <2>9, <2>10 DEF p, due
<1> QED
  BY <1>12, <1>13

(***************************************************************************)
(* Whatever the log holds and however many rows fit on a page, paging      *)
(* through it loses no event and repeats none (DeletionsByDevice).         *)
(***************************************************************************)
THEOREM PagesAlwaysExact == Spec => []PagesExact
BY PagesAreExact, AlwaysSafe, PTL
=============================================================================
