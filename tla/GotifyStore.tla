------------------------------ MODULE GotifyStore ------------------------------
(***************************************************************************)
(* The message history kept by internal/gotifycompat: the bbolt store      *)
(* (store.go, type bboltStore) as the service drives it (service.go).      *)
(*                                                                         *)
(* Every write operation of the store is one bbolt read-write transaction: *)
(* it commits as a whole or not at all, and bbolt runs one at a time.  So  *)
(* each operation is one action here, with everything it writes: the       *)
(* messages bucket, its (device, id) index, the ttl index, the message     *)
(* count and the deletion log with its two indexes.  A crash between two   *)
(* transactions loses nothing that was committed.                          *)
(*                                                                         *)
(* Device keys are naturals, standing for strings and for their order;     *)
(* the empty key, with which the store means "every device", is 0.         *)
(* extras.id values are naturals too and 0 stands for "none".              *)
(***************************************************************************)
EXTENDS Integers, FiniteSets, Functions

CONSTANTS
  Devices,          \* device keys
  ExtraIDs,         \* extras.id values that publishers use
  Bodies,           \* message contents
  TTLs,             \* values of the "ttl" extra, in clock units
  MaxChoices,       \* values of --gotify-max-messages over the restarts
  Retention,        \* deletionRetention, in clock units
  PageLimit,        \* deletionPageLimit
  LegacyIDs,        \* ids of the rows a database of an older release may hold
  ClockMayStepBack, \* whether the wall clock may be set back
  MaxSeq,           \* bound: ids the messages bucket hands out
  MaxCursor,        \* bound: log position from which unbounded writers stop
  MaxTime           \* bound: latest time of the clock

Any   == 0          \* the empty device key: every device
NoID  == 0          \* no extras.id
NoTTL == 0          \* no ttl extra, and no deadline

EmptyBucket == [k \in {} |-> 0]

ASSUME ConstantsAssumption ==
  /\ Devices \subseteq Nat \ {Any} /\ IsFiniteSet(Devices)
  /\ ExtraIDs \subseteq Nat \ {NoID}
  /\ TTLs \subseteq Nat \ {NoTTL}
  /\ MaxChoices \subseteq Nat \ {0}
  /\ Retention \in Nat /\ PageLimit \in Nat \ {0}
  /\ LegacyIDs \subseteq Nat \ {0} /\ IsFiniteSet(LegacyIDs)
  /\ ClockMayStepBack \in BOOLEAN
  /\ MaxSeq \in Nat /\ MaxCursor \in Nat /\ MaxTime \in Nat
  /\ \A id \in LegacyIDs : id <= MaxSeq

VARIABLES
  messages,   \* bucket "messages": id -> message
  msgSeq,     \* the sequence of that bucket
  count,      \* meta "count"
  devMsgs,    \* bucket "dev_msgs": set of <<device, id>>
  ttl,        \* bucket "ttl": id -> deadline
  log,        \* buckets "deletions", "del_dev", "del_dev_msg" (see EmptyLog)
  max,        \* bboltStore.max, read from the configuration at each start
  opened,     \* whether a process has the store open
  now,        \* the wall clock, time.Now().Unix()
  removed,    \* history: removed id -> its device and the log's end just before
  forgotten   \* history: device -> highest event dropped by the retention sweep

tables  == <<messages, msgSeq, count, devMsgs, ttl>>
history == <<removed, forgotten>>
vars    == <<messages, msgSeq, count, devMsgs, ttl, log, max, opened, now,
             removed, forgotten>>

(***************************************************************************)
(* Types.                                                                  *)
(***************************************************************************)
Kinds == {"single", "purge", "reset", "extra"}

Message == [device : Devices, extraID : ExtraIDs \cup {NoID}, body : Bodies,
            deadline : Nat]

\* target is the message id of a "single" row, the ceiling of a "purge" row and
\* the extras.id of an "extra" row.
Deletion == [device : Devices, kind : Kinds, target : Nat, createdAt : Nat]

TypeOK ==
  /\ DOMAIN messages \subseteq Nat \ {0}
  /\ messages \in [DOMAIN messages -> Message]
  /\ msgSeq \in Nat
  /\ count \in Nat
  /\ devMsgs \subseteq Devices \X Nat
  /\ DOMAIN ttl \subseteq Nat
  /\ ttl \in [DOMAIN ttl -> Nat]
  /\ DOMAIN log.rows \subseteq Nat \ {0}
  /\ log \in [seq    : Nat,
              rows   : [DOMAIN log.rows -> Deletion],
              byDev  : SUBSET (Devices \X Nat),
              byMsg  : SUBSET (Devices \X Nat)]
  /\ max \in MaxChoices
  /\ opened \in BOOLEAN
  /\ now \in Nat
  /\ DOMAIN removed \subseteq Nat
  /\ removed \in [DOMAIN removed -> [device : Devices, at : Nat]]
  /\ forgotten \in [Devices -> Nat]

(***************************************************************************)
(* Buckets.                                                                *)
(***************************************************************************)
Put(bucket, k, v) ==
  [x \in DOMAIN bucket \cup {k} |-> IF x = k THEN v ELSE bucket[x]]

Delete(bucket, keys) == Restrict(bucket, DOMAIN bucket \ keys)

Least(S)    == CHOOSE x \in S : \A y \in S : x <= y
Greatest(S) == CHOOSE x \in S : \A y \in S : y <= x

(***************************************************************************)
(* The deletion log.  Rows are written by addDeletionTx one at a time;     *)
(* AddDeletions writes a batch, recs being a function from naturals (the   *)
(* ids removed, or the devices affected) that gives the order of writing.  *)
(* A "single" row for a (device, id) that has one already is not written.  *)
(***************************************************************************)
EmptyLog == [seq |-> 0, rows |-> EmptyBucket, byDev |-> {}, byMsg |-> {}]

MsgKey(rec) == <<rec.device, rec.target>>

Logged(lg, rec) == rec.kind = "single" /\ MsgKey(rec) \in lg.byMsg

\* The place of k in S, in ascending order: 1, 2, ...
Rank(k, S) == Cardinality({j \in S : j <= k})

Fresh(lg, recs) == {k \in DOMAIN recs : ~ Logged(lg, recs[k])}

Cursors(lg, recs) ==
  [k \in Fresh(lg, recs) |-> lg.seq + Rank(k, Fresh(lg, recs))]

AddDeletions(lg, recs) ==
  LET fresh  == Fresh(lg, recs)
      cursor == Cursors(lg, recs)
      added  == {cursor[k] : k \in fresh}
  IN [seq   |-> lg.seq + Cardinality(fresh),
      rows  |-> [c \in DOMAIN lg.rows \cup added |->
                   IF c \in added THEN recs[CHOOSE k \in fresh : cursor[k] = c]
                                  ELSE lg.rows[c]],
      byDev |-> lg.byDev \cup {<<recs[k].device, cursor[k]>> : k \in fresh},
      byMsg |-> lg.byMsg \cup
                {MsgKey(recs[k]) : k \in {j \in fresh : recs[j].kind = "single"}}]

Record(d, kind, target) ==
  [device |-> d, kind |-> kind, target |-> target, createdAt |-> now]

\* One "single" row per removed id.
Singles(msgs, ids) == [id \in ids |-> Record(msgs[id].device, "single", id)]

(***************************************************************************)
(* Opening.  A database written before the (device, id) index existed has  *)
(* messages and nothing else; openBboltStore fills the indexes in.  Two of *)
(* its messages may carry the same extras.id: overwriting came later.      *)
(***************************************************************************)
Init ==
  /\ \E ids \in SUBSET LegacyIDs :
       /\ messages \in [ids -> [device : Devices, extraID : ExtraIDs \cup {NoID},
                                body : Bodies, deadline : TTLs \cup {NoTTL}]]
       /\ msgSeq = IF ids = {} THEN 0 ELSE Greatest(ids)
       /\ count = Cardinality(ids)
  /\ devMsgs = {} /\ ttl = EmptyBucket
  /\ log = EmptyLog
  /\ max \in MaxChoices
  /\ opened = FALSE
  /\ now = 0
  /\ removed = EmptyBucket
  /\ forgotten = [d \in Devices |-> 0]

\* Faulty: the rows are indexed under the empty key.
MigrateUnderNoDevice ==
  /\ devMsgs' = {<<Any, id>> : id \in DOMAIN messages}
  /\ UNCHANGED ttl

\* Faulty: the deadlines of the old messages are not filled in.
MigrateWithoutDeadlines ==
  /\ devMsgs' = {<<messages[id].device, id>> : id \in DOMAIN messages}
  /\ UNCHANGED ttl

MigrateIndexes ==
  IF devMsgs # {} \/ DOMAIN messages = {}
  THEN UNCHANGED <<devMsgs, ttl>>
  ELSE /\ devMsgs' = {<<messages[id].device, id>> : id \in DOMAIN messages}
       /\ ttl' = [id \in {i \in DOMAIN messages : messages[i].deadline # NoTTL} |->
                    messages[id].deadline]

Open ==
  /\ ~ opened
  /\ opened' = TRUE
  /\ max' \in MaxChoices
  /\ MigrateIndexes
  /\ UNCHANGED <<messages, msgSeq, count, log, now, history>>

\* The process stops or dies; every committed transaction stays.
Crash ==
  /\ opened
  /\ opened' = FALSE
  /\ UNCHANGED <<tables, log, max, now, history>>

(***************************************************************************)
(* Writing a message.                                                      *)
(***************************************************************************)
NewMessage(d, x, b, t) ==
  [device |-> d, extraID |-> x, body |-> b,
   deadline |-> IF t = NoTTL THEN NoTTL ELSE now + t]

\* Faulty: however many go, the count is stepped down by one.
LessOne(n) == IF count = 0 THEN 0 ELSE count - 1

\* The rest of the count after n messages are gone; it never goes below zero.
Less(n) == IF n > count THEN 0 ELSE count - n

\* History: what this step removed, and where the log ended before it.
NoteRemoved(ids) ==
  removed' = [id \in DOMAIN removed \cup ids |->
                IF id \in ids THEN [device |-> messages[id].device, at |-> log.seq]
                              ELSE removed[id]]

\* Above the cap the globally oldest row goes.
Evicted(grown) == IF count + 1 > max THEN {Least(DOMAIN grown)} ELSE {}

\* A new row under the next id.
Insert(d, x, b, t) ==
  LET id      == msgSeq + 1
      grown   == Put(messages, id, NewMessage(d, x, b, t))
      victims == Evicted(grown)
  IN /\ id <= MaxSeq
     /\ msgSeq' = id
     /\ messages' = Delete(grown, victims)
     /\ devMsgs' = (devMsgs \cup {<<d, id>>}) \ {<<grown[v].device, v>> : v \in victims}
     /\ ttl' = Delete(IF t = NoTTL THEN ttl ELSE Put(ttl, id, now + t), victims)
     /\ count' = count + 1 - Cardinality(victims)
     /\ log' = AddDeletions(log, Singles(grown, victims))
     /\ NoteRemoved(victims \ {id})
     /\ UNCHANGED <<max, opened, now, forgotten>>

\* Faulty: the scan gives up after the newest message.
MatchesNewest(d, x) ==
  {id \in DOMAIN messages : /\ id = msgSeq
                            /\ messages[id].device = d /\ messages[id].extraID = x}

Matches(d, x) ==
  {id \in DOMAIN messages : messages[id].device = d /\ messages[id].extraID = x}

\* Faulty: what is replaced is entered in the deletion log.
OverwriteWithTombstone(d, x, b, t) ==
  LET id == Greatest(Matches(d, x))
  IN /\ messages' = Put(messages, id, NewMessage(d, x, b, t))
     /\ ttl' = IF t = NoTTL THEN ttl ELSE Put(ttl, id, now + t)
     /\ log' = AddDeletions(log, Singles(messages, {id}))
     /\ UNCHANGED <<msgSeq, count, devMsgs, max, opened, now, history>>

\* A push with the extras.id of a stored message replaces its content and
\* keeps its id; a deadline is replaced by a new one only.
Overwrite(d, x, b, t) ==
  LET id == Greatest(Matches(d, x))
  IN /\ messages' = Put(messages, id, NewMessage(d, x, b, t))
     /\ ttl' = IF t = NoTTL THEN ttl ELSE Put(ttl, id, now + t)
     /\ UNCHANGED <<msgSeq, count, devMsgs, log, max, opened, now, history>>

Add(d, b, t) == opened /\ Insert(d, NoID, b, t)

UpsertByExtraID(d, x, b, t) ==
  /\ opened
  /\ IF Matches(d, x) = {} THEN Insert(d, x, b, t) ELSE Overwrite(d, x, b, t)

(***************************************************************************)
(* Removing messages.                                                      *)
(***************************************************************************)
\* Faulty: the (device, id) index is left alone.
RemoveFromBucketOnly(ids) ==
  /\ messages' = Delete(messages, ids)
  /\ count' = Less(Cardinality(ids))
  /\ NoteRemoved(ids)
  /\ UNCHANGED <<devMsgs, msgSeq, max, opened, now, forgotten>>

\* Faulty: an emptied bucket is created anew, and its sequence with it.
RemoveWithBucket(ids) ==
  /\ messages' = Delete(messages, ids)
  /\ devMsgs' = devMsgs \ {<<messages[id].device, id>> : id \in ids}
  /\ msgSeq' = IF DOMAIN messages \subseteq ids THEN 0 ELSE msgSeq
  /\ count' = Less(Cardinality(ids))
  /\ NoteRemoved(ids)
  /\ UNCHANGED <<max, opened, now, forgotten>>

\* The messages with these ids go, with their index and ttl rows.
RemoveMessages(ids) ==
  /\ messages' = Delete(messages, ids)
  /\ devMsgs' = devMsgs \ {<<messages[id].device, id>> : id \in ids}
  /\ count' = Less(Cardinality(ids))
  /\ NoteRemoved(ids)
  /\ UNCHANGED <<msgSeq, max, opened, now, forgotten>>

InScope(scope, id) == scope = Any \/ messages[id].device = scope

\* Delete (scope Any) and DeleteByDevice.
DeleteByDevice(scope, id) ==
  /\ opened
  /\ id \in DOMAIN messages /\ InScope(scope, id)
  /\ RemoveMessages({id})
  /\ ttl' = Delete(ttl, {id})
  /\ log' = AddDeletions(log, Singles(messages, {id}))

\* The newest match goes; the "extra" row is written whether there is one or not.
DeleteByExtraID(d, x) ==
  LET ids == IF Matches(d, x) = {} THEN {} ELSE {Greatest(Matches(d, x))}
  IN /\ opened
     /\ log.seq < MaxCursor
     /\ RemoveMessages(ids)
     /\ ttl' = Delete(ttl, ids)
     /\ log' = AddDeletions(AddDeletions(log, Singles(messages, ids)),
                            [k \in {x} |-> Record(d, "extra", x)])

\* Faulty: the ceiling stays at the first id met.
FirstCeiling(d, ids) == Least({id \in ids : messages[id].device = d})

Ceiling(d, ids) == Greatest({id \in ids : messages[id].device = d})

\* DeleteAll (scope Any) and DeleteAllByDevice: one "purge" row per device that
\* lost a message, with the device's highest removed id as ceiling.
DeleteAllByDevice(scope) ==
  LET ids      == {id \in DOMAIN messages : InScope(scope, id)}
      affected == {messages[id].device : id \in ids}
  IN /\ opened
     /\ ids # {}
     /\ RemoveMessages(ids)
     /\ ttl' = Delete(ttl, ids)
     /\ log' = AddDeletions(log, [d \in affected |-> Record(d, "purge", Ceiling(d, ids))])

\* The ttl sweep.  A ttl row that is due goes even when its message is gone.
ExpireMessages ==
  LET due == {id \in DOMAIN ttl : ttl[id] <= now}
      ids == due \cap DOMAIN messages
  IN /\ opened
     /\ RemoveMessages(ids)
     /\ ttl' = Delete(ttl, due)
     /\ log' = AddDeletions(log, Singles(messages, ids))

(***************************************************************************)
(* The retention sweep: the rows older than Retention go, from the oldest  *)
(* up to the first that is fresh; before, a "reset" row is written for     *)
(* every device that loses one.                                            *)
(***************************************************************************)
Stale(c) == log.rows[c].createdAt < now - Retention

\* Faulty: fresh rows are passed over.
EveryOldRow == {c \in DOMAIN log.rows : Stale(c)}

OldRows == {c \in DOMAIN log.rows :
              \A e \in DOMAIN log.rows : e <= c => Stale(e)}

\* Faulty: del_dev_msg keeps the keys of the dropped rows.
DropRowsOnly(lg, old) ==
  [seq   |-> lg.seq,
   rows  |-> Delete(lg.rows, old),
   byDev |-> lg.byDev \ {<<lg.rows[c].device, c>> : c \in old},
   byMsg |-> lg.byMsg]

DropRows(lg, old) ==
  [seq   |-> lg.seq,
   rows  |-> Delete(lg.rows, old),
   byDev |-> lg.byDev \ {<<lg.rows[c].device, c>> : c \in old},
   byMsg |-> lg.byMsg \ {MsgKey(lg.rows[c]) :
                            c \in {e \in old : lg.rows[e].kind = "single"}}]

\* Faulty: no sentinel.
NoResets(affected) == EmptyBucket

Resets(affected) == [d \in affected |-> Record(d, "reset", 0)]

CleanupDeletions ==
  LET affected == {log.rows[c].device : c \in OldRows}
      marked   == AddDeletions(log, Resets(affected))
      events   == {c \in OldRows : log.rows[c].kind # "reset"}
      lost(d)  == {c \in events : log.rows[c].device = d}
  IN /\ opened
     /\ OldRows # {}
     /\ log.seq < MaxCursor
     /\ log' = DropRows(marked, OldRows)
     /\ forgotten' = [d \in Devices |->
                        IF lost(d) = {} THEN forgotten[d] ELSE Greatest(lost(d))]
     /\ UNCHANGED <<tables, max, opened, now, removed>>

(***************************************************************************)
(* Reading.  Each is one read-only transaction.                            *)
(***************************************************************************)
\* The first n of S in ascending order.
FirstOf(S, n) == {k \in S : Rank(k, S) <= n}

\* The index entries of one device.
Scan(index, d) == {p[2] : p \in {q \in index : q[1] = d}}

\* Faulty: the row read ahead to tell whether there is more stays on the page.
AfterKeepingLookAhead(d, after, limit) ==
  LET found == {id \in Scan(devMsgs, d) : id > after /\ id \in DOMAIN messages}
      page  == FirstOf(found, limit + 1)
  IN [ids |-> page, hasMore |-> Cardinality(page) > limit]

\* Forward reading: ids above a cursor, ascending, from the (device, id) index.
AfterByDevice(d, after, limit) ==
  LET found == {id \in Scan(devMsgs, d) : id > after /\ id \in DOMAIN messages}
      page  == FirstOf(found, limit)
  IN [ids |-> page, hasMore |-> page # found]

\* Faulty: the next page starts one id too low.
RecentPageSkipping(d, limit, since) ==
  LET found == {id \in DOMAIN messages : InScope(d, id) /\ (since = 0 \/ id + 1 < since)}
      page  == {id \in found : Cardinality({j \in found : j >= id}) <= limit}
  IN [ids |-> page, hasMore |-> page # found]

\* Backward reading: ids below a cursor (0: none), newest first, from the messages.
RecentPageByDevice(d, limit, since) ==
  LET found == {id \in DOMAIN messages : InScope(d, id) /\ (since = 0 \/ id < since)}
      page  == {id \in found : Cardinality({j \in found : j >= id}) <= limit}
  IN [ids |-> page, hasMore |-> page # found]

(***************************************************************************)
(* The whole history of a device, newest first: the messages that contain  *)
(* a keyword, here those whose body it is.  An export (limit -1) is one    *)
(* read transaction, so it answers from one state of the store however     *)
(* long its client takes.                                                  *)
(***************************************************************************)
NoKeyword == ""

MessageMatches(m, kw) == kw \in {NoKeyword, m.body}

ForEachByDevice(d, kw, since) ==
  {id \in DOMAIN messages : /\ InScope(d, id) /\ (since = 0 \/ id < since)
                            /\ MessageMatches(messages[id], kw)}

\* The first of S an answer may hold, newest first; all if the limit is negative.
Capped(S, limit) ==
  {id \in S : limit < 0 \/ Cardinality({j \in S : j >= id}) <= limit}

RecentByDevice(d, limit, since) == Capped(ForEachByDevice(d, NoKeyword, since), limit)

SearchByDevice(d, kw, limit, since) ==
  LET found == ForEachByDevice(d, kw, since)
  IN [ids |-> Capped(found, limit), total |-> Cardinality(found)]

\* The rows of a device after a cursor that a client is to apply.
Events(d, since) ==
  {c \in Scan(log.byDev, d) : /\ c > since /\ c \in DOMAIN log.rows
                              /\ log.rows[c].kind # "reset"}

Targets(cursors, kind) ==
  {log.rows[c].target : c \in {e \in cursors : log.rows[e].kind = kind}}

Page(cursors, cursor, hasMore, reset) ==
  [ids |-> Targets(cursors, "single"), purges |-> Targets(cursors, "purge"),
   extraIDs |-> Targets(cursors, "extra"), cursor |-> cursor,
   hasMore |-> hasMore, reset |-> reset]

\* Faulty: a full page is returned with the cursor of the newest row.
DeletionsSkipping(d, since) ==
  LET mine   == Scan(log.byDev, d)
      events == Events(d, since)
  IN IF mine = {} THEN Page({}, 0, FALSE, FALSE)
     ELSE IF since = 0 THEN Page({}, Greatest(mine), FALSE, FALSE)
     ELSE IF since < Least(mine) THEN Page({}, Greatest(mine), FALSE, TRUE)
     ELSE Page(FirstOf(events, PageLimit), Greatest(mine), FirstOf(events, PageLimit) # events, FALSE)

\* Faulty: a full page is returned with the cursor that was asked for.
DeletionsStuck(d, since) ==
  LET mine   == Scan(log.byDev, d)
      events == Events(d, since)
      onPage == FirstOf(events, PageLimit)
  IN IF mine = {} THEN Page({}, 0, FALSE, FALSE)
     ELSE IF since = 0 THEN Page({}, Greatest(mine), FALSE, FALSE)
     ELSE IF since < Least(mine) THEN Page({}, Greatest(mine), FALSE, TRUE)
     ELSE IF onPage = events THEN Page(events, Greatest(mine), FALSE, FALSE)
     ELSE Page(onPage, since, TRUE, FALSE)

DeletionsByDevice(d, since) ==
  LET mine   == Scan(log.byDev, d)
      events == Events(d, since)
      onPage == FirstOf(events, PageLimit)
  IN IF mine = {} THEN Page({}, 0, FALSE, FALSE)
     ELSE IF since = 0 THEN Page({}, Greatest(mine), FALSE, FALSE)
     ELSE IF since < Least(mine) THEN Page({}, Greatest(mine), FALSE, TRUE)
     ELSE IF onPage = events THEN Page(events, Greatest(mine), FALSE, FALSE)
     ELSE Page(onPage, Greatest(onPage), TRUE, FALSE)

(***************************************************************************)
(* The wall clock.                                                         *)
(***************************************************************************)
Tick ==
  /\ now < MaxTime
  /\ now' = now + 1
  /\ UNCHANGED <<tables, log, max, opened, history>>

StepClockBack ==
  /\ ClockMayStepBack
  /\ now' \in {t \in 0 .. MaxTime : t < now}
  /\ UNCHANGED <<tables, log, max, opened, history>>

(***************************************************************************)
(* The specification.                                                      *)
(***************************************************************************)
Publish ==
  \E d \in Devices, b \in Bodies, t \in TTLs \cup {NoTTL} :
    \/ Add(d, b, t)
    \/ \E x \in ExtraIDs : UpsertByExtraID(d, x, b, t)

Remove ==
  \/ \E scope \in Devices \cup {Any} :
       \/ DeleteAllByDevice(scope)
       \/ \E id \in DOMAIN messages : DeleteByDevice(scope, id)
  \/ \E d \in Devices, x \in ExtraIDs : DeleteByExtraID(d, x)

Maintain == ExpireMessages \/ CleanupDeletions

Next == Open \/ Crash \/ Publish \/ Remove \/ Maintain \/ Tick \/ StepClockBack

Spec == Init /\ [][Next]_vars

\* The process is started again, and over its restarts it stays up for long
\* enough (ttlSweepInterval) time and again for the ttl sweep to come round.
FairSpec == Spec /\ WF_vars(Open) /\ SF_vars(ExpireMessages)

(***************************************************************************)
(* Properties.                                                             *)
(***************************************************************************)
(***************************************************************************)
(* The two indexes that every write path maintains by hand say what the    *)
(* messages bucket says: the forward reader (AfterByDevice) sees each      *)
(* stored message of the device and no other, and no deadline survives its *)
(* message.  A database of an older release is repaired when it is opened. *)
(***************************************************************************)
IndexesExact ==
  /\ devMsgs = {<<messages[id].device, id>> : id \in DOMAIN messages}
  /\ DOMAIN ttl \subseteq DOMAIN messages

Unmigrated == ~ opened /\ devMsgs = {} /\ DOMAIN ttl = {}

IndexesAgree == IndexesExact \/ Unmigrated

(***************************************************************************)
(* meta "count", which is only ever stepped up and down and which decides  *)
(* when to evict, is the number of stored messages.                        *)
(***************************************************************************)
CountExact == count = Cardinality(DOMAIN messages)

(***************************************************************************)
(* The indexes of the deletion log say what its rows say, so that a device *)
(* is served its own events, and a (device, id) is entered once.           *)
(***************************************************************************)
SingleRows(lg) == {c \in DOMAIN lg.rows : lg.rows[c].kind = "single"}

IndexesMatchRows(lg) ==
  /\ lg.byDev = {<<lg.rows[c].device, c>> : c \in DOMAIN lg.rows}
  /\ lg.byMsg = {MsgKey(lg.rows[c]) : c \in SingleRows(lg)}
  /\ \A c, e \in SingleRows(lg) : MsgKey(lg.rows[c]) = MsgKey(lg.rows[e]) => c = e

LogIndexesAgree ==
  /\ IndexesMatchRows(log)
  /\ \A c \in DOMAIN log.rows : c <= log.seq

(***************************************************************************)
(* Ids are never used again, across bulk deletes and restarts: clients use *)
(* the highest id they hold as their cursor.                               *)
(***************************************************************************)
NoResurrection ==
  /\ DOMAIN messages \cap DOMAIN removed = {}
  /\ \A id \in DOMAIN messages \cup DOMAIN removed : id <= msgSeq

(***************************************************************************)
(* No "single" or "purge" event in the log hits a message that is stored:  *)
(* whenever a client gets round to applying it, it drops only what the     *)
(* server dropped ("purge" takes all ids up to its ceiling).               *)
(***************************************************************************)
Covers(rec, id) ==
  \/ rec.kind = "single" /\ rec.target = id
  \/ rec.kind = "purge" /\ id <= rec.target

EventsSpareTheLiving ==
  \A c \in DOMAIN log.rows, id \in DOMAIN messages :
    log.rows[c].device = messages[id].device => ~ Covers(log.rows[c], id)

(***************************************************************************)
(* No message disappears silently, whichever of the ways took it (delete,  *)
(* delete all, delete by extras.id, eviction, ttl).  A client whose cursor *)
(* is from before the removal either finds a later event that covers it,   *)
(* or its cursor lies below every row of the device, and the answer is     *)
(* "reset".  This is what the "reset" rows of the retention sweep are for. *)
(***************************************************************************)
Told(id) ==
  \E c \in DOMAIN log.rows : /\ c > removed[id].at
                             /\ log.rows[c].device = removed[id].device
                             /\ Covers(log.rows[c], id)

DeviceRows(d) == {c \in DOMAIN log.rows : log.rows[c].device = d}

BelowAllRows(d, cursor) ==
  DeviceRows(d) # {} /\ \A c \in DeviceRows(d) : cursor < c

NoSilentRemoval ==
  \A id \in DOMAIN removed :
    Told(id) \/ BelowAllRows(removed[id].device, removed[id].at)

(***************************************************************************)
(* A client that the retention sweep has outrun is told so: every cursor   *)
(* below an event that was dropped gets "reset", for ever, and also when   *)
(* the wall clock was set back.                                            *)
(***************************************************************************)
GapIsReported ==
  \A d \in Devices : \A since \in 1 .. forgotten[d] - 1 :
    DeletionsByDevice(d, since).reset

(***************************************************************************)
(* Paging the deletion log loses and repeats nothing: from any cursor that *)
(* is not reset, the page holds exactly the events between that cursor and *)
(* the one it returns, and hasMore says whether any are left.              *)
(***************************************************************************)
Between(d, from, to) ==
  {c \in DOMAIN log.rows : log.rows[c].device = d /\ from < c /\ c <= to}

PagesExact ==
  \A d \in Devices, since \in 1 .. log.seq :
    LET p   == DeletionsByDevice(d, since)
        due == Between(d, since, p.cursor)
    IN DeviceRows(d) # {} /\ ~ p.reset =>
         /\ p.ids = Targets(due, "single")
         /\ p.purges = Targets(due, "purge")
         /\ p.extraIDs = Targets(due, "extra")
         /\ p.hasMore <=> Events(d, p.cursor) # {}
         /\ p.hasMore => p.cursor > since

(***************************************************************************)
(* Overwriting keeps one stored message per (device, extras.id); more than *)
(* one can only come from a database of an older release.                  *)
(***************************************************************************)
NoTwins ==
  \A i, j \in DOMAIN messages :
    (/\ messages[i].device = messages[j].device
     /\ messages[i].extraID = messages[j].extraID /\ messages[i].extraID # NoID)
    => i = j \/ {i, j} \subseteq LegacyIDs

(***************************************************************************)
(* A message whose deadline has passed goes, or gets another one from a    *)
(* push with the same extras.id; deadlines outlive restarts, and those of  *)
(* an older release's messages are found again when they are indexed.      *)
(***************************************************************************)
Overdue(id) ==
  /\ id \in DOMAIN messages
  /\ messages[id].deadline # NoTTL /\ messages[id].deadline <= now

OverdueGoes == \A id \in 1 .. MaxSeq : Overdue(id) ~> ~ Overdue(id)
=============================================================================
