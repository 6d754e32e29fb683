------------------------------ MODULE MemoryStore ------------------------------
(***************************************************************************)
(* The history of a process whose data directory cannot be used: the type  *)
(* memoryStore of internal/gotifycompat/store.go.  It answers the same     *)
(* calls as the bbolt store from Go maps and slices under one mutex, so    *)
(* each call is one action, except the export, which takes the mutex anew  *)
(* for every message.                                                      *)
(*                                                                         *)
(* A behaviour is the life of one process: nothing of the store outlives   *)
(* it (ServiceStart has the restarts).  Device keys, extras.id values and  *)
(* the constants are those of GotifyStore.                                 *)
(***************************************************************************)
EXTENDS Integers, FiniteSets, SequencesExt

CONSTANTS Devices, ExtraIDs, Bodies, TTLs, MaxChoices, Retention, PageLimit,
          ClockMayStepBack, MaxSeq, MaxCursor, MaxTime,
          Keywords     \* what exports ask for, NoKeyword for everything

AnyDevice == 0    \* the empty device key: every device
NoID      == 0    \* no extras.id
NoTTL     == 0    \* no ttl extra, and no deadline
NoKeyword == ""

ASSUME MemAssumption ==
  /\ Devices \subseteq Nat \ {0} /\ IsFiniteSet(Devices)
  /\ ExtraIDs \subseteq Nat \ {0} /\ TTLs \subseteq Nat \ {0}
  /\ MaxChoices \subseteq Nat \ {0}
  /\ Retention \in Nat /\ PageLimit \in Nat \ {0}
  /\ ClockMayStepBack \in BOOLEAN
  /\ MaxSeq \in Nat /\ MaxCursor \in Nat /\ MaxTime \in Nat

VARIABLES
  msgs,      \* map: id -> message
  order,     \* slice: the ids, as they came
  seq,       \* the last id given out
  expires,   \* map: id -> deadline
  dels,      \* the deletion log: last cursor, slice of rows, the pairs in delMsg
  max,       \* the cap, given to newMemoryStore
  up,        \* whether the process has started
  now,       \* the wall clock
  export,    \* the export under way (see NoExport)
  removed,   \* history: as in GotifyStore
  forgotten  \* history: as in GotifyStore

history == <<removed, forgotten>>
memVars == <<msgs, order, seq, expires, dels, max, up, now, export, removed, forgotten>>

Cursors == {dels.rows[n].cursor : n \in DOMAIN dels.rows}

(***************************************************************************)
(* Slices.  Both are written without recursion, so that they can be        *)
(* reasoned about.                                                         *)
(***************************************************************************)
\* A finite set of numbers in ascending order.
Sorted(S) ==
  [n \in 1 .. Cardinality(S) |-> CHOOSE k \in S : Cardinality({j \in S : j <= k}) = n]

\* The elements of s that are in S, in their order.
Only(s, S) ==
  LET places == Sorted({n \in DOMAIN s : s[n] \in S})
  IN [n \in DOMAIN places |-> s[places[n]]]

(***************************************************************************)
(* Starting, with an empty store.                                          *)
(***************************************************************************)
EmptyMap == [x \in {} |-> 0]

\* An export: what it asks for, the ids left of the snapshot it took, and what
\* it has written; history: what was stored, and was to be written, when it began.
NoExport == [on |-> FALSE, device |-> AnyDevice, keyword |-> NoKeyword, ids |-> <<>>,
             out |-> <<>>, began |-> EmptyMap]

MemInit ==
  /\ msgs = EmptyMap /\ order = <<>> /\ seq = 0 /\ expires = EmptyMap
  /\ dels = [seq |-> 0, rows |-> <<>>, keys |-> {}]
  /\ max \in MaxChoices
  /\ up = FALSE /\ now = 0
  /\ export = NoExport
  /\ removed = EmptyMap
  /\ forgotten = [d \in Devices |-> 0]

NewMemoryStore ==
  /\ ~ up
  /\ up' = TRUE
  /\ max' \in MaxChoices
  /\ UNCHANGED <<msgs, order, seq, expires, dels, now, export, history>>

(***************************************************************************)
(* The deletion log.                                                       *)
(***************************************************************************)
Record(d, kind, target) ==
  [device |-> d, kind |-> kind, target |-> target, createdAt |-> now]

Key(rec) == <<rec.device, rec.target>>

\* A message that has a "single" row gets no second one.
Logged(log, rec) == rec.kind = "single" /\ Key(rec) \in log.keys

\* The rows that one call appends; no two of them are about the same thing.
AddDeletions(log, recs) ==
  LET fresh == Only(recs, {rec \in Range(recs) : ~ Logged(log, rec)})
  IN [seq  |-> log.seq + Len(fresh),
      rows |-> log.rows \o [n \in DOMAIN fresh |-> [cursor |-> log.seq + n, rec |-> fresh[n]]],
      keys |-> log.keys \cup {Key(rec) : rec \in {r \in Range(fresh) : r.kind = "single"}}]

\* A "single" row for each of the ids, in their order.
Singles(known, ids) ==
  [n \in DOMAIN ids |-> Record(known[ids[n]].device, "single", ids[n])]

\* The rows, one for each device, in the order of the devices
\* (sortedCeilingDevices).
PerDevice(recs) ==
  LET sorted == Sorted(DOMAIN recs) IN [n \in DOMAIN sorted |-> recs[sorted[n]]]

(***************************************************************************)
(* Removing.                                                               *)
(***************************************************************************)
Drop(map, ids) == [id \in DOMAIN map \ ids |-> map[id]]

NoteRemoved(known, ids) ==
  removed' = [id \in DOMAIN removed \cup ids |->
                IF id \in ids THEN [device |-> known[id].device, at |-> dels.seq]
                              ELSE removed[id]]

\* Faulty: the deadlines stay.
RemoveKeepingDeadlines(known, ids) ==
  /\ msgs' = Drop(known, ids)
  /\ order' = Only(order, DOMAIN known \ ids)
  /\ NoteRemoved(known, ids)
  /\ UNCHANGED <<expires, seq, max, up, now, export, forgotten>>

RemoveLocked(known, ids) ==
  /\ msgs' = Drop(known, ids)
  /\ order' = Only(order, DOMAIN known \ ids)
  /\ expires' = Drop(expires, ids)
  /\ NoteRemoved(known, ids)
  /\ UNCHANGED <<seq, max, up, now, export, forgotten>>

(***************************************************************************)
(* Writing a message.                                                      *)
(***************************************************************************)
NewMessage(d, x, b, t) ==
  [device |-> d, extraID |-> x, body |-> b,
   deadline |-> IF t = NoTTL THEN NoTTL ELSE now + t]

With(map, id, v) == [x \in DOMAIN map \cup {id} |-> IF x = id THEN v ELSE map[x]]

\* A ttl refreshes the deadline; without one an older deadline stays.
Deadlines(id, t) == IF t = NoTTL THEN expires ELSE With(expires, id, now + t)

\* Above the cap the oldest goes.
Evicted(grown) == IF Len(grown) > max THEN <<Head(grown)>> ELSE <<>>

Insert(d, x, b, t) ==
  LET id     == seq + 1
      grown  == Append(order, id)
      known  == With(msgs, id, NewMessage(d, x, b, t))
      victim == Evicted(grown)
  IN /\ id <= MaxSeq
     /\ seq' = id
     /\ msgs' = Drop(known, Range(victim))
     /\ order' = Only(grown, DOMAIN known \ Range(victim))
     /\ expires' = Drop(Deadlines(id, t), Range(victim))
     /\ dels' = AddDeletions(dels, Singles(known, victim))
     /\ NoteRemoved(known, Range(victim))
     /\ UNCHANGED <<max, up, now, export, forgotten>>

\* The places of the messages with this extras.id; the scan starts at the end.
Matches(d, x) ==
  {n \in DOMAIN order : msgs[order[n]].device = d /\ msgs[order[n]].extraID = x}

Newest(places) == order[CHOOSE n \in places : \A m \in places : m <= n]

Add(d, b, t) == up /\ Insert(d, NoID, b, t)

UpsertByExtraID(d, x, b, t) ==
  /\ up
  /\ IF Matches(d, x) = {}
     THEN Insert(d, x, b, t)
     ELSE LET id == Newest(Matches(d, x))
          IN /\ msgs' = [msgs EXCEPT ![id] = NewMessage(d, x, b, t)]
             /\ expires' = Deadlines(id, t)
             /\ UNCHANGED <<order, seq, dels, max, up, now, export, history>>

(***************************************************************************)
(* The ways of removing messages.                                          *)
(***************************************************************************)
InScope(scope, id) == scope = AnyDevice \/ msgs[id].device = scope

DeleteByDevice(scope, id) ==
  /\ up /\ id \in DOMAIN msgs /\ InScope(scope, id)
  /\ RemoveLocked(msgs, {id})
  /\ dels' = AddDeletions(dels, Singles(msgs, <<id>>))

DeleteByExtraID(d, x) ==
  LET ids == IF Matches(d, x) = {} THEN <<>> ELSE <<Newest(Matches(d, x))>>
  IN /\ up /\ dels.seq < MaxCursor
     /\ RemoveLocked(msgs, Range(ids))
     /\ dels' = AddDeletions(AddDeletions(dels, Singles(msgs, ids)),
                              <<Record(d, "extra", x)>>)

Ceiling(d, ids) ==
  CHOOSE id \in ids : msgs[id].device = d /\ \A i \in ids : msgs[i].device = d => i <= id

DeleteAllByDevice(scope) ==
  LET ids      == {id \in DOMAIN msgs : InScope(scope, id)}
      affected == {msgs[id].device : id \in ids}
  IN /\ up /\ ids # {}
     /\ RemoveLocked(msgs, ids)
     /\ dels' = AddDeletions(dels, PerDevice([d \in affected |-> Record(d, "purge", Ceiling(d, ids))]))

ExpireMessages ==
  LET due == Only(order, {id \in DOMAIN expires : expires[id] <= now})
  IN /\ up
     /\ RemoveLocked(msgs, Range(due))
     /\ dels' = AddDeletions(dels, Singles(msgs, due))

(***************************************************************************)
(* The retention sweep.  It goes through all rows, and where the bbolt     *)
(* store stops at the first fresh one, it goes on.                         *)
(***************************************************************************)
Stale(row) == row.rec.createdAt < now - Retention

OldRows == {row \in Range(dels.rows) : Stale(row)}

\* Faulty: delMsg keeps the keys of the dropped rows.
KeptWithKeys(old) ==
  [dels EXCEPT !.rows = Only(@, Range(@) \ old)]

Kept(old) ==
  [dels EXCEPT !.rows = Only(@, Range(@) \ old),
               !.keys = @ \ {Key(row.rec) : row \in {r \in old : r.rec.kind = "single"}}]

CleanupDeletions ==
  LET old      == OldRows
      affected == {row.rec.device : row \in old}
      lost(d)  == {row.cursor : row \in {r \in old : r.rec.device = d /\ r.rec.kind # "reset"}}
  IN /\ up /\ old # {} /\ dels.seq < MaxCursor
     /\ dels' = AddDeletions(Kept(old), PerDevice([d \in affected |-> Record(d, "reset", 0)]))
     /\ forgotten' = [d \in Devices |->
                        IF lost(d) = {} THEN forgotten[d]
                        ELSE CHOOSE c \in lost(d) : \A e \in lost(d) : e <= c]
     /\ UNCHANGED <<msgs, order, seq, expires, max, up, now, export, removed>>

(***************************************************************************)
(* Reading: a scan of the slice, from its end for the newest-first reads.  *)
(***************************************************************************)
UpTo(s, n) == SubSeq(s, 1, IF n < Len(s) THEN n ELSE Len(s))

MessageMatches(m, kw) == kw \in {NoKeyword, m.body}

\* The history newest first, from an id (0: none) downwards, as one reader wants it.
Walk(d, kw, since) ==
  Only(Reverse(order), {id \in DOMAIN msgs : /\ since = 0 \/ id < since
                                             /\ InScope(d, id) /\ MessageMatches(msgs[id], kw)})

RecentByDevice(d, limit, since) ==
  LET found == Walk(d, NoKeyword, since)
  IN Range(IF limit < 0 THEN found ELSE UpTo(found, limit))

SearchByDevice(d, kw, limit, since) ==
  LET found == Walk(d, kw, since)
  IN [ids   |-> Range(IF limit < 0 THEN found ELSE UpTo(found, limit)),
      total |-> Len(found)]

OnePage(found, limit) ==
  [ids |-> Range(UpTo(found, limit)), hasMore |-> Len(found) > limit]

RecentPageByDevice(d, limit, since) == OnePage(Walk(d, NoKeyword, since), limit)

\* Faulty: the message at the cursor comes again.
AfterInclusive(d, after, limit) ==
  OnePage(Only(order, {id \in DOMAIN msgs : id >= after /\ InScope(d, id)}), limit)

AfterByDevice(d, after, limit) ==
  OnePage(Only(order, {id \in DOMAIN msgs : id > after /\ InScope(d, id)}), limit)

Targets(rows, kind) ==
  {row.rec.target : row \in {r \in Range(rows) : r.rec.kind = kind}}

Page(rows, cursor, hasMore, reset) ==
  [ids |-> Targets(rows, "single"), purges |-> Targets(rows, "purge"),
   extraIDs |-> Targets(rows, "extra"), cursor |-> cursor,
   hasMore |-> hasMore, reset |-> reset]

DeletionsByDevice(d, since) ==
  LET mine   == Only(dels.rows, {row \in Range(dels.rows) : row.rec.device = d})
      events == Only(mine, {row \in Range(mine) : row.cursor > since /\ row.rec.kind # "reset"})
      onPage == UpTo(events, PageLimit)
  IN IF mine = <<>> THEN Page(<<>>, 0, FALSE, FALSE)
     ELSE IF since = 0 THEN Page(<<>>, Last(mine).cursor, FALSE, FALSE)
     ELSE IF since < Head(mine).cursor THEN Page(<<>>, Last(mine).cursor, FALSE, TRUE)
     ELSE IF Len(events) > PageLimit THEN Page(onPage, Last(onPage).cursor, TRUE, FALSE)
     ELSE Page(events, Last(mine).cursor, FALSE, FALSE)

(***************************************************************************)
(* The export (ForEachByDevice): the ids below since (0: all) are copied,  *)
(* newest first, and each message is then looked up, matched and written   *)
(* on its own, while other calls come in between.                          *)
(***************************************************************************)
ExportBegin(d, kw, since) ==
  LET wanted == {id \in DOMAIN msgs : since = 0 \/ id < since}
  IN /\ up /\ ~ export.on
     /\ export' = [NoExport EXCEPT !.on = TRUE, !.device = d, !.keyword = kw,
                     !.ids = Only(Reverse(order), wanted),
                     !.began = Drop(msgs, {id \in DOMAIN msgs : id \notin wanted \/ ~ InScope(d, id)})]
     /\ UNCHANGED <<msgs, order, seq, expires, dels, max, up, now, history>>

\* Faulty: the next is looked up by its place in the slice, not by its id.
ByPlace(n) == IF n \in DOMAIN order THEN {order[n]} ELSE {}

\* The id whose turn it is, n ids being left.
Turn(n) == {Head(export.ids)}

Written ==
  {id \in Turn(Len(export.ids)) :
     /\ id \in DOMAIN msgs
     /\ InScope(export.device, id) /\ MessageMatches(msgs[id], export.keyword)}

ExportNext ==
  /\ export.on /\ export.ids # <<>>
  /\ export' = [export EXCEPT !.ids = Tail(@), !.out = @ \o Sorted(Written)]
  /\ UNCHANGED <<msgs, order, seq, expires, dels, max, up, now, history>>

ExportEnd ==
  /\ export.on /\ export.ids = <<>>
  /\ export' = NoExport
  /\ UNCHANGED <<msgs, order, seq, expires, dels, max, up, now, history>>

(***************************************************************************)
(* The wall clock, which may be set back.                                  *)
(***************************************************************************)
Tick ==
  /\ now' \in {t \in 0 .. MaxTime : t = now + 1 \/ (ClockMayStepBack /\ t < now)}
  /\ UNCHANGED <<msgs, order, seq, expires, dels, max, up, export, history>>

Publish ==
  \E d \in Devices, b \in Bodies, t \in TTLs \cup {NoTTL} :
    \/ Add(d, b, t)
    \/ \E x \in ExtraIDs : UpsertByExtraID(d, x, b, t)

Delete ==
  \/ \E scope \in Devices \cup {AnyDevice} :
       \/ DeleteAllByDevice(scope)
       \/ \E id \in DOMAIN msgs : DeleteByDevice(scope, id)
  \/ \E d \in Devices, x \in ExtraIDs : DeleteByExtraID(d, x)

Export ==
  \/ \E d \in Devices, kw \in Keywords, since \in 0 .. MaxSeq : ExportBegin(d, kw, since)
  \/ ExportNext \/ ExportEnd

MemNext ==
  \/ NewMemoryStore \/ Publish \/ Delete \/ ExpireMessages \/ CleanupDeletions
  \/ Export \/ Tick

MemSpec == MemInit /\ [][MemNext]_memVars

(***************************************************************************)
(* Properties.                                                             *)
(***************************************************************************)
(***************************************************************************)
(* The slice, the maps and the log belong together: the slice holds the    *)
(* stored ids in ascending order, deadlines are those of stored messages,  *)
(* and delMsg has the "single" rows of the log.                            *)
(***************************************************************************)
Ascending(s) == \A m, n \in DOMAIN s : m < n => s[m] < s[n]

MemTypeOK ==
  /\ Ascending(order) /\ Range(order) = DOMAIN msgs
  /\ DOMAIN expires \subseteq DOMAIN msgs
  /\ Ascending([n \in DOMAIN dels.rows |-> dels.rows[n].cursor])
  /\ dels.keys = {Key(row.rec) : row \in {r \in Range(dels.rows) : r.rec.kind = "single"}}
  /\ \A id \in DOMAIN msgs : msgs[id].device \in Devices /\ id <= seq

(***************************************************************************)
(* "It mirrors the bbolt store's secondary state (ttl deadlines, deletion  *)
(* log)" (store.go:1157): with its maps and slices read as buckets, the    *)
(* memory store does nothing that the bbolt store, freshly created, could  *)
(* not do.  Every invariant that is proved of GotifyStore holds here then. *)
(* This asks for a clock that is not set back (see CleanupDeletions).      *)
(***************************************************************************)
RowAt(c) == (CHOOSE row \in Range(dels.rows) : row.cursor = c).rec

Bbolt == INSTANCE GotifyStore
  WITH messages <- msgs, msgSeq <- seq, count <- Len(order),
       devMsgs <- {<<msgs[id].device, id>> : id \in DOMAIN msgs},
       ttl <- expires, opened <- up, LegacyIDs <- {},
       log <- [seq   |-> dels.seq,
               rows  |-> [c \in Cursors |-> RowAt(c)],
               byDev |-> {<<RowAt(c).device, c>> : c \in Cursors},
               byMsg |-> dels.keys]

MirrorsBbolt == Bbolt!Spec

(***************************************************************************)
(* "The oldest row of a device always marks that what lies before is no    *)
(* longer known" (docs/API.md:635): a client the sweep has outrun gets     *)
(* "reset".  MirrorsBbolt gives this while the clock runs forward; after   *)
(* it was set back the sweep takes a row from between two that stay, and   *)
(* a client whose cursor is that of the older of the two is told nothing.  *)
(***************************************************************************)
GapIsReported == Bbolt!GapIsReported

(***************************************************************************)
(* Each read answers what the bbolt store answers from the same state, at  *)
(* every cursor and limit: pages, hasMore, totals, gaps and cursors.       *)
(***************************************************************************)
Limits == {-1} \cup 1 .. MaxSeq

AnswersAgree ==
  \A d \in Devices :
    /\ \A since \in 0 .. dels.seq + 1 :
         DeletionsByDevice(d, since) = Bbolt!DeletionsByDevice(d, since)
    /\ \A since \in 0 .. seq + 1, limit \in Limits :
         /\ RecentByDevice(d, limit, since) = Bbolt!RecentByDevice(d, limit, since)
         /\ \A kw \in Bodies :
              SearchByDevice(d, kw, limit, since) = Bbolt!SearchByDevice(d, kw, limit, since)
         /\ limit > 0 =>
              /\ RecentPageByDevice(d, limit, since) = Bbolt!RecentPageByDevice(d, limit, since)
              /\ AfterByDevice(d, since, limit) = Bbolt!AfterByDevice(d, since, limit)

(***************************************************************************)
(* An export that other calls run into is no snapshot, but it is sound: it *)
(* writes messages of its device that were stored when it began, newest    *)
(* first and each once, and it leaves out none that was stored, with what  *)
(* the export asks for, from its beginning to its end.  (A message with an *)
(* extras.id may have been replaced for a while by one without the word.)  *)
(***************************************************************************)
Steady(id) ==
  /\ id \in DOMAIN msgs /\ msgs[id] = export.began[id]
  /\ MessageMatches(msgs[id], export.keyword)
  /\ export.keyword = NoKeyword \/ msgs[id].extraID = NoID

ExportSound ==
  /\ Range(export.out) \subseteq DOMAIN export.began
  /\ Ascending(Reverse(export.out))
  /\ export.on /\ export.ids = <<>> =>
       {id \in DOMAIN export.began : Steady(id)} \subseteq Range(export.out)

\* What the routes of the history are served in the memory mode.  The reads
\* look at nothing of an export, and what is stored while one is on can also be
\* stored without one: they are compared in those states alone, to save time.
ReadsSound == (export.on \/ AnswersAgree) /\ ExportSound
=============================================================================
