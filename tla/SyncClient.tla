------------------------------ MODULE SyncClient ------------------------------
(***************************************************************************)
(* One client that mirrors the history of one device over HTTP: the        *)
(* handler routeGotifyDeviceMessage (route_gotify.go) between the store    *)
(* and a client that follows the protocol of docs/API.md, "incremental     *)
(* sync".                                                                  *)
(*                                                                         *)
(* The handler answers from two read-only transactions, first a page of    *)
(* messages, then a page of the deletion log; the store may commit writes  *)
(* in between.  Requests and answers may be lost, and a crash of the       *)
(* process takes the request with it; the client asks again.               *)
(*                                                                         *)
(* The client applies a page's messages, then its deletions, then keeps    *)
(* the two cursors; on "reset" it empties its cache and seeds it anew from *)
(* the first page, with the cursor of the reset page.                      *)
(***************************************************************************)
EXTENDS GotifyStore

CONSTANTS
  Self,           \* the device whose history is mirrored
  Limit,          \* the limit parameter of the client's requests
  BaselineFirst,  \* whether the client fetches its baseline cursor in a request
                  \* of its own, before the first page, or along with that page
  ColdStart       \* whether the client may start before the device's first event

ASSUME ClientAssumption ==
  /\ Self \in Devices
  /\ Limit \in Nat \ {0}
  /\ BaselineFirst \in BOOLEAN
  /\ ColdStart \in BOOLEAN

VARIABLES
  mode,    \* "baseline": to fetch the baseline cursor alone; "first": the cursor
           \* along with the first page; "seed": pages backwards; "follow": polling
  local,   \* the client's cache: id -> what it shows
  cursor,  \* the persisted deletion cursor
  high,    \* the persisted highest message id
  before,  \* while seeding: the since parameter of the next page (0: none)
  request  \* the request in flight, or NoRequest

client    == <<mode, local, cursor, high, before>>
syncVars  == <<vars, client, request>>

Modes == {"baseline", "first", "seed", "follow"}

NoRequest == [stage |-> "none", msgs |-> EmptyBucket, hasMore |-> FALSE]

Content == [extraID : ExtraIDs \cup {NoID}, body : Bodies]

(***************************************************************************)
(* The client's tables.  Its cursor is one that the log has reached, and   *)
(* an answer under way holds no more than the page that was asked for: the *)
(* row that the handler reads ahead (store.go:537-565, 578-613) is not on  *)
(* it, or the client would take it for seen.                               *)
(***************************************************************************)
SyncTypeOK ==
  /\ TypeOK
  /\ mode \in Modes
  /\ local \in [DOMAIN local -> Content]
  /\ cursor \in Nat /\ high \in Nat /\ before \in Nat
  /\ cursor <= log.seq
  /\ request.stage \in {"none", "sent", "half"}
  /\ request.msgs \in [DOMAIN request.msgs -> Content]
  /\ Cardinality(DOMAIN request.msgs) <= Limit
  /\ request.hasMore \in BOOLEAN
  /\ request.stage # "none" => opened
  /\ before # 0 => mode = "seed"

(***************************************************************************)
(* The request the client makes next: when it has no cursor yet with       *)
(* deletedSince=0, when it polls with its cursor, else without.            *)
(***************************************************************************)
StartMode == IF BaselineFirst THEN "baseline" ELSE "first"

DeletedSince == IF mode = "follow" THEN cursor ELSE 0

\* A process that is down refuses the connection.
Ask ==
  /\ opened /\ request.stage = "none"
  /\ mode = StartMode => ColdStart \/ DeviceRows(Self) # {}
  /\ request' = [NoRequest EXCEPT !.stage = "sent"]
  /\ UNCHANGED <<vars, client>>

Lose ==
  /\ request.stage # "none"
  /\ request' = NoRequest
  /\ UNCHANGED <<vars, client>>

(***************************************************************************)
(* The handler, first transaction: AfterByDevice when the request has      *)
(* after, else RecentPageByDevice.                                         *)
(***************************************************************************)
MessagePage ==
  IF mode = "follow" THEN AfterByDevice(Self, high, Limit)
                     ELSE RecentPageByDevice(Self, Limit, before)

ReadMessages ==
  /\ opened /\ request.stage = "sent"
  /\ request' = [stage   |-> "half",
                 msgs    |-> [id \in MessagePage.ids |->
                                [extraID |-> messages[id].extraID,
                                 body    |-> messages[id].body]],
                 hasMore |-> MessagePage.hasMore]
  /\ UNCHANGED <<vars, client>>

(***************************************************************************)
(* The second transaction, the answer, and what the client does with it.   *)
(***************************************************************************)
\* f with the entries of g put over it.
Over(f, g) == [x \in DOMAIN f \cup DOMAIN g |-> IF x \in DOMAIN g THEN g[x] ELSE f[x]]

HighestOf(ids, else) == IF ids = {} THEN else ELSE Greatest(ids)

\* What the client drops: ids, then everything up to a ceiling, and extras.ids.
Applied(cache, page) ==
  Delete(cache, {id \in DOMAIN cache :
                   \/ id \in page.ids
                   \/ \E ceiling \in page.purges : id <= ceiling
                   \/ cache[id].extraID \in page.extraIDs})

TakeBaseline(page) ==
  /\ mode = "baseline"
  /\ mode' = "seed" /\ cursor' = page.cursor
  /\ UNCHANGED <<local, high, before>>

TakeSeedPage(page) ==
  /\ mode \in {"first", "seed"}
  /\ local' = Over(local, request.msgs)
  /\ cursor' = IF mode = "first" THEN page.cursor ELSE cursor
  /\ IF request.hasMore
     THEN /\ before' = Least(DOMAIN request.msgs)
          /\ mode' = "seed"
          /\ UNCHANGED high
     ELSE /\ before' = 0
          /\ mode' = "follow"
          /\ high' = HighestOf(DOMAIN local', 0)

TakePoll(page) ==
  /\ mode = "follow" /\ ~ page.reset
  /\ local' = Applied(Over(local, request.msgs), page)
  /\ high' = HighestOf(DOMAIN request.msgs, high)
  /\ cursor' = page.cursor
  /\ UNCHANGED <<mode, before>>

\* Faulty: the cache is kept and seeded over.
TakeResetKeepingCache(page) ==
  /\ mode = "follow" /\ page.reset
  /\ mode' = "seed"
  /\ high' = 0 /\ before' = 0
  /\ cursor' = page.cursor
  /\ UNCHANGED local

TakeReset(page) ==
  /\ mode = "follow" /\ page.reset
  /\ mode' = "seed"
  /\ local' = EmptyBucket /\ high' = 0 /\ before' = 0
  /\ cursor' = page.cursor

Answer ==
  /\ opened /\ request.stage = "half"
  /\ LET page == DeletionsByDevice(Self, DeletedSince)
     IN TakeBaseline(page) \/ TakeSeedPage(page) \/ TakePoll(page) \/ TakeReset(page)
  /\ request' = NoRequest
  /\ UNCHANGED vars

(***************************************************************************)
(* The composition.  A crash of the server drops the request.              *)
(***************************************************************************)
SyncInit ==
  /\ Init
  /\ mode = StartMode
  /\ local = EmptyBucket
  /\ cursor = 0 /\ high = 0 /\ before = 0
  /\ request = NoRequest

StoreStep ==
  /\ Next
  /\ request' = IF opened' THEN request ELSE NoRequest
  /\ UNCHANGED client

SyncNext == StoreStep \/ Ask \/ Lose \/ ReadMessages \/ Answer

SyncSpec == SyncInit /\ [][SyncNext]_syncVars

\* The server is started again, the client polls for ever, and requests are not
\* lost each and every time.
SyncFairSpec ==
  /\ SyncSpec
  /\ WF_syncVars(Open /\ StoreStep)
  /\ SF_syncVars(Ask)
  /\ SF_syncVars(ReadMessages)
  /\ SF_syncVars(Answer)

(***************************************************************************)
(* Properties.                                                             *)
(***************************************************************************)
Live == {id \in DOMAIN messages : messages[id].device = Self}

(***************************************************************************)
(* The client never shows a deleted message for good: whatever it holds    *)
(* (or is about to, from an answer under way) is stored, or the deletion   *)
(* log has an event past its cursor that removes it, or its next poll is   *)
(* answered with "reset".                                                  *)
(***************************************************************************)
WillDrop(id, extraID) ==
  \/ BelowAllRows(Self, cursor)
  \/ \E c \in DeviceRows(Self) :
       /\ c > cursor
       /\ \/ Covers(log.rows[c], id)
          \/ log.rows[c].kind = "extra" /\ log.rows[c].target = extraID

NothingStale ==
  mode \in {"seed", "follow"} =>
    \A id \in DOMAIN local \ Live : WillDrop(id, local[id].extraID)

(***************************************************************************)
(* The client misses no message: once it is polling, it holds every stored *)
(* message up to the highest id it has seen; the rest lies ahead of it.    *)
(* This is true of messages that carry no extras.id.                       *)
(***************************************************************************)
Plain(ids) == {id \in ids : messages[id].extraID = NoID}

HoldsAllSeen(ids) == \A id \in ids : id <= high => id \in DOMAIN local

NothingMissed == mode = "follow" => HoldsAllSeen(Plain(Live))

(***************************************************************************)
(* The same of every message.  This is what the protocol promises: that    *)
(* applying the deletions after the new messages does them no harm.        *)
(***************************************************************************)
NoNewMessageDropped == mode = "follow" => HoldsAllSeen(Live)

(***************************************************************************)
(* When publishing and deleting stop, the client's cache comes to hold the *)
(* stored messages of the device and nothing else, and stays so.           *)
(***************************************************************************)
Mirrors ==
  /\ mode = "follow"
  /\ DOMAIN local \subseteq Live
  /\ Plain(Live) \subseteq DOMAIN local

Converges == (<>[](DeviceRows(Self) # {})) => <>[]Mirrors
=============================================================================
