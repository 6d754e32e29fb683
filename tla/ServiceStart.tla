---------------------------- MODULE ServiceStart ----------------------------
(***************************************************************************)
(* The start and the end of server processes on one data directory         *)
(* (runServer of main.go, Init of internal/gotifycompat/service.go): the   *)
(* device registry bark.db, which a start waits for without limit; the     *)
(* history gotify.db, which it waits for one second and then replaces by a *)
(* history in memory; the instance id of the history and the client token  *)
(* kept in it; and a client that follows the history by                    *)
(* instanceId + message id, as docs/API.md tells it to.                    *)
(*                                                                         *)
(* A process may be killed between any two transactions, and the next one  *)
(* may start while the last still shuts down.  Random ids and tokens are   *)
(* numbers never used twice.                                               *)
(***************************************************************************)
EXTENDS Naturals, Sequences

CONSTANTS
  Procs,       \* server processes
  Operators,   \* tokens an operator may configure
  NoToken,     \* no token configured, none stored
  None,        \* nobody holds a lock
  MaxMade,     \* bound: random ids and tokens made
  MaxMessages, \* bound: messages published
  MaxStarts    \* bound: starts

\* A legacy file holds a message; a lock's None and NoToken are nothing else.
ASSUME StartAssumption ==
  /\ MaxMade \in Nat /\ MaxMessages \in Nat \ {0} /\ MaxStarts \in Nat
  /\ None \notin Procs /\ NoToken \notin 1..MaxMade

VARIABLES
  devices,    \* who holds the lock of bark.db
  lock,       \* who holds the lock of gotify.db
  file,       \* gotify.db
  proc,       \* the processes
  made,       \* how many random ids and tokens there are
  published,  \* how many messages there are
  starts,     \* how many starts there were
  logged,     \* history: the tokens that were logged
  unsaid,     \* history: tokens whose maker ended before it logged them
  client      \* the client: for each instance the last id it read, and how
              \* often it read each message

fileVars == <<devices, lock, file>>
vars == <<fileVars, proc, made, published, starts, logged, unsaid, client>>

Ids      == 1..MaxMade
Messages == 1..MaxMessages
Tokens   == Operators \cup Ids
Steps    == {"down", "devices", "open", "hash", "auto", "log", "up", "closed"}

(***************************************************************************)
(* gotify.db: the instance id (0 before it has one), the hash and the      *)
(* plain text of the client token, and the messages.                       *)
(***************************************************************************)
NewFile == [instance |-> 0, hash |-> NoToken, auto |-> NoToken, rows |-> <<>>]

\* A file of a server that did not know instance ids yet.
LegacyFile == [NewFile EXCEPT !.rows = <<1>>]

(***************************************************************************)
(* A process: what it is doing, the token configured, which kind of store  *)
(* it got, the instance id, the token it accepts, the token it made and    *)
(* has not logged yet, and the messages of a memory store.                 *)
(***************************************************************************)
Down == [step |-> "down", operator |-> NoToken, store |-> "none",
         instance |-> 0, token |-> NoToken, auto |-> NoToken, rows |-> <<>>]

Rows(p) == IF proc[p].store = "file" THEN file.rows ELSE proc[p].rows

StartTypeOK ==
  /\ devices \in Procs \cup {None} /\ lock \in Procs \cup {None}
  /\ file.instance \in 0..made
  /\ {file.hash, file.auto} \subseteq Tokens \cup {NoToken}
  /\ \A p \in Procs :
       /\ proc[p].step \in Steps
       /\ proc[p].store \in {"none", "file", "memory"}
       /\ {proc[p].token, proc[p].auto} \subseteq Tokens \cup {NoToken}
       /\ proc[p].store = "file" <=> lock = p
       /\ proc[p].store = "file" => proc[p].instance = file.instance
       /\ proc[p].step = "up" =>
            /\ proc[p].store # "none" /\ proc[p].instance > 0
            /\ proc[p].token # NoToken
  /\ made \in 0..MaxMade /\ published \in 0..MaxMessages /\ starts \in 0..MaxStarts
  /\ \A i \in Ids : client.cursor[i] \in Nat

Init ==
  /\ devices = None /\ lock = None
  /\ \/ file = NewFile /\ published = 0
     \/ file = LegacyFile /\ published = 1
  /\ proc = [p \in Procs |-> Down]
  /\ made = 0 /\ starts = 0 /\ logged = {} /\ unsaid = {}
  /\ client = [cursor |-> [i \in Ids |-> 0], times |-> [m \in Messages |-> 0]]

(***************************************************************************)
(* runServer.                                                              *)
(***************************************************************************)
Start(p) ==
  /\ proc[p].step = "down" /\ starts < MaxStarts
  /\ starts' = starts + 1
  /\ \E operator \in Operators \cup {NoToken}, local \in BOOLEAN :
       proc' = [proc EXCEPT ![p] = [Down EXCEPT !.operator = operator,
                                     !.step = IF local THEN "devices" ELSE "open"]]
  /\ UNCHANGED <<fileVars, made, published, logged, unsaid, client>>

\* initializeDatabase with a bark.db: bbolt waits for the lock without limit.
OpenDevices(p) ==
  /\ proc[p].step = "devices" /\ devices = None
  /\ devices' = p
  /\ proc' = [proc EXCEPT ![p].step = "open"]
  /\ UNCHANGED <<lock, file, made, published, starts, logged, unsaid, client>>

\* Init of the service: what follows once the store is there.
Opened(p, store, instance) ==
  [proc[p] EXCEPT !.step = "hash", !.store = store, !.instance = instance]

\* Faulty: opens the file in spite of its lock.
Unlocked == TRUE

LockFree == lock = None

\* Faulty: a new id each time.
AlwaysNewId == made + 1

\* loadOrCreateInstanceID.
InstanceId == IF file.instance # 0 THEN file.instance ELSE made + 1

\* openBboltStore: the lock, then one transaction that ends with the instance id.
OpenFile(p) ==
  /\ proc[p].step = "open" /\ LockFree
  /\ made < MaxMade
  /\ lock' = p
  /\ file' = [file EXCEPT !.instance = InstanceId]
  /\ made' = IF InstanceId = made + 1 THEN made + 1 ELSE made
  /\ proc' = [proc EXCEPT ![p] = Opened(p, "file", InstanceId)]
  /\ UNCHANGED <<devices, published, starts, logged, unsaid, client>>

\* Faulty: an id for every process without a file.
SameMemoryId == 1

MemoryId == made + 1

\* Faulty: no Timeout for bolt.Open, which then waits for the lock.
NoFallBack(p) == proc[p].step = "open" /\ LockFree

\* The second for the lock is over, the directory is unusable, or the first
\* transaction failed (which closes the file again).
FileUnusable(p) == proc[p].step = "open"

\* The fallback to newMemoryStore, with an id of its own.
FallBack(p) ==
  /\ FileUnusable(p)
  /\ made < MaxMade /\ made' = made + 1
  /\ proc' = [proc EXCEPT ![p] = Opened(p, "memory", MemoryId)]
  /\ UNCHANGED <<fileVars, published, starts, logged, unsaid, client>>

(***************************************************************************)
(* The client token.  SetTokenHash and SetAutoToken are transactions of    *)
(* their own; a failure of either is logged, never fatal.  A memory store  *)
(* keeps neither.                                                          *)
(***************************************************************************)
\* Faulty: a token without its plain text is made anew.
StoredPlain(p) == IF proc[p].store = "file" /\ file.auto # NoToken
                  THEN file.hash ELSE NoToken

\* TokenHash.  An error of this read, which Init would take for a missing hash
\* (service.go:114-119), is left out: bbolt reads a file it has open from memory.
Stored(p) == IF proc[p].store = "file" THEN file.hash ELSE NoToken

Writes(p) == IF proc[p].store = "file" THEN {TRUE, FALSE} ELSE {FALSE}

\* Takes over the operator's token, or makes one: SetTokenHash.
SetTokenHash(p, token, auto) ==
  \E written \in Writes(p) :
    /\ file' = IF written THEN [file EXCEPT !.hash = token] ELSE file
    /\ proc' = [proc EXCEPT ![p].token = token, ![p].auto = auto,
                            ![p].operator = NoToken, ![p].step = "auto"]
    /\ UNCHANGED <<devices, lock, published, starts, logged, unsaid, client>>

OperatorToken(p) ==
  /\ proc[p].step = "hash" /\ proc[p].operator # NoToken
  /\ SetTokenHash(p, proc[p].operator, NoToken)
  /\ UNCHANGED made

\* The source of random bytes does not fail.
GeneratedToken(p) ==
  /\ proc[p].step = "hash" /\ proc[p].operator = NoToken /\ Stored(p) = NoToken
  /\ made < MaxMade /\ made' = made + 1
  /\ SetTokenHash(p, made', made')

\* The stored token goes on; its plain text is not looked at.
PersistedToken(p) ==
  /\ proc[p].step = "hash" /\ proc[p].operator = NoToken /\ Stored(p) # NoToken
  /\ proc' = [proc EXCEPT ![p].token = Stored(p), ![p].step = "log"]
  /\ UNCHANGED <<fileVars, made, published, starts, logged, unsaid, client>>

\* SetAutoToken: stores what was made, or clears what is there.
SetAutoToken(p) ==
  /\ proc[p].step = "auto"
  /\ \E written \in Writes(p) :
       file' = IF written THEN [file EXCEPT !.auto = proc[p].auto] ELSE file
  /\ proc' = [proc EXCEPT ![p].step = "log"]
  /\ UNCHANGED <<devices, lock, made, published, starts, logged, unsaid, client>>

\* Faulty: nothing to log when there is no file to keep the token in.
SaidIfStored(p) == IF proc[p].store = "file" THEN {proc[p].auto} \ {NoToken} ELSE {}

\* initGotifyCompat logs a token this process made, no other.
Said(p) == {proc[p].auto} \ {NoToken}

Announce(p) ==
  /\ proc[p].step = "log"
  /\ logged' = logged \cup Said(p)
  /\ proc' = [proc EXCEPT ![p].step = "up", ![p].auto = NoToken]
  /\ UNCHANGED <<fileVars, made, published, starts, unsaid, client>>

(***************************************************************************)
(* In service, and the end.                                                *)
(***************************************************************************)
Publish(p) ==
  /\ proc[p].step = "up" /\ published < MaxMessages
  /\ published' = published + 1
  /\ IF proc[p].store = "file"
     THEN file' = [file EXCEPT !.rows = Append(@, published')] /\ UNCHANGED proc
     ELSE proc' = [proc EXCEPT ![p].rows = Append(@, published')] /\ UNCHANGED file
  /\ UNCHANGED <<devices, lock, made, starts, logged, unsaid, client>>

\* The client's request after its cursor for this instance, one message a page.
Read(p) ==
  LET i == proc[p].instance
  IN /\ proc[p].step = "up" /\ client.cursor[i] < Len(Rows(p))
     /\ client' = [client EXCEPT !.cursor[i] = @ + 1,
                                 !.times[Rows(p)[client.cursor[i] + 1]] = @ + 1]
     /\ UNCHANGED <<fileVars, proc, made, published, starts, logged, unsaid>>

\* A termination signal: fiberApp.Shutdown, then db.Close.  The history is not
\* closed; the end of the process releases it.
Shutdown(p) ==
  /\ proc[p].step = "up"
  /\ devices' = IF devices = p THEN None ELSE devices
  /\ proc' = [proc EXCEPT ![p] = [Down EXCEPT !.step = "closed", !.store = proc[p].store,
                                              !.instance = proc[p].instance]]
  /\ UNCHANGED <<lock, file, made, published, starts, logged, unsaid, client>>

\* The process ends, of itself or killed at any moment; the kernel frees its locks.
End(p) ==
  /\ proc[p].step # "down"
  /\ devices' = IF devices = p THEN None ELSE devices
  /\ lock' = IF lock = p THEN None ELSE lock
  /\ unsaid' = IF proc[p].step \in {"auto", "log"} THEN unsaid \cup Said(p) ELSE unsaid
  /\ proc' = [proc EXCEPT ![p] = Down]
  /\ UNCHANGED <<file, made, published, starts, logged, client>>

\* The operator removes gotify.db while no server holds it.
RemoveFile ==
  /\ lock = None /\ file # NewFile
  /\ file' = NewFile
  /\ UNCHANGED <<devices, lock, proc, made, published, starts, logged, unsaid, client>>

Starting(p) ==
  \/ OpenDevices(p) \/ OpenFile(p) \/ FallBack(p)
  \/ OperatorToken(p) \/ GeneratedToken(p) \/ PersistedToken(p)
  \/ SetAutoToken(p) \/ Announce(p)

Next ==
  \/ \E p \in Procs : \/ Start(p) \/ Starting(p) \/ Publish(p) \/ Read(p)
                      \/ Shutdown(p) \/ End(p)
  \/ RemoveFile

\* A start goes on by itself; nobody has to end a process.
Fairness == \A p \in Procs : WF_vars(Starting(p))

Spec == Init /\ [][Next]_vars /\ Fairness

(***************************************************************************)
(* Properties.                                                             *)
(***************************************************************************)
\* A client that keeps its place by instanceId and message id has read every
\* message up to there exactly once, whether the server was restarted, lost its
\* file or fell back to memory in between (docs/API.md:544; service.go:62-77).
ReadOnce ==
  /\ \A m \in Messages : client.times[m] <= 1
  /\ \A p \in Procs : proc[p].step = "up" =>
       /\ client.cursor[proc[p].instance] <= Len(Rows(p))
       /\ \A i \in 1..client.cursor[proc[p].instance] : client.times[Rows(p)[i]] = 1

\* The token a server in service accepts is known to somebody: an operator set it or
\* a log holds it, unless the process that made it ended before the log line, after
\* which no start says it again (token.go:17-20, main.go:105-111).
TokenKnown ==
  \A p \in Procs : proc[p].step = "up" =>
    proc[p].token \in Operators \cup logged \cup unsaid

\* And it lasts: as long as the file can be read, a token in it is replaced by an
\* operator's only, or goes with the file (token.go:15-17, service.go:108-142).
TokenLasts ==
  [][/\ TokenKnown'
     /\ file.hash # NoToken =>
          file'.hash \in {file.hash} \cup Operators \/ file' = NewFile]_vars

\* A start comes to serve, whatever becomes of the history's file; only a process
\* in service that holds bark.db keeps it waiting (service.go:53-55, bbolt.go:353).
ComesUp ==
  \A p \in Procs : proc[p].step \in {"devices", "open"} ~>
    \/ proc[p].step \in {"up", "down"} \/ made = MaxMade
    \/ proc[p].step = "devices" /\ \E q \in Procs : devices = q /\ proc[q].step = "up"
=============================================================================
