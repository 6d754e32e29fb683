------------------------- MODULE ServiceStartProofs -------------------------
(***************************************************************************)
(* Starts, ends and crashes of any number of processes on one data         *)
(* directory: the client that keeps its place by instance id and message   *)
(* id reads everything once, and a token that is accepted is known.        *)
(*                                                                         *)
(* Places says where the client stands in every history that may still be  *)
(* served; it needs that no two of them share an instance id (Instances)   *)
(* or a message (Separate), and that ids not yet made are unread (Fresh).  *)
(* Whose says who knows the tokens that are in use or in the file.         *)
(***************************************************************************)
EXTENDS ServiceStart, SequenceTheorems, TLAPS

Stores == {"none", "file", "memory"}

ProcRecord(n) ==
  [step : Steps, operator : Operators \cup {NoToken}, store : Stores, instance : 0..n,
   token : Tokens \cup {NoToken}, auto : Tokens \cup {NoToken}, rows : Seq(Nat)]

FileRecord(n) ==
  [instance : 0..n, hash : Tokens \cup {NoToken}, auto : Tokens \cup {NoToken},
   rows : Seq(Nat)]

Typed ==
  /\ devices \in Procs \cup {None} /\ lock \in Procs \cup {None}
  /\ made \in 0..MaxMade /\ published \in 0..MaxMessages /\ starts \in 0..MaxStarts
  /\ file \in FileRecord(made)
  /\ proc \in [Procs -> ProcRecord(made)]
  /\ client \in [cursor : [Ids -> Nat], times : [Messages -> 0..1]]

\* How far a process has come tells what it has.
Staged ==
  \A p \in Procs :
    /\ proc[p].store = "none" <=> proc[p].step \in {"down", "devices", "open"}
    /\ proc[p].step \in {"auto", "log", "up"} => proc[p].token # NoToken

Instances ==
  /\ \A p \in Procs :
       /\ proc[p].store = "file" <=> lock = p
       /\ proc[p].store = "file" => proc[p].instance = file.instance /\ file.instance > 0
       /\ proc[p].store = "memory" => proc[p].instance > 0 /\ proc[p].instance # file.instance
  /\ \A p, q \in Procs : p # q /\ proc[p].store = "memory" /\ proc[q].store = "memory"
                           => proc[p].instance # proc[q].instance

\* The histories: no message stands in two places.
Distinct(rows) == \A j, k \in 1..Len(rows) : rows[j] = rows[k] => j = k

Apart(rows, others) == \A j \in 1..Len(rows), k \in 1..Len(others) : rows[j] # others[k]

Old(rows, n) == \A j \in 1..Len(rows) : rows[j] \in 1..n

Separate ==
  /\ Distinct(file.rows) /\ Old(file.rows, published)
  /\ \A p \in Procs :
       /\ Distinct(proc[p].rows) /\ Old(proc[p].rows, published)
       /\ Apart(file.rows, proc[p].rows)
       /\ proc[p].store # "memory" => proc[p].rows = <<>>
  /\ \A p, q \in Procs : p # q => Apart(proc[p].rows, proc[q].rows)

Fresh ==
  /\ \A i \in Ids : i > made => client.cursor[i] = 0
  /\ \A m \in Messages : m > published => client.times[m] = 0

\* The client has read what stands up to place n, and nothing after it.
ReadUpTo(n, rows) ==
  /\ n <= Len(rows)
  /\ \A j \in 1..Len(rows) : client.times[rows[j]] = IF j <= n THEN 1 ELSE 0

Places ==
  /\ file.instance = 0 => ReadUpTo(0, file.rows)
  /\ file.instance > 0 => ReadUpTo(client.cursor[file.instance], file.rows)
  /\ \A p \in Procs : proc[p].store = "memory" /\ proc[p].step # "closed"
                        => ReadUpTo(client.cursor[proc[p].instance], proc[p].rows)

Heard == Operators \cup logged \cup unsaid

Whose ==
  /\ \A p \in Procs :
       /\ proc[p].step \in {"auto", "log"} => proc[p].token \in Heard \cup {proc[p].auto}
       /\ proc[p].step = "up" => proc[p].token \in Heard
  /\ \/ file.hash \in Heard \cup {NoToken}
     \/ \E p \in Procs : /\ lock = p /\ proc[p].step \in {"auto", "log"}
                         /\ file.hash = proc[p].auto

StartInv == Typed /\ Staged /\ Instances /\ Separate /\ Fresh /\ Places /\ Whose

LEMMA StartStarts == Init => StartInv
<1> SUFFICES ASSUME Init PROVE StartInv
  OBVIOUS
<1> USE StartAssumption
<1>1. <<>> \in Seq(Nat) /\ Len(<<>>) = 0 /\ <<1>> \in Seq(Nat) /\ Len(<<1>>) = 1
  BY EmptySeq
<1>2. /\ file.instance = 0 /\ file.hash = NoToken /\ file.auto = NoToken
      /\ file.rows \in Seq(Nat) /\ Len(file.rows) <= 1 /\ Old(file.rows, published)
      /\ published \in 0..MaxMessages /\ file \in FileRecord(0)
  <2>1. CASE file = NewFile /\ published = 0
    BY <1>1, <2>1 DEF NewFile, Old, FileRecord
  <2>2. CASE file = LegacyFile /\ published = 1
    <3>1. file = [instance |-> 0, hash |-> NoToken, auto |-> NoToken, rows |-> <<1>>]
      BY <2>2 DEF LegacyFile, NewFile
    <3>2. \A j \in 1..1 : <<1>>[j] = 1
      OBVIOUS
    <3> QED
      BY <1>1, <2>2, <3>1, <3>2 DEF Old, FileRecord
  <2> QED
    BY <2>1, <2>2 DEF Init
<1>3. \A p \in Procs : proc[p] = Down
  BY DEF Init
<1>4. Down \in ProcRecord(0) /\ Down.step = "down" /\ Down.store = "none" /\ Down.rows = <<>>
  BY <1>1 DEF Down, ProcRecord, Steps, Stores
<1>5. client.cursor = [i \in Ids |-> 0] /\ client.times = [m \in Messages |-> 0]
  BY DEF Init
<1>6. Typed
  BY <1>2, <1>4 DEF Init, Typed
<1>7. Staged
  BY <1>3, <1>4 DEF Staged
<1>8. Instances
  BY <1>3, <1>4 DEF Instances, Init
<1>9. Separate
  BY <1>1, <1>2, <1>3, <1>4 DEF Separate, Distinct, Apart, Old
<1>10. Fresh
  BY <1>5 DEF Fresh
<1>11. Places
  <2>1. \A j \in 1..Len(file.rows) : client.times[file.rows[j]] = 0
    BY <1>2, <1>5 DEF Old, Messages
  <2> QED
    BY <1>2, <1>3, <1>4, <2>1 DEF Places, ReadUpTo
<1>12. Whose
  BY <1>2, <1>3, <1>4 DEF Whose
<1> QED
  BY <1>6, <1>7, <1>8, <1>9, <1>10, <1>11, <1>12 DEF StartInv

(***************************************************************************)
(* Steps that leave the histories alone.                                   *)
(***************************************************************************)
LEMMA NextStep ==
  ASSUME NEW n \in Nat, NEW rec \in ProcRecord(n), NEW step \in Steps
  PROVE  /\ [rec EXCEPT !.step = step] \in ProcRecord(n)
         /\ [rec EXCEPT !.step = step].step = step
         /\ [rec EXCEPT !.step = step].store = rec.store
         /\ [rec EXCEPT !.step = step].rows = rec.rows
         /\ [rec EXCEPT !.step = step].instance = rec.instance
         /\ [rec EXCEPT !.step = step].token = rec.token
         /\ [rec EXCEPT !.step = step].auto = rec.auto
BY DEF ProcRecord

LEMMA OneProc ==
  ASSUME Typed, NEW p \in Procs, made' \in made..MaxMade, NEW rec \in ProcRecord(made'),
         proc' = [proc EXCEPT ![p] = rec]
  PROVE  /\ proc' \in [Procs -> ProcRecord(made')]
         /\ proc'[p] = rec /\ \A q \in Procs \ {p} : proc'[q] = proc[q]
<1>1. \A q \in Procs : proc[q] \in ProcRecord(made')
  BY StartAssumption DEF Typed, ProcRecord
<1> QED
  BY <1>1 DEF Typed

LEMMA DownTyped ==
  ASSUME NEW n \in Nat
  PROVE  /\ Down \in ProcRecord(n) /\ Down.step = "down" /\ Down.store = "none"
         /\ Down.rows = <<>> /\ Down.auto = NoToken
<1>1. <<>> \in Seq(Nat) /\ 0 \in 0..n
  OBVIOUS
<1> QED
  BY <1>1 DEF Down, ProcRecord, Steps, Stores

LEMMA SameRows ==
  ASSUME Separate, published' = published, file'.rows = file.rows,
         \A q \in Procs : /\ proc'[q].rows = proc[q].rows
                          /\ proc'[q].store # "memory" => proc'[q].rows = <<>>
  PROVE  Separate'
<1>1. \A q \in Procs : /\ Distinct(proc'[q].rows) /\ Old(proc'[q].rows, published)
                       /\ Apart(file.rows, proc'[q].rows)
  BY DEF Separate
<1>2. \A q, r \in Procs : q # r => Apart(proc'[q].rows, proc'[r].rows)
  BY DEF Separate
<1> QED
  BY <1>1, <1>2 DEF Separate, Distinct, Apart, Old

LEMMA HistoriesStay ==
  ASSUME Typed, Staged, Instances, Separate, Fresh, Places,
         UNCHANGED <<lock, published, client>>, made' \in made..MaxMade,
         file'.instance = file.instance, file'.rows = file.rows,
         \A q \in Procs :
           /\ proc'[q].store = proc[q].store /\ proc'[q].rows = proc[q].rows
           /\ proc[q].store # "none" => proc'[q].instance = proc[q].instance
           /\ proc[q].step = "closed" => proc'[q].step = "closed"
  PROVE  Instances' /\ Separate' /\ Fresh' /\ Places'
<1>1. Instances'
  BY DEF Instances
<1>2. Separate'
  BY SameRows DEF Separate
<1>3. Fresh'
  BY StartAssumption DEF Fresh, Typed, Ids
<1>4. Places'
  <2>2. ReadUpTo(0, file.rows)' <=> ReadUpTo(0, file.rows)
    BY DEF ReadUpTo
  <2>3. ReadUpTo(client.cursor[file.instance], file.rows)'
          <=> ReadUpTo(client.cursor[file.instance], file.rows)
    BY DEF ReadUpTo
  <2>4. ASSUME NEW q \in Procs, proc'[q].store = "memory", proc'[q].step # "closed"
        PROVE  ReadUpTo(client.cursor[proc[q].instance], proc[q].rows)'
    <3>1. ReadUpTo(client.cursor[proc[q].instance], proc[q].rows)
      BY <2>4 DEF Places
    <3>2. proc'[q].instance = proc[q].instance /\ proc'[q].rows = proc[q].rows
      BY <2>4
    <3> QED
      BY <3>1, <3>2 DEF ReadUpTo
  <2> QED
    BY <2>2, <2>3, <2>4 DEF Places
<1> QED
  BY <1>1, <1>2, <1>3, <1>4

LEMMA StartKeeps ==
  ASSUME StartInv, NEW p \in Procs, Start(p)
  PROVE  StartInv'
<1> USE StartAssumption
<1>1. Typed /\ Staged /\ Instances /\ Separate /\ Fresh /\ Places /\ Whose
  BY DEF StartInv
<1>2. PICK operator \in Operators \cup {NoToken}, first \in {"devices", "open"} :
        proc' = [proc EXCEPT ![p] = [Down EXCEPT !.operator = operator, !.step = first]]
  BY DEF Start
<1> DEFINE rec == [Down EXCEPT !.operator = operator, !.step = first]
<1>3. /\ UNCHANGED <<devices, lock, file, made, published, logged, unsaid, client>>
      /\ proc[p].step = "down" /\ starts' \in 0..MaxStarts
  BY <1>1 DEF Start, fileVars, Typed
<1>4. /\ rec \in ProcRecord(made) /\ rec.step \in {"devices", "open"} /\ rec.store = "none"
      /\ rec.rows = <<>>
  <2>1. Down \in ProcRecord(made) /\ Down.store = "none" /\ Down.rows = <<>>
    BY <1>1, DownTyped DEF Typed
  <2> QED
    BY <2>1 DEF ProcRecord, Steps
<1> HIDE DEF rec
<1>5. /\ proc' \in [Procs -> ProcRecord(made)]
      /\ proc'[p] = rec /\ \A q \in Procs \ {p} : proc'[q] = proc[q]
  BY <1>1, <1>2, <1>3, <1>4, OneProc DEF rec, Typed
<1>6. Typed' /\ Staged'
  BY <1>1, <1>3, <1>4, <1>5 DEF Typed, Staged
<1>7. Instances' /\ Separate' /\ Fresh' /\ Places'
  <2>1. proc[p].store = "none" /\ proc[p].rows = <<>>
    BY <1>1, <1>3 DEF Staged, Separate
  <2> QED
    BY <1>1, <1>3, <1>4, <1>5, <2>1, HistoriesStay DEF Typed
<1>8. Whose'
  BY <1>1, <1>3, <1>4, <1>5 DEF Whose, Heard
<1> QED
  BY <1>6, <1>7, <1>8 DEF StartInv

LEMMA OpenDevicesKeeps ==
  ASSUME StartInv, NEW p \in Procs, OpenDevices(p)
  PROVE  StartInv'
<1> USE StartAssumption
<1>1. Typed /\ Staged /\ Instances /\ Separate /\ Fresh /\ Places /\ Whose
  BY DEF StartInv
<1> DEFINE rec == [proc[p] EXCEPT !.step = "open"]
<1>2. /\ proc' = [proc EXCEPT ![p] = rec]
      /\ UNCHANGED <<lock, file, made, published, starts, logged, unsaid, client>>
      /\ devices' = p /\ proc[p].step = "devices"
  BY DEF OpenDevices
<1>3. /\ rec \in ProcRecord(made) /\ rec.step = "open" /\ rec.store = proc[p].store
      /\ rec.rows = proc[p].rows /\ rec.instance = proc[p].instance
  <2>1. "open" \in Steps
    BY DEF Steps
  <2>2. made \in Nat /\ proc[p] \in ProcRecord(made)
    BY <1>1 DEF Typed
  <2>3. PICK old \in ProcRecord(made) : old = proc[p]
    BY <2>2
  <2>4. rec = [old EXCEPT !.step = "open"]
    BY <2>3
  <2> HIDE DEF rec
  <2> QED
    BY <2>1, <2>2, <2>3, <2>4, NextStep
<1> HIDE DEF rec
<1>4. /\ proc' \in [Procs -> ProcRecord(made)]
      /\ proc'[p] = rec /\ \A q \in Procs \ {p} : proc'[q] = proc[q]
  BY <1>1, <1>2, <1>3, OneProc DEF Typed
<1>5. Typed' /\ Staged'
  BY <1>1, <1>2, <1>3, <1>4 DEF Typed, Staged
<1>6. Instances' /\ Separate' /\ Fresh' /\ Places'
  BY <1>1, <1>2, <1>3, <1>4, HistoriesStay DEF Typed
<1>7. Whose'
  BY <1>1, <1>2, <1>3, <1>4 DEF Whose, Heard
<1> QED
  BY <1>5, <1>6, <1>7 DEF StartInv

\* An operator's token, or one made by this process.
LEMMA SetTokenHashKeeps ==
  ASSUME StartInv, NEW p \in Procs, NEW token \in Tokens, NEW auto \in Tokens \cup {NoToken},
         proc[p].step = "hash", token # NoToken, token \in Operators \/ token = auto,
         made' \in made..MaxMade, SetTokenHash(p, token, auto)
  PROVE  StartInv'
<1> USE StartAssumption
<1>1. Typed /\ Staged /\ Instances /\ Separate /\ Fresh /\ Places /\ Whose
  BY DEF StartInv
<1> DEFINE rec == [proc[p] EXCEPT !.token = token, !.auto = auto, !.operator = NoToken,
                                  !.step = "auto"]
<1>2. /\ proc' = [proc EXCEPT ![p] = rec]
      /\ UNCHANGED <<devices, lock, published, starts, logged, unsaid, client>>
      /\ \/ proc[p].store = "file" /\ file' = [file EXCEPT !.hash = token]
         \/ file' = file
  BY <1>1 DEF SetTokenHash, Writes
<1>3. /\ rec \in ProcRecord(made') /\ rec.step = "auto" /\ rec.store = proc[p].store
      /\ rec.rows = proc[p].rows /\ rec.instance = proc[p].instance
      /\ rec.token = token /\ rec.auto = auto
  <2>1. proc[p] \in ProcRecord(made')
    BY <1>1 DEF ProcRecord, Typed
  <2> QED
    BY <2>1 DEF ProcRecord, Steps
<1> HIDE DEF rec
<1>4. /\ proc' \in [Procs -> ProcRecord(made')]
      /\ proc'[p] = rec /\ \A q \in Procs \ {p} : proc'[q] = proc[q]
  BY <1>1, <1>2, <1>3, OneProc
<1>5. /\ file' \in FileRecord(made') /\ file'.instance = file.instance
      /\ file'.rows = file.rows /\ file'.hash \in {file.hash, token}
      /\ file'.hash # file.hash => lock = p /\ file'.hash = token
  BY <1>1, <1>2 DEF FileRecord, Typed, Instances
<1>6. Typed' /\ Staged'
  BY <1>1, <1>2, <1>3, <1>4, <1>5 DEF Typed, Staged
<1>7. Instances' /\ Separate' /\ Fresh' /\ Places'
  BY <1>1, <1>2, <1>3, <1>4, <1>5, HistoriesStay
<1>8. Whose'
  <2>1. \A q \in Procs :
          /\ proc'[q].step \in {"auto", "log"} => proc'[q].token \in Heard \cup {proc'[q].auto}
          /\ proc'[q].step = "up" => proc'[q].token \in Heard
    BY <1>1, <1>3, <1>4 DEF Whose, Heard
  <2>2. \/ file'.hash \in Heard \cup {NoToken}
        \/ \E q \in Procs : /\ lock = q /\ proc'[q].step \in {"auto", "log"}
                            /\ file'.hash = proc'[q].auto
    <3>1. CASE file'.hash = file.hash
      BY <1>1, <1>3, <1>4, <3>1 DEF Whose
    <3>2. CASE file'.hash # file.hash
      BY <1>3, <1>4, <1>5, <3>2 DEF Heard
    <3> QED
      BY <3>1, <3>2
  <2> QED
    BY <1>2, <2>1, <2>2 DEF Whose, Heard
<1> QED
  BY <1>6, <1>7, <1>8 DEF StartInv

LEMMA OperatorTokenKeeps ==
  ASSUME StartInv, NEW p \in Procs, OperatorToken(p)
  PROVE  StartInv'
<1>1. /\ proc[p].step = "hash" /\ proc[p].operator \in Operators
      /\ proc[p].operator # NoToken /\ made' \in made..MaxMade
  BY StartAssumption DEF OperatorToken, StartInv, Typed, ProcRecord
<1> QED
  BY <1>1, SetTokenHashKeeps DEF OperatorToken, Tokens

LEMMA GeneratedTokenKeeps ==
  ASSUME StartInv, NEW p \in Procs, GeneratedToken(p)
  PROVE  StartInv'
<1>1. made' \in Ids /\ made' \in made..MaxMade /\ made' # NoToken
  BY StartAssumption DEF GeneratedToken, StartInv, Typed, Ids
<1> QED
  BY <1>1, SetTokenHashKeeps DEF GeneratedToken, Tokens

\* Only a process that still has to log its token holds one in the file nobody heard of.
LEMMA PersistedTokenKeeps ==
  ASSUME StartInv, NEW p \in Procs, PersistedToken(p)
  PROVE  StartInv'
<1> USE StartAssumption
<1>1. Typed /\ Staged /\ Instances /\ Separate /\ Fresh /\ Places /\ Whose
  BY DEF StartInv
<1> DEFINE rec == [proc[p] EXCEPT !.token = Stored(p), !.step = "log"]
<1>2. /\ proc' = [proc EXCEPT ![p] = rec] /\ proc[p].step = "hash" /\ Stored(p) # NoToken
      /\ UNCHANGED <<devices, lock, file, made, published, starts, logged, unsaid, client>>
  BY DEF PersistedToken, fileVars
<1>3. lock = p /\ Stored(p) = file.hash /\ file.hash \in Tokens
  BY <1>1, <1>2 DEF Stored, Instances, Typed, FileRecord
<1>4. /\ rec \in ProcRecord(made) /\ rec.step = "log" /\ rec.store = proc[p].store
      /\ rec.rows = proc[p].rows /\ rec.instance = proc[p].instance
      /\ rec.token = file.hash
  <2>1. "log" \in Steps
    BY DEF Steps
  <2>2. made \in Nat /\ proc[p] \in ProcRecord(made)
    BY <1>1 DEF Typed
  <2> DEFINE old == [proc[p] EXCEPT !.token = file.hash]
  <2>3. old \in ProcRecord(made)
    BY <1>3, <2>2 DEF ProcRecord
  <2>4. /\ old.store = proc[p].store /\ old.rows = proc[p].rows
        /\ old.instance = proc[p].instance /\ old.token = file.hash
    BY <2>2 DEF ProcRecord
  <2>5. rec = [old EXCEPT !.step = "log"]
    BY <1>3
  <2> HIDE DEF old, rec
  <2> QED
    BY <2>1, <2>2, <2>3, <2>4, <2>5, NextStep
<1> HIDE DEF rec
<1>5. /\ proc' \in [Procs -> ProcRecord(made)]
      /\ proc'[p] = rec /\ \A q \in Procs \ {p} : proc'[q] = proc[q]
  BY <1>1, <1>2, <1>4, OneProc DEF Typed
<1>6. Typed' /\ Staged'
  BY <1>1, <1>2, <1>3, <1>4, <1>5 DEF Typed, Staged
<1>7. Instances' /\ Separate' /\ Fresh' /\ Places'
  BY <1>1, <1>2, <1>4, <1>5, HistoriesStay DEF Typed
<1>8. Whose'
  <2>1. file.hash \in Heard
    BY <1>1, <1>2, <1>3 DEF Whose
  <2> QED
    BY <1>1, <1>2, <1>4, <1>5, <2>1 DEF Whose, Heard
<1> QED
  BY <1>6, <1>7, <1>8 DEF StartInv

LEMMA SetAutoTokenKeeps ==
  ASSUME StartInv, NEW p \in Procs, SetAutoToken(p)
  PROVE  StartInv'
<1> USE StartAssumption
<1>1. Typed /\ Staged /\ Instances /\ Separate /\ Fresh /\ Places /\ Whose
  BY DEF StartInv
<1> DEFINE rec == [proc[p] EXCEPT !.step = "log"]
<1>2. /\ proc' = [proc EXCEPT ![p] = rec] /\ proc[p].step = "auto"
      /\ UNCHANGED <<devices, lock, made, published, starts, logged, unsaid, client>>
      /\ file' = [file EXCEPT !.auto = proc[p].auto] \/ file' = file
  BY DEF SetAutoToken
<1>3. /\ rec \in ProcRecord(made) /\ rec.step = "log" /\ rec.store = proc[p].store
      /\ rec.rows = proc[p].rows /\ rec.instance = proc[p].instance
      /\ rec.token = proc[p].token /\ rec.auto = proc[p].auto
  <2>1. "log" \in Steps
    BY DEF Steps
  <2>2. made \in Nat /\ proc[p] \in ProcRecord(made)
    BY <1>1 DEF Typed
  <2>3. PICK old \in ProcRecord(made) : old = proc[p]
    BY <2>2
  <2>4. rec = [old EXCEPT !.step = "log"]
    BY <2>3
  <2> HIDE DEF rec
  <2> QED
    BY <2>1, <2>2, <2>3, <2>4, NextStep
<1> HIDE DEF rec
<1>4. /\ proc' \in [Procs -> ProcRecord(made)]
      /\ proc'[p] = rec /\ \A q \in Procs \ {p} : proc'[q] = proc[q]
  BY <1>1, <1>2, <1>3, OneProc DEF Typed
<1>5. /\ file' \in FileRecord(made) /\ file'.instance = file.instance
      /\ file'.rows = file.rows /\ file'.hash = file.hash
  <2>1. proc[p].auto \in Tokens \cup {NoToken}
    BY <1>1 DEF Typed, ProcRecord
  <2> QED
    BY <1>1, <1>2, <2>1 DEF FileRecord, Typed
<1>6. Typed' /\ Staged'
  BY <1>1, <1>2, <1>3, <1>4, <1>5 DEF Typed, Staged
<1>7. Instances' /\ Separate' /\ Fresh' /\ Places'
  BY <1>1, <1>2, <1>3, <1>4, <1>5, HistoriesStay DEF Typed
<1>8. Whose'
  BY <1>1, <1>2, <1>3, <1>4, <1>5 DEF Whose, Heard
<1> QED
  BY <1>6, <1>7, <1>8 DEF StartInv

LEMMA AnnounceKeeps ==
  ASSUME StartInv, NEW p \in Procs, Announce(p)
  PROVE  StartInv'
<1> USE StartAssumption
<1>1. Typed /\ Staged /\ Instances /\ Separate /\ Fresh /\ Places /\ Whose
  BY DEF StartInv
<1> DEFINE rec == [proc[p] EXCEPT !.step = "up", !.auto = NoToken]
<1>2. /\ proc' = [proc EXCEPT ![p] = rec] /\ proc[p].step = "log"
      /\ logged' = logged \cup ({proc[p].auto} \ {NoToken})
      /\ UNCHANGED <<devices, lock, file, made, published, starts, unsaid, client>>
  BY DEF Announce, fileVars, Said
<1>3. /\ rec \in ProcRecord(made) /\ rec.step = "up" /\ rec.store = proc[p].store
      /\ rec.rows = proc[p].rows /\ rec.instance = proc[p].instance
      /\ rec.token = proc[p].token /\ rec.token # NoToken
  <2>1. "up" \in Steps
    BY DEF Steps
  <2>2. made \in Nat /\ proc[p] \in ProcRecord(made) /\ proc[p].token # NoToken
    BY <1>1, <1>2 DEF Typed, Staged
  <2> DEFINE old == [proc[p] EXCEPT !.auto = NoToken]
  <2>3. old \in ProcRecord(made)
    BY <2>2 DEF ProcRecord
  <2>4. /\ old.store = proc[p].store /\ old.rows = proc[p].rows
        /\ old.instance = proc[p].instance /\ old.token = proc[p].token
    BY <2>2 DEF ProcRecord
  <2>5. rec = [old EXCEPT !.step = "up"]
    OBVIOUS
  <2> HIDE DEF old, rec
  <2> QED
    BY <2>1, <2>2, <2>3, <2>4, <2>5, NextStep
<1> HIDE DEF rec
<1>4. /\ proc' \in [Procs -> ProcRecord(made)]
      /\ proc'[p] = rec /\ \A q \in Procs \ {p} : proc'[q] = proc[q]
  BY <1>1, <1>2, <1>3, OneProc DEF Typed
<1>5. Typed' /\ Staged'
  BY <1>1, <1>2, <1>3, <1>4 DEF Typed, Staged
<1>6. Instances' /\ Separate' /\ Fresh' /\ Places'
  BY <1>1, <1>2, <1>3, <1>4, HistoriesStay DEF Typed
<1>7. Whose'
  <2>1. Heard' = Heard \cup ({proc[p].auto} \ {NoToken})
    BY <1>2 DEF Heard
  <2>2. rec.token \in Heard'
    BY <1>1, <1>2, <1>3, <2>1 DEF Whose
  <2>3. \A q \in Procs :
          /\ proc'[q].step \in {"auto", "log"} => proc'[q].token \in Heard' \cup {proc'[q].auto}
          /\ proc'[q].step = "up" => proc'[q].token \in Heard'
    BY <1>1, <1>3, <1>4, <2>1, <2>2 DEF Whose
  <2>4. \/ file.hash \in Heard' \cup {NoToken}
        \/ \E q \in Procs : /\ lock = q /\ proc'[q].step \in {"auto", "log"}
                            /\ file.hash = proc'[q].auto
    BY <1>1, <1>2, <1>4, <2>1 DEF Whose
  <2> QED
    BY <1>2, <2>3, <2>4 DEF Whose
<1> QED
  BY <1>5, <1>6, <1>7 DEF StartInv

(***************************************************************************)
(* Steps that open, extend, read or close a history.                       *)
(***************************************************************************)
LEMMA EditOpened ==
  ASSUME NEW n \in Nat, NEW rec \in ProcRecord(n), NEW f \in FileRecord(n),
         NEW s \in Steps, NEW k \in Stores, NEW i \in 0..n
  PROVE  /\ [rec EXCEPT !.step = s, !.store = k, !.instance = i] \in ProcRecord(n)
         /\ [f EXCEPT !.instance = i] \in FileRecord(n)
BY DEF ProcRecord, FileRecord

LEMMA OpenFileKeeps ==
  ASSUME StartInv, NEW p \in Procs, OpenFile(p)
  PROVE  StartInv'
<1> USE StartAssumption
<1>1. Typed /\ Staged /\ Instances /\ Separate /\ Fresh /\ Places /\ Whose
  BY DEF StartInv
<1> DEFINE id == InstanceId
           rec == [proc[p] EXCEPT !.step = "hash", !.store = "file", !.instance = id]
<1>2. /\ proc' = [proc EXCEPT ![p] = rec] /\ proc[p].step = "open"
      /\ lock = None /\ lock' = p /\ made < MaxMade
      /\ file' = [file EXCEPT !.instance = id]
      /\ made' = IF id = made + 1 THEN made + 1 ELSE made
      /\ UNCHANGED <<devices, published, starts, logged, unsaid, client>>
  BY DEF OpenFile, Opened, LockFree
<1>3. /\ \/ file.instance > 0 /\ id = file.instance /\ made' = made
         \/ file.instance = 0 /\ id = made + 1 /\ made' = made + 1
      /\ made' \in made..MaxMade /\ id \in 1..made' /\ made \in Nat
  <2>1. made \in Nat /\ file.instance \in 0..made
    BY <1>1 DEF Typed, FileRecord
  <2> QED
    BY <1>2, <2>1 DEF InstanceId
<1> HIDE DEF id
<1>4. /\ rec \in ProcRecord(made') /\ rec.step = "hash" /\ rec.store = "file"
      /\ rec.rows = proc[p].rows /\ rec.instance = id
  <2>1. proc[p] \in ProcRecord(made')
    BY <1>1, <1>3 DEF ProcRecord, Typed
  <2>2. rec \in ProcRecord(made')
    <3>1. "hash" \in Steps /\ "file" \in Stores /\ id \in 0..made' /\ made' \in Nat
      BY <1>3 DEF Steps, Stores
    <3>2. file \in FileRecord(made')
      BY <1>1, <1>3 DEF FileRecord, Typed
    <3> QED
      BY <2>1, <3>1, <3>2, EditOpened
  <2> QED
    BY <2>1, <2>2 DEF ProcRecord
<1> HIDE DEF rec
<1>5. /\ proc' \in [Procs -> ProcRecord(made')]
      /\ proc'[p] = rec /\ \A q \in Procs \ {p} : proc'[q] = proc[q]
  BY <1>1, <1>2, <1>3, <1>4, OneProc
<1>6. /\ file' \in FileRecord(made') /\ file'.instance = id
      /\ file'.rows = file.rows /\ file'.hash = file.hash
  <2>1. file \in FileRecord(made') /\ id \in 0..made'
    BY <1>1, <1>3 DEF FileRecord, Typed
  <2> QED
    BY <1>2, <2>1 DEF FileRecord
<1>7. Typed' /\ Staged'
  BY <1>1, <1>2, <1>3, <1>4, <1>5, <1>6 DEF Typed, Staged
<1>8. proc[p].store = "none" /\ proc[p].rows = <<>>
  BY <1>1, <1>2 DEF Staged, Separate
<1>9. \A q \in Procs : proc[q].store # "file" /\ proc[q].instance <= made
  BY <1>1, <1>2 DEF Instances, Typed, ProcRecord
<1>10. Instances'
  BY <1>1, <1>2, <1>3, <1>4, <1>5, <1>6, <1>8, <1>9 DEF Instances
<1>11. Separate'
  <2>1. \A q \in Procs : /\ proc'[q].rows = proc[q].rows
                         /\ proc'[q].store # "memory" => proc'[q].rows = <<>>
    BY <1>1, <1>4, <1>5, <1>8 DEF Separate
  <2> QED
    BY <1>1, <1>2, <1>6, <2>1, SameRows
<1>12. Fresh'
  BY <1>1, <1>2, <1>3 DEF Fresh, Ids
<1>13. Places'
  <2>1. ReadUpTo(client.cursor[id], file.rows)
    <3>1. CASE file.instance > 0
      BY <1>1, <1>3, <3>1 DEF Places
    <3>2. CASE file.instance = 0
      BY <1>1, <1>2, <1>3, <3>2 DEF Places, Fresh, Ids
    <3> QED
      BY <1>3, <3>1, <3>2
  <2> QED
    BY <1>1, <1>2, <1>3, <1>4, <1>5, <1>6, <2>1 DEF Places, ReadUpTo
<1>14. Whose'
  BY <1>1, <1>2, <1>4, <1>5, <1>6 DEF Whose, Heard
<1> QED
  BY <1>7, <1>10, <1>11, <1>12, <1>13, <1>14 DEF StartInv

LEMMA FallBackKeeps ==
  ASSUME StartInv, NEW p \in Procs, FallBack(p)
  PROVE  StartInv'
<1> USE StartAssumption
<1>1. Typed /\ Staged /\ Instances /\ Separate /\ Fresh /\ Places /\ Whose
  BY DEF StartInv
<1> DEFINE rec == [proc[p] EXCEPT !.step = "hash", !.store = "memory", !.instance = made + 1]
<1>2. /\ proc' = [proc EXCEPT ![p] = rec] /\ proc[p].step = "open"
      /\ made' = made + 1 /\ made < MaxMade
      /\ UNCHANGED <<devices, lock, file, published, starts, logged, unsaid, client>>
  BY DEF FallBack, FileUnusable, Opened, MemoryId, fileVars
<1>3. made \in Nat /\ made' \in made..MaxMade
  BY <1>1, <1>2 DEF Typed
<1>4. /\ rec \in ProcRecord(made') /\ rec.step = "hash" /\ rec.store = "memory"
      /\ rec.rows = proc[p].rows /\ rec.instance = made + 1
  <2>1. proc[p] \in ProcRecord(made')
    BY <1>1, <1>3 DEF ProcRecord, Typed
  <2>2. rec \in ProcRecord(made')
    <3>1. "hash" \in Steps /\ "memory" \in Stores /\ made + 1 \in 0..made' /\ made' \in Nat
      BY <1>2, <1>3 DEF Steps, Stores
    <3>2. file \in FileRecord(made')
      BY <1>1, <1>3 DEF FileRecord, Typed
    <3> QED
      BY <2>1, <3>1, <3>2, EditOpened
  <2> QED
    BY <2>1, <2>2 DEF ProcRecord
<1> HIDE DEF rec
<1>5. /\ proc' \in [Procs -> ProcRecord(made')]
      /\ proc'[p] = rec /\ \A q \in Procs \ {p} : proc'[q] = proc[q]
  BY <1>1, <1>2, <1>3, <1>4, OneProc
<1>6. file \in FileRecord(made')
  BY <1>1, <1>3 DEF FileRecord, Typed
<1>7. Typed' /\ Staged'
  BY <1>1, <1>2, <1>3, <1>4, <1>5, <1>6 DEF Typed, Staged
<1>8. proc[p].store = "none" /\ proc[p].rows = <<>>
  BY <1>1, <1>2 DEF Staged, Separate
<1>9. file.instance <= made /\ \A q \in Procs : proc[q].instance <= made
  BY <1>1, <1>3 DEF Typed, ProcRecord, FileRecord
<1>10. Instances'
  BY <1>1, <1>2, <1>3, <1>4, <1>5, <1>8, <1>9 DEF Instances
<1>11. Separate'
  <2>1. \A q \in Procs : /\ proc'[q].rows = proc[q].rows
                         /\ proc'[q].store # "memory" => proc'[q].rows = <<>>
    BY <1>1, <1>4, <1>5, <1>8 DEF Separate
  <2> QED
    BY <1>1, <1>2, <2>1, SameRows
<1>12. Fresh'
  BY <1>1, <1>2, <1>3 DEF Fresh, Ids
<1>13. Places'
  <2>1. ReadUpTo(client.cursor[made + 1], proc[p].rows)
    BY <1>1, <1>2, <1>3, <1>8 DEF Fresh, Ids, ReadUpTo
  <2> QED
    BY <1>1, <1>2, <1>4, <1>5, <2>1 DEF Places, ReadUpTo
<1>14. Whose'
  BY <1>1, <1>2, <1>4, <1>5 DEF Whose, Heard
<1> QED
  BY <1>7, <1>10, <1>11, <1>12, <1>13, <1>14 DEF StartInv

LEMMA ShutdownKeeps ==
  ASSUME StartInv, NEW p \in Procs, Shutdown(p)
  PROVE  StartInv'
<1> USE StartAssumption
<1>1. Typed /\ Staged /\ Instances /\ Separate /\ Fresh /\ Places /\ Whose
  BY DEF StartInv
<1> DEFINE rec == [Down EXCEPT !.step = "closed", !.store = proc[p].store,
                               !.instance = proc[p].instance]
<1>2. /\ proc' = [proc EXCEPT ![p] = rec] /\ proc[p].step = "up"
      /\ devices' = IF devices = p THEN None ELSE devices
      /\ UNCHANGED <<lock, file, made, published, starts, logged, unsaid, client>>
  BY DEF Shutdown
<1>3. made \in Nat /\ proc[p] \in ProcRecord(made) /\ Down \in ProcRecord(made)
      /\ Down.rows = <<>>
  BY <1>1, DownTyped DEF Typed
<1>4. /\ rec \in ProcRecord(made) /\ rec.step = "closed" /\ rec.store = proc[p].store
      /\ rec.rows = <<>> /\ rec.instance = proc[p].instance
  BY <1>3 DEF ProcRecord, Steps
<1> HIDE DEF rec
<1>5. /\ proc' \in [Procs -> ProcRecord(made)]
      /\ proc'[p] = rec /\ \A q \in Procs \ {p} : proc'[q] = proc[q]
  BY <1>1, <1>2, <1>4, OneProc DEF Typed
<1>6. Typed' /\ Staged'
  BY <1>1, <1>2, <1>4, <1>5 DEF Typed, Staged
<1>7. Instances' /\ Fresh'
  BY <1>1, <1>2, <1>4, <1>5 DEF Instances, Fresh
<1>8. Separate'
  <2>1. /\ Distinct(<<>>) /\ Old(<<>>, published)
        /\ \A rows : Apart(rows, <<>>) /\ Apart(<<>>, rows)
    BY DEF Distinct, Old, Apart
  <2> QED
    BY <1>1, <1>2, <1>4, <1>5, <2>1 DEF Separate
<1>9. Places'
  BY <1>1, <1>2, <1>4, <1>5 DEF Places, ReadUpTo
<1>10. Whose'
  BY <1>1, <1>2, <1>4, <1>5 DEF Whose, Heard
<1> QED
  BY <1>6, <1>7, <1>8, <1>9, <1>10 DEF StartInv

\* A token that only the process knew is counted as unsaid from now on.
LEMMA EndKeeps ==
  ASSUME StartInv, NEW p \in Procs, End(p)
  PROVE  StartInv'
<1> USE StartAssumption
<1>1. Typed /\ Staged /\ Instances /\ Separate /\ Fresh /\ Places /\ Whose
  BY DEF StartInv
<1>2. /\ proc' = [proc EXCEPT ![p] = Down]
      /\ devices' = IF devices = p THEN None ELSE devices
      /\ lock' = IF lock = p THEN None ELSE lock
      /\ unsaid' = IF proc[p].step \in {"auto", "log"}
                   THEN unsaid \cup ({proc[p].auto} \ {NoToken}) ELSE unsaid
      /\ UNCHANGED <<file, made, published, starts, logged, client>>
  BY DEF End, Said
<1>3. /\ Down \in ProcRecord(made) /\ Down.step = "down" /\ Down.store = "none"
      /\ Down.rows = <<>>
  BY <1>1, DownTyped DEF Typed
<1>4. /\ proc' \in [Procs -> ProcRecord(made)]
      /\ proc'[p] = Down /\ \A q \in Procs \ {p} : proc'[q] = proc[q]
  BY <1>1, <1>2, <1>3, OneProc DEF Typed
<1>5. Typed' /\ Staged'
  BY <1>1, <1>2, <1>3, <1>4 DEF Typed, Staged
<1>6. Instances' /\ Fresh'
  BY <1>1, <1>2, <1>3, <1>4 DEF Instances, Fresh
<1>7. Separate'
  <2>1. /\ Distinct(<<>>) /\ Old(<<>>, published)
        /\ \A rows : Apart(rows, <<>>) /\ Apart(<<>>, rows)
    BY DEF Distinct, Old, Apart
  <2> QED
    BY <1>1, <1>2, <1>3, <1>4, <2>1 DEF Separate
<1>8. Places'
  BY <1>1, <1>2, <1>3, <1>4 DEF Places, ReadUpTo
<1>9. Whose'
  <2>1. Heard \subseteq Heard'
    BY <1>2 DEF Heard
  <2>2. \A q \in Procs :
          /\ proc'[q].step \in {"auto", "log"} => proc'[q].token \in Heard' \cup {proc'[q].auto}
          /\ proc'[q].step = "up" => proc'[q].token \in Heard'
    BY <1>1, <1>3, <1>4, <2>1 DEF Whose
  <2>3. \/ file.hash \in Heard' \cup {NoToken}
        \/ \E q \in Procs : /\ lock' = q /\ proc'[q].step \in {"auto", "log"}
                            /\ file.hash = proc'[q].auto
    <3>1. CASE file.hash \in Heard \cup {NoToken}
      BY <2>1, <3>1
    <3>2. CASE lock = p /\ proc[p].step \in {"auto", "log"} /\ file.hash = proc[p].auto
      BY <1>2, <3>2 DEF Heard
    <3>3. ASSUME NEW q \in Procs \ {p}, lock = q, proc[q].step \in {"auto", "log"},
                 file.hash = proc[q].auto
          PROVE  lock' = q /\ proc'[q].step \in {"auto", "log"} /\ file.hash = proc'[q].auto
      BY <1>2, <1>4, <3>3
    <3> QED
      BY <1>1, <3>1, <3>2, <3>3 DEF Whose
  <2> QED
    BY <1>2, <2>2, <2>3 DEF Whose
<1> QED
  BY <1>5, <1>6, <1>7, <1>8, <1>9 DEF StartInv

LEMMA RemoveFileKeeps ==
  ASSUME StartInv, RemoveFile
  PROVE  StartInv'
<1> USE StartAssumption
<1>1. Typed /\ Staged /\ Instances /\ Separate /\ Fresh /\ Places /\ Whose
  BY DEF StartInv
<1>2. /\ lock = None /\ file' = NewFile
      /\ UNCHANGED <<devices, lock, proc, made, published, starts, logged, unsaid, client>>
  BY DEF RemoveFile
<1>3. /\ NewFile \in FileRecord(made) /\ NewFile.instance = 0 /\ NewFile.hash = NoToken
      /\ NewFile.rows = <<>>
  <2>1. <<>> \in Seq(Nat) /\ 0 \in 0..made
    BY <1>1 DEF Typed
  <2> QED
    BY <2>1 DEF NewFile, FileRecord
<1>4. Typed' /\ Staged' /\ Fresh'
  BY <1>1, <1>2, <1>3 DEF Typed, Staged, Fresh
<1>5. Instances'
  BY <1>1, <1>2, <1>3 DEF Instances
<1>6. Separate'
  BY <1>1, <1>2, <1>3 DEF Separate, Distinct, Apart, Old
<1>7. Places'
  BY <1>1, <1>2, <1>3 DEF Places, ReadUpTo
<1>8. Whose'
  BY <1>1, <1>2, <1>3 DEF Whose, Heard
<1> QED
  BY <1>4, <1>5, <1>6, <1>7, <1>8 DEF StartInv

\* A history that gets a new message, and what others it can meet.
LEMMA Longer ==
  ASSUME NEW rows \in Seq(Nat), NEW n \in Nat, Old(rows, n), Distinct(rows)
  PROVE  /\ Append(rows, n + 1) \in Seq(Nat) /\ Len(Append(rows, n + 1)) = Len(rows) + 1
         /\ Len(rows) \in Nat
         /\ \A j \in 1..Len(rows) : Append(rows, n + 1)[j] = rows[j] /\ rows[j] \in 1..n
         /\ Append(rows, n + 1)[Len(rows) + 1] = n + 1
         /\ Old(Append(rows, n + 1), n + 1) /\ Distinct(Append(rows, n + 1))
         /\ \A others \in Seq(Nat) : Old(others, n) /\ Apart(rows, others)
              => Apart(Append(rows, n + 1), others)
<1> DEFINE more == Append(rows, n + 1)
<1>1. /\ more \in Seq(Nat) /\ Len(more) = Len(rows) + 1 /\ Len(rows) \in Nat
      /\ \A j \in 1..Len(rows) : more[j] = rows[j] /\ rows[j] \in 1..n
      /\ more[Len(rows) + 1] = n + 1
  BY DEF Old
<1> HIDE DEF more
<1>2. ASSUME NEW j \in 1..Len(more)
      PROVE  \/ j \in 1..Len(rows) /\ more[j] = rows[j] /\ more[j] \in 1..n
             \/ j = Len(rows) + 1 /\ more[j] = n + 1
  <2>1. CASE j \in 1..Len(rows)
    BY <1>1, <2>1
  <2>2. CASE j = Len(rows) + 1
    BY <1>1, <2>2
  <2> QED
    BY <1>1, <2>1, <2>2
<1>3. ASSUME NEW j \in 1..Len(more)
      PROVE  more[j] \in 1..(n + 1)
  BY <1>2
<1>4. ASSUME NEW j \in 1..Len(more), NEW k \in 1..Len(more), more[j] = more[k]
      PROVE  j = k
  <2>1. CASE j \in 1..Len(rows) /\ k \in 1..Len(rows)
    <3>1. rows[j] = rows[k]
      BY <1>1, <1>4, <2>1
    <3> QED
      BY <2>1, <3>1 DEF Distinct
  <2>2. CASE j = Len(rows) + 1 /\ k = Len(rows) + 1
    BY <2>2
  <2>3. CASE j # Len(rows) + 1 /\ k = Len(rows) + 1
    BY <1>2, <1>4, <2>3
  <2>4. CASE j = Len(rows) + 1 /\ k # Len(rows) + 1
    BY <1>2, <1>4, <2>4
  <2> QED
    BY <1>2, <2>1, <2>2, <2>3, <2>4
<1>5. ASSUME NEW others \in Seq(Nat), Old(others, n), Apart(rows, others),
             NEW j \in 1..Len(more), NEW k \in 1..Len(others)
      PROVE  more[j] # others[k]
  <2>1. others[k] \in 1..n
    BY <1>5 DEF Old
  <2>2. CASE j \in 1..Len(rows)
    BY <1>1, <1>5, <2>2 DEF Apart
  <2>3. CASE more[j] = n + 1
    BY <2>1, <2>3
  <2> QED
    BY <1>2, <2>2, <2>3
<1>6. Old(more, n + 1) /\ Distinct(more)
  BY <1>3, <1>4 DEF Old, Distinct
<1>7. \A others \in Seq(Nat) : Old(others, n) /\ Apart(rows, others) => Apart(more, others)
  BY <1>5 DEF Apart
<1> QED
  BY <1>1, <1>6, <1>7 DEF more

\* Separate of the next state, without primes inside its operators.
LEMMA SeparateNext ==
  ASSUME NEW n, published' = n, NEW fileRows, file'.rows = fileRows,
         Distinct(fileRows), Old(fileRows, n),
         NEW rows, \A q \in Procs : proc'[q].rows = rows[q],
         \A q \in Procs : /\ Distinct(rows[q]) /\ Old(rows[q], n)
                          /\ Apart(fileRows, rows[q])
                          /\ proc'[q].store # "memory" => rows[q] = <<>>,
         \A q, r \in Procs : q # r => Apart(rows[q], rows[r])
  PROVE  Separate'
<1>1. Distinct(file.rows)' /\ Old(file.rows, published)'
  BY DEF Distinct, Old
<1>2. ASSUME NEW q \in Procs
      PROVE  /\ Distinct(proc[q].rows)' /\ Old(proc[q].rows, published)'
             /\ (proc[q].store # "memory" => proc[q].rows = <<>>)'
  BY DEF Distinct, Old
<1>3. ASSUME NEW q \in Procs
      PROVE  Apart(file.rows, proc[q].rows)'
  BY DEF Apart
<1>4. ASSUME NEW q \in Procs, NEW r \in Procs, q # r
      PROVE  Apart(proc[q].rows, proc[r].rows)'
  BY <1>4 DEF Apart
<1> QED
  BY <1>1, <1>2, <1>3, <1>4 DEF Separate

LEMMA OldStays ==
  ASSUME NEW rows \in Seq(Nat), NEW n \in Nat, Old(rows, n)
  PROVE  Old(rows, n + 1)
BY DEF Old

LEMMA ApartSymmetric ==
  ASSUME NEW rows, NEW others, Apart(rows, others)
  PROVE  Apart(others, rows)
BY DEF Apart

\* A message that was not yet published is unread, wherever it comes to stand.
LEMMA ReadLonger ==
  ASSUME Typed, Fresh, NEW n \in Nat, NEW rows \in Seq(Nat), ReadUpTo(n, rows),
         Old(rows, published), Distinct(rows), published < MaxMessages
  PROVE  ReadUpTo(n, Append(rows, published + 1))
<1>1. published \in Nat /\ published + 1 \in Messages
  BY StartAssumption DEF Typed, Messages
<1>2. client.times[published + 1] = 0
  BY <1>1 DEF Fresh
<1> DEFINE more == Append(rows, published + 1)
<1>3. /\ Len(more) = Len(rows) + 1 /\ Len(rows) \in Nat
      /\ \A j \in 1..Len(rows) : more[j] = rows[j]
      /\ more[Len(rows) + 1] = published + 1
  BY <1>1, Longer
<1> HIDE DEF more
<1>4. ASSUME NEW j \in 1..Len(more)
      PROVE  client.times[more[j]] = IF j <= n THEN 1 ELSE 0
  <2>1. CASE j \in 1..Len(rows)
    BY <1>3, <2>1 DEF ReadUpTo
  <2>2. CASE j \notin 1..Len(rows)
    BY <1>2, <1>3, <2>2 DEF ReadUpTo
  <2> QED
    BY <2>1, <2>2
<1> QED
  BY <1>3, <1>4 DEF ReadUpTo, more

LEMMA PublishKeeps ==
  ASSUME StartInv, NEW p \in Procs, Publish(p)
  PROVE  StartInv'
<1> USE StartAssumption
<1>1. Typed /\ Staged /\ Instances /\ Separate /\ Fresh /\ Places /\ Whose
  BY DEF StartInv
<1> DEFINE n == published
<1>2. /\ proc[p].step = "up" /\ n < MaxMessages /\ published' = n + 1
      /\ UNCHANGED <<devices, lock, made, starts, logged, unsaid, client>>
      /\ n \in Nat /\ made \in Nat /\ n + 1 \in 0..MaxMessages
  BY <1>1 DEF Publish, Typed
<1>3. /\ file.rows \in Seq(Nat) /\ \A q \in Procs : proc[q].rows \in Seq(Nat)
      /\ file \in FileRecord(made) /\ \A q \in Procs : proc[q] \in ProcRecord(made)
      /\ client.cursor \in [Ids -> Nat]
  BY <1>1 DEF Typed, FileRecord, ProcRecord
<1>4. Fresh'
  BY <1>1, <1>2 DEF Fresh, Messages
<1>5. CASE proc[p].store = "file"
  <2>1. proc' = proc /\ file' = [file EXCEPT !.rows = Append(@, n + 1)]
    BY <1>2, <1>5 DEF Publish
  <2>2. Append(file.rows, n + 1) \in Seq(Nat)
    BY <1>2, <1>3
  <2>3. /\ file' \in FileRecord(made) /\ file'.rows = Append(file.rows, n + 1)
        /\ file'.instance = file.instance /\ file'.hash = file.hash
    BY <1>3, <2>1, <2>2 DEF FileRecord
  <2>4. Typed' /\ Staged' /\ Instances' /\ Whose'
    BY <1>1, <1>2, <2>1, <2>3 DEF Typed, Staged, Instances, Whose, Heard
  <2>5. Separate'
    <3>1. Old(file.rows, n) /\ Distinct(file.rows)
          /\ \A q \in Procs : Old(proc[q].rows, n) /\ Apart(file.rows, proc[q].rows)
      BY <1>1 DEF Separate
    <3>2. /\ Old(file'.rows, n + 1) /\ Distinct(file'.rows)
          /\ \A q \in Procs : Apart(file'.rows, proc[q].rows) /\ Old(proc[q].rows, n + 1)
      BY <1>2, <1>3, <2>3, <3>1, Longer, OldStays
    <3> DEFINE rows == [q \in Procs |-> proc[q].rows]
    <3>3. \A q \in Procs :
            /\ proc'[q].rows = rows[q] /\ Distinct(rows[q]) /\ Old(rows[q], n + 1)
            /\ Apart(file'.rows, rows[q]) /\ (proc'[q].store # "memory" => rows[q] = <<>>)
      BY <1>1, <2>1, <3>2 DEF Separate
    <3>4. \A q, r \in Procs : q # r => Apart(rows[q], rows[r])
      BY <1>1 DEF Separate
    <3> HIDE DEF rows
    <3> QED
      BY <1>2, <3>2, <3>3, <3>4, SeparateNext
  <2>6. Places'
    <3>1. file.instance \in Ids
      BY <1>1, <1>2, <1>3, <1>5 DEF Instances, FileRecord, Ids, Typed
    <3>2. ReadUpTo(client.cursor[file.instance], Append(file.rows, n + 1))
      BY <1>1, <1>2, <1>3, <3>1, ReadLonger DEF Places, Separate, Ids
    <3>3. file'.instance > 0 /\ ReadUpTo(client.cursor[file.instance], file.rows)'
      BY <1>2, <2>3, <3>1, <3>2 DEF ReadUpTo, Ids
    <3>4. \A q \in Procs : proc[q].store = "memory" /\ proc[q].step # "closed"
            => ReadUpTo(client.cursor[proc[q].instance], proc[q].rows)'
      BY <1>1, <1>2, <2>1 DEF Places, ReadUpTo
    <3>5. file'.instance # 0
      BY <3>3, <2>3, <3>1 DEF Ids
    <3> QED
      BY <2>1, <3>3, <3>4, <3>5 DEF Places
  <2> QED
    BY <1>4, <2>4, <2>5, <2>6 DEF StartInv
<1>6. CASE proc[p].store # "file"
  <2> DEFINE rec == [proc[p] EXCEPT !.rows = Append(@, n + 1)]
  <2>1. file' = file /\ proc' = [proc EXCEPT ![p] = rec]
    BY <1>6 DEF Publish
  <2>2. Append(proc[p].rows, n + 1) \in Seq(Nat)
    BY <1>2, <1>3
  <2>3. /\ rec \in ProcRecord(made) /\ rec.rows = Append(proc[p].rows, n + 1)
        /\ rec.step = "up" /\ rec.store = proc[p].store /\ rec.instance = proc[p].instance
        /\ rec.token = proc[p].token
    BY <1>2, <1>3, <2>2 DEF ProcRecord
  <2> HIDE DEF rec
  <2>4. /\ proc' \in [Procs -> ProcRecord(made)]
        /\ proc'[p] = rec /\ \A q \in Procs \ {p} : proc'[q] = proc[q]
    BY <1>1, <1>2, <2>1, <2>3, OneProc DEF Typed
  <2>5. proc[p].store = "memory"
    BY <1>1, <1>2, <1>3, <1>6 DEF Staged, ProcRecord, Stores
  <2>6. Typed' /\ Staged' /\ Instances' /\ Whose'
    BY <1>1, <1>2, <2>1, <2>3, <2>4 DEF Typed, Staged, Instances, Whose, Heard
  <2>7. Separate'
    <3>1. /\ Old(file.rows, n) /\ Distinct(file.rows)
          /\ \A q \in Procs : /\ Old(proc[q].rows, n) /\ Distinct(proc[q].rows)
                              /\ Apart(file.rows, proc[q].rows)
                              /\ proc[q].store # "memory" => proc[q].rows = <<>>
          /\ \A q, r \in Procs : q # r => Apart(proc[q].rows, proc[r].rows)
      BY <1>1 DEF Separate
    <3>2. /\ Old(rec.rows, n + 1) /\ Distinct(rec.rows)
          /\ Old(file.rows, n + 1) /\ \A q \in Procs : Old(proc[q].rows, n + 1)
      BY <1>2, <1>3, <2>3, <3>1, Longer, OldStays
    <3>3. Apart(rec.rows, file.rows)
      BY <1>2, <1>3, <2>3, <3>1, Longer, ApartSymmetric
    <3>4. \A q \in Procs \ {p} : Apart(rec.rows, proc[q].rows)
      BY <1>2, <1>3, <2>3, <3>1, Longer
    <3>5. \A q \in Procs :
            /\ Distinct(proc'[q].rows) /\ Old(proc'[q].rows, n + 1)
            /\ Apart(file.rows, proc'[q].rows)
            /\ proc'[q].store # "memory" => proc'[q].rows = <<>>
      BY <2>3, <2>4, <2>5, <3>1, <3>2, <3>3, ApartSymmetric
    <3>6. \A q, r \in Procs : q # r => Apart(proc'[q].rows, proc'[r].rows)
      BY <2>4, <3>1, <3>4, ApartSymmetric
    <3> DEFINE rows == [q \in Procs |-> proc'[q].rows]
    <3>9. \A q \in Procs : proc'[q].rows = rows[q]
      OBVIOUS
    <3>7. \A q \in Procs :
            /\ proc'[q].rows = rows[q] /\ Distinct(rows[q]) /\ Old(rows[q], n + 1)
            /\ Apart(file.rows, rows[q]) /\ (proc'[q].store # "memory" => rows[q] = <<>>)
      BY <3>5, <3>9
    <3>8. \A q, r \in Procs : q # r => Apart(rows[q], rows[r])
      BY <3>6
    <3> HIDE DEF rows
    <3> QED
      BY <1>2, <2>1, <3>1, <3>2, <3>7, <3>8, SeparateNext
  <2>8. Places'
    <3>1. proc[p].instance \in Ids
      BY <1>1, <1>2, <1>3, <2>5 DEF Instances, ProcRecord, Ids, Typed
    <3>2. ReadUpTo(client.cursor[proc[p].instance], rec.rows)
      BY <1>1, <1>2, <1>3, <2>3, <2>5, <3>1, ReadLonger DEF Places, Separate
    <3> QED
      BY <1>1, <1>2, <2>1, <2>3, <2>4, <3>2 DEF Places, ReadUpTo
  <2> QED
    BY <1>4, <2>6, <2>7, <2>8 DEF StartInv
<1> QED
  BY <1>5, <1>6

\* The client reads the next message of one history; in no other does it stand.
LEMMA ReadKeeps ==
  ASSUME StartInv, NEW p \in Procs, Read(p)
  PROVE  StartInv'
<1> USE StartAssumption
<1>1. Typed /\ Staged /\ Instances /\ Separate /\ Fresh /\ Places /\ Whose
  BY DEF StartInv
<1> DEFINE i == proc[p].instance
           rows == Rows(p)
           n == client.cursor[i]
           m == rows[n + 1]
<1>2. /\ proc[p].step = "up" /\ n < Len(rows)
      /\ client' = [client EXCEPT !.cursor[i] = @ + 1, !.times[m] = @ + 1]
      /\ UNCHANGED <<devices, lock, file, proc, made, published, starts, logged, unsaid>>
  BY DEF Read, fileVars
<1>3. /\ file \in FileRecord(made) /\ \A q \in Procs : proc[q] \in ProcRecord(made)
      /\ client.cursor \in [Ids -> Nat] /\ client.times \in [Messages -> 0..1]
      /\ made \in 0..MaxMade /\ published \in 0..MaxMessages
      /\ client \in [cursor : [Ids -> Nat], times : [Messages -> 0..1]]
  BY <1>1 DEF Typed
<1>4. proc[p].store \in {"file", "memory"}
  BY <1>1, <1>2, <1>3 DEF Staged, ProcRecord, Stores
<1>5. /\ rows \in Seq(Nat) /\ ReadUpTo(n, rows) /\ Distinct(rows) /\ Old(rows, published)
      /\ i \in 1..made
  <2>1. CASE proc[p].store = "file"
    BY <1>1, <1>3, <2>1 DEF Rows, Instances, Separate, Places, FileRecord
  <2>2. CASE proc[p].store = "memory"
    <3>1. rows = proc[p].rows /\ rows \in Seq(Nat)
      BY <1>3, <2>2 DEF Rows, ProcRecord
    <3>2. ReadUpTo(n, proc[p].rows)
      BY <1>1, <1>2, <2>2 DEF Places
    <3>3. Distinct(proc[p].rows) /\ Old(proc[p].rows, published)
      BY <1>1 DEF Separate
    <3>4. i \in 0..made /\ i > 0
      BY <1>1, <1>3, <2>2 DEF Instances, ProcRecord
    <3>5. i \in 1..made
      BY <1>3, <3>4
    <3> HIDE DEF i, n
    <3> QED
      BY <3>1, <3>2, <3>3, <3>5
  <2> QED
    BY <1>4, <2>1, <2>2
<1>6. i \in Ids /\ n \in Nat /\ n + 1 \in 1..Len(rows) /\ m \in 1..published /\ m \in Messages
  <2>1. i \in Ids /\ n \in Nat
    BY <1>3, <1>5 DEF Ids
  <2>2. Len(rows) \in Nat
    BY <1>5
  <2>3. n + 1 \in 1..Len(rows)
    BY <1>2, <2>1, <2>2
  <2>4. m \in 1..published
    BY <1>5, <2>3 DEF Old
  <2> QED
    BY <1>3, <2>1, <2>3, <2>4 DEF Messages
<1> HIDE DEF i, rows, n, m
<1>7. client.times[m] = 0
  BY <1>5, <1>6 DEF ReadUpTo, m
<1>8. /\ client'.cursor = [client.cursor EXCEPT ![i] = @ + 1]
      /\ client'.times = [client.times EXCEPT ![m] = @ + 1]
      /\ client' \in [cursor : [Ids -> Nat], times : [Messages -> 0..1]]
  <2>1. /\ client'.cursor = [client.cursor EXCEPT ![i] = @ + 1]
        /\ client'.times = [client.times EXCEPT ![m] = @ + 1]
        /\ client' = [cursor |-> client'.cursor, times |-> client'.times]
    BY <1>2, <1>3
  <2>2. client'.cursor \in [Ids -> Nat] /\ client'.times \in [Messages -> 0..1]
    BY <1>3, <1>6, <1>7, <2>1
  <2> QED
    BY <2>1, <2>2
<1>9. /\ client'.cursor[i] = n + 1 /\ client'.times[m] = 1
      /\ \A j \in Ids \ {i} : client'.cursor[j] = client.cursor[j]
      /\ \A o \in Messages \ {m} : client'.times[o] = client.times[o]
  <2>1. client'.times[m] = 1 /\ \A o \in Messages \ {m} : client'.times[o] = client.times[o]
    BY <1>3, <1>6, <1>7, <1>8
  <2>2. client'.cursor[i] = n + 1 /\ \A j \in Ids \ {i} : client'.cursor[j] = client.cursor[j]
    BY <1>3, <1>6, <1>8 DEF n
  <2> QED
    BY <2>1, <2>2
<1>10. Typed' /\ Staged' /\ Instances' /\ Separate' /\ Whose'
  BY <1>1, <1>2, <1>8
     DEF Typed, Staged, Instances, Separate, Distinct, Apart, Old, Whose, Heard
<1>11. Fresh'
  <2>1. \A j \in Ids : j > made => client'.cursor[j] = 0
    <3> SUFFICES ASSUME NEW j \in Ids, j > made PROVE client'.cursor[j] = 0
      OBVIOUS
    <3>1. j # i /\ client.cursor[j] = 0
      BY <1>1, <1>3, <1>5 DEF Fresh, Ids
    <3> QED
      BY <1>9, <3>1
  <2>2. \A o \in Messages : o > published => client'.times[o] = 0
    BY <1>1, <1>3, <1>6, <1>9 DEF Fresh, Messages
  <2> QED
    BY <1>2, <2>1, <2>2 DEF Fresh
<1>12. \A j \in 1..Len(rows) : client'.times[rows[j]] = IF j <= n + 1 THEN 1 ELSE 0
  <2> SUFFICES ASSUME NEW j \in 1..Len(rows)
               PROVE  client'.times[rows[j]] = IF j <= n + 1 THEN 1 ELSE 0
    OBVIOUS
  <2>1. rows[j] \in Messages /\ client.times[rows[j]] = IF j <= n THEN 1 ELSE 0
    BY <1>3, <1>5 DEF ReadUpTo, Old, Messages
  <2>2. CASE j = n + 1
    BY <1>6, <1>9, <2>2 DEF m
  <2>3. CASE j # n + 1
    <3>1. rows[j] # m
      BY <1>5, <1>6, <2>3 DEF Distinct, m
    <3>2. client'.times[rows[j]] = client.times[rows[j]]
      BY <1>9, <2>1, <3>1
    <3>3. j <= n + 1 <=> j <= n
      BY <1>6, <2>3
    <3> QED
      BY <2>1, <3>2, <3>3
  <2> QED
    BY <2>2, <2>3
<1>13. ASSUME NEW others \in Seq(Nat), Old(others, published), Apart(rows, others)
       PROVE  \A j \in 1..Len(others) : client'.times[others[j]] = client.times[others[j]]
  <2>1. \A j \in 1..Len(others) : others[j] \in Messages /\ others[j] # m
    BY <1>3, <1>6, <1>13 DEF Old, Apart, Messages, m
  <2> QED
    BY <1>9, <2>1
<1>14. Places'
  <2>1. CASE proc[p].store = "file"
    <3>1. i = file.instance /\ rows = file.rows /\ file.instance > 0
      BY <1>1, <2>1 DEF Instances, Rows, i, rows
    <3>2. ReadUpTo(client.cursor[file.instance], file.rows)'
      BY <1>2, <1>6, <1>9, <1>12, <3>1 DEF ReadUpTo
    <3>3. ASSUME NEW q \in Procs, proc[q].store = "memory", proc[q].step # "closed"
          PROVE  ReadUpTo(client.cursor[proc[q].instance], proc[q].rows)'
      <4>1. /\ proc[q].instance \in Ids \ {i}
            /\ ReadUpTo(client.cursor[proc[q].instance], proc[q].rows)
            /\ proc[q].rows \in Seq(Nat) /\ Old(proc[q].rows, published)
            /\ Apart(rows, proc[q].rows)
        BY <1>1, <1>3, <3>1, <3>3 DEF Instances, Places, Separate, ProcRecord, Ids
      <4> QED
        <5>1. client'.cursor[proc[q].instance] = client.cursor[proc[q].instance]
          BY <1>9, <4>1
        <5>2. \A j \in 1..Len(proc[q].rows) :
                client'.times[proc[q].rows[j]] = client.times[proc[q].rows[j]]
          BY <1>13, <4>1
        <5> QED
          BY <1>2, <4>1, <5>1, <5>2 DEF ReadUpTo
    <3> QED
      BY <1>2, <3>1, <3>2, <3>3 DEF Places
  <2>2. CASE proc[p].store = "memory"
    <3>1. rows = proc[p].rows /\ i = proc[p].instance /\ i # file.instance
      BY <1>1, <2>2 DEF Instances, Rows, i, rows
    <3>2. /\ file.rows \in Seq(Nat) /\ Old(file.rows, published) /\ Apart(rows, file.rows)
          /\ file.instance \in 0..made
      BY <1>1, <1>3, <3>1, ApartSymmetric DEF Separate, FileRecord
    <3>3. \A j \in 1..Len(file.rows) :
            client'.times[file.rows[j]] = client.times[file.rows[j]]
      BY <1>13, <3>2
    <3>4. (file.instance = 0 => ReadUpTo(0, file.rows))'
      BY <1>1, <1>2, <3>3 DEF Places, ReadUpTo
    <3>5. (file.instance > 0 => ReadUpTo(client.cursor[file.instance], file.rows))'
      <4> SUFFICES ASSUME file.instance > 0
                   PROVE  ReadUpTo(client.cursor[file.instance], file.rows)'
        BY <1>2
      <4>1. file.instance \in Ids \ {i} /\ ReadUpTo(client.cursor[file.instance], file.rows)
        BY <1>1, <1>3, <3>1, <3>2 DEF Places, Ids
      <4> QED
        BY <1>2, <1>9, <3>3, <4>1 DEF ReadUpTo
    <3>6. ReadUpTo(client.cursor[proc[p].instance], proc[p].rows)'
      BY <1>2, <1>6, <1>9, <1>12, <3>1 DEF ReadUpTo
    <3>7. ASSUME NEW q \in Procs \ {p}, proc[q].store = "memory", proc[q].step # "closed"
          PROVE  ReadUpTo(client.cursor[proc[q].instance], proc[q].rows)'
      <4>1. /\ proc[q].instance \in Ids \ {i}
            /\ ReadUpTo(client.cursor[proc[q].instance], proc[q].rows)
            /\ proc[q].rows \in Seq(Nat) /\ Old(proc[q].rows, published)
            /\ Apart(rows, proc[q].rows)
        BY <1>1, <1>3, <2>2, <3>1, <3>7 DEF Instances, Places, Separate, ProcRecord, Ids
      <4> QED
        <5>1. client'.cursor[proc[q].instance] = client.cursor[proc[q].instance]
          BY <1>9, <4>1
        <5>2. \A j \in 1..Len(proc[q].rows) :
                client'.times[proc[q].rows[j]] = client.times[proc[q].rows[j]]
          BY <1>13, <4>1
        <5> QED
          BY <1>2, <4>1, <5>1, <5>2 DEF ReadUpTo
    <3> QED
      BY <1>2, <3>4, <3>5, <3>6, <3>7 DEF Places
  <2> QED
    BY <1>4, <2>1, <2>2
<1> QED
  BY <1>10, <1>11, <1>14 DEF StartInv

LEMMA StartStep == StartInv /\ [Next]_vars => StartInv'
<1> SUFFICES ASSUME StartInv, [Next]_vars PROVE StartInv'
  OBVIOUS
<1>1. ASSUME NEW p \in Procs, Starting(p) PROVE StartInv'
  BY <1>1, OpenDevicesKeeps, OpenFileKeeps, FallBackKeeps, OperatorTokenKeeps,
     GeneratedTokenKeeps, PersistedTokenKeeps, SetAutoTokenKeeps, AnnounceKeeps DEF Starting
<1>2. ASSUME NEW p \in Procs,
             Start(p) \/ Publish(p) \/ Read(p) \/ Shutdown(p) \/ End(p)
      PROVE  StartInv'
  BY <1>2, StartKeeps, PublishKeeps, ReadKeeps, ShutdownKeeps, EndKeeps
<1>3. CASE UNCHANGED vars
  <2>1. UNCHANGED <<devices, lock, file, proc, made, published, starts, logged, unsaid, client>>
    BY <1>3 DEF vars, fileVars
  <2>2. Typed' /\ Staged' /\ Instances' /\ Fresh' /\ Whose'
    BY <2>1 DEF StartInv, Typed, Staged, Instances, Fresh, Whose, Heard
  <2>3. Separate'
    BY <2>1, SameRows DEF StartInv, Separate
  <2>4. Places'
    BY <2>1 DEF StartInv, Places, ReadUpTo
  <2> QED
    BY <2>2, <2>3, <2>4 DEF StartInv
<1> QED
  BY <1>1, <1>2, <1>3, RemoveFileKeeps DEF Next

\* The invariant the properties of a start follow from: what is where, how far the
\* client has read it, and who knows which token (main.go, service.go, token.go).
THEOREM StartSafe == Spec => []StartInv
<1>1. Init => StartInv
  BY StartStarts
<1>2. StartInv /\ [Next]_vars => StartInv'
  BY StartStep
<1> QED
  BY <1>1, <1>2, PTL DEF Spec

LEMMA TypedIsTypeOK == StartInv => StartTypeOK
<1> SUFFICES ASSUME StartInv PROVE StartTypeOK
  OBVIOUS
<1> USE StartAssumption
<1>1. Typed /\ Staged /\ Instances
  BY DEF StartInv
<1>2. file \in FileRecord(made) /\ client.cursor \in [Ids -> Nat]
  BY <1>1 DEF Typed
<1>3. ASSUME NEW p \in Procs
      PROVE  /\ proc[p] \in ProcRecord(made) /\ made \in Nat
  BY <1>1 DEF Typed
<1>4. ASSUME NEW p \in Procs
      PROVE  /\ proc[p].step \in Steps
             /\ proc[p].store \in {"none", "file", "memory"}
             /\ {proc[p].token, proc[p].auto} \subseteq Tokens \cup {NoToken}
             /\ proc[p].store = "file" <=> lock = p
             /\ proc[p].store = "file" => proc[p].instance = file.instance
             /\ proc[p].step = "up" =>
                  /\ proc[p].store # "none" /\ proc[p].instance > 0
                  /\ proc[p].token # NoToken
  <2>1. /\ proc[p].step \in Steps /\ proc[p].store \in {"none", "file", "memory"}
        /\ {proc[p].token, proc[p].auto} \subseteq Tokens \cup {NoToken}
    BY <1>3 DEF ProcRecord, Stores
  <2>2. /\ proc[p].store = "file" <=> lock = p
        /\ proc[p].store = "file" => proc[p].instance = file.instance
    BY <1>1 DEF Instances
  <2>3. ASSUME proc[p].step = "up"
        PROVE  /\ proc[p].store # "none" /\ proc[p].instance > 0
               /\ proc[p].token # NoToken
    BY <1>1, <2>1, <2>3 DEF Instances, Staged
  <2> QED
    BY <2>1, <2>2, <2>3
<1> QED
  BY <1>1, <1>2, <1>4 DEF StartTypeOK, Typed, FileRecord

\* Types, and that one process has the file, which names the instance it serves
\* (openBboltStore; loadOrCreateInstanceID).
THEOREM StartTyped == Spec => []StartTypeOK
BY StartSafe, TypedIsTypeOK, PTL

LEMMA PlacesReadOnce == StartInv => ReadOnce
<1> SUFFICES ASSUME StartInv PROVE ReadOnce
  OBVIOUS
<1> USE StartAssumption
<1>1. Typed /\ Staged /\ Instances /\ Separate /\ Places
  BY DEF StartInv
<1>2. \A m \in Messages : client.times[m] <= 1
  BY <1>1 DEF Typed
<1>3. ASSUME NEW p \in Procs, proc[p].step = "up"
      PROVE  /\ client.cursor[proc[p].instance] <= Len(Rows(p))
             /\ \A i \in 1..client.cursor[proc[p].instance] : client.times[Rows(p)[i]] = 1
  <2>1. proc[p] \in ProcRecord(made) /\ file \in FileRecord(made)
        /\ client.cursor \in [Ids -> Nat] /\ made \in 0..MaxMade
    BY <1>1 DEF Typed
  <2>2. proc[p].store \in {"file", "memory"} /\ proc[p].instance \in Ids
    <3>1. proc[p].store \in Stores /\ proc[p].instance \in 0..made
      BY <2>1 DEF ProcRecord
    <3>2. proc[p].store # "none"
      BY <1>1, <1>3 DEF Staged
    <3>3. proc[p].store \in {"file", "memory"}
      BY <3>1, <3>2 DEF Stores
    <3> QED
      BY <1>1, <2>1, <3>1, <3>3 DEF Instances, Ids
  <2>3. /\ ReadUpTo(client.cursor[proc[p].instance], Rows(p))
        /\ Rows(p) \in Seq(Nat)
    <3>1. CASE proc[p].store = "file"
      BY <1>1, <2>1, <3>1 DEF Rows, Instances, Places, FileRecord
    <3>2. CASE proc[p].store = "memory"
      BY <1>1, <1>3, <2>1, <3>2 DEF Rows, Places, ProcRecord
    <3> QED
      BY <2>2, <3>1, <3>2
  <2>4. client.cursor[proc[p].instance] \in Nat /\ Len(Rows(p)) \in Nat
    BY <2>1, <2>2, <2>3
  <2> QED
    BY <2>3, <2>4 DEF ReadUpTo
<1> QED
  BY <1>2, <1>3 DEF ReadOnce

\* Whatever stops, falls back to memory or loses its file: a client that keeps its
\* place by instance id and message id has read all up to there exactly once.
THEOREM StartReadsOnce == Spec => []ReadOnce
BY StartSafe, PlacesReadOnce, PTL

\* Who writes the hash: an operator's token replaces it, a token made here only takes
\* a place that was empty.
LEMMA HashLasts ==
  ASSUME StartInv, [Next]_vars, file.hash # NoToken
  PROVE  file'.hash \in {file.hash} \cup Operators \/ file' = NewFile
<1>1. Typed /\ Instances
  BY DEF StartInv
<1>2. /\ file \in FileRecord(made)
      /\ \A p \in Procs : proc[p].operator \in Operators \cup {NoToken}
  BY <1>1 DEF Typed, ProcRecord
<1>3. ASSUME NEW p \in Procs, OpenFile(p) PROVE file'.hash = file.hash
  BY <1>2, <1>3 DEF OpenFile, FileRecord
<1>4. ASSUME NEW p \in Procs, OperatorToken(p) PROVE file'.hash \in {file.hash} \cup Operators
  BY <1>2, <1>4 DEF OperatorToken, SetTokenHash, FileRecord
<1>5. ASSUME NEW p \in Procs, GeneratedToken(p) PROVE file' = file
  BY <1>5 DEF GeneratedToken, SetTokenHash, Stored, Writes
<1>6. ASSUME NEW p \in Procs, SetAutoToken(p) PROVE file'.hash = file.hash
  BY <1>2, <1>6 DEF SetAutoToken, FileRecord
<1>7. ASSUME NEW p \in Procs, Publish(p) PROVE file'.hash = file.hash
  BY <1>2, <1>7 DEF Publish, FileRecord
<1>8. ASSUME NEW p \in Procs,
             \/ Start(p) \/ OpenDevices(p) \/ FallBack(p) \/ PersistedToken(p)
             \/ Announce(p) \/ Read(p) \/ Shutdown(p) \/ End(p)
      PROVE  file' = file
  BY <1>8 DEF Start, OpenDevices, FallBack, PersistedToken, Announce, Read, Shutdown, End,
     fileVars
<1>9. CASE RemoveFile
  BY <1>9 DEF RemoveFile
<1>10. CASE UNCHANGED vars
  BY <1>10 DEF vars, fileVars
<1> QED
  BY <1>3, <1>4, <1>5, <1>6, <1>7, <1>8, <1>9, <1>10 DEF Next, Starting

\* A token in service is known to somebody, and one in the file goes only for an
\* operator's or with the file (token.go:15-20, service.go:108-142).
THEOREM StartTokenLasts == Spec => TokenLasts
<1>1. StartInv /\ StartInv' /\ [Next]_vars
        => [/\ TokenKnown'
            /\ file.hash # NoToken =>
                 file'.hash \in {file.hash} \cup Operators \/ file' = NewFile]_vars
  <2> SUFFICES ASSUME StartInv, StartInv', [Next]_vars
               PROVE  /\ TokenKnown'
                      /\ file.hash # NoToken =>
                           file'.hash \in {file.hash} \cup Operators \/ file' = NewFile
    OBVIOUS
  <2>1. TokenKnown'
    BY DEF StartInv, Whose, Heard, TokenKnown
  <2> QED
    BY <2>1, HashLasts
<1>2. Spec => [][Next]_vars
  BY PTL DEF Spec
<1> QED
  BY <1>1, <1>2, StartSafe, PTL DEF TokenLasts
=============================================================================
