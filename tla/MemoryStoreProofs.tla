--------------------------- MODULE MemoryStoreProofs ---------------------------
(***************************************************************************)
(* Proofs that the history in memory keeps its slices and maps together,   *)
(* that each of its steps is a step of the bbolt store, that it answers    *)
(* every read as the bbolt store does, and that its exports are sound.     *)
(***************************************************************************)
EXTENDS MemoryStore, SequenceTheorems, FiniteSetTheorems, TLAPS

(***************************************************************************)
(* Numbers in ascending order.                                             *)
(***************************************************************************)
LEMMA OneUpTo ==
  ASSUME NEW n \in Nat
  PROVE  IsFiniteSet(1 .. n) /\ Cardinality(1 .. n) = n
BY FS_Interval

LEMMA CountingUp ==
  ASSUME NEW S \in SUBSET Nat, IsFiniteSet(S), NEW k \in S
  PROVE  /\ IsFiniteSet({j \in S : j <= k})
         /\ Cardinality({j \in S : j <= k}) \in 1 .. Cardinality(S)
         /\ \A i \in S : i < k =>
              Cardinality({j \in S : j <= i}) < Cardinality({j \in S : j <= k})
<1> DEFINE Upto(i) == {j \in S : j <= i}
<1>1. ASSUME NEW i \in S
      PROVE  IsFiniteSet(Upto(i)) /\ Cardinality(Upto(i)) \in 1 .. Cardinality(S)
  <2>1. IsFiniteSet(Upto(i)) /\ Cardinality(Upto(i)) <= Cardinality(S)
    BY FS_Subset, Upto(i) \in SUBSET S
  <2>2. Cardinality(Upto(i)) \in Nat /\ Cardinality(S) \in Nat
    BY <2>1, FS_CardinalityType
  <2>3. i \in Upto(i)
    OBVIOUS
  <2>4. Cardinality(Upto(i)) # 0
    BY <2>1, <2>3, FS_EmptySet
  <2> QED
    BY <2>1, <2>2, <2>4
<1>2. ASSUME NEW i \in S, i < k
      PROVE  Cardinality(Upto(i)) < Cardinality(Upto(k))
  <2>1. k \in Upto(k) /\ k \notin Upto(i) /\ Upto(i) \in SUBSET Upto(k)
    <3>1. ASSUME NEW j \in S, j <= i
          PROVE  j <= k
      BY <1>2, <3>1, i \in Nat, j \in Nat, k \in Nat
    <3>2. k <= k /\ ~ (k <= i)
      BY <1>2, i \in Nat, k \in Nat
    <3> QED
      BY <3>1, <3>2
  <2>2. Cardinality(Upto(i)) <= Cardinality(Upto(k)) /\ Cardinality(Upto(i)) # Cardinality(Upto(k))
    BY <1>1, <2>1, FS_Subset
  <2>3. Cardinality(Upto(i)) \in Nat /\ Cardinality(Upto(k)) \in Nat
    BY <1>1, FS_CardinalityType
  <2> QED
    BY <2>2, <2>3
<1> QED
  BY <1>1, <1>2

(***************************************************************************)
(* Sorted numbers the elements of a set from the least to the greatest.    *)
(***************************************************************************)
LEMMA SortedFacts ==
  ASSUME NEW S \in SUBSET Nat, IsFiniteSet(S)
  PROVE  /\ Cardinality(S) \in Nat /\ Len(Sorted(S)) = Cardinality(S)
         /\ Sorted(S) \in Seq(S) /\ DOMAIN Sorted(S) = 1 .. Cardinality(S)
         /\ Range(Sorted(S)) = S
         /\ Ascending(Sorted(S))
<1> DEFINE Upto(i) == {j \in S : j <= i}
           size    == Cardinality(S)
           rank    == [k \in S |-> Cardinality(Upto(k))]
<1>1. size \in Nat
  BY FS_CardinalityType
<1>2. rank \in Injection(S, 1 .. size)
  <2>1. rank \in [S -> 1 .. size]
    BY CountingUp
  <2>2. ASSUME NEW i \in S, NEW k \in S, rank[i] = rank[k]
        PROVE  i = k
    <3>1. ~ (i < k) /\ ~ (k < i)
      BY <2>1, <2>2, CountingUp
    <3> QED
      BY <3>1
  <2> QED
    BY <2>1, <2>2 DEF Injection, IsInjective
<1>3. rank \in Surjection(S, 1 .. size)
  <2>1. IsFiniteSet(1 .. size) /\ Cardinality(1 .. size) = size
    BY <1>1, FS_Interval
  <2> QED
    BY <1>2, <2>1, FS_Injection
<1>4. ASSUME NEW n \in 1 .. size
      PROVE  Sorted(S)[n] \in S /\ Cardinality(Upto(Sorted(S)[n])) = n
  <2>1. \E k \in S : Cardinality(Upto(k)) = n
    BY <1>3 DEF Surjection
  <2> QED
    BY <2>1 DEF Sorted
<1>5. Sorted(S) \in Seq(S) /\ DOMAIN Sorted(S) = 1 .. size /\ Len(Sorted(S)) = size
  <2>1. Sorted(S) \in [1 .. size -> S]
    BY <1>4 DEF Sorted
  <2> QED
    BY <1>1, <2>1
<1>6. Range(Sorted(S)) = S
  <2>1. ASSUME NEW k \in S
        PROVE  k \in Range(Sorted(S))
    <3>1. Cardinality(Upto(k)) \in 1 .. size
      BY CountingUp
    <3>2. PICK n \in 1 .. size : n = rank[k]
      BY <3>1
    <3>3. Sorted(S)[n] \in S /\ rank[Sorted(S)[n]] = rank[k]
      BY <1>4, <3>2
    <3>4. Sorted(S)[n] = k
      BY <1>2, <3>3 DEF Injection, IsInjective
    <3> QED
      BY <1>5, <3>4 DEF Range
  <2> QED
    BY <1>4, <1>5, <2>1 DEF Range
<1>7. ASSUME NEW m \in 1 .. size, NEW n \in 1 .. size, m < n
      PROVE  Sorted(S)[m] < Sorted(S)[n]
  <2> DEFINE a == Sorted(S)[m]
             b == Sorted(S)[n]
  <2>1. a \in S /\ b \in S /\ Cardinality(Upto(a)) = m /\ Cardinality(Upto(b)) = n
    BY <1>4
  <2>2. a # b
    BY <1>7, <2>1
  <2>3. ~ (b < a)
    <3>1. b < a => Cardinality(Upto(b)) < Cardinality(Upto(a))
      BY <2>1, CountingUp
    <3> HIDE DEF a, b
    <3> QED
      BY <1>7, <2>1, <3>1
  <2>4. a \in Nat /\ b \in Nat
    BY <2>1
  <2> QED
    BY <2>2, <2>3, <2>4
<1> QED
  BY <1>1, <1>5, <1>6, <1>7 DEF Ascending

(***************************************************************************)
(* Numbers that ascend are determined by what they are: the nth is the one *)
(* with n at or below it.                                                  *)
(***************************************************************************)
LEMMA AscendingCounts ==
  ASSUME NEW s \in Seq(Nat), Ascending(s)
  PROVE  /\ IsFiniteSet(Range(s)) /\ Cardinality(Range(s)) = Len(s)
         /\ Range(s) \in SUBSET Nat
         /\ \A n \in DOMAIN s : Cardinality({j \in Range(s) : j <= s[n]}) = n
         /\ s = Sorted(Range(s))
<1> DEFINE S       == Range(s)
           Upto(i) == {j \in S : j <= i}
<1>1. Len(s) \in Nat /\ DOMAIN s = 1 .. Len(s) /\ \A n \in DOMAIN s : s[n] \in Nat
  OBVIOUS
<1>2. \A m, n \in DOMAIN s : s[m] <= s[n] <=> m <= n
  BY <1>1 DEF Ascending
<1>3. ASSUME NEW n \in DOMAIN s
      PROVE  IsFiniteSet(Upto(s[n])) /\ Cardinality(Upto(s[n])) = n
  <2> DEFINE part == [m \in 1 .. n |-> s[m]]
  <2>1. 1 .. n \in SUBSET DOMAIN s
    BY <1>1
  <2>2. Upto(s[n]) = {s[m] : m \in 1 .. n}
    BY <1>1, <1>2, <2>1 DEF Range
  <2>3. part \in Bijection(1 .. n, Upto(s[n]))
    <3>1. part \in [1 .. n -> Upto(s[n])] /\ \A t \in Upto(s[n]) : \E m \in 1 .. n : part[m] = t
      BY <2>2
    <3>2. \A l, m \in 1 .. n : part[l] = part[m] => l = m
      BY <1>1, <1>2, <2>1
    <3> QED
      BY <3>1, <3>2 DEF Bijection, Injection, Surjection, IsInjective
  <2>4. IsFiniteSet(1 .. n) /\ Cardinality(1 .. n) = n
    BY <1>1, FS_Interval
  <2> QED
    BY <2>3, <2>4, FS_Bijection DEF ExistsBijection
<1>4. IsFiniteSet(S) /\ Cardinality(S) = Len(s) /\ S \in SUBSET Nat
  <2>1. s \in Bijection(1 .. Len(s), S)
    <3>1. s \in [1 .. Len(s) -> S]
      BY <1>1 DEF Range
    <3>2. \A m, n \in 1 .. Len(s) : s[m] = s[n] => m = n
      BY <1>1, <1>2
    <3>3. \A t \in S : \E m \in 1 .. Len(s) : s[m] = t
      BY <1>1 DEF Range
    <3> QED
      BY <3>1, <3>2, <3>3 DEF Bijection, Injection, Surjection, IsInjective
  <2>2. IsFiniteSet(1 .. Len(s)) /\ Cardinality(1 .. Len(s)) = Len(s)
    BY <1>1, OneUpTo
  <2> QED
    BY <1>1, <2>1, <2>2, FS_Bijection DEF ExistsBijection, Range
<1>5. s = Sorted(S)
  <2>1. ASSUME NEW n \in DOMAIN s
        PROVE  s[n] = CHOOSE k \in S : Cardinality({j \in S : j <= k}) = n
    <3>1. s[n] \in S /\ Cardinality(Upto(s[n])) = n
      BY <1>3 DEF Range
    <3>2. ASSUME NEW k \in S, Cardinality(Upto(k)) = n
          PROVE  k = s[n]
      BY <1>3, <3>2 DEF Range
    <3> QED
      BY <3>1, <3>2
  <2>2. s = [n \in 1 .. Len(s) |-> s[n]]
    BY <1>1
  <2> QED
    BY <1>1, <1>4, <2>1, <2>2 DEF Sorted
<1> QED
  BY <1>3, <1>4, <1>5

LEMMA SameNumbers ==
  ASSUME NEW s \in Seq(Nat), NEW t \in Seq(Nat), Ascending(s), Ascending(t),
         Range(s) = Range(t)
  PROVE  s = t
BY AscendingCounts

(***************************************************************************)
(* Only takes the elements of a sequence that are wanted, in their order.  *)
(***************************************************************************)
LEMMA OnlyFacts ==
  ASSUME NEW T, NEW s \in Seq(T), NEW S
  PROVE  \E p \in Seq(DOMAIN s) :
           /\ Ascending(p) /\ Range(p) = {n \in DOMAIN s : s[n] \in S}
           /\ Only(s, S) = [n \in 1 .. Len(p) |-> s[p[n]]]
           /\ Only(s, S) \in Seq(T) /\ Len(Only(s, S)) = Len(p)
           /\ DOMAIN Only(s, S) = 1 .. Len(p)
           /\ Range(Only(s, S)) = Range(s) \cap S
<1> DEFINE places == {n \in DOMAIN s : s[n] \in S}
           p      == Sorted(places)
<1>1. Len(s) \in Nat /\ DOMAIN s = 1 .. Len(s) /\ \A n \in DOMAIN s : s[n] \in T
  OBVIOUS
<1>2. places \in SUBSET Nat /\ IsFiniteSet(places)
  <2>1. IsFiniteSet(DOMAIN s) /\ places \in SUBSET DOMAIN s
    BY <1>1, OneUpTo
  <2> QED
    BY <1>1, <2>1, FS_Subset
<1>3. /\ p \in Seq(places) /\ Ascending(p) /\ Range(p) = places
      /\ Len(p) \in Nat /\ DOMAIN p = 1 .. Len(p)
  BY <1>2, SortedFacts
<1> HIDE DEF p
<1>4. p \in Seq(DOMAIN s) /\ \A n \in 1 .. Len(p) : p[n] \in places
  <2>1. places \subseteq DOMAIN s
    OBVIOUS
  <2> QED
    BY <1>3, <2>1, SeqMonotonic
<1>5. Only(s, S) = [n \in 1 .. Len(p) |-> s[p[n]]]
  BY <1>3 DEF Only, p
<1>6. Only(s, S) \in Seq(T) /\ Len(Only(s, S)) = Len(p) /\ DOMAIN Only(s, S) = 1 .. Len(p)
  BY <1>1, <1>3, <1>4, <1>5
<1>7. Range(Only(s, S)) = Range(s) \cap S
  <2>1. ASSUME NEW e \in Range(s) \cap S
        PROVE  e \in Range(Only(s, S))
    <3>1. PICK n \in places : s[n] = e
      BY DEF Range
    <3>2. PICK i \in 1 .. Len(p) : p[i] = n
      BY <1>3 DEF Range
    <3> QED
      BY <1>5, <1>6, <3>1, <3>2 DEF Range
  <2>2. ASSUME NEW i \in 1 .. Len(p)
        PROVE  Only(s, S)[i] \in Range(s) \cap S
    BY <1>4, <1>5, <2>2 DEF Range
  <2> QED
    BY <1>6, <2>1, <2>2 DEF Range
<1> QED
  BY <1>3, <1>4, <1>5, <1>6, <1>7

\* Of a sequence of numbers that ascend, what is taken ascends.
LEMMA OnlyAscends ==
  ASSUME NEW s \in Seq(Nat), Ascending(s), NEW S
  PROVE  Only(s, S) \in Seq(Nat) /\ Ascending(Only(s, S)) /\ Range(Only(s, S)) = Range(s) \cap S
<1>1. PICK p \in Seq(DOMAIN s) :
        /\ Ascending(p)
        /\ Only(s, S) = [n \in 1 .. Len(p) |-> s[p[n]]]
        /\ Only(s, S) \in Seq(Nat)
        /\ DOMAIN Only(s, S) = 1 .. Len(p)
        /\ Range(Only(s, S)) = Range(s) \cap S
  BY OnlyFacts
<1>2. ASSUME NEW m \in 1 .. Len(p), NEW n \in 1 .. Len(p), m < n
      PROVE  Only(s, S)[m] < Only(s, S)[n]
  <2>1. p[m] \in DOMAIN s /\ p[n] \in DOMAIN s /\ p[m] < p[n]
    BY <1>1, <1>2 DEF Ascending
  <2> QED
    BY <1>1, <2>1 DEF Ascending
<1> QED
  BY <1>1, <1>2 DEF Ascending

(***************************************************************************)
(* The deletion log, and the log of the bbolt store that it stands for.    *)
(***************************************************************************)
Row == [cursor : Nat \ {0}, rec : Bbolt!Deletion]

LogTyped(lg) ==
  /\ lg \in [seq : Nat, rows : Seq(Row), keys : SUBSET (Devices \X Nat)]
  /\ \A m, n \in DOMAIN lg.rows : m < n => lg.rows[m].cursor < lg.rows[n].cursor
  /\ \A n \in DOMAIN lg.rows : lg.rows[n].cursor <= lg.seq

CursorsOf(lg) == {lg.rows[n].cursor : n \in DOMAIN lg.rows}
RecAt(lg, c)  == (CHOOSE row \in Range(lg.rows) : row.cursor = c).rec

Buckets(lg) ==
  [seq   |-> lg.seq,
   rows  |-> [c \in CursorsOf(lg) |-> RecAt(lg, c)],
   byDev |-> {<<RecAt(lg, c).device, c>> : c \in CursorsOf(lg)},
   byMsg |-> lg.keys]

LEMMA RecAtCursor ==
  ASSUME NEW lg, LogTyped(lg), NEW n \in DOMAIN lg.rows
  PROVE  /\ lg.rows[n] \in Row /\ n \in Nat
         /\ lg.rows[n].cursor \in Nat \ {0} /\ lg.rows[n].cursor <= lg.seq
         /\ lg.rows[n].rec \in Bbolt!Deletion
         /\ lg.rows[n].cursor \in CursorsOf(lg)
         /\ RecAt(lg, lg.rows[n].cursor) = lg.rows[n].rec
<1>1. lg.rows \in Seq(Row) /\ lg.rows[n] \in Row /\ n \in Nat
  BY DEF LogTyped
<1>2. ASSUME NEW row \in Range(lg.rows), row.cursor = lg.rows[n].cursor
      PROVE  row = lg.rows[n]
  <2>1. PICK m \in DOMAIN lg.rows : row = lg.rows[m]
    BY DEF Range
  <2>2. m \in Nat /\ lg.rows[m] \in Row
    BY <1>1
  <2>3. ~ (m < n) /\ ~ (n < m)
    BY <1>1, <1>2, <2>1, <2>2 DEF LogTyped, Row
  <2> QED
    BY <1>1, <2>1, <2>2, <2>3
<1>3. lg.rows[n] \in Range(lg.rows)
  BY DEF Range
<1>4. RecAt(lg, lg.rows[n].cursor) = lg.rows[n].rec
  BY <1>2, <1>3 DEF RecAt
<1> QED
  BY <1>1, <1>4 DEF LogTyped, CursorsOf, Row

\* What makes a log of buckets the one that lg stands for.
LEMMA BucketsAre ==
  ASSUME NEW lg, LogTyped(lg), NEW rows, NEW byDev,
         rows = [c \in CursorsOf(lg) |-> rows[c]],
         \A n \in DOMAIN lg.rows : rows[lg.rows[n].cursor] = lg.rows[n].rec,
         byDev = {<<rows[c].device, c>> : c \in CursorsOf(lg)}
  PROVE  Buckets(lg) = [seq |-> lg.seq, rows |-> rows, byDev |-> byDev, byMsg |-> lg.keys]
<1>1. ASSUME NEW c \in CursorsOf(lg)
      PROVE  RecAt(lg, c) = rows[c]
  <2>1. PICK n \in DOMAIN lg.rows : c = lg.rows[n].cursor
    BY DEF CursorsOf
  <2> QED
    BY <2>1, RecAtCursor
<1>2. [c \in CursorsOf(lg) |-> RecAt(lg, c)] = [c \in CursorsOf(lg) |-> rows[c]]
  BY <1>1
<1>3. {<<RecAt(lg, c).device, c>> : c \in CursorsOf(lg)} = byDev
  BY <1>1
<1> QED
  BY <1>2, <1>3 DEF Buckets

(***************************************************************************)
(* The rows that a call adds are those of its records that are not logged, *)
(* in their order, with the next cursors.                                  *)
(***************************************************************************)
LEMMA AddShape ==
  ASSUME NEW lg, LogTyped(lg), NEW recs \in Seq(Bbolt!Deletion)
  PROVE  LET new == AddDeletions(lg, recs)
         IN \E p \in Seq(DOMAIN recs) :
              /\ Ascending(p)
              /\ Range(p) = {n \in DOMAIN recs : ~ Logged(lg, recs[n])}
              /\ new.seq = lg.seq + Len(p) /\ Len(new.rows) = Len(lg.rows) + Len(p)
              /\ \A n \in 1 .. Len(lg.rows) : new.rows[n] = lg.rows[n]
              /\ \A i \in 1 .. Len(p) :
                   new.rows[Len(lg.rows) + i] = [cursor |-> lg.seq + i, rec |-> recs[p[i]]]
              /\ new.keys = lg.keys \cup
                   {Key(recs[n]) : n \in {m \in DOMAIN recs : recs[m].kind = "single"}}
              /\ new = [seq |-> new.seq, rows |-> new.rows, keys |-> new.keys]
              /\ LogTyped(new)
<1> DEFINE wanted == {rec \in Range(recs) : ~ Logged(lg, rec)}
           fresh  == Only(recs, wanted)
           added  == [n \in DOMAIN fresh |-> [cursor |-> lg.seq + n, rec |-> fresh[n]]]
           new    == AddDeletions(lg, recs)
<1>1. /\ Len(recs) \in Nat /\ DOMAIN recs = 1 .. Len(recs)
      /\ \A n \in DOMAIN recs : recs[n] \in Bbolt!Deletion
      /\ lg.seq \in Nat /\ lg.rows \in Seq(Row) /\ Len(lg.rows) \in Nat
      /\ DOMAIN lg.rows = 1 .. Len(lg.rows) /\ lg.keys \subseteq Devices \X Nat
  BY DEF LogTyped
<1> HIDE DEF wanted
<1>2. PICK p \in Seq(DOMAIN recs) :
        /\ Ascending(p) /\ Range(p) = {n \in DOMAIN recs : recs[n] \in wanted}
        /\ fresh = [n \in 1 .. Len(p) |-> recs[p[n]]]
        /\ fresh \in Seq(Bbolt!Deletion) /\ Len(fresh) = Len(p)
        /\ DOMAIN fresh = 1 .. Len(p)
        /\ Range(fresh) = Range(recs) \cap wanted
  BY OnlyFacts
<1> HIDE DEF fresh
<1>3. Range(p) = {n \in DOMAIN recs : ~ Logged(lg, recs[n])}
  BY <1>2 DEF Range, wanted
<1>4. Len(p) \in Nat /\ \A i \in 1 .. Len(p) : fresh[i] = recs[p[i]] /\ fresh[i] \in Bbolt!Deletion
  BY <1>2
<1>5. /\ added \in Seq(Row) /\ Len(added) = Len(p)
      /\ \A i \in 1 .. Len(p) : added[i] = [cursor |-> lg.seq + i, rec |-> recs[p[i]]]
  BY <1>1, <1>2, <1>4 DEF Row
<1>6. new = [seq  |-> lg.seq + Len(p), rows |-> lg.rows \o added,
             keys |-> lg.keys \cup {Key(rec) : rec \in {r \in Range(fresh) : r.kind = "single"}}]
  BY <1>2 DEF AddDeletions, fresh, wanted
<1> HIDE DEF new, added
<1>7. /\ new.rows \in Seq(Row) /\ Len(new.rows) = Len(lg.rows) + Len(p)
      /\ \A n \in 1 .. Len(lg.rows) : new.rows[n] = lg.rows[n]
      /\ \A i \in 1 .. Len(p) : new.rows[Len(lg.rows) + i] = added[i]
  <2> DEFINE both == lg.rows \o added
  <2>1. /\ both \in Seq(Row) /\ Len(both) = Len(lg.rows) + Len(added)
        /\ \A i \in 1 .. Len(lg.rows) + Len(added) :
             both[i] = IF i <= Len(lg.rows) THEN lg.rows[i] ELSE added[i - Len(lg.rows)]
    <3>1. lg.rows \in Seq(Row) /\ added \in Seq(Row)
      BY <1>1, <1>5
    <3> QED
      BY ONLY <3>1, ConcatProperties DEF both
  <2> HIDE DEF both
  <2>2. new.rows = both
    BY <1>6 DEF both
  <2>3. ASSUME NEW n \in 1 .. Len(lg.rows)
        PROVE  both[n] = lg.rows[n]
    <3> DEFINE a == Len(lg.rows)
    <3>1. a \in Nat /\ Len(added) \in Nat
      BY <1>1, <1>4, <1>5
    <3> HIDE DEF a
    <3>2. n \in 1 .. a + Len(added) /\ n <= a
      BY <3>1 DEF a
    <3> QED
      BY <2>1, <3>2 DEF a
  <2>4. ASSUME NEW i \in 1 .. Len(p)
        PROVE  both[Len(lg.rows) + i] = added[i]
    <3> DEFINE a == Len(lg.rows)
    <3>1. a \in Nat /\ Len(p) \in Nat /\ Len(added) = Len(p)
      BY <1>1, <1>4, <1>5
    <3> HIDE DEF a
    <3>2. a + i \in 1 .. a + Len(added) /\ ~ (a + i <= a) /\ (a + i) - a = i
      BY <3>1
    <3> QED
      BY <2>1, <3>2 DEF a
  <2> QED
    BY <1>5, <2>1, <2>2, <2>3, <2>4
<1>8. new.keys = lg.keys \cup {Key(recs[n]) : n \in {m \in DOMAIN recs : recs[m].kind = "single"}}
  <2> DEFINE keys == {Key(recs[n]) : n \in {m \in DOMAIN recs : recs[m].kind = "single"}}
  <2>1. ASSUME NEW rec \in Range(fresh), rec.kind = "single"
        PROVE  Key(rec) \in keys
    BY <1>2, <2>1 DEF Range
  <2>2. ASSUME NEW n \in DOMAIN recs, recs[n].kind = "single", Key(recs[n]) \notin lg.keys
        PROVE  recs[n] \in Range(fresh)
    <3>1. recs[n] \in Range(recs) /\ recs[n] \in wanted
      BY <2>2 DEF Range, Logged, wanted
    <3> QED
      BY <1>2, <3>1
  <2> QED
    BY <1>6, <2>1, <2>2
<1>9. LogTyped(new)
  <2>1. new.keys \subseteq Devices \X Nat
    <3>1. ASSUME NEW n \in DOMAIN recs
          PROVE  Key(recs[n]) \in Devices \X Nat
      BY <1>1 DEF Key, Bbolt!Deletion
    <3> QED
      BY <1>1, <1>8, <3>1
  <2>2. new \in [seq : Nat, rows : Seq(Row), keys : SUBSET (Devices \X Nat)]
    BY <1>1, <1>4, <1>6, <1>7, <2>1
  <2>3. ASSUME NEW n \in DOMAIN new.rows
        PROVE  \/ n \in DOMAIN lg.rows /\ new.rows[n] = lg.rows[n]
               \/ \E i \in 1 .. Len(p) : n = Len(lg.rows) + i /\ new.rows[n].cursor = lg.seq + i
    <3>1. n \in 1 .. Len(lg.rows) + Len(p)
      BY <1>7
    <3>2. CASE n <= Len(lg.rows)
      <4>1. n \in 1 .. Len(lg.rows) /\ DOMAIN lg.rows = 1 .. Len(lg.rows)
        BY <1>1, <3>1, <3>2
      <4> QED
        BY <1>7, <4>1
    <3>3. CASE n > Len(lg.rows)
      <4> DEFINE a == Len(lg.rows)
      <4>1. a \in Nat /\ Len(p) \in Nat
        BY <1>1, <1>4
      <4> HIDE DEF a
      <4>2. n > a /\ n \in 1 .. a + Len(p)
        BY <3>1, <3>3 DEF a
      <4>3. PICK i \in 1 .. Len(p) : n = a + i
        BY <4>1, <4>2, n - a \in 1 .. Len(p), n = a + (n - a)
      <4>4. new.rows[n] = [cursor |-> lg.seq + i, rec |-> recs[p[i]]]
        BY <1>5, <1>7, <4>3 DEF a
      <4> QED
        BY <4>3, <4>4 DEF a
    <3>4. n <= Len(lg.rows) \/ n > Len(lg.rows)
      <4> DEFINE a == Len(lg.rows)
      <4>1. a \in Nat /\ n \in 1 .. a + Len(p) /\ Len(p) \in Nat
        BY <1>1, <1>4, <3>1
      <4> HIDE DEF a
      <4>2. n <= a \/ n > a
        BY <4>1
      <4> QED
        BY <4>2 DEF a
    <3> QED
      BY <3>2, <3>3, <3>4
  <2>4. \A n \in DOMAIN lg.rows : lg.rows[n].cursor \in Nat /\ lg.rows[n].cursor <= lg.seq
    BY RecAtCursor
  <2>5. ASSUME NEW n \in DOMAIN new.rows
        PROVE  new.rows[n].cursor <= new.seq
    <3>1. new.seq = lg.seq + Len(p) /\ lg.seq \in Nat /\ Len(p) \in Nat
      BY <1>1, <1>4, <1>6
    <3>2. CASE n \in DOMAIN lg.rows /\ new.rows[n] = lg.rows[n]
      BY <2>4, <3>1, <3>2
    <3>3. CASE \E i \in 1 .. Len(p) : n = Len(lg.rows) + i /\ new.rows[n].cursor = lg.seq + i
      <4>1. PICK i \in 1 .. Len(p) : new.rows[n].cursor = lg.seq + i
        BY <3>3
      <4> QED
        BY <3>1, <4>1
    <3> QED
      BY <2>3, <3>2, <3>3
  <2>6. ASSUME NEW m \in DOMAIN new.rows, NEW n \in DOMAIN new.rows, m < n
        PROVE  new.rows[m].cursor < new.rows[n].cursor
    <3>1. CASE n \in DOMAIN lg.rows /\ new.rows[n] = lg.rows[n]
      <4>1. m \in DOMAIN lg.rows /\ new.rows[m] = lg.rows[m]
        <5> DEFINE a == Len(lg.rows)
        <5>1. /\ a \in Nat /\ n \in 1 .. a /\ DOMAIN lg.rows = 1 .. a
              /\ \A i \in 1 .. a : new.rows[i] = lg.rows[i]
          BY <1>1, <1>7, <3>1
        <5>2. m \in Nat \ {0}
          BY <1>7
        <5> HIDE DEF a
        <5>3. m \in 1 .. a
          BY <2>6, <5>1, <5>2
        <5> QED
          BY <5>1, <5>3
      <4> QED
        BY <2>6, <3>1, <4>1 DEF LogTyped
    <3>2. CASE \E i \in 1 .. Len(p) : n = Len(lg.rows) + i /\ new.rows[n].cursor = lg.seq + i
      <4>1. PICK i \in 1 .. Len(p) : n = Len(lg.rows) + i /\ new.rows[n].cursor = lg.seq + i
        BY <3>2
      <4>2. CASE m \in DOMAIN lg.rows /\ new.rows[m] = lg.rows[m]
        BY <1>1, <1>4, <2>4, <4>1, <4>2
      <4>3. CASE \E j \in 1 .. Len(p) : m = Len(lg.rows) + j /\ new.rows[m].cursor = lg.seq + j
        <5>1. PICK j \in 1 .. Len(p) : m = Len(lg.rows) + j /\ new.rows[m].cursor = lg.seq + j
          BY <4>3
        <5>2. j < i /\ i \in Nat /\ j \in Nat
          BY <1>1, <1>4, <2>6, <4>1, <5>1
        <5> QED
          BY <1>1, <4>1, <5>1, <5>2
      <4> QED
        BY <2>3, <4>2, <4>3
    <3> QED
      BY <2>3, <3>1, <3>2
  <2> QED
    BY <2>2, <2>5, <2>6 DEF LogTyped
<1>10. new = [seq |-> new.seq, rows |-> new.rows, keys |-> new.keys] /\ new.seq = lg.seq + Len(p)
  BY <1>6
<1> QED
  BY <1>2, <1>3, <1>5, <1>7, <1>8, <1>9, <1>10 DEF new

\* The size of a set is the same in the instance.
LEMMA SameSize == \A S : Bbolt!Cardinality(S) = Cardinality(S)
BY DEF Bbolt!Cardinality, Cardinality

(***************************************************************************)
(* The bbolt store writes the same rows from the records as a table: the   *)
(* one that comes nth in the slice has n of those to be written at or      *)
(* below its key.                                                          *)
(***************************************************************************)
LEMMA AddIs ==
  ASSUME NEW lg, LogTyped(lg), NEW ks \in Seq(Nat), Ascending(ks),
         NEW r \in [Range(ks) -> Bbolt!Deletion]
  PROVE  LET recs == [n \in DOMAIN ks |-> r[ks[n]]]
         IN /\ recs \in Seq(Bbolt!Deletion)
            /\ Buckets(AddDeletions(lg, recs)) = Bbolt!AddDeletions(Buckets(lg), r)
<1> DEFINE recs   == [n \in DOMAIN ks |-> r[ks[n]]]
           new    == AddDeletions(lg, recs)
           old    == Buckets(lg)
           F      == Bbolt!Fresh(old, r)
           cursor == Bbolt!Cursors(old, r)
           fill   == {cursor[k] : k \in F}
           R      == [c \in DOMAIN old.rows \cup fill |->
                        IF c \in fill THEN r[CHOOSE k \in F : cursor[k] = c] ELSE old.rows[c]]
           D      == old.byDev \cup {<<r[k].device, cursor[k]>> : k \in F}
<1>1. /\ Len(ks) \in Nat /\ DOMAIN ks = 1 .. Len(ks)
      /\ \A n \in DOMAIN ks : ks[n] \in Nat /\ ks[n] \in Range(ks)
      /\ \A n \in DOMAIN ks : r[ks[n]] \in Bbolt!Deletion
  BY DEF Range
<1>2. /\ recs \in Seq(Bbolt!Deletion) /\ Len(recs) = Len(ks) /\ DOMAIN recs = DOMAIN ks
      /\ \A n \in DOMAIN ks : recs[n] = r[ks[n]]
  BY <1>1
<1> HIDE DEF recs
<1>3. PICK p \in Seq(DOMAIN recs) :
        /\ Ascending(p)
        /\ Range(p) = {n \in DOMAIN recs : ~ Logged(lg, recs[n])}
        /\ new.seq = lg.seq + Len(p) /\ Len(new.rows) = Len(lg.rows) + Len(p)
        /\ \A n \in 1 .. Len(lg.rows) : new.rows[n] = lg.rows[n]
        /\ \A i \in 1 .. Len(p) :
             new.rows[Len(lg.rows) + i] = [cursor |-> lg.seq + i, rec |-> recs[p[i]]]
        /\ new.keys = lg.keys \cup
             {Key(recs[n]) : n \in {m \in DOMAIN recs : recs[m].kind = "single"}}
        /\ new = [seq |-> new.seq, rows |-> new.rows, keys |-> new.keys]
        /\ LogTyped(new)
  BY <1>2, AddShape
<1> HIDE DEF new
<1>4. /\ Len(p) \in Nat /\ DOMAIN p = 1 .. Len(p) /\ lg.seq \in Nat
      /\ lg.rows \in Seq(Row) /\ Len(lg.rows) \in Nat /\ DOMAIN lg.rows = 1 .. Len(lg.rows)
      /\ new.rows \in Seq(Row) /\ DOMAIN new.rows = 1 .. Len(lg.rows) + Len(p)
      /\ \A i \in 1 .. Len(p) : p[i] \in DOMAIN ks
  <2>1. Len(p) \in Nat /\ DOMAIN p = 1 .. Len(p) /\ \A i \in 1 .. Len(p) : p[i] \in DOMAIN ks
    BY <1>2
  <2>2. /\ lg.seq \in Nat /\ lg.rows \in Seq(Row) /\ Len(lg.rows) \in Nat
        /\ DOMAIN lg.rows = 1 .. Len(lg.rows)
    BY DEF LogTyped
  <2>3. new.rows \in Seq(Row) /\ Len(new.rows) = Len(lg.rows) + Len(p)
    BY <1>3 DEF LogTyped
  <2>4. DOMAIN new.rows = 1 .. Len(lg.rows) + Len(p)
    BY <2>3
  <2> QED
    BY <2>1, <2>2, <2>3, <2>4
<1>5. \A rec \in Bbolt!Deletion : Bbolt!Logged(old, rec) <=> Logged(lg, rec)
  BY DEF Bbolt!Logged, Logged, Bbolt!MsgKey, Key, Buckets
<1> DEFINE q == [i \in 1 .. Len(p) |-> ks[p[i]]]
<1>6. q \in Seq(Nat) /\ Len(q) = Len(p) /\ DOMAIN q = 1 .. Len(p) /\ Ascending(q) /\ Range(q) = F
  <2>1. q \in Seq(Nat) /\ Len(q) = Len(p) /\ DOMAIN q = 1 .. Len(p)
    BY <1>1, <1>4
  <2>2. Ascending(q)
    BY <1>1, <1>3, <1>4, <2>1 DEF Ascending
  <2>3. F = {k \in Range(ks) : ~ Logged(lg, r[k])}
    BY <1>5 DEF Bbolt!Fresh
  <2>4. ASSUME NEW i \in 1 .. Len(p)
        PROVE  q[i] \in F
    <3>1. p[i] \in Range(p)
      BY <1>4 DEF Range
    <3>2. ~ Logged(lg, recs[p[i]]) /\ recs[p[i]] = r[q[i]] /\ q[i] \in Range(ks)
      BY <1>1, <1>2, <1>3, <1>4, <3>1
    <3> QED
      BY <2>3, <3>2
  <2>5. ASSUME NEW k \in F
        PROVE  k \in Range(q)
    <3>1. PICK n \in DOMAIN ks : k = ks[n]
      BY <2>3 DEF Range
    <3>2. n \in Range(p)
      BY <1>2, <1>3, <2>3, <3>1
    <3>3. PICK i \in 1 .. Len(p) : p[i] = n
      BY <1>4, <3>2 DEF Range
    <3> QED
      BY <2>1, <3>1, <3>3 DEF Range
  <2> HIDE DEF q, F
  <2> QED
    BY <2>1, <2>2, <2>4, <2>5 DEF Range
<1> HIDE DEF q
<1>7. /\ Cardinality(F) = Len(p)
      /\ \A i \in 1 .. Len(p) : Cardinality({j \in F : j <= q[i]}) = i
  BY <1>6, AscendingCounts
<1>8. \A i \in 1 .. Len(p) : q[i] \in F /\ cursor[q[i]] = lg.seq + i
  <2>1. \A i \in 1 .. Len(p) : q[i] \in F
    BY <1>6 DEF Range
  <2> QED
    <3>1. old.seq = lg.seq
      BY DEF Buckets
    <3>2. cursor = [k \in F |-> old.seq + Cardinality({j \in F : j <= k})]
      <4> HIDE DEF old
      <4> QED
        BY SameSize DEF Bbolt!Cursors, Bbolt!Rank
    <3> HIDE DEF old, F, cursor
    <3> QED
      BY <1>7, <2>1, <3>1, <3>2
<1>9. \A k \in F : \E i \in 1 .. Len(p) : k = q[i]
  BY <1>6 DEF Range
<1>10. fill = {lg.seq + i : i \in 1 .. Len(p)}
  <2> HIDE DEF F, cursor
  <2> QED
    BY <1>8, <1>9
<1>11. \A i \in 1 .. Len(p) : (CHOOSE k \in F : cursor[k] = lg.seq + i) = q[i]
  <2>1. ASSUME NEW i \in 1 .. Len(p), NEW k \in F, cursor[k] = lg.seq + i
        PROVE  k = q[i]
    <3> HIDE DEF F, cursor
    <3>1. PICK j \in 1 .. Len(p) : k = q[j]
      BY <1>9
    <3>2. lg.seq + j = lg.seq + i
      BY <1>8, <2>1, <3>1
    <3> QED
      BY <1>4, <3>1, <3>2
  <2> HIDE DEF F, cursor
  <2> QED
    BY <1>8, <2>1
<1>12. DOMAIN old.rows = CursorsOf(lg) /\ \A c \in CursorsOf(lg) : c \in Nat /\ c <= lg.seq
  <2>1. ASSUME NEW c \in CursorsOf(lg)
        PROVE  c \in Nat /\ c <= lg.seq
    <3>1. PICK n \in DOMAIN lg.rows : c = lg.rows[n].cursor
      BY DEF CursorsOf
    <3> QED
      BY <3>1, RecAtCursor
  <2> QED
    BY <2>1 DEF Buckets
<1>13. ASSUME NEW n \in DOMAIN new.rows
       PROVE  \/ n \in DOMAIN lg.rows /\ new.rows[n] = lg.rows[n]
              \/ \E i \in 1 .. Len(p) :
                   new.rows[n] = [cursor |-> lg.seq + i, rec |-> r[q[i]]]
  <2> DEFINE a == Len(lg.rows)
  <2>1. a \in Nat /\ n \in 1 .. a + Len(p) /\ DOMAIN lg.rows = 1 .. a
    BY <1>4
  <2> HIDE DEF a
  <2>2. CASE n <= a
    BY <1>3, <1>4, <2>1, <2>2 DEF a
  <2>3. CASE ~ (n <= a)
    <3>1. PICK i \in 1 .. Len(p) : n = a + i
      BY <1>4, <2>1, <2>3, n - a \in 1 .. Len(p), n = a + (n - a)
    <3>2. new.rows[n] = [cursor |-> lg.seq + i, rec |-> recs[p[i]]]
      BY <1>3, <3>1 DEF a
    <3>3. recs[p[i]] = r[q[i]]
      BY <1>2, <1>4, <3>1 DEF q
    <3> QED
      BY <3>2, <3>3
  <2> QED
    BY <2>2, <2>3
<1>14. /\ \A n \in DOMAIN lg.rows : n \in DOMAIN new.rows /\ new.rows[n] = lg.rows[n]
       /\ \A i \in 1 .. Len(p) : \E n \in DOMAIN new.rows :
            new.rows[n] = [cursor |-> lg.seq + i, rec |-> r[q[i]]]
  <2> DEFINE a == Len(lg.rows)
  <2>1. a \in Nat /\ DOMAIN lg.rows = 1 .. a /\ DOMAIN new.rows = 1 .. a + Len(p)
    BY <1>4
  <2>2. ASSUME NEW i \in 1 .. Len(p)
        PROVE  /\ a + i \in DOMAIN new.rows
               /\ new.rows[a + i] = [cursor |-> lg.seq + i, rec |-> r[q[i]]]
    <3>1. recs[p[i]] = r[q[i]]
      BY <1>2, <1>4 DEF q
    <3>2. new.rows[a + i] = [cursor |-> lg.seq + i, rec |-> recs[p[i]]]
      BY <1>3
    <3>3. Len(p) \in Nat
      BY <1>4
    <3> HIDE DEF a
    <3>4. a + i \in 1 .. a + Len(p)
      BY <2>1, <3>3
    <3> QED
      BY <2>1, <3>1, <3>2, <3>4
  <2>3. \A n \in DOMAIN lg.rows : n \in DOMAIN new.rows /\ new.rows[n] = lg.rows[n]
    <3> HIDE DEF a
    <3>1. \A n \in 1 .. a : n \in 1 .. a + Len(p)
      BY <1>4, <2>1
    <3> QED
      BY <1>3, <2>1, <3>1 DEF a
  <2> QED
    BY <2>2, <2>3
<1>15. CursorsOf(new) = DOMAIN old.rows \cup fill
  <2> HIDE DEF fill, old
  <2>1. ASSUME NEW c \in CursorsOf(new)
        PROVE  c \in CursorsOf(lg) \cup fill
    <3>1. PICK n \in DOMAIN new.rows : c = new.rows[n].cursor
      BY DEF CursorsOf
    <3>2. CASE n \in DOMAIN lg.rows /\ new.rows[n] = lg.rows[n]
      BY <3>1, <3>2 DEF CursorsOf
    <3>3. CASE \E i \in 1 .. Len(p) : new.rows[n] = [cursor |-> lg.seq + i, rec |-> r[q[i]]]
      <4>1. PICK i \in 1 .. Len(p) : new.rows[n] = [cursor |-> lg.seq + i, rec |-> r[q[i]]]
        BY <3>3
      <4>2. c = lg.seq + i
        BY <3>1, <4>1
      <4> QED
        BY <1>10, <4>2
    <3> QED
      BY <1>13, <3>2, <3>3
  <2>2. ASSUME NEW c \in CursorsOf(lg)
        PROVE  c \in CursorsOf(new)
    BY <1>14, <2>2 DEF CursorsOf
  <2>3. ASSUME NEW i \in 1 .. Len(p)
        PROVE  lg.seq + i \in CursorsOf(new)
    <3>1. PICK n \in DOMAIN new.rows : new.rows[n] = [cursor |-> lg.seq + i, rec |-> r[q[i]]]
      BY <1>14
    <3>2. lg.seq + i = new.rows[n].cursor
      BY <3>1
    <3> QED
      BY <3>2 DEF CursorsOf
  <2> QED
    BY <1>10, <1>12, <2>1, <2>2, <2>3
<1>16. ASSUME NEW n \in DOMAIN new.rows
       PROVE  R[new.rows[n].cursor] = new.rows[n].rec
  <2>1. CASE n \in DOMAIN lg.rows /\ new.rows[n] = lg.rows[n]
    <3> DEFINE c == lg.rows[n].cursor
    <3>1. c \in Nat /\ c <= lg.seq /\ c \in CursorsOf(lg) /\ RecAt(lg, c) = lg.rows[n].rec
      BY <2>1, RecAtCursor
    <3>2. c \notin fill
      <4> HIDE DEF c, fill
      <4> QED
        BY <1>4, <1>10, <3>1
    <3>3. R[c] = old.rows[c] /\ old.rows[c] = RecAt(lg, c)
      <4> HIDE DEF c, fill, F, cursor
      <4> QED
        BY <1>12, <3>1, <3>2 DEF Buckets
    <3> QED
      BY <2>1, <3>1, <3>3
  <2>2. CASE \E i \in 1 .. Len(p) : new.rows[n] = [cursor |-> lg.seq + i, rec |-> r[q[i]]]
    <3>1. PICK i \in 1 .. Len(p) : new.rows[n] = [cursor |-> lg.seq + i, rec |-> r[q[i]]]
      BY <2>2
    <3>2. lg.seq + i \in fill
      BY <1>10
    <3>3. R[lg.seq + i] = r[q[i]]
      <4> HIDE DEF fill, F, cursor, old
      <4> QED
        BY <1>11, <3>2
    <3> QED
      BY <3>1, <3>3
  <2> QED
    BY <1>13, <2>1, <2>2
<1>17. D = {<<R[c].device, c>> : c \in CursorsOf(new)}
  <2>1. \A c \in CursorsOf(lg) : c \in CursorsOf(new) /\ R[c] = RecAt(lg, c)
    <3>1. ASSUME NEW c \in CursorsOf(lg)
          PROVE  c \in CursorsOf(new) /\ R[c] = RecAt(lg, c)
      <4>1. PICK n \in DOMAIN lg.rows : c = lg.rows[n].cursor
        BY DEF CursorsOf
      <4>2. RecAt(lg, c) = lg.rows[n].rec
        BY <4>1, RecAtCursor
      <4> QED
        BY <1>12, <1>14, <1>15, <1>16, <4>1, <4>2
    <3> QED
      BY <3>1
  <2>2. \A i \in 1 .. Len(p) : lg.seq + i \in CursorsOf(new) /\ R[lg.seq + i] = r[q[i]]
    <3> HIDE DEF fill, F, cursor, old
    <3> QED
      BY <1>10, <1>11, <1>15
  <2>3. old.byDev = {<<RecAt(lg, c).device, c>> : c \in CursorsOf(lg)}
    BY DEF Buckets
  <2>4. {<<r[k].device, cursor[k]>> : k \in F} = {<<r[q[i]].device, lg.seq + i>> : i \in 1 .. Len(p)}
    <3> HIDE DEF F, cursor
    <3> QED
      BY <1>8, <1>9
  <2>5. CursorsOf(new) = CursorsOf(lg) \cup {lg.seq + i : i \in 1 .. Len(p)}
    BY <1>10, <1>12, <1>15
  <2> HIDE DEF R, F, cursor, old, fill
  <2>6. ASSUME NEW c \in CursorsOf(new)
        PROVE  <<R[c].device, c>> \in D
    <3>1. CASE c \in CursorsOf(lg)
      BY <2>1, <2>3, <3>1
    <3>2. CASE \E i \in 1 .. Len(p) : c = lg.seq + i
      <4>1. PICK i \in 1 .. Len(p) : c = lg.seq + i
        BY <3>2
      <4>2. <<R[c].device, c>> = <<r[q[i]].device, lg.seq + i>>
        BY <2>2, <4>1
      <4> QED
        BY <2>4, <4>2
    <3> QED
      BY <2>5, <3>1, <3>2
  <2>7. ASSUME NEW e \in D
        PROVE  \E c \in CursorsOf(new) : e = <<R[c].device, c>>
    <3>1. CASE e \in old.byDev
      BY <2>1, <2>3, <3>1
    <3>2. CASE e \in {<<r[q[i]].device, lg.seq + i>> : i \in 1 .. Len(p)}
      BY <2>2, <3>2
    <3> QED
      BY <2>4, <3>1, <3>2
  <2> HIDE DEF D
  <2> QED
    BY <2>6, <2>7
<1>18. new.keys = old.byMsg \cup {Bbolt!MsgKey(r[k]) : k \in {j \in F : r[j].kind = "single"}}
  <2>1. old.byMsg = lg.keys
    BY DEF Buckets
  <2>2. \A k \in F : \E n \in DOMAIN recs : recs[n] = r[k]
    <3>1. F \subseteq Range(ks)
      BY DEF Bbolt!Fresh
    <3> HIDE DEF F
    <3> QED
      BY <1>1, <1>2, <3>1 DEF Range
  <2>3. ASSUME NEW n \in DOMAIN recs, recs[n].kind = "single"
        PROVE  Key(recs[n]) \in lg.keys \/ \E k \in F : r[k] = recs[n]
    <3>1. recs[n] = r[ks[n]] /\ ks[n] \in Range(ks)
      BY <1>1, <1>2
    <3>2. CASE ks[n] \in F
      BY <3>1, <3>2
    <3>3. CASE ks[n] \notin F
      <4>1. Logged(lg, recs[n])
        BY <1>1, <1>2, <1>5, <3>1, <3>3 DEF Bbolt!Fresh
      <4> QED
        BY <4>1 DEF Logged
    <3> QED
      BY <3>2, <3>3
  <2>4. \A rec : Bbolt!MsgKey(rec) = Key(rec)
    BY DEF Bbolt!MsgKey, Key
  <2> HIDE DEF F, old
  <2> DEFINE mine   == {Key(recs[n]) : n \in {m \in DOMAIN recs : recs[m].kind = "single"}}
             theirs == {Bbolt!MsgKey(r[k]) : k \in {j \in F : r[j].kind = "single"}}
  <2>5. ASSUME NEW e \in mine
        PROVE  e \in lg.keys \cup theirs
    BY <2>3, <2>4
  <2>6. ASSUME NEW e \in theirs
        PROVE  e \in mine
    BY <2>2, <2>4
  <2>7. new.keys = lg.keys \cup mine
    BY <1>3
  <2> HIDE DEF mine
  <2>8. lg.keys \cup mine = lg.keys \cup theirs
    <3> HIDE DEF theirs
    <3> QED
      BY <2>5, <2>6
  <2> QED
    BY <2>1, <2>7, <2>8
<1>19. R = [c \in CursorsOf(new) |-> R[c]]
  <2> HIDE DEF fill, F, cursor, old
  <2> QED
    BY <1>15
<1>20. Buckets(new) = [seq |-> new.seq, rows |-> R, byDev |-> D, byMsg |-> new.keys]
  <2> HIDE DEF R, D
  <2> QED
    <3>1. LogTyped(new)
      BY <1>3
    <3> QED
      BY ONLY <3>1, <1>16, <1>17, <1>19, BucketsAre
<1>21. Bbolt!AddDeletions(old, r) =
         [seq |-> old.seq + Cardinality(F), rows |-> R, byDev |-> D,
          byMsg |-> old.byMsg \cup {Bbolt!MsgKey(r[k]) : k \in {j \in F : r[j].kind = "single"}}]
  <2> HIDE DEF old
  <2> QED
    BY SameSize DEF Bbolt!AddDeletions
<1>22. old.seq + Cardinality(F) = new.seq
  BY <1>3, <1>7 DEF Buckets
<1> QED
  <2> HIDE DEF F, R, D
  <2>1. Buckets(new) = Bbolt!AddDeletions(old, r)
    BY <1>18, <1>20, <1>21, <1>22
  <2> QED
    BY <1>2, <2>1 DEF new, recs

(***************************************************************************)
(* delMsg has what the "single" rows are about, once each.                 *)
(***************************************************************************)
SinglesDiffer(recs) ==
  \A m, n \in DOMAIN recs :
    /\ recs[m].kind = "single" /\ recs[n].kind = "single"
    /\ Key(recs[m]) = Key(recs[n])
    => m = n

LogExact(lg) ==
  /\ lg.keys = {Key(row.rec) : row \in {r \in Range(lg.rows) : r.rec.kind = "single"}}
  /\ SinglesDiffer([n \in DOMAIN lg.rows |-> lg.rows[n].rec])

LEMMA AddKeepsExact ==
  ASSUME NEW lg, LogTyped(lg), LogExact(lg),
         NEW recs \in Seq(Bbolt!Deletion), SinglesDiffer(recs)
  PROVE  LogExact(AddDeletions(lg, recs)) /\ LogTyped(AddDeletions(lg, recs))
<1> DEFINE new == AddDeletions(lg, recs)
<1>1. PICK p \in Seq(DOMAIN recs) :
        /\ Ascending(p)
        /\ Range(p) = {n \in DOMAIN recs : ~ Logged(lg, recs[n])}
        /\ new.seq = lg.seq + Len(p) /\ Len(new.rows) = Len(lg.rows) + Len(p)
        /\ \A n \in 1 .. Len(lg.rows) : new.rows[n] = lg.rows[n]
        /\ \A i \in 1 .. Len(p) :
             new.rows[Len(lg.rows) + i] = [cursor |-> lg.seq + i, rec |-> recs[p[i]]]
        /\ new.keys = lg.keys \cup
             {Key(recs[n]) : n \in {m \in DOMAIN recs : recs[m].kind = "single"}}
        /\ LogTyped(new)
  BY AddShape
<1> HIDE DEF new
<1> DEFINE a == Len(lg.rows)
<1>2. /\ Len(p) \in Nat /\ DOMAIN p = 1 .. Len(p) /\ a \in Nat
      /\ DOMAIN lg.rows = 1 .. a /\ DOMAIN new.rows = 1 .. a + Len(p)
      /\ \A i \in 1 .. Len(p) : p[i] \in DOMAIN recs /\ p[i] \in Range(p)
      /\ DOMAIN recs \subseteq Nat
  BY <1>1 DEF LogTyped, Range
<1> HIDE DEF a
<1>3. /\ \A n \in 1 .. a : n \in DOMAIN new.rows /\ new.rows[n] = lg.rows[n]
      /\ \A i \in 1 .. Len(p) : a + i \in DOMAIN new.rows /\ new.rows[a + i].rec = recs[p[i]]
  <2>1. \A n \in 1 .. a : n \in 1 .. a + Len(p)
    BY <1>2
  <2>2. \A i \in 1 .. Len(p) : a + i \in 1 .. a + Len(p)
    BY <1>2
  <2>3. \A n \in 1 .. a : new.rows[n] = lg.rows[n]
    BY <1>1 DEF a
  <2>4. ASSUME NEW i \in 1 .. Len(p)
        PROVE  new.rows[a + i].rec = recs[p[i]]
    <3>1. new.rows[a + i] = [cursor |-> lg.seq + i, rec |-> recs[p[i]]]
      BY <1>1 DEF a
    <3> QED
      BY <3>1
  <2> QED
    BY <1>2, <2>1, <2>2, <2>3, <2>4
<1>4. ASSUME NEW n \in DOMAIN new.rows
      PROVE  \/ n \in 1 .. a /\ new.rows[n].rec = lg.rows[n].rec
             \/ \E i \in 1 .. Len(p) : n = a + i /\ new.rows[n].rec = recs[p[i]]
  <2>1. n \in 1 .. a + Len(p)
    BY <1>2
  <2>2. CASE n <= a
    BY <1>2, <1>3, <2>1, <2>2
  <2>3. CASE ~ (n <= a)
    <3>1. PICK i \in 1 .. Len(p) : n = a + i
      BY <1>2, <2>1, <2>3, n - a \in 1 .. Len(p), n = a + (n - a)
    <3> QED
      BY <1>3, <3>1
  <2> QED
    BY <2>2, <2>3
<1>5. \A n \in DOMAIN lg.rows : lg.rows[n].rec.kind = "single" => Key(lg.rows[n].rec) \in lg.keys
  BY DEF LogExact, Range
<1>6. \A i \in 1 .. Len(p) : recs[p[i]].kind = "single" => Key(recs[p[i]]) \notin lg.keys
  BY <1>1, <1>2 DEF Logged
<1>7. SinglesDiffer([n \in DOMAIN new.rows |-> new.rows[n].rec])
  <2>1. ASSUME NEW m \in DOMAIN new.rows, NEW n \in DOMAIN new.rows,
               new.rows[m].rec.kind = "single", new.rows[n].rec.kind = "single",
               Key(new.rows[m].rec) = Key(new.rows[n].rec)
        PROVE  m = n
    <3>1. CASE m \in 1 .. a /\ new.rows[m].rec = lg.rows[m].rec
      <4>1. CASE n \in 1 .. a /\ new.rows[n].rec = lg.rows[n].rec
        BY <1>2, <2>1, <3>1, <4>1 DEF LogExact, SinglesDiffer
      <4>2. CASE \E i \in 1 .. Len(p) : n = a + i /\ new.rows[n].rec = recs[p[i]]
        BY <1>2, <1>5, <1>6, <2>1, <3>1, <4>2
      <4> QED
        BY <1>4, <4>1, <4>2
    <3>2. CASE \E i \in 1 .. Len(p) : m = a + i /\ new.rows[m].rec = recs[p[i]]
      <4>1. CASE n \in 1 .. a /\ new.rows[n].rec = lg.rows[n].rec
        BY <1>2, <1>5, <1>6, <2>1, <3>2, <4>1
      <4>2. CASE \E i \in 1 .. Len(p) : n = a + i /\ new.rows[n].rec = recs[p[i]]
        <5>1. PICK i \in 1 .. Len(p) : m = a + i /\ new.rows[m].rec = recs[p[i]]
          BY <3>2
        <5>2. PICK j \in 1 .. Len(p) : n = a + j /\ new.rows[n].rec = recs[p[j]]
          BY <4>2
        <5>3. p[i] = p[j]
          BY <1>2, <2>1, <5>1, <5>2 DEF SinglesDiffer
        <5>4. ~ (i < j) /\ ~ (j < i)
          <6>1. p[i] \in Nat /\ i \in DOMAIN p /\ j \in DOMAIN p
            BY <1>2
          <6>2. (i < j => p[i] < p[j]) /\ (j < i => p[j] < p[i])
            BY <1>1, <6>1 DEF Ascending
          <6> QED
            BY <5>3, <6>1, <6>2
        <5> QED
          BY <1>2, <5>1, <5>2, <5>4
      <4> QED
        BY <1>4, <4>1, <4>2
    <3> QED
      BY <1>4, <3>1, <3>2
  <2> QED
    BY <2>1 DEF SinglesDiffer
<1>8. new.keys = {Key(row.rec) : row \in {r \in Range(new.rows) : r.rec.kind = "single"}}
  <2> DEFINE keys == {Key(row.rec) : row \in {r \in Range(new.rows) : r.rec.kind = "single"}}
  <2>1. ASSUME NEW row \in Range(new.rows), row.rec.kind = "single"
        PROVE  Key(row.rec) \in new.keys
    <3>1. PICK n \in DOMAIN new.rows : row = new.rows[n]
      BY DEF Range
    <3>2. CASE n \in 1 .. a /\ new.rows[n].rec = lg.rows[n].rec
      BY <1>1, <1>2, <1>5, <2>1, <3>1, <3>2
    <3>3. CASE \E i \in 1 .. Len(p) : n = a + i /\ new.rows[n].rec = recs[p[i]]
      BY <1>1, <1>2, <2>1, <3>1, <3>3
    <3> QED
      BY <1>4, <3>2, <3>3
  <2>2. ASSUME NEW key \in lg.keys
        PROVE  key \in keys
    <3>1. PICK n \in DOMAIN lg.rows : lg.rows[n].rec.kind = "single" /\ key = Key(lg.rows[n].rec)
      BY DEF LogExact, Range
    <3>2. n \in DOMAIN new.rows /\ new.rows[n] = lg.rows[n] /\ new.rows[n] \in Range(new.rows)
      BY <1>2, <1>3 DEF Range
    <3> QED
      BY <3>1, <3>2
  <2>3. ASSUME NEW n \in DOMAIN recs, recs[n].kind = "single"
        PROVE  Key(recs[n]) \in keys
    <3>1. CASE Key(recs[n]) \in lg.keys
      BY <2>2, <3>1
    <3>2. CASE Key(recs[n]) \notin lg.keys
      <4>1. n \in Range(p)
        BY <1>1, <3>2 DEF Logged
      <4>2. PICK i \in 1 .. Len(p) : p[i] = n
        BY <1>2, <4>1 DEF Range
      <4>3. new.rows[a + i].rec = recs[n] /\ new.rows[a + i] \in Range(new.rows)
        BY <1>3, <4>2 DEF Range
      <4> QED
        BY <2>3, <4>3
    <3> QED
      BY <3>1, <3>2
  <2> HIDE DEF keys
  <2>4. keys \subseteq new.keys
    BY <2>1 DEF keys
  <2>5. new.keys \subseteq keys
    BY <1>1, <2>2, <2>3
  <2> QED
    BY <2>4, <2>5 DEF keys
<1> QED
  BY <1>1, <1>7, <1>8 DEF LogExact, new

(***************************************************************************)
(* While the clock runs forward, the rows are in the order of their ages.  *)
(***************************************************************************)
AgedLog(lg, t) ==
  /\ \A m, n \in DOMAIN lg.rows : m < n => lg.rows[m].rec.createdAt <= lg.rows[n].rec.createdAt
  /\ \A n \in DOMAIN lg.rows : lg.rows[n].rec.createdAt <= t

LEMMA AddKeepsAged ==
  ASSUME NEW lg, LogTyped(lg), NEW recs \in Seq(Bbolt!Deletion), NEW t \in Nat,
         AgedLog(lg, t), \A n \in DOMAIN recs : recs[n].createdAt = t
  PROVE  AgedLog(AddDeletions(lg, recs), t)
<1> DEFINE new == AddDeletions(lg, recs)
           a   == Len(lg.rows)
<1>1. PICK p \in Seq(DOMAIN recs) :
        /\ Len(new.rows) = Len(lg.rows) + Len(p)
        /\ \A n \in 1 .. Len(lg.rows) : new.rows[n] = lg.rows[n]
        /\ \A i \in 1 .. Len(p) :
             new.rows[Len(lg.rows) + i] = [cursor |-> lg.seq + i, rec |-> recs[p[i]]]
        /\ LogTyped(new)
  BY AddShape
<1> HIDE DEF new
<1>2. /\ Len(p) \in Nat /\ a \in Nat /\ DOMAIN lg.rows = 1 .. a
      /\ DOMAIN new.rows = 1 .. a + Len(p)
      /\ \A i \in 1 .. Len(p) : p[i] \in DOMAIN recs
  BY <1>1 DEF LogTyped
<1>3. \A n \in 1 .. a : new.rows[n] = lg.rows[n]
  BY <1>1
<1>4. ASSUME NEW i \in 1 .. Len(p)
      PROVE  new.rows[a + i].rec.createdAt = t
  <2>1. new.rows[a + i] = [cursor |-> lg.seq + i, rec |-> recs[p[i]]]
    BY <1>1
  <2> QED
    BY <1>2, <2>1
<1> HIDE DEF a
<1>5. ASSUME NEW n \in DOMAIN new.rows
      PROVE  (n \in 1 .. a /\ new.rows[n] = lg.rows[n]) \/ (n > a /\ new.rows[n].rec.createdAt = t)
  <2>1. n \in 1 .. a + Len(p)
    BY <1>2
  <2>2. CASE n <= a
    BY <1>2, <1>3, <2>1, <2>2
  <2>3. CASE ~ (n <= a)
    <3>1. PICK i \in 1 .. Len(p) : n = a + i
      BY <1>2, <2>1, <2>3, n - a \in 1 .. Len(p), n = a + (n - a)
    <3> QED
      BY <1>2, <1>4, <2>3, <3>1
  <2> QED
    BY <2>2, <2>3
<1>6. \A n \in 1 .. a : lg.rows[n].rec.createdAt <= t
  BY <1>2 DEF AgedLog
<1>7. \A n \in DOMAIN new.rows : new.rows[n].rec.createdAt <= t
  BY <1>5, <1>6
<1>8. ASSUME NEW m \in DOMAIN new.rows, NEW n \in DOMAIN new.rows, m < n
      PROVE  new.rows[m].rec.createdAt <= new.rows[n].rec.createdAt
  <2>1. CASE n \in 1 .. a /\ new.rows[n] = lg.rows[n]
    <3>1. m \in 1 .. a /\ new.rows[m] = lg.rows[m]
      BY <1>2, <1>3, <1>8, <2>1
    <3> QED
      BY <1>2, <1>8, <2>1, <3>1 DEF AgedLog
  <2>2. CASE n > a /\ new.rows[n].rec.createdAt = t
    BY <1>7, <2>2
  <2> QED
    BY <1>5, <2>1, <2>2
<1> QED
  BY <1>7, <1>8 DEF AgedLog, new

(***************************************************************************)
(* The two kinds of records that the calls write.                          *)
(***************************************************************************)
KnownDevices(known) == \A id \in DOMAIN known : known[id].device \in Devices

LEMMA SinglesAre ==
  ASSUME NEW lg, LogTyped(lg), LogExact(lg), now \in Nat,
         NEW known, KnownDevices(known),
         NEW ids \in Seq(Nat), Ascending(ids), Range(ids) \subseteq DOMAIN known
  PROVE  LET new == AddDeletions(lg, Singles(known, ids))
         IN /\ LogTyped(new) /\ LogExact(new) /\ (AgedLog(lg, now) => AgedLog(new, now))
            /\ Buckets(new) = Bbolt!AddDeletions(Buckets(lg), Bbolt!Singles(known, Range(ids)))
<1> DEFINE r    == Bbolt!Singles(known, Range(ids))
           recs == [n \in DOMAIN ids |-> r[ids[n]]]
<1>1. /\ Range(ids) \subseteq Nat /\ \A n \in DOMAIN ids : ids[n] \in Range(ids)
      /\ \A m, n \in DOMAIN ids : ids[m] = ids[n] => m = n
  <2>1. \A n \in DOMAIN ids : ids[n] \in Nat /\ n \in Nat
    OBVIOUS
  <2>2. \A m, n \in DOMAIN ids : ids[m] = ids[n] => ~ (m < n) /\ ~ (n < m)
    BY <2>1 DEF Ascending
  <2> QED
    BY <2>1, <2>2 DEF Range
<1>2. ASSUME NEW id \in Range(ids)
      PROVE  r[id] = Record(known[id].device, "single", id) /\ r[id] \in Bbolt!Deletion
  BY <1>1 DEF Bbolt!Singles, Bbolt!Record, Record, Bbolt!Deletion, Bbolt!Kinds, KnownDevices
<1>3. r \in [Range(ids) -> Bbolt!Deletion]
  <2>1. r = [id \in Range(ids) |-> r[id]]
    BY DEF Bbolt!Singles
  <2> QED
    BY <1>2, <2>1
<1> HIDE DEF r
<1>4. recs = Singles(known, ids)
  <2>1. \A n \in DOMAIN ids : r[ids[n]] = Record(known[ids[n]].device, "single", ids[n])
    BY <1>1, <1>2
  <2> QED
    BY <2>1 DEF Singles
<1>5. SinglesDiffer(recs)
  <2>1. ASSUME NEW n \in DOMAIN ids
        PROVE  r[ids[n]].target = ids[n]
    <3>1. r[ids[n]] = Record(known[ids[n]].device, "single", ids[n])
      BY <1>1, <1>2
    <3> QED
      BY <3>1 DEF Record
  <2>2. ASSUME NEW m \in DOMAIN ids, NEW n \in DOMAIN ids, Key(r[ids[m]]) = Key(r[ids[n]])
        PROVE  m = n
    BY <1>1, <2>1, <2>2 DEF Key
  <2> QED
    BY <2>2 DEF SinglesDiffer
<1>6. recs \in Seq(Bbolt!Deletion) /\ Buckets(AddDeletions(lg, recs)) = Bbolt!AddDeletions(Buckets(lg), r)
  BY <1>3, AddIs
<1>7. \A n \in DOMAIN recs : recs[n].createdAt = now
  <2>1. ASSUME NEW id \in Range(ids)
        PROVE  r[id].createdAt = now
    <3>1. r[id] = Record(known[id].device, "single", id)
      BY <1>2
    <3> QED
      BY <3>1 DEF Record
  <2> QED
    BY <1>1, <2>1
<1> HIDE DEF recs
<1> QED
  BY <1>4, <1>5, <1>6, <1>7, AddKeepsExact, AddKeepsAged DEF r

LEMMA PerDeviceAre ==
  ASSUME NEW lg, LogTyped(lg), LogExact(lg), now \in Nat, NEW D, D \subseteq Devices,
         NEW r \in [D -> Bbolt!Deletion], \A d \in D : r[d].kind # "single" /\ r[d].createdAt = now
  PROVE  LET new == AddDeletions(lg, PerDevice(r))
         IN /\ LogTyped(new) /\ LogExact(new) /\ (AgedLog(lg, now) => AgedLog(new, now))
            /\ Buckets(new) = Bbolt!AddDeletions(Buckets(lg), r)
<1> DEFINE ks   == Sorted(D)
           recs == [n \in DOMAIN ks |-> r[ks[n]]]
<1>1. D \in SUBSET Nat /\ IsFiniteSet(D)
  BY MemAssumption, FS_Subset
<1>2. ks \in Seq(Nat) /\ Ascending(ks) /\ Range(ks) = D /\ \A n \in DOMAIN ks : ks[n] \in D
  <2>1. ks \in Seq(D) /\ Ascending(ks) /\ Range(ks) = D
    BY <1>1, SortedFacts
  <2> HIDE DEF ks
  <2>2. ks \in Seq(Nat)
    BY <1>1, <2>1, SeqMonotonic
  <2>3. \A n \in DOMAIN ks : ks[n] \in D
    BY <2>1
  <2> QED
    BY <2>1, <2>2, <2>3
<1>3. recs = PerDevice(r)
  BY DEF PerDevice
<1> HIDE DEF ks
<1>4. recs \in Seq(Bbolt!Deletion) /\ Buckets(AddDeletions(lg, recs)) = Bbolt!AddDeletions(Buckets(lg), r)
  BY <1>2, AddIs
<1>5. SinglesDiffer(recs)
  BY <1>2 DEF SinglesDiffer
<1>6. \A n \in DOMAIN recs : recs[n].createdAt = now
  BY <1>2
<1> HIDE DEF recs
<1> QED
  BY <1>3, <1>4, <1>5, <1>6, AddKeepsExact, AddKeepsAged

LEMMA OneRecordIs ==
  ASSUME NEW lg, LogTyped(lg), LogExact(lg), NEW k \in Nat, NEW rec \in Bbolt!Deletion,
         now \in Nat, rec.createdAt = now, NEW r \in [{k} -> Bbolt!Deletion], r[k] = rec
  PROVE  LET new == AddDeletions(lg, <<rec>>)
         IN /\ LogTyped(new) /\ LogExact(new) /\ (AgedLog(lg, now) => AgedLog(new, now))
            /\ Buckets(new) = Bbolt!AddDeletions(Buckets(lg), r)
<1> DEFINE ks   == <<k>>
           recs == [n \in DOMAIN ks |-> r[ks[n]]]
<1>1. ks \in Seq(Nat) /\ Ascending(ks) /\ Range(ks) = {k} /\ DOMAIN ks = {1} /\ ks[1] = k
  BY DEF Ascending, Range
<1>3. recs = <<rec>>
  BY <1>1
<1> HIDE DEF ks
<1>4. recs \in Seq(Bbolt!Deletion) /\ Buckets(AddDeletions(lg, recs)) = Bbolt!AddDeletions(Buckets(lg), r)
  BY <1>1, AddIs
<1>5. SinglesDiffer(<<rec>>)
  BY DEF SinglesDiffer
<1> HIDE DEF recs
<1>6. \A n \in DOMAIN <<rec>> : <<rec>>[n].createdAt = now
  OBVIOUS
<1> QED
  BY <1>3, <1>4, <1>5, <1>6, AddKeepsExact, AddKeepsAged

(***************************************************************************)
(* The state.  What a process has not started has nothing.                 *)
(***************************************************************************)
Typed ==
  /\ seq \in Nat /\ now \in Nat /\ up \in BOOLEAN /\ max \in MaxChoices
  /\ msgs \in [DOMAIN msgs -> Bbolt!Message]
  /\ \A id \in DOMAIN msgs : id \in Nat \ {0} /\ id <= seq
  /\ order \in Seq(Nat) /\ Ascending(order) /\ Range(order) = DOMAIN msgs
  /\ DOMAIN expires \subseteq DOMAIN msgs /\ expires \in [DOMAIN expires -> Nat]
  /\ LogTyped(dels) /\ LogExact(dels)
  /\ ~ up => DOMAIN msgs = {}

Aged == AgedLog(dels, now)

LEMMA TypedFacts ==
  ASSUME Typed
  PROVE  /\ IsFiniteSet(DOMAIN msgs) /\ Cardinality(DOMAIN msgs) = Len(order)
         /\ DOMAIN msgs \in SUBSET Nat /\ Len(order) \in Nat
         /\ KnownDevices(msgs)
         /\ \A id \in DOMAIN msgs : msgs[id] \in Bbolt!Message
<1>1. IsFiniteSet(DOMAIN msgs) /\ Cardinality(DOMAIN msgs) = Len(order) /\ DOMAIN msgs \in SUBSET Nat
  BY AscendingCounts DEF Typed
<1>2. \A id \in DOMAIN msgs : msgs[id] \in Bbolt!Message
  BY DEF Typed
<1>3. Len(order) \in Nat
  BY DEF Typed
<1> QED
  BY <1>1, <1>2, <1>3 DEF KnownDevices, Bbolt!Message

\* The log and the indexes as the instance reads them.
BboltLog ==
  [seq   |-> dels.seq,
   rows  |-> [c \in Cursors |-> RowAt(c)],
   byDev |-> {<<RowAt(c).device, c>> : c \in Cursors},
   byMsg |-> dels.keys]

LEMMA LogIs == BboltLog = Buckets(dels) /\ BboltLog' = Buckets(dels')
BY DEF BboltLog, Buckets, Cursors, RowAt, CursorsOf, RecAt

(***************************************************************************)
(* Removing messages.                                                      *)
(***************************************************************************)
LEMMA DropFacts ==
  ASSUME NEW known \in [DOMAIN msgs -> Bbolt!Message], NEW ids, Typed
  PROVE  /\ DOMAIN Drop(known, ids) = DOMAIN msgs \ ids
         /\ Drop(known, ids) \in [DOMAIN msgs \ ids -> Bbolt!Message]
         /\ \A id \in DOMAIN msgs \ ids : Drop(known, ids)[id] = known[id]
BY DEF Drop

LEMMA RemovedTyped ==
  ASSUME Typed, up = TRUE, NEW S, S \subseteq DOMAIN msgs, RemoveLocked(msgs, S),
         LogTyped(dels'), LogExact(dels')
  PROVE  Typed'
<1>1. /\ msgs' = Drop(msgs, S) /\ expires' = Drop(expires, S)
      /\ order' = Only(order, DOMAIN msgs \ S)
      /\ seq' = seq /\ now' = now /\ up' = up /\ max' = max
  BY DEF RemoveLocked
<1>2. /\ DOMAIN msgs' = DOMAIN msgs \ S /\ msgs' \in [DOMAIN msgs' -> Bbolt!Message]
  BY <1>1, DropFacts DEF Typed
<1>3. order' \in Seq(Nat) /\ Ascending(order') /\ Range(order') = DOMAIN msgs'
  <2>1. /\ order' \in Seq(Nat) /\ Ascending(order')
        /\ Range(order') = Range(order) \cap (DOMAIN msgs \ S)
    BY <1>1, OnlyAscends DEF Typed
  <2> QED
    BY <1>2, <2>1 DEF Typed
<1>4. DOMAIN expires' \subseteq DOMAIN msgs' /\ expires' \in [DOMAIN expires' -> Nat]
  BY <1>1, <1>2 DEF Typed, Drop
<1> QED
  BY <1>1, <1>2, <1>3, <1>4 DEF Typed

LEMMA DropIsDelete == \A map, ids : Drop(map, ids) = Bbolt!Delete(map, ids)
BY DEF Drop, Bbolt!Delete, Bbolt!Restrict

\* RemoveMessages of the bbolt store, in the terms of this one.
Removed(ids) ==
  /\ msgs' = Drop(msgs, ids) /\ expires' = Drop(expires, ids)
  /\ {<<msgs'[id].device, id>> : id \in DOMAIN msgs'} =
       {<<msgs[id].device, id>> : id \in DOMAIN msgs} \ {<<msgs[id].device, id>> : id \in ids}
  /\ Len(order') = IF Cardinality(ids) > Len(order) THEN 0 ELSE Len(order) - Cardinality(ids)
  /\ removed' = [id \in DOMAIN removed \cup ids |->
                   IF id \in ids THEN [device |-> msgs[id].device, at |-> BboltLog.seq]
                                 ELSE removed[id]]
  /\ UNCHANGED <<seq, max, up, now, forgotten>>

LEMMA RemovalIs ==
  ASSUME Typed, up = TRUE, NEW S, S \subseteq DOMAIN msgs, RemoveLocked(msgs, S),
         LogTyped(dels'), LogExact(dels')
  PROVE  Removed(S)
<1>1. /\ msgs' = Drop(msgs, S) /\ expires' = Drop(expires, S)
      /\ seq' = seq /\ now' = now /\ up' = up /\ max' = max /\ forgotten' = forgotten
      /\ NoteRemoved(msgs, S)
  BY DEF RemoveLocked
<1>2. Typed'
  BY RemovedTyped
<1>4. /\ DOMAIN msgs' = DOMAIN msgs \ S
      /\ \A id \in DOMAIN msgs' : msgs'[id] = msgs[id]
  BY <1>1 DEF Drop
<1>5. {<<msgs[id].device, id>> : id \in DOMAIN msgs}' =
        {<<msgs[id].device, id>> : id \in DOMAIN msgs} \ {<<msgs[id].device, id>> : id \in S}
  BY <1>4
<1>6. Len(order)' = IF Cardinality(S) > Len(order) THEN 0 ELSE Len(order) - Cardinality(S)
  <2>1. /\ Len(order) = Cardinality(DOMAIN msgs) /\ IsFiniteSet(DOMAIN msgs)
        /\ Len(order') = Cardinality(DOMAIN msgs')
    BY <1>2, TypedFacts, AscendingCounts DEF Typed
  <2>2. /\ Cardinality(DOMAIN msgs \ S) = Cardinality(DOMAIN msgs) - Cardinality(DOMAIN msgs \cap S)
        /\ DOMAIN msgs \cap S = S
    BY <2>1, FS_Difference
  <2>3. Cardinality(S) \in Nat /\ Cardinality(DOMAIN msgs) \in Nat
        /\ Cardinality(S) <= Cardinality(DOMAIN msgs)
    BY <2>1, FS_Subset, FS_CardinalityType
  <2>5. Len(order') = Len(order) - Cardinality(S)
    BY <1>4, <2>1, <2>2
  <2>6. ~ (Cardinality(S) > Len(order))
    BY <2>1, <2>3
  <2> QED
    BY <2>5, <2>6
<1>7. removed' = [id \in DOMAIN removed \cup S |->
                   IF id \in S THEN [device |-> msgs[id].device, at |-> BboltLog.seq]
                                 ELSE removed[id]]
  <2>1. BboltLog.seq = dels.seq
    BY DEF BboltLog
  <2> QED
    BY <1>1, <2>1 DEF NoteRemoved
<1> QED
  BY <1>1, <1>5, <1>6, <1>7 DEF Removed

(***************************************************************************)
(* Writing a message.  The slice ascends, so its head is the oldest id;    *)
(* and as there is room for one message, it is not the new one.            *)
(***************************************************************************)
LEMMA GrownFacts ==
  ASSUME Typed, NEW m \in Bbolt!Message
  PROVE  LET id     == seq + 1
             grown  == Append(order, id)
             known  == With(msgs, id, m)
             victim == Evicted(grown)
         IN /\ id \in Nat \ {0} /\ id \notin DOMAIN msgs
            /\ known \in [DOMAIN msgs \cup {id} -> Bbolt!Message]
            /\ known[id] = m /\ \A i \in DOMAIN msgs : known[i] = msgs[i]
            /\ grown \in Seq(Nat) /\ Ascending(grown) /\ Range(grown) = DOMAIN known
            /\ Len(grown) = Len(order) + 1
            /\ victim \in Seq(Nat) /\ Ascending(victim) /\ Range(victim) \subseteq DOMAIN msgs
            /\ Range(victim) = Bbolt!Evicted(known)
            /\ IsFiniteSet(Range(victim))
<1> DEFINE id     == seq + 1
           grown  == Append(order, id)
           known  == With(msgs, id, m)
           victim == Evicted(grown)
<1>1. /\ seq \in Nat /\ id \in Nat \ {0} /\ id \notin DOMAIN msgs
      /\ \A i \in DOMAIN msgs : i \in Nat /\ i <= seq
      /\ order \in Seq(Nat) /\ Len(order) \in Nat /\ DOMAIN order = 1 .. Len(order)
      /\ \A n \in 1 .. Len(order) : order[n] \in DOMAIN msgs
  <2>1. \A n \in 1 .. Len(order) : order[n] \in DOMAIN msgs
    BY DEF Typed, Range
  <2> QED
    BY <2>1 DEF Typed
<1>2. /\ known \in [DOMAIN msgs \cup {id} -> Bbolt!Message] /\ known[id] = m
      /\ \A i \in DOMAIN msgs : known[i] = msgs[i]
  <2>1. \A i \in DOMAIN msgs : msgs[i] \in Bbolt!Message
    BY DEF Typed
  <2> QED
    BY <1>1, <2>1 DEF With
<1>3. /\ grown \in Seq(Nat) /\ Len(grown) = Len(order) + 1
      /\ DOMAIN grown = 1 .. Len(order) + 1
      /\ \A n \in 1 .. Len(order) : grown[n] = order[n]
      /\ grown[Len(order) + 1] = id
  BY <1>1, AppendProperties
<1> HIDE DEF grown, known
<1>4. Ascending(grown)
  <2>1. ASSUME NEW i \in DOMAIN grown, NEW j \in DOMAIN grown, i < j
        PROVE  grown[i] < grown[j]
    <3>1. i \in 1 .. Len(order) /\ (j \in 1 .. Len(order) \/ j = Len(order) + 1)
      BY <1>1, <1>3, <2>1
    <3>2. CASE j \in 1 .. Len(order)
      BY <1>1, <1>3, <2>1, <3>1, <3>2 DEF Typed, Ascending
    <3>3. CASE j = Len(order) + 1
      BY <1>1, <1>3, <3>1, <3>3
    <3> QED
      BY <3>1, <3>2, <3>3
  <2> QED
    BY <2>1 DEF Ascending
<1>5. Range(grown) = DOMAIN known
  <2>1. ASSUME NEW n \in 1 .. Len(order) + 1
        PROVE  grown[n] \in DOMAIN msgs \cup {id}
    <3>1. n \in 1 .. Len(order) \/ n = Len(order) + 1
      BY <1>1
    <3> QED
      BY <1>1, <1>3, <3>1
  <2>2. ASSUME NEW i \in DOMAIN msgs
        PROVE  i \in Range(grown)
    <3>1. PICK n \in 1 .. Len(order) : order[n] = i
      BY <1>1 DEF Typed, Range
    <3>2. n \in DOMAIN grown /\ grown[n] = i
      BY <1>1, <1>3, <3>1
    <3> QED
      BY <3>2 DEF Range
  <2>3. id \in Range(grown)
    <3>1. Len(order) + 1 \in DOMAIN grown
      BY <1>1, <1>3
    <3> QED
      BY <1>3, <3>1 DEF Range
  <2>4. Range(grown) \subseteq DOMAIN msgs \cup {id}
    BY <1>3, <2>1 DEF Range
  <2> QED
    BY <1>2, <2>2, <2>3, <2>4
<1>6. CASE Len(grown) > max
  <2>1. Len(order) >= 1 /\ 1 \in 1 .. Len(order)
    BY <1>1, <1>3, <1>6, MemAssumption DEF Typed
  <2>2. Head(grown) = grown[1] /\ grown[1] = order[1] /\ order[1] \in DOMAIN msgs
    BY <1>1, <1>3, <2>1
  <2>3. victim = <<order[1]>>
    BY <1>6, <2>2 DEF Evicted
  <2>4. /\ victim \in Seq(Nat) /\ Ascending(victim) /\ Range(victim) = {order[1]}
    <3>1. order[1] \in Nat
      BY <1>1, <2>2
    <3> QED
      BY <2>3, <3>1 DEF Ascending, Range
  <2>5. Bbolt!Least(DOMAIN known) = order[1]
    <3>1. order[1] \in DOMAIN known /\ \A i \in DOMAIN known : i \in Nat
      BY <1>1, <1>2, <2>2
    <3>2. ASSUME NEW i \in DOMAIN known
          PROVE  order[1] <= i
      <4>1. PICK n \in DOMAIN grown : grown[n] = i
        BY <1>5 DEF Range
      <4>2. n = 1 \/ 1 < n
        BY <1>3, <4>1
      <4>3. 1 \in DOMAIN grown
        BY <1>1, <1>3
      <4>4. CASE 1 < n
        <5>1. grown[1] < grown[n]
          BY <1>4, <4>1, <4>3, <4>4 DEF Ascending
        <5> QED
          BY <2>2, <3>1, <4>1, <5>1
      <4> QED
        BY <2>2, <3>1, <4>1, <4>2, <4>4
    <3>3. ASSUME NEW i \in DOMAIN known, \A j \in DOMAIN known : i <= j
          PROVE  i = order[1]
      <4>1. i <= order[1] /\ order[1] <= i
        BY <3>1, <3>2, <3>3
      <4> QED
        BY <3>1, <4>1
    <3> QED
      BY <3>1, <3>2, <3>3 DEF Bbolt!Least
  <2>6. Bbolt!Evicted(known) = {order[1]}
    BY <1>3, <1>6, <2>5 DEF Bbolt!Evicted
  <2>7. IsFiniteSet({order[1]})
    BY FS_Singleton
  <2> QED
    BY <1>1, <1>2, <1>3, <1>4, <1>5, <2>2, <2>4, <2>6, <2>7 DEF known, grown
<1>7. CASE ~ (Len(grown) > max)
  <2>1. victim = <<>>
    BY <1>7 DEF Evicted
  <2>2. victim \in Seq(Nat) /\ Ascending(victim) /\ Range(victim) = {}
    BY <2>1 DEF Ascending, Range
  <2>3. Bbolt!Evicted(known) = {}
    BY <1>3, <1>7 DEF Bbolt!Evicted
  <2>4. IsFiniteSet({})
    BY FS_EmptySet
  <2> QED
    BY <1>1, <1>2, <1>3, <1>4, <1>5, <2>2, <2>3, <2>4 DEF known, grown
<1> QED
  BY <1>6, <1>7

LEMMA InsertIs ==
  ASSUME Typed, up = TRUE, NEW d \in Devices, NEW x \in ExtraIDs \cup {NoID},
         NEW b \in Bodies, NEW t \in TTLs \cup {NoTTL}, Insert(d, x, b, t)
  PROVE  Typed' /\ (Aged => Aged') /\ Bbolt!Insert(d, x, b, t)
<1> DEFINE m      == NewMessage(d, x, b, t)
           id     == seq + 1
           grown  == Append(order, id)
           known  == With(msgs, id, m)
           victim == Evicted(grown)
           V      == Range(victim)
<1>1. m \in Bbolt!Message /\ m = Bbolt!NewMessage(d, x, b, t)
  <2>1. now \in Nat /\ (t # NoTTL => t \in Nat)
    BY MemAssumption DEF Typed
  <2> QED
    BY <2>1 DEF NewMessage, Bbolt!NewMessage, Bbolt!Message, NoTTL, NoID, Bbolt!NoTTL, Bbolt!NoID
<1> HIDE DEF m
<1>2. /\ id \in Nat \ {0} /\ id \notin DOMAIN msgs
      /\ known \in [DOMAIN msgs \cup {id} -> Bbolt!Message]
      /\ known[id] = m /\ \A i \in DOMAIN msgs : known[i] = msgs[i]
      /\ grown \in Seq(Nat) /\ Ascending(grown) /\ Range(grown) = DOMAIN known
      /\ Len(grown) = Len(order) + 1
      /\ victim \in Seq(Nat) /\ Ascending(victim) /\ V \subseteq DOMAIN msgs
      /\ V = Bbolt!Evicted(known) /\ IsFiniteSet(V)
  BY <1>1, GrownFacts
<1>3. /\ id <= MaxSeq /\ seq' = id
      /\ msgs' = Drop(known, V)
      /\ order' = Only(grown, DOMAIN known \ V)
      /\ expires' = Drop(Deadlines(id, t), V)
      /\ dels' = AddDeletions(dels, Singles(known, victim))
      /\ NoteRemoved(known, V)
      /\ UNCHANGED <<max, up, now, export, forgotten>>
  BY DEF Insert, m
<1> HIDE DEF grown, known, victim
<1>4. known = Bbolt!Put(msgs, id, m)
  BY DEF known, With, Bbolt!Put
<1>5. /\ LogTyped(dels') /\ LogExact(dels') /\ (AgedLog(dels, now) => AgedLog(dels', now))
      /\ Buckets(dels') = Bbolt!AddDeletions(Buckets(dels), Bbolt!Singles(known, V))
  <2>1. KnownDevices(known) /\ V \subseteq DOMAIN known
    BY <1>2 DEF KnownDevices, Bbolt!Message
  <2> QED
    BY <1>2, <1>3, <2>1, SinglesAre DEF Typed
<1>6. /\ msgs' \in [(DOMAIN msgs \cup {id}) \ V -> Bbolt!Message]
      /\ \A i \in (DOMAIN msgs \cup {id}) \ V : msgs'[i] = known[i]
  BY <1>2, <1>3 DEF Drop
<1>7. order' \in Seq(Nat) /\ Ascending(order') /\ Range(order') = DOMAIN msgs'
  <2>1. /\ order' \in Seq(Nat) /\ Ascending(order')
        /\ Range(order') = DOMAIN known \cap (DOMAIN known \ V)
    BY <1>2, <1>3, OnlyAscends
  <2> QED
    BY <1>2, <1>6, <2>1
<1>8. /\ DOMAIN expires' \subseteq DOMAIN msgs' /\ expires' \in [DOMAIN expires' -> Nat]
      /\ Deadlines(id, t) = IF t = NoTTL THEN expires ELSE Bbolt!Put(expires, id, now + t)
  <2>1. Deadlines(id, t) = IF t = NoTTL THEN expires ELSE Bbolt!Put(expires, id, now + t)
    BY DEF Deadlines, With, Bbolt!Put
  <2>2. /\ DOMAIN Deadlines(id, t) \subseteq DOMAIN msgs \cup {id}
        /\ \A i \in DOMAIN Deadlines(id, t) : Deadlines(id, t)[i] \in Nat
    <3>1. CASE t = NoTTL
      BY <3>1 DEF Deadlines, Typed
    <3>2. CASE t # NoTTL
      <4>1. now + t \in Nat
        BY <3>2, MemAssumption DEF Typed
      <4>2. Deadlines(id, t) = [i \in DOMAIN expires \cup {id} |-> IF i = id THEN now + t ELSE expires[i]]
        BY <3>2 DEF Deadlines, With
      <4>3. DOMAIN expires \subseteq DOMAIN msgs /\ \A i \in DOMAIN expires : expires[i] \in Nat
        BY DEF Typed
      <4> QED
        BY <4>1, <4>2, <4>3
    <3> QED
      BY <3>1, <3>2
  <2>3. expires' = [i \in DOMAIN Deadlines(id, t) \ V |-> Deadlines(id, t)[i]]
    BY <1>3 DEF Drop
  <2> QED
    BY <1>6, <2>1, <2>2, <2>3
<1>9. Typed'
  <2>1. \A i \in DOMAIN msgs' : i \in Nat \ {0} /\ i <= seq'
    BY <1>2, <1>3, <1>6 DEF Typed
  <2>2. msgs' \in [DOMAIN msgs' -> Bbolt!Message]
    BY <1>6
  <2> QED
    BY <1>2, <1>3, <1>5, <1>7, <1>8, <2>1, <2>2 DEF Typed
<1>10. Len(order)' = Len(order) + 1 - Bbolt!Cardinality(V)
  <2> DEFINE K == DOMAIN known
             M == DOMAIN msgs'
  <2>1. Cardinality(K) = Len(order) + 1 /\ IsFiniteSet(K)
    BY <1>2, AscendingCounts
  <2>2. Cardinality(M) = Len(order')
    BY <1>7, AscendingCounts
  <2>3. K = DOMAIN msgs \cup {id} /\ M = (DOMAIN msgs \cup {id}) \ V
    BY <1>2, <1>6
  <2> HIDE DEF K, M, V, id
  <2>4. M = K \ V /\ K \cap V = V
    BY <1>2, <2>3
  <2>5. Cardinality(K \ V) = Cardinality(K) - Cardinality(K \cap V)
    BY <2>1, FS_Difference
  <2>6. Bbolt!Cardinality(V) = Cardinality(V)
    BY SameSize
  <2>7. Cardinality(V) \in Nat /\ Len(order) \in Nat
    BY <1>2, FS_CardinalityType DEF Typed
  <2>8. Len(order') = Cardinality(K) - Cardinality(V)
    BY <2>2, <2>4, <2>5
  <2> QED
    BY <2>1, <2>6, <2>7, <2>8
<1>11. {<<msgs[i].device, i>> : i \in DOMAIN msgs}' =
         ({<<msgs[i].device, i>> : i \in DOMAIN msgs} \cup {<<d, id>>})
           \ {<<known[v].device, v>> : v \in V}
  <2>1. known[id].device = d
    BY <1>2 DEF m, NewMessage
  <2>2. DOMAIN msgs' = (DOMAIN msgs \cup {id}) \ V
    BY <1>6
  <2>3. {<<msgs[i].device, i>> : i \in DOMAIN msgs}' =
          {<<known[i].device, i>> : i \in (DOMAIN msgs \cup {id}) \ V}
    <3>1. {<<msgs[i].device, i>> : i \in DOMAIN msgs}' = {<<msgs'[i].device, i>> : i \in DOMAIN msgs'}
      OBVIOUS
    <3>2. \A i \in (DOMAIN msgs \cup {id}) \ V : msgs'[i].device = known[i].device
      BY <1>6
    <3> QED
      BY <2>2, <3>1, <3>2
  <2>4. {<<msgs[i].device, i>> : i \in DOMAIN msgs} \cup {<<d, id>>} =
          {<<known[i].device, i>> : i \in DOMAIN msgs \cup {id}}
    <3>1. \A i \in DOMAIN msgs : msgs[i].device = known[i].device
      BY <1>2
    <3> HIDE DEF id
    <3> QED
      BY <2>1, <3>1
  <2>5. {<<known[i].device, i>> : i \in (DOMAIN msgs \cup {id}) \ V} =
          {<<known[i].device, i>> : i \in DOMAIN msgs \cup {id}} \ {<<known[v].device, v>> : v \in V}
    <3> HIDE DEF id, V
    <3> QED
      OBVIOUS
  <2> QED
    BY <2>3, <2>4, <2>5
<1>12. Bbolt!NoteRemoved(V \ {id})
  <2>1. V \ {id} = V
    BY <1>2
  <2>2. \A i \in V : known[i] = msgs[i]
    BY <1>2
  <2> QED
    BY <1>3, <2>1, <2>2 DEF NoteRemoved, Bbolt!NoteRemoved
<1>13. \A map : Drop(map, V) = Bbolt!Delete(map, V)
  BY DEF Drop, Bbolt!Delete, Bbolt!Restrict
<1>14. BboltLog' = Bbolt!AddDeletions(BboltLog, Bbolt!Singles(known, V))
  BY <1>5, LogIs
<1>15. t = NoTTL <=> t = Bbolt!NoTTL
  BY DEF NoTTL, Bbolt!NoTTL
<1> QED
  <2>1. Bbolt!Insert(d, x, b, t)
    <3>1. /\ msgs' = Bbolt!Delete(known, V)
          /\ expires' = Bbolt!Delete(IF t = Bbolt!NoTTL THEN expires ELSE Bbolt!Put(expires, id, now + t), V)
      BY <1>3, <1>8, <1>13, <1>15
    <3>2. known = Bbolt!Put(msgs, id, Bbolt!NewMessage(d, x, b, t)) /\ V = Bbolt!Evicted(known)
      BY <1>1, <1>2, <1>4
    <3> HIDE DEF V
    <3> QED
      BY <1>3, <1>10, <1>11, <1>12, <1>14, <3>1, <3>2 DEF Bbolt!Insert, BboltLog
  <2>2. Aged => Aged'
    BY <1>3, <1>5 DEF Aged
  <2> QED
    BY <1>9, <2>1, <2>2

(***************************************************************************)
(* The newest match.                                                       *)
(***************************************************************************)
LEMMA GreatestExists ==
  ASSUME NEW S \in SUBSET Nat, IsFiniteSet(S), S # {}
  PROVE  \E k \in S : \A j \in S : j <= k
<1> DEFINE s == Sorted(S)
           a == Cardinality(S)
<1>1. a \in Nat /\ s \in Seq(S) /\ DOMAIN s = 1 .. a /\ Range(s) = S /\ Ascending(s)
  BY SortedFacts
<1>2. a # 0
  BY FS_EmptySet
<1> HIDE DEF s, a
<1>3. a \in 1 .. a /\ s[a] \in S
  BY <1>1, <1>2
<1>4. ASSUME NEW j \in S
      PROVE  j <= s[a]
  <2>1. PICK n \in 1 .. a : s[n] = j
    BY <1>1 DEF Range
  <2>2. n = a \/ n < a
    BY <1>1, <2>1
  <2>3. n < a => s[n] < s[a]
    BY <1>1, <1>3 DEF Ascending
  <2>4. s[a] \in Nat /\ j \in Nat
    BY <1>3
  <2> QED
    BY <2>1, <2>2, <2>3, <2>4
<1> QED
  BY <1>3, <1>4

\* What is greatest is so alone.
LEMMA GreatestIs ==
  ASSUME NEW S \in SUBSET Nat, NEW k \in S, \A j \in S : j <= k
  PROVE  /\ Bbolt!Greatest(S) = k
         /\ (CHOOSE i \in S : \A j \in S : j <= i) = k
<1>1. ASSUME NEW i \in S, \A j \in S : j <= i
      PROVE  i = k
  <2>1. i <= k /\ k <= i /\ i \in Nat /\ k \in Nat
    BY <1>1
  <2> QED
    BY <2>1
<1> QED
  BY <1>1 DEF Bbolt!Greatest

LEMMA NewestIs ==
  ASSUME Typed, NEW d, NEW x
  PROVE  /\ Matches(d, x) = {} <=> Bbolt!Matches(d, x) = {}
         /\ Matches(d, x) # {} =>
              /\ Newest(Matches(d, x)) = Bbolt!Greatest(Bbolt!Matches(d, x))
              /\ Newest(Matches(d, x)) \in Bbolt!Matches(d, x)
<1> DEFINE places == Matches(d, x)
           ids    == Bbolt!Matches(d, x)
<1>1. /\ Len(order) \in Nat /\ DOMAIN order = 1 .. Len(order)
      /\ \A n \in DOMAIN order : order[n] \in Nat
      /\ Ascending(order) /\ Range(order) = DOMAIN msgs
  BY DEF Typed
<1>2. ids = {order[n] : n \in places}
  <2>1. ids = {id \in Range(order) : msgs[id].device = d /\ msgs[id].extraID = x}
    BY <1>1 DEF Bbolt!Matches
  <2> QED
    BY <2>1 DEF Matches, Range
<1>3. places \in SUBSET Nat /\ IsFiniteSet(places) /\ places \subseteq DOMAIN order
  <2>1. places \subseteq 1 .. Len(order) /\ IsFiniteSet(1 .. Len(order))
    BY <1>1, OneUpTo DEF Matches
  <2> QED
    BY <1>1, <2>1, FS_Subset
<1>4. ids \in SUBSET Nat
  BY <1>1, <1>2, <1>3
<1>5. ASSUME places # {}
      PROVE  Newest(places) = Bbolt!Greatest(ids) /\ Newest(places) \in ids
  <2>1. PICK n \in places : \A m \in places : m <= n
    BY <1>3, <1>5, GreatestExists
  <2>2. Newest(places) = order[n]
    <3> HIDE DEF places
    <3>1. (CHOOSE i \in places : \A m \in places : m <= i) = n
      BY <1>3, <2>1, GreatestIs
    <3> QED
      BY <3>1 DEF Newest
  <2>3. ASSUME NEW id \in ids
        PROVE  id <= order[n]
    <3>1. PICK m \in places : id = order[m]
      BY <1>2
    <3>2. m <= n /\ m \in Nat /\ n \in Nat /\ m \in DOMAIN order /\ n \in DOMAIN order
      BY <1>3, <2>1
    <3>3. m = n \/ m < n
      BY <3>2
    <3>4. m < n => order[m] < order[n]
      BY <1>1, <3>2 DEF Ascending
    <3> QED
      BY <1>1, <3>1, <3>2, <3>3, <3>4
  <2>4. order[n] \in ids
    BY <1>2
  <2> HIDE DEF ids, places
  <2> QED
    BY <1>4, <2>2, <2>3, <2>4, GreatestIs
<1> QED
  BY <1>2, <1>5

LEMMA UpsertIs ==
  ASSUME Typed, NEW d \in Devices, NEW x \in ExtraIDs, NEW b \in Bodies,
         NEW t \in TTLs \cup {NoTTL}, UpsertByExtraID(d, x, b, t)
  PROVE  Typed' /\ (Aged => Aged') /\ Bbolt!UpsertByExtraID(d, x, b, t)
<1>1. CASE Matches(d, x) = {}
  <2>1. up = TRUE /\ Insert(d, x, b, t)
    BY <1>1 DEF UpsertByExtraID, Typed
  <2>2. Typed' /\ (Aged => Aged') /\ Bbolt!Insert(d, x, b, t)
    BY <2>1, InsertIs
  <2>3. Bbolt!Matches(d, x) = {}
    BY <1>1, NewestIs
  <2> QED
    BY <2>1, <2>2, <2>3 DEF Bbolt!UpsertByExtraID
<1>2. CASE Matches(d, x) # {}
  <2> DEFINE id == Newest(Matches(d, x))
             m  == NewMessage(d, x, b, t)
  <2>1. /\ up = TRUE /\ msgs' = [msgs EXCEPT ![id] = m]
        /\ expires' = Deadlines(id, t)
        /\ UNCHANGED <<order, seq, dels, max, up, now, export, history>>
    BY <1>2 DEF UpsertByExtraID, Typed
  <2>2. id = Bbolt!Greatest(Bbolt!Matches(d, x)) /\ Bbolt!Matches(d, x) # {}
    BY <1>2, NewestIs
  <2>3. id \in DOMAIN msgs /\ msgs[id].device = d
    <3>1. id \in Bbolt!Matches(d, x)
      BY <1>2, NewestIs
    <3> QED
      BY <3>1 DEF Bbolt!Matches
  <2>4. /\ m \in Bbolt!Message /\ m = Bbolt!NewMessage(d, x, b, t) /\ m.device = d
        /\ (t # NoTTL => now + t \in Nat)
    <3>1. now \in Nat /\ (t # NoTTL => t \in Nat)
      BY MemAssumption DEF Typed
    <3> QED
      BY <3>1 DEF NewMessage, Bbolt!NewMessage, Bbolt!Message, NoTTL, NoID, Bbolt!NoTTL, Bbolt!NoID
  <2> HIDE DEF id, m
  <2>5. msgs' = Bbolt!Put(msgs, id, m)
    <3>1. DOMAIN msgs = DOMAIN msgs \cup {id} /\ msgs = [i \in DOMAIN msgs |-> msgs[i]]
      BY <2>3 DEF Typed
    <3> QED
      BY <2>1, <3>1 DEF Bbolt!Put
  <2>6. expires' = IF t = Bbolt!NoTTL THEN expires ELSE Bbolt!Put(expires, id, now + t)
    BY <2>1 DEF Deadlines, With, Bbolt!Put, NoTTL, Bbolt!NoTTL
  <2>7. /\ DOMAIN msgs' = DOMAIN msgs /\ msgs' \in [DOMAIN msgs -> Bbolt!Message]
        /\ \A i \in DOMAIN msgs : msgs'[i].device = msgs[i].device
    BY <2>1, <2>3, <2>4 DEF Typed
  <2>8. DOMAIN expires' \subseteq DOMAIN msgs /\ expires' \in [DOMAIN expires' -> Nat]
    <3>1. CASE t = NoTTL
      BY <2>1, <3>1 DEF Deadlines, Typed
    <3>2. CASE t # NoTTL
      <4>1. expires' = [i \in DOMAIN expires \cup {id} |-> IF i = id THEN now + t ELSE expires[i]]
        BY <2>1, <3>2 DEF Deadlines, With
      <4>2. DOMAIN expires \subseteq DOMAIN msgs /\ \A i \in DOMAIN expires : expires[i] \in Nat
        BY DEF Typed
      <4> QED
        BY <2>3, <2>4, <3>2, <4>1, <4>2
    <3> QED
      BY <3>1, <3>2
  <2>9. Typed'
    <3>1. /\ order' = order /\ seq' = seq /\ now' = now /\ up' = up /\ max' = max /\ dels' = dels
      BY <2>1
    <3>2. LogTyped(dels') /\ LogExact(dels')
      BY <3>1 DEF Typed
    <3> QED
      BY <2>1, <2>7, <2>8, <3>1, <3>2 DEF Typed
  <2>10. {<<msgs[i].device, i>> : i \in DOMAIN msgs}' = {<<msgs[i].device, i>> : i \in DOMAIN msgs}
    BY <2>7
  <2>11. BboltLog' = BboltLog
    BY <2>1, LogIs
  <2>13. Aged => Aged'
    <3>1. dels' = dels /\ now' = now
      BY <2>1
    <3> QED
      BY <3>1 DEF Aged
  <2>12. Bbolt!Overwrite(d, x, b, t)
    BY <2>1, <2>2, <2>4, <2>5, <2>6, <2>10, <2>11 DEF Bbolt!Overwrite, BboltLog, history, Bbolt!history
  <2> QED
    BY <2>1, <2>2, <2>9, <2>12, <2>13 DEF Bbolt!UpsertByExtraID
<1> QED
  BY <1>1, <1>2

(***************************************************************************)
(* The ways of removing messages.                                          *)
(***************************************************************************)
LEMMA DeleteByDeviceIs ==
  ASSUME Typed, NEW scope, NEW id, DeleteByDevice(scope, id)
  PROVE  Typed' /\ (Aged => Aged') /\ Bbolt!DeleteByDevice(scope, id)
<1>1. /\ up = TRUE /\ id \in DOMAIN msgs /\ InScope(scope, id)
      /\ RemoveLocked(msgs, {id})
      /\ dels' = AddDeletions(dels, Singles(msgs, <<id>>))
  BY DEF DeleteByDevice, Typed
<1>2. id \in Nat /\ KnownDevices(msgs) /\ now \in Nat /\ LogTyped(dels) /\ LogExact(dels)
  BY <1>1, TypedFacts DEF Typed
<1>3. <<id>> \in Seq(Nat) /\ Ascending(<<id>>) /\ Range(<<id>>) = {id}
  BY <1>2 DEF Ascending, Range
<1>4. /\ LogTyped(dels') /\ LogExact(dels') /\ (AgedLog(dels, now) => AgedLog(dels', now))
      /\ Buckets(dels') = Bbolt!AddDeletions(Buckets(dels), Bbolt!Singles(msgs, {id}))
  BY <1>1, <1>2, <1>3, SinglesAre
<1>5. Typed' /\ Bbolt!RemoveMessages({id}) /\ expires' = Bbolt!Delete(expires, {id})
  <2>1. up = TRUE /\ {id} \subseteq DOMAIN msgs /\ LogTyped(dels') /\ LogExact(dels')
    BY <1>1, <1>4
  <2>2. Typed'
    BY <1>1, <2>1, RemovedTyped
  <2>3. Bbolt!RemoveMessages({id}) /\ expires' = Bbolt!Delete(expires, {id})
    <3>1. Removed({id})
      BY <1>1, <2>1, RemovalIs
    <3> QED
      BY <3>1, SameSize, DropIsDelete DEF Removed, BboltLog, Bbolt!RemoveMessages, Bbolt!NoteRemoved, Bbolt!Less
  <2> QED
    BY <2>2, <2>3
<1>6. BboltLog' = Bbolt!AddDeletions(BboltLog, Bbolt!Singles(msgs, {id}))
  BY <1>4, LogIs
<1>7. Bbolt!InScope(scope, id)
  BY <1>1 DEF InScope, Bbolt!InScope, AnyDevice, Bbolt!Any
<1>8. Aged => Aged'
  BY <1>1, <1>4 DEF Aged, RemoveLocked
<1> QED
  BY <1>1, <1>5, <1>6, <1>7, <1>8 DEF Bbolt!DeleteByDevice, BboltLog

LEMMA DeleteByExtraIs ==
  ASSUME Typed, NEW d \in Devices, NEW x \in ExtraIDs, DeleteByExtraID(d, x)
  PROVE  Typed' /\ (Aged => Aged') /\ Bbolt!DeleteByExtraID(d, x)
<1> DEFINE ids    == IF Matches(d, x) = {} THEN <<>> ELSE <<Newest(Matches(d, x))>>
           gone   == IF Bbolt!Matches(d, x) = {} THEN {} ELSE {Bbolt!Greatest(Bbolt!Matches(d, x))}
           first  == AddDeletions(dels, Singles(msgs, ids))
           rec    == Record(d, "extra", x)
<1>1. /\ up = TRUE /\ dels.seq < MaxCursor
      /\ RemoveLocked(msgs, Range(ids))
      /\ dels' = AddDeletions(first, <<rec>>)
  BY DEF DeleteByExtraID, Typed
<1>2. /\ Range(ids) = gone /\ gone \subseteq DOMAIN msgs
      /\ ids \in Seq(Nat) /\ Ascending(ids)
  <2>1. CASE Matches(d, x) = {}
    <3>1. Bbolt!Matches(d, x) = {} /\ ids = <<>> /\ gone = {}
      BY <2>1, NewestIs
    <3> HIDE DEF ids, gone
    <3> QED
      BY <3>1 DEF Range, Ascending
  <2>2. CASE Matches(d, x) # {}
    <3> DEFINE id == Newest(Matches(d, x))
    <3>1. ids = <<id>> /\ gone = {id} /\ id \in Bbolt!Matches(d, x)
      BY <2>2, NewestIs
    <3> HIDE DEF ids, gone, id
    <3>2. id \in DOMAIN msgs /\ id \in Nat
      BY <3>1 DEF Bbolt!Matches, Typed
    <3> QED
      BY <3>1, <3>2 DEF Range, Ascending
  <2> QED
    BY <2>1, <2>2
<1> HIDE DEF ids
<1>3. KnownDevices(msgs) /\ now \in Nat /\ LogTyped(dels) /\ LogExact(dels)
  BY TypedFacts DEF Typed
<1>4. /\ LogTyped(first) /\ LogExact(first) /\ (AgedLog(dels, now) => AgedLog(first, now))
      /\ Buckets(first) = Bbolt!AddDeletions(Buckets(dels), Bbolt!Singles(msgs, gone))
  BY <1>2, <1>3, SinglesAre
<1> HIDE DEF first
<1>5. x \in Nat /\ rec.createdAt = now /\ rec \in Bbolt!Deletion /\ rec = Bbolt!Record(d, "extra", x)
  BY <1>3, MemAssumption DEF Record, Bbolt!Record, Bbolt!Deletion, Bbolt!Kinds
<1> HIDE DEF rec
<1>6. /\ LogTyped(dels') /\ LogExact(dels') /\ (AgedLog(first, now) => AgedLog(dels', now))
      /\ Buckets(dels') = Bbolt!AddDeletions(Buckets(first), [k \in {x} |-> rec])
  <2> DEFINE next == AddDeletions(first, <<rec>>)
             r    == [k \in {x} |-> rec]
  <2>1. /\ now \in Nat /\ LogTyped(first) /\ LogExact(first)
        /\ x \in Nat /\ rec.createdAt = now /\ rec \in Bbolt!Deletion
        /\ r \in [{x} -> Bbolt!Deletion] /\ r[x] = rec
    BY <1>3, <1>4, <1>5
  <2>2. /\ LogTyped(next) /\ LogExact(next) /\ (AgedLog(first, now) => AgedLog(next, now))
        /\ Buckets(next) = Bbolt!AddDeletions(Buckets(first), r)
    <3> HIDE DEF r
    <3> QED
      BY <2>1, OneRecordIs
  <2>3. dels' = next
    BY <1>1
  <2> HIDE DEF next
  <2> QED
    BY <2>2, <2>3
<1>7. Typed' /\ Bbolt!RemoveMessages(gone) /\ expires' = Bbolt!Delete(expires, gone)
  <2> HIDE DEF gone
  <2>1. Typed'
    BY <1>1, <1>2, <1>6, RemovedTyped
  <2>2. up = TRUE /\ RemoveLocked(msgs, gone)
    BY <1>1, <1>2
  <2>3. Bbolt!RemoveMessages(gone) /\ expires' = Bbolt!Delete(expires, gone)
    <3>1. gone \subseteq DOMAIN msgs /\ LogTyped(dels') /\ LogExact(dels')
      BY <1>2, <1>6
    <3>2. Removed(gone)
      BY <2>2, <3>1, RemovalIs
    <3> QED
      BY <3>2, SameSize, DropIsDelete DEF Removed, BboltLog, Bbolt!RemoveMessages, Bbolt!NoteRemoved, Bbolt!Less
  <2> QED
    BY <2>1, <2>3
<1>8. BboltLog' = Bbolt!AddDeletions(Bbolt!AddDeletions(BboltLog, Bbolt!Singles(msgs, gone)),
                                     [k \in {x} |-> Bbolt!Record(d, "extra", x)])
  BY <1>4, <1>5, <1>6, LogIs
<1>9. BboltLog.seq < MaxCursor
  BY <1>1 DEF BboltLog
<1>10. Aged => Aged'
  BY <1>1, <1>4, <1>6 DEF Aged, RemoveLocked
<1> QED
  BY <1>1, <1>7, <1>8, <1>9, <1>10 DEF Bbolt!DeleteByExtraID, BboltLog

LEMMA CeilingIs ==
  ASSUME Typed, NEW ids, ids \subseteq DOMAIN msgs, NEW d, NEW i \in ids, msgs[i].device = d
  PROVE  Ceiling(d, ids) = Bbolt!Ceiling(d, ids) /\ Ceiling(d, ids) \in Nat
<1> DEFINE mine == {id \in ids : msgs[id].device = d}
<1>1. DOMAIN msgs \in SUBSET Nat /\ IsFiniteSet(DOMAIN msgs)
  BY TypedFacts
<1>2. mine \in SUBSET Nat /\ IsFiniteSet(mine) /\ mine # {}
  BY <1>1, FS_Subset, mine \in SUBSET DOMAIN msgs
<1>3. PICK k \in mine : \A j \in mine : j <= k
  BY <1>2, GreatestExists
<1>4. Bbolt!Ceiling(d, ids) = k
  BY <1>2, <1>3, GreatestIs DEF Bbolt!Ceiling
<1>5. Ceiling(d, ids) = k
  <2>1. ASSUME NEW id \in ids, msgs[id].device = d,
               \A j \in ids : msgs[j].device = d => j <= id
        PROVE  id = k
    <3>1. id <= k /\ k <= id /\ id \in Nat /\ k \in Nat
      BY <1>2, <1>3, <2>1
    <3> QED
      BY <3>1
  <2> QED
    BY <1>3, <2>1 DEF Ceiling
<1> QED
  BY <1>2, <1>4, <1>5

LEMMA DeleteAllIs ==
  ASSUME Typed, NEW scope, DeleteAllByDevice(scope)
  PROVE  Typed' /\ (Aged => Aged') /\ Bbolt!DeleteAllByDevice(scope)
<1> DEFINE ids      == {id \in DOMAIN msgs : Bbolt!InScope(scope, id)}
           affected == {msgs[id].device : id \in ids}
           r        == [d \in affected |-> Record(d, "purge", Ceiling(d, ids))]
<1>1. /\ up = TRUE /\ ids # {} /\ RemoveLocked(msgs, ids)
      /\ dels' = AddDeletions(dels, PerDevice(r))
  <2> DEFINE mine == {id \in DOMAIN msgs : InScope(scope, id)}
  <2>1. mine = ids
    BY DEF InScope, Bbolt!InScope, AnyDevice, Bbolt!Any
  <2>2. /\ up = TRUE /\ mine # {} /\ RemoveLocked(msgs, mine)
        /\ dels' = AddDeletions(dels, PerDevice(
                     [d \in {msgs[id].device : id \in mine} |-> Record(d, "purge", Ceiling(d, mine))]))
    BY DEF DeleteAllByDevice, Typed
  <2> HIDE DEF mine, ids
  <2> QED
    BY <2>1, <2>2
<1>2. ids \subseteq DOMAIN msgs
  OBVIOUS
<1> HIDE DEF ids
<1>3. affected \subseteq Devices /\ now \in Nat /\ LogTyped(dels) /\ LogExact(dels)
  BY <1>2, TypedFacts DEF Typed, KnownDevices
<1>4. ASSUME NEW d \in affected
      PROVE  /\ r[d] \in Bbolt!Deletion /\ r[d].kind = "purge" /\ r[d].createdAt = now
             /\ r[d] = Bbolt!Record(d, "purge", Bbolt!Ceiling(d, ids))
  <2>1. PICK i \in ids : msgs[i].device = d
    OBVIOUS
  <2>2. Ceiling(d, ids) = Bbolt!Ceiling(d, ids) /\ Ceiling(d, ids) \in Nat
    BY <1>2, <2>1, CeilingIs
  <2> QED
    BY <1>3, <2>2 DEF Record, Bbolt!Record, Bbolt!Deletion, Bbolt!Kinds
<1>5. r = [d \in affected |-> Bbolt!Record(d, "purge", Bbolt!Ceiling(d, ids))]
  <2>1. r = [d \in affected |-> r[d]]
    OBVIOUS
  <2> HIDE DEF r, affected
  <2> QED
    BY <1>4, <2>1
<1>6. r \in [affected -> Bbolt!Deletion] /\ \A d \in affected : r[d].kind # "single" /\ r[d].createdAt = now
  BY <1>4
<1> HIDE DEF r, affected
<1>7. /\ LogTyped(dels') /\ LogExact(dels') /\ (AgedLog(dels, now) => AgedLog(dels', now))
      /\ Buckets(dels') = Bbolt!AddDeletions(Buckets(dels), r)
  BY <1>1, <1>3, <1>6, PerDeviceAre
<1>8. Typed' /\ Bbolt!RemoveMessages(ids) /\ expires' = Bbolt!Delete(expires, ids)
  <2>1. Typed'
    BY <1>1, <1>2, <1>7, RemovedTyped
  <2>2. Bbolt!RemoveMessages(ids) /\ expires' = Bbolt!Delete(expires, ids)
    <3>1. up = TRUE /\ RemoveLocked(msgs, ids) /\ LogTyped(dels') /\ LogExact(dels')
      BY <1>1, <1>7
    <3>2. Removed(ids)
      BY <1>2, <3>1, RemovalIs
    <3> QED
      BY <3>2, SameSize, DropIsDelete DEF Removed, BboltLog, Bbolt!RemoveMessages, Bbolt!NoteRemoved, Bbolt!Less
  <2> QED
    BY <2>1, <2>2
<1>9. BboltLog' = Bbolt!AddDeletions(BboltLog, r)
  BY <1>7, LogIs
<1> QED
  <2>1. Bbolt!DeleteAllByDevice(scope)
    <3>1. BboltLog' = Bbolt!AddDeletions(BboltLog,
            [d \in {msgs[id].device : id \in ids} |-> Bbolt!Record(d, "purge", Bbolt!Ceiling(d, ids))])
      BY <1>5, <1>9 DEF affected
    <3> QED
      BY <1>1, <1>8, <3>1 DEF Bbolt!DeleteAllByDevice, BboltLog, ids
  <2>2. Aged => Aged'
    BY <1>1, <1>7 DEF Aged, RemoveLocked
  <2> QED
    BY <1>8, <2>1, <2>2

LEMMA ExpireIs ==
  ASSUME Typed, ExpireMessages
  PROVE  Typed' /\ (Aged => Aged') /\ Bbolt!ExpireMessages
<1> DEFINE overdue == {id \in DOMAIN expires : expires[id] <= now}
           ids     == overdue \cap DOMAIN msgs
           due     == Only(order, overdue)
<1>1. up = TRUE /\ RemoveLocked(msgs, Range(due)) /\ dels' = AddDeletions(dels, Singles(msgs, due))
  BY DEF ExpireMessages, Typed
<1>2. /\ due \in Seq(Nat) /\ Ascending(due) /\ Range(due) = ids
      /\ ids \subseteq DOMAIN msgs /\ overdue = ids
  <2>1. due \in Seq(Nat) /\ Ascending(due) /\ Range(due) = Range(order) \cap overdue
    BY OnlyAscends DEF Typed
  <2>2. overdue \subseteq DOMAIN msgs /\ Range(order) = DOMAIN msgs
    BY DEF Typed
  <2> HIDE DEF overdue, due
  <2> QED
    BY <2>1, <2>2
<1> HIDE DEF due, overdue, ids
<1>3. KnownDevices(msgs) /\ now \in Nat /\ LogTyped(dels) /\ LogExact(dels)
  BY TypedFacts DEF Typed
<1>4. /\ LogTyped(dels') /\ LogExact(dels') /\ (AgedLog(dels, now) => AgedLog(dels', now))
      /\ Buckets(dels') = Bbolt!AddDeletions(Buckets(dels), Bbolt!Singles(msgs, ids))
  BY <1>1, <1>2, <1>3, SinglesAre
<1>5. RemoveLocked(msgs, ids)
  BY <1>1, <1>2
<1>6. Typed'
  BY <1>1, <1>2, <1>4, <1>5, RemovedTyped
<1>7. Bbolt!RemoveMessages(ids)
  <2>1. up = TRUE /\ ids \subseteq DOMAIN msgs /\ LogTyped(dels') /\ LogExact(dels')
    BY <1>1, <1>2, <1>4
  <2>2. Removed(ids)
    BY <1>5, <2>1, RemovalIs
  <2> QED
    BY <2>2, SameSize, DropIsDelete DEF Removed, BboltLog, Bbolt!RemoveMessages, Bbolt!NoteRemoved, Bbolt!Less
<1>8. expires' = Bbolt!Delete(expires, overdue)
  BY <1>1, <1>2, <1>4, <1>5, RemovalIs, DropIsDelete DEF Removed
<1>9. BboltLog' = Bbolt!AddDeletions(BboltLog, Bbolt!Singles(msgs, ids))
  BY <1>4, LogIs
<1>10. Aged => Aged'
  BY <1>1, <1>4 DEF Aged, RemoveLocked
<1> QED
  BY <1>1, <1>6, <1>7, <1>8, <1>9, <1>10 DEF Bbolt!ExpireMessages, BboltLog, ids, overdue

(***************************************************************************)
(* The retention sweep.  What stays of the log is the log with those rows  *)
(* dropped.                                                                *)
(***************************************************************************)
LEMMA RowsOf ==
  ASSUME NEW lg, LogTyped(lg)
  PROVE  /\ \A row \in Range(lg.rows) :
              /\ row \in Row /\ row.rec \in Bbolt!Deletion
              /\ row.cursor \in Nat /\ row.cursor <= lg.seq
              /\ row.cursor \in CursorsOf(lg) /\ RecAt(lg, row.cursor) = row.rec
         /\ \A r, s \in Range(lg.rows) : r.cursor = s.cursor => r = s
         /\ CursorsOf(lg) = {row.cursor : row \in Range(lg.rows)}
<1>1. ASSUME NEW row \in Range(lg.rows)
      PROVE  /\ row \in Row /\ row.rec \in Bbolt!Deletion
             /\ row.cursor \in Nat /\ row.cursor <= lg.seq
             /\ row.cursor \in CursorsOf(lg) /\ RecAt(lg, row.cursor) = row.rec
  <2>1. PICK n \in DOMAIN lg.rows : row = lg.rows[n]
    BY DEF Range
  <2> QED
    BY <2>1, RecAtCursor
<1>2. ASSUME NEW r \in Range(lg.rows), NEW s \in Range(lg.rows), r.cursor = s.cursor
      PROVE  r = s
  <2>1. r = [cursor |-> r.cursor, rec |-> r.rec] /\ s = [cursor |-> s.cursor, rec |-> s.rec]
    BY <1>1 DEF Row
  <2>2. r.rec = s.rec
    BY <1>1, <1>2
  <2> QED
    BY <1>2, <2>1, <2>2
<1>3. CursorsOf(lg) = {row.cursor : row \in Range(lg.rows)}
  BY DEF CursorsOf, Range
<1> QED
  BY <1>1, <1>2, <1>3

LEMMA KeptTyped ==
  ASSUME LogTyped(dels), LogExact(dels), NEW old, old \subseteq Range(dels.rows)
  PROVE  LET kept == Kept(old)
         IN /\ LogTyped(kept) /\ LogExact(kept) /\ kept.seq = dels.seq
            /\ Range(kept.rows) = Range(dels.rows) \ old
            /\ kept.keys = dels.keys \ {Key(row.rec) : row \in {r \in old : r.rec.kind = "single"}}
            /\ \A t : AgedLog(dels, t) => AgedLog(kept, t)
<1> DEFINE rest == Range(dels.rows) \ old
           gone == {Key(row.rec) : row \in {r \in old : r.rec.kind = "single"}}
           kept == Kept(old)
<1>1. dels.rows \in Seq(Row) /\ dels.seq \in Nat /\ dels.keys \subseteq Devices \X Nat
  BY DEF LogTyped
<1> HIDE DEF rest
<1>2. PICK p \in Seq(DOMAIN dels.rows) :
        /\ Ascending(p)
        /\ Only(dels.rows, rest) = [n \in 1 .. Len(p) |-> dels.rows[p[n]]]
        /\ Only(dels.rows, rest) \in Seq(Row)
        /\ DOMAIN Only(dels.rows, rest) = 1 .. Len(p)
        /\ Range(Only(dels.rows, rest)) = Range(dels.rows) \cap rest
  BY <1>1, OnlyFacts
<1>3. kept = [seq |-> dels.seq, rows |-> Only(dels.rows, rest), keys |-> dels.keys \ gone]
  <2>1. ASSUME NEW T, NEW U, NEW lg \in [seq : Nat, rows : T, keys : U], NEW r, NEW k
        PROVE  [lg EXCEPT !.rows = r, !.keys = k] = [seq |-> lg.seq, rows |-> r, keys |-> k]
    <3> DEFINE half == [lg EXCEPT !.rows = r]
    <3>1. half \in [seq : Nat, rows : {r}, keys : U] /\ half.seq = lg.seq
      OBVIOUS
    <3> HIDE DEF half
    <3>2. [half EXCEPT !.keys = k] = [seq |-> half.seq, rows |-> half.rows, keys |-> k] /\ half.rows = r
      BY <3>1
    <3> QED
      BY <3>1, <3>2 DEF half
  <2>2. dels \in [seq : Nat, rows : Seq(Row), keys : SUBSET (Devices \X Nat)]
    BY DEF LogTyped
  <2>3. kept = [dels EXCEPT !.rows = Only(dels.rows, rest), !.keys = dels.keys \ gone]
    BY DEF Kept, rest
  <2> HIDE DEF kept, gone
  <2> QED
    BY <2>1, <2>2, <2>3
<1> HIDE DEF kept, gone
<1>4. /\ kept.rows \in Seq(Row) /\ DOMAIN kept.rows = 1 .. Len(p)
      /\ kept.seq = dels.seq /\ kept.keys = dels.keys \ gone
      /\ Range(kept.rows) = rest
      /\ \A n \in 1 .. Len(p) : kept.rows[n] = dels.rows[p[n]]
  BY <1>2, <1>3 DEF rest
<1>5. /\ \A n \in 1 .. Len(p) : p[n] \in DOMAIN dels.rows /\ p[n] \in Nat /\ n \in Nat
      /\ \A m, n \in 1 .. Len(p) : m < n => p[m] < p[n]
  BY <1>1, <1>2 DEF Ascending
<1>6. LogTyped(kept)
  <2>1. kept \in [seq : Nat, rows : Seq(Row), keys : SUBSET (Devices \X Nat)]
    BY <1>1, <1>2, <1>3
  <2>2. \A m, n \in DOMAIN kept.rows : m < n => kept.rows[m].cursor < kept.rows[n].cursor
    BY <1>4, <1>5 DEF LogTyped
  <2>3. \A n \in DOMAIN kept.rows : kept.rows[n].cursor <= kept.seq
    BY <1>4, <1>5 DEF LogTyped
  <2> QED
    BY <2>1, <2>2, <2>3 DEF LogTyped
<1>10. ASSUME NEW i \in DOMAIN dels.rows, NEW j \in DOMAIN dels.rows,
              dels.rows[i].rec.kind = "single", dels.rows[j].rec.kind = "single",
              Key(dels.rows[i].rec) = Key(dels.rows[j].rec)
       PROVE  i = j
  BY <1>10 DEF LogExact, SinglesDiffer
<1>7. SinglesDiffer([n \in DOMAIN kept.rows |-> kept.rows[n].rec])
  <2>1. ASSUME NEW m \in 1 .. Len(p), NEW n \in 1 .. Len(p),
               kept.rows[m].rec.kind = "single", kept.rows[n].rec.kind = "single",
               Key(kept.rows[m].rec) = Key(kept.rows[n].rec)
        PROVE  m = n
    <3>1. p[m] = p[n]
      BY <1>4, <1>5, <1>10, <2>1
    <3>2. ~ (m < n) /\ ~ (n < m)
      BY <1>5, <3>1
    <3> QED
      BY <1>5, <3>2
  <2> QED
    BY <1>4, <2>1 DEF SinglesDiffer
<1>8. kept.keys = {Key(row.rec) : row \in {r \in Range(kept.rows) : r.rec.kind = "single"}}
  <2>1. dels.keys = {Key(row.rec) : row \in {r \in Range(dels.rows) : r.rec.kind = "single"}}
    BY DEF LogExact
  <2>2. ASSUME NEW r \in Range(dels.rows), NEW s \in Range(dels.rows),
               r.rec.kind = "single", s.rec.kind = "single", Key(r.rec) = Key(s.rec)
        PROVE  r = s
    <3>1. PICK m \in DOMAIN dels.rows : r = dels.rows[m]
      BY DEF Range
    <3>2. PICK n \in DOMAIN dels.rows : s = dels.rows[n]
      BY DEF Range
    <3>3. m = n
      BY <1>10, <2>2, <3>1, <3>2
    <3> QED
      BY <3>1, <3>2, <3>3
  <2>3. ASSUME NEW row \in rest, row.rec.kind = "single"
        PROVE  Key(row.rec) \in dels.keys \ gone
    BY <2>1, <2>2, <2>3 DEF gone, rest
  <2>4. ASSUME NEW key \in dels.keys \ gone
        PROVE  \E row \in rest : row.rec.kind = "single" /\ key = Key(row.rec)
    BY <2>1 DEF gone, rest
  <2> QED
    BY <1>4, <2>3, <2>4
<1>9. ASSUME NEW t, AgedLog(dels, t)
      PROVE  AgedLog(kept, t)
  BY <1>4, <1>5, <1>9 DEF AgedLog
<1> QED
  BY <1>4, <1>6, <1>7, <1>8, <1>9 DEF LogExact, kept, rest, gone

LEMMA KeptIs ==
  ASSUME LogTyped(dels), LogExact(dels), NEW old, old \subseteq Range(dels.rows)
  PROVE  Buckets(Kept(old)) = Bbolt!DropRows(Buckets(dels), {row.cursor : row \in old})
<1> DEFINE O     == {row.cursor : row \in old}
           kept  == Kept(old)
           rows  == Bbolt!Delete(Buckets(dels).rows, O)
           byDev == Buckets(dels).byDev \ {<<Buckets(dels).rows[c].device, c>> : c \in O}
<1>1. /\ LogTyped(kept) /\ kept.seq = dels.seq
      /\ Range(kept.rows) = Range(dels.rows) \ old
      /\ kept.keys = dels.keys \ {Key(row.rec) : row \in {r \in old : r.rec.kind = "single"}}
  BY KeptTyped
<1> HIDE DEF kept
<1>2. /\ \A c \in CursorsOf(dels) : Buckets(dels).rows[c] = RecAt(dels, c)
      /\ DOMAIN Buckets(dels).rows = CursorsOf(dels)
  BY DEF Buckets
<1>3. O \subseteq CursorsOf(dels) /\ CursorsOf(kept) = CursorsOf(dels) \ O
  <2>1. CursorsOf(dels) = {row.cursor : row \in Range(dels.rows)}
    BY RowsOf
  <2>2. CursorsOf(kept) = {row.cursor : row \in Range(dels.rows) \ old}
    BY <1>1, RowsOf
  <2>3. \A r, s \in Range(dels.rows) : r.cursor = s.cursor => r = s
    BY RowsOf
  <2> QED
    BY <2>1, <2>2, <2>3
<1>4. /\ rows = [c \in CursorsOf(kept) |-> rows[c]]
      /\ \A c \in CursorsOf(kept) : rows[c] = RecAt(dels, c)
  <2>1. rows = [c \in CursorsOf(dels) \ O |-> Buckets(dels).rows[c]]
    BY <1>2 DEF Bbolt!Delete, Bbolt!Restrict
  <2> HIDE DEF rows, O
  <2> QED
    BY <1>2, <1>3, <2>1
<1>5. ASSUME NEW n \in DOMAIN kept.rows
      PROVE  rows[kept.rows[n].cursor] = kept.rows[n].rec
  <2>1. kept.rows[n] \in Range(kept.rows)
    BY DEF Range
  <2>2. kept.rows[n].cursor \in CursorsOf(kept) /\ kept.rows[n] \in Range(dels.rows)
    BY <1>1, <2>1, RowsOf
  <2>3. RecAt(dels, kept.rows[n].cursor) = kept.rows[n].rec
    BY <2>2, RowsOf
  <2> HIDE DEF rows
  <2> QED
    BY <1>4, <2>2, <2>3
<1>6. byDev = {<<rows[c].device, c>> : c \in CursorsOf(kept)}
  <2>1. Buckets(dels).byDev = {<<RecAt(dels, c).device, c>> : c \in CursorsOf(dels)}
    BY DEF Buckets
  <2> HIDE DEF rows, O
  <2>2. {<<Buckets(dels).rows[c].device, c>> : c \in O} = {<<RecAt(dels, c).device, c>> : c \in O}
    BY <1>2, <1>3
  <2>3. {<<rows[c].device, c>> : c \in CursorsOf(kept)} =
          {<<RecAt(dels, c).device, c>> : c \in CursorsOf(dels) \ O}
    BY <1>3, <1>4
  <2> QED
    BY <1>3, <2>1, <2>2, <2>3
<1>7. {Key(row.rec) : row \in {r \in old : r.rec.kind = "single"}} =
        {Bbolt!MsgKey(Buckets(dels).rows[c]) :
           c \in {e \in O : Buckets(dels).rows[e].kind = "single"}}
  <2>1. \A row \in old : row.cursor \in O /\ Buckets(dels).rows[row.cursor] = row.rec
    BY <1>2, RowsOf
  <2>2. \A rec : Bbolt!MsgKey(rec) = Key(rec)
    BY DEF Bbolt!MsgKey, Key
  <2>3. \A c \in O : \E row \in old : c = row.cursor
    OBVIOUS
  <2> HIDE DEF O
  <2> QED
    BY <2>1, <2>2, <2>3
<1>8. Buckets(kept) = [seq |-> kept.seq, rows |-> rows, byDev |-> byDev, byMsg |-> kept.keys]
  <2> HIDE DEF rows, byDev
  <2> QED
    BY <1>1, <1>4, <1>5, <1>6, BucketsAre
<1>9. Buckets(dels).byMsg = dels.keys /\ Buckets(dels).seq = dels.seq
  BY DEF Buckets
<1>10. Bbolt!DropRows(Buckets(dels), O) =
         [seq |-> Buckets(dels).seq, rows |-> rows, byDev |-> byDev,
          byMsg |-> Buckets(dels).byMsg \
            {Bbolt!MsgKey(Buckets(dels).rows[c]) :
               c \in {e \in O : Buckets(dels).rows[e].kind = "single"}}]
  BY DEF Bbolt!DropRows
<1> QED
  <2> HIDE DEF rows, byDev, O
  <2>1. Buckets(kept) = Bbolt!DropRows(Buckets(dels), O)
    BY <1>1, <1>7, <1>8, <1>9, <1>10
  <2> QED
    BY <2>1 DEF kept, O

(***************************************************************************)
(* While the clock runs forward, what is too old lies at the beginning of  *)
(* the log, and going on after the first fresh row makes no difference.    *)
(***************************************************************************)
LEMMA OldRowsAre ==
  ASSUME Typed, Aged
  PROVE  {row.cursor : row \in OldRows} = Bbolt!OldRows
<1> DEFINE T     == Buckets(dels).rows
           limit == now - Retention
           O     == {row.cursor : row \in OldRows}
<1>1. LogTyped(dels) /\ BboltLog = Buckets(dels)
  BY LogIs DEF Typed
<1>2. /\ DOMAIN T = {row.cursor : row \in Range(dels.rows)}
      /\ \A row \in Range(dels.rows) : T[row.cursor] = row.rec
  BY <1>1, RowsOf DEF Buckets
<1>3. Bbolt!OldRows = {c \in DOMAIN T : \A e \in DOMAIN T : e <= c => T[e].createdAt < limit}
  BY <1>1 DEF Bbolt!OldRows, Bbolt!Stale, BboltLog
<1> HIDE DEF T
<1>4. limit \in Int
  BY MemAssumption DEF Typed
<1>5. ASSUME NEW row \in Range(dels.rows), NEW earlier \in Range(dels.rows),
             earlier.cursor <= row.cursor
      PROVE  /\ earlier.rec.createdAt <= row.rec.createdAt
             /\ earlier.rec.createdAt \in Nat /\ row.rec.createdAt \in Nat
  <2>1. PICK m \in DOMAIN dels.rows : row = dels.rows[m]
    BY DEF Range
  <2>2. PICK n \in DOMAIN dels.rows : earlier = dels.rows[n]
    BY DEF Range
  <2>3. /\ earlier.rec \in Bbolt!Deletion /\ row.rec \in Bbolt!Deletion
        /\ earlier.cursor \in Nat /\ row.cursor \in Nat /\ m \in Nat /\ n \in Nat
    BY <1>1, <2>1, <2>2, RecAtCursor, RowsOf
  <2>4. earlier.rec.createdAt \in Nat /\ row.rec.createdAt \in Nat
    BY <2>3 DEF Bbolt!Deletion
  <2>5. ~ (m < n)
    <3>1. m < n => row.cursor < earlier.cursor
      BY <1>1, <2>1, <2>2 DEF LogTyped
    <3> QED
      BY <1>5, <2>3, <3>1
  <2>6. n < m => earlier.rec.createdAt <= row.rec.createdAt
    BY <2>1, <2>2 DEF Aged, AgedLog
  <2> QED
    BY <2>1, <2>2, <2>3, <2>4, <2>5, <2>6
<1> HIDE DEF limit
<1>6. OldRows = {row \in Range(dels.rows) : row.rec.createdAt < limit}
  BY DEF OldRows, Stale, limit
<1>7. ASSUME NEW c \in O
      PROVE  c \in Bbolt!OldRows
  <2>1. PICK row \in Range(dels.rows) : row.rec.createdAt < limit /\ c = row.cursor
    BY <1>6
  <2>2. ASSUME NEW e \in DOMAIN T, e <= c
        PROVE  T[e].createdAt < limit
    <3>1. PICK earlier \in Range(dels.rows) : e = earlier.cursor
      BY <1>2
    <3>2. /\ earlier.rec.createdAt <= row.rec.createdAt
          /\ earlier.rec.createdAt \in Nat /\ row.rec.createdAt \in Nat
      BY <1>5, <2>1, <2>2, <3>1
    <3> QED
      BY <1>2, <1>4, <2>1, <3>1, <3>2
  <2> QED
    BY <1>2, <1>3, <2>1, <2>2
<1>8. ASSUME NEW c \in Bbolt!OldRows
      PROVE  c \in O
  <2>1. PICK row \in Range(dels.rows) : c = row.cursor
    BY <1>2, <1>3
  <2>2. c <= c
    BY <1>1, <2>1, RowsOf
  <2>3. row.rec.createdAt < limit
    BY <1>2, <1>3, <2>1, <2>2
  <2> QED
    BY <1>6, <2>1, <2>3
<1> QED
  BY <1>7, <1>8

(***************************************************************************)
(* The bbolt store marks the devices before it drops the rows, this one    *)
(* after: the log comes out the same.                                      *)
(***************************************************************************)
LEMMA DropThenAdd ==
  ASSUME LogTyped(dels), NEW O, O \subseteq CursorsOf(dels), NEW D, D \subseteq Devices,
         NEW r \in [D -> Bbolt!Deletion], \A d \in D : r[d].kind # "single"
  PROVE  Bbolt!AddDeletions(Bbolt!DropRows(Buckets(dels), O), r)
           = Bbolt!DropRows(Bbolt!AddDeletions(Buckets(dels), r), O)
<1> DEFINE B      == Buckets(dels)
           L      == Bbolt!DropRows(B, O)
           cursor == [k \in D |-> B.seq + Bbolt!Rank(k, D)]
           added  == {cursor[k] : k \in D}
           pairs  == {<<r[k].device, cursor[k]>> : k \in D}
           R      == [c \in DOMAIN B.rows \cup added |->
                        IF c \in added THEN r[CHOOSE k \in D : cursor[k] = c] ELSE B.rows[c]]
           M      == [c \in DOMAIN L.rows \cup added |->
                        IF c \in added THEN r[CHOOSE k \in D : cursor[k] = c] ELSE L.rows[c]]
           keys   == {Bbolt!MsgKey(B.rows[c]) : c \in {e \in O : B.rows[e].kind = "single"}}
           byDev  == {<<B.rows[c].device, c>> : c \in O}
<1>1. DOMAIN B.rows = CursorsOf(dels) /\ B.seq = dels.seq /\ B.seq \in Nat
  BY DEF Buckets, LogTyped
<1>2. \A c \in CursorsOf(dels) : c \in Nat /\ c <= B.seq
  BY <1>1, RecAtCursor DEF CursorsOf
<1> HIDE DEF B
<1>3. /\ L.seq = B.seq /\ L.byDev = B.byDev \ byDev /\ L.byMsg = B.byMsg \ keys
      /\ L.rows = [c \in DOMAIN B.rows \ O |-> B.rows[c]]
  BY DEF Bbolt!DropRows, Bbolt!Delete, Bbolt!Restrict
<1> HIDE DEF L
<1>4. ASSUME NEW lg
      PROVE  Bbolt!Fresh(lg, r) = D
  BY DEF Bbolt!Fresh, Bbolt!Logged
<1>5. ASSUME NEW lg, lg.seq = B.seq
      PROVE  Bbolt!Cursors(lg, r) = cursor
  BY <1>4, <1>5 DEF Bbolt!Cursors
<1>6. \A k \in D : cursor[k] \in Nat /\ cursor[k] > B.seq
  <2>1. D \in SUBSET Nat /\ IsFiniteSet(D)
    BY MemAssumption, FS_Subset
  <2>2. ASSUME NEW k \in D
        PROVE  Bbolt!Rank(k, D) \in Nat \ {0}
    <3>1. Cardinality({j \in D : j <= k}) \in 1 .. Cardinality(D) /\ Cardinality(D) \in Nat
      BY <2>1, CountingUp, FS_CardinalityType
    <3> QED
      BY <3>1, SameSize DEF Bbolt!Rank
  <2> QED
    BY <1>1, <2>2
<1>7. added \cap O = {} /\ added \cap DOMAIN B.rows = {}
  BY <1>1, <1>2, <1>6
<1>8. {Bbolt!MsgKey(r[k]) : k \in {j \in D : r[j].kind = "single"}} = {}
  OBVIOUS
<1>9. ASSUME NEW lg, lg.seq = B.seq
      PROVE  Bbolt!AddDeletions(lg, r) =
               [seq |-> B.seq + Bbolt!Cardinality(D),
                rows |-> [c \in DOMAIN lg.rows \cup added |->
                            IF c \in added THEN r[CHOOSE k \in D : cursor[k] = c] ELSE lg.rows[c]],
                byDev |-> lg.byDev \cup pairs, byMsg |-> lg.byMsg]
  <2> DEFINE F == Bbolt!Fresh(lg, r)
             C == Bbolt!Cursors(lg, r)
  <2>1. Bbolt!AddDeletions(lg, r) =
          [seq |-> lg.seq + Bbolt!Cardinality(F),
           rows |-> [c \in DOMAIN lg.rows \cup {C[k] : k \in F} |->
                       IF c \in {C[k] : k \in F} THEN r[CHOOSE k \in F : C[k] = c] ELSE lg.rows[c]],
           byDev |-> lg.byDev \cup {<<r[k].device, C[k]>> : k \in F},
           byMsg |-> lg.byMsg \cup {Bbolt!MsgKey(r[k]) : k \in {j \in F : r[j].kind = "single"}}]
    BY DEF Bbolt!AddDeletions
  <2>2. F = D /\ C = cursor
    BY <1>4, <1>5, <1>9
  <2> HIDE DEF F, C, cursor
  <2>3. {C[k] : k \in F} = added
    BY <2>2
  <2>4. {<<r[k].device, C[k]>> : k \in F} = pairs
    BY <2>2
  <2>5. {Bbolt!MsgKey(r[k]) : k \in {j \in F : r[j].kind = "single"}} = {}
    BY <1>8, <2>2
  <2>6. ASSUME NEW c
        PROVE  (CHOOSE k \in F : C[k] = c) = (CHOOSE k \in D : cursor[k] = c)
    BY <2>2
  <2> HIDE DEF added, pairs
  <2> DEFINE X == [c \in DOMAIN lg.rows \cup {C[k] : k \in F} |->
                    IF c \in {C[k] : k \in F} THEN r[CHOOSE k \in F : C[k] = c] ELSE lg.rows[c]]
             Y == [c \in DOMAIN lg.rows \cup added |->
                    IF c \in added THEN r[CHOOSE k \in D : cursor[k] = c] ELSE lg.rows[c]]
  <2>7. X = Y
    <3>1. DOMAIN X = DOMAIN lg.rows \cup added /\ DOMAIN Y = DOMAIN lg.rows \cup added
      BY <2>3
    <3>2. ASSUME NEW c \in DOMAIN lg.rows \cup added
          PROVE  X[c] = Y[c]
      <4> DEFINE j == CHOOSE k \in F : C[k] = c
                 i == CHOOSE k \in D : cursor[k] = c
      <4>1. j = i
        BY <2>6
      <4>2. X[c] = IF c \in added THEN r[j] ELSE lg.rows[c]
        BY <2>3
      <4>3. Y[c] = IF c \in added THEN r[i] ELSE lg.rows[c]
        OBVIOUS
      <4> HIDE DEF X, Y, i, j
      <4> QED
        BY <4>1, <4>2, <4>3
    <3>3. X = [c \in DOMAIN X |-> X[c]] /\ Y = [c \in DOMAIN Y |-> Y[c]]
      OBVIOUS
    <3> HIDE DEF X, Y
    <3> QED
      BY <3>1, <3>2, <3>3
  <2>8. F = D /\ lg.byMsg \cup {} = lg.byMsg
    BY <2>2
  <2>9. Bbolt!AddDeletions(lg, r) =
          [seq |-> lg.seq + Bbolt!Cardinality(F), rows |-> X,
           byDev |-> lg.byDev \cup {<<r[k].device, C[k]>> : k \in F},
           byMsg |-> lg.byMsg \cup {Bbolt!MsgKey(r[k]) : k \in {j \in F : r[j].kind = "single"}}]
    BY <2>1
  <2> HIDE DEF X
  <2> QED
    BY <1>9, <2>4, <2>5, <2>7, <2>8, <2>9
<1> HIDE DEF cursor
<1>10. /\ Bbolt!AddDeletions(B, r) =
            [seq |-> B.seq + Bbolt!Cardinality(D), rows |-> R,
             byDev |-> B.byDev \cup pairs, byMsg |-> B.byMsg]
       /\ Bbolt!AddDeletions(L, r) =
            [seq |-> B.seq + Bbolt!Cardinality(D), rows |-> M,
             byDev |-> (B.byDev \ byDev) \cup pairs, byMsg |-> B.byMsg \ keys]
  BY <1>3, <1>9
<1>11. \A c \in O : R[c] = B.rows[c]
  BY <1>1, <1>7
<1>12. M = Bbolt!Delete(R, O)
  <2>1. Bbolt!Delete(R, O) = [c \in (DOMAIN B.rows \cup added) \ O |-> R[c]]
    BY DEF Bbolt!Delete, Bbolt!Restrict
  <2>2. (DOMAIN B.rows \cup added) \ O = DOMAIN L.rows \cup added
    BY <1>3, <1>7
  <2>3. \A c \in DOMAIN L.rows \cup added : M[c] = R[c]
    BY <1>3
  <2>4. M = [c \in DOMAIN L.rows \cup added |-> M[c]]
    OBVIOUS
  <2> HIDE DEF M, R, added
  <2> QED
    BY <2>1, <2>2, <2>3, <2>4
<1>13. (B.byDev \ byDev) \cup pairs = (B.byDev \cup pairs) \ byDev
  <2>1. pairs \cap byDev = {}
    BY <1>7
  <2> QED
    BY <2>1
<1> HIDE DEF R, M, pairs
<1>14. /\ {<<R[c].device, c>> : c \in O} = byDev
       /\ {Bbolt!MsgKey(R[c]) : c \in {e \in O : R[e].kind = "single"}} = keys
  BY <1>11
<1> QED
  <2>1. Bbolt!DropRows(Bbolt!AddDeletions(B, r), O) =
          [seq |-> B.seq + Bbolt!Cardinality(D), rows |-> Bbolt!Delete(R, O),
           byDev |-> (B.byDev \cup pairs) \ {<<R[c].device, c>> : c \in O},
           byMsg |-> B.byMsg \ {Bbolt!MsgKey(R[c]) : c \in {e \in O : R[e].kind = "single"}}]
    BY <1>10 DEF Bbolt!DropRows
  <2> HIDE DEF byDev, keys
  <2>2. Bbolt!DropRows(Bbolt!AddDeletions(B, r), O) =
          [seq |-> B.seq + Bbolt!Cardinality(D), rows |-> M,
           byDev |-> (B.byDev \ byDev) \cup pairs, byMsg |-> B.byMsg \ keys]
    BY <2>1, <1>12, <1>13, <1>14
  <2> QED
    BY <1>10, <2>2 DEF L, B

LEMMA CleanupIs ==
  ASSUME Typed, CleanupDeletions
  PROVE  Typed' /\ (Aged => Aged' /\ Bbolt!CleanupDeletions)
<1> DEFINE old      == OldRows
           affected == {row.rec.device : row \in old}
           r        == [d \in affected |-> Record(d, "reset", 0)]
           kept     == Kept(old)
           O        == {row.cursor : row \in old}
           B        == Buckets(dels)
           lost(d)  == {row.cursor : row \in {s \in old : s.rec.device = d /\ s.rec.kind # "reset"}}
           gap(d)   == {c \in {e \in O : B.rows[e].kind # "reset"} : B.rows[c].device = d}
<1>1. /\ up = TRUE /\ old # {} /\ dels.seq < MaxCursor
      /\ dels' = AddDeletions(kept, PerDevice(r))
      /\ forgotten' = [d \in Devices |->
                         IF lost(d) = {} THEN forgotten[d]
                         ELSE CHOOSE c \in lost(d) : \A e \in lost(d) : e <= c]
      /\ UNCHANGED <<msgs, order, seq, expires, max, up, now, export, removed>>
  BY DEF CleanupDeletions, Typed
<1>2. LogTyped(dels) /\ LogExact(dels) /\ now \in Nat
  BY DEF Typed
<1>3. old \subseteq Range(dels.rows)
  BY DEF OldRows
<1> HIDE DEF old
<1>4. /\ \A row \in old : /\ row.rec \in Bbolt!Deletion /\ row.cursor \in Nat
                          /\ row.cursor \in CursorsOf(dels) /\ B.rows[row.cursor] = row.rec
      /\ B.seq = dels.seq
  BY <1>2, <1>3, RowsOf DEF Buckets
<1>5. affected \subseteq Devices /\ affected = {B.rows[c].device : c \in O}
  <2>1. \A row \in old : row.rec.device \in Devices
    BY <1>4 DEF Bbolt!Deletion
  <2>2. \A row \in old : row.cursor \in O /\ B.rows[row.cursor].device = row.rec.device
    BY <1>4
  <2>3. \A c \in O : \E row \in old : c = row.cursor
    OBVIOUS
  <2> HIDE DEF O, B
  <2> QED
    BY <2>1, <2>2, <2>3
<1>6. O \subseteq CursorsOf(dels) /\ old \in SUBSET Range(dels.rows)
  BY <1>3, <1>4
<1> HIDE DEF B, affected
<1>7. /\ r \in [affected -> Bbolt!Deletion]
      /\ \A d \in affected : r[d].kind # "single" /\ r[d].createdAt = now
      /\ r = Bbolt!Resets(affected)
  <2>1. \A d \in affected : /\ Record(d, "reset", 0) \in Bbolt!Deletion
                            /\ Record(d, "reset", 0) = Bbolt!Record(d, "reset", 0)
                            /\ Record(d, "reset", 0).kind # "single"
                            /\ Record(d, "reset", 0).createdAt = now
    BY <1>2, <1>5 DEF Record, Bbolt!Record, Bbolt!Deletion, Bbolt!Kinds
  <2> QED
    BY <2>1 DEF Bbolt!Resets
<1> HIDE DEF r
<1>8. /\ LogTyped(kept) /\ LogExact(kept)
      /\ (AgedLog(dels, now) => AgedLog(kept, now))
      /\ Buckets(kept) = Bbolt!DropRows(B, O)
  BY <1>2, <1>3, KeptTyped, KeptIs DEF B
<1> HIDE DEF kept, O
<1>9. /\ LogTyped(dels') /\ LogExact(dels') /\ (AgedLog(kept, now) => AgedLog(dels', now))
      /\ Buckets(dels') = Bbolt!AddDeletions(Buckets(kept), r)
  BY <1>1, <1>2, <1>5, <1>7, <1>8, PerDeviceAre
<1>10. Typed'
  BY <1>1, <1>9 DEF Typed
<1>11. Buckets(dels') = Bbolt!DropRows(Bbolt!AddDeletions(B, Bbolt!Resets(affected)), O)
  BY <1>2, <1>5, <1>6, <1>7, <1>8, <1>9, DropThenAdd DEF B
<1>12. ASSUME NEW d
       PROVE  lost(d) = gap(d)
  <2>1. \A row \in old : row.cursor \in O /\ B.rows[row.cursor] = row.rec
    BY <1>4 DEF O
  <2>2. \A c \in O : \E row \in old : c = row.cursor
    BY DEF O
  <2> QED
    BY <2>1, <2>2
<1>13. forgotten' = [d \in Devices |->
                       IF gap(d) = {} THEN forgotten[d] ELSE Bbolt!Greatest(gap(d))]
  <2> HIDE DEF lost, gap
  <2> DEFINE last(d) == IF lost(d) = {} THEN forgotten[d]
                        ELSE CHOOSE c \in lost(d) : \A e \in lost(d) : e <= c
  <2>1. ASSUME NEW d \in Devices
        PROVE  last(d) = IF gap(d) = {} THEN forgotten[d] ELSE Bbolt!Greatest(gap(d))
    <3>1. lost(d) = gap(d)
      BY <1>12
    <3>2. Bbolt!Greatest(lost(d)) = CHOOSE c \in lost(d) : \A e \in lost(d) : e <= c
      BY DEF Bbolt!Greatest
    <3>3. last(d) = IF lost(d) = {} THEN forgotten[d] ELSE Bbolt!Greatest(lost(d))
      BY <3>2
    <3> HIDE DEF last
    <3> QED
      BY <3>1, <3>3
  <2>2. forgotten' = [d \in Devices |-> last(d)]
    BY <1>1
  <2> HIDE DEF last
  <2> QED
    BY <2>1, <2>2
<1>14. ASSUME Aged
       PROVE  Aged' /\ Bbolt!CleanupDeletions
  <2>1. Aged'
    BY <1>1, <1>8, <1>9, <1>14 DEF Aged
  <2>2. O = Bbolt!OldRows /\ O # {}
    <3>1. O = Bbolt!OldRows
      BY <1>14, OldRowsAre DEF O, old
    <3> QED
      BY <1>1, <3>1 DEF O
  <2>3. BboltLog = B /\ BboltLog' = Buckets(dels')
    BY LogIs DEF B
  <2>4. /\ BboltLog' = Bbolt!DropRows(Bbolt!AddDeletions(BboltLog, Bbolt!Resets(
                         {BboltLog.rows[c].device : c \in Bbolt!OldRows})), Bbolt!OldRows)
        /\ BboltLog.seq < MaxCursor
    BY <1>1, <1>4, <1>5, <1>11, <2>2, <2>3
  <2>5. forgotten' = [d \in Devices |->
          LET mine == {c \in {e \in Bbolt!OldRows : BboltLog.rows[e].kind # "reset"} :
                         BboltLog.rows[c].device = d}
          IN IF mine = {} THEN forgotten[d] ELSE Bbolt!Greatest(mine)]
    BY <1>13, <2>2, <2>3
  <2>6. /\ Len(order') = Len(order)
        /\ {<<msgs'[id].device, id>> : id \in DOMAIN msgs'} = {<<msgs[id].device, id>> : id \in DOMAIN msgs}
        /\ UNCHANGED <<msgs, seq, expires, max, up, now, removed>>
    BY <1>1
  <2> QED
    BY <1>1, <2>1, <2>2, <2>4, <2>5, <2>6 DEF Bbolt!CleanupDeletions, Bbolt!tables, BboltLog
<1> QED
  BY <1>10, <1>14

(***************************************************************************)
(* Every step of this store is a step of the bbolt store, and the export,  *)
(* which that store does in one read transaction, takes steps of its own.  *)
(***************************************************************************)
LEMMA StartIs ==
  ASSUME MemInit
  PROVE  Typed /\ Aged /\ Bbolt!Init
<1>1. /\ msgs = EmptyMap /\ order = <<>> /\ seq = 0 /\ expires = EmptyMap
      /\ dels = [seq |-> 0, rows |-> <<>>, keys |-> {}]
      /\ max \in MaxChoices /\ up = FALSE /\ now = 0
      /\ removed = EmptyMap /\ forgotten = [d \in Devices |-> 0]
  BY DEF MemInit
<1>2. /\ DOMAIN EmptyMap = {} /\ \A T : EmptyMap \in [{} -> T]
      /\ EmptyMap = Bbolt!EmptyBucket
  BY DEF EmptyMap, Bbolt!EmptyBucket
<1>3. order \in Seq(Nat) /\ Ascending(order) /\ Range(order) = {} /\ Len(order) = 0
  BY <1>1 DEF Ascending, Range
<1>4. dels.rows \in Seq(Row) /\ DOMAIN dels.rows = {} /\ dels.seq = 0 /\ dels.keys = {}
  BY <1>1
<1>5. LogTyped(dels) /\ LogExact(dels) /\ AgedLog(dels, now)
  <2>1. dels \in [seq : Nat, rows : Seq(Row), keys : SUBSET (Devices \X Nat)]
    BY <1>1
  <2>2. Range(dels.rows) = {}
    BY <1>4 DEF Range
  <2> QED
    BY <1>4, <2>1, <2>2 DEF LogTyped, LogExact, SinglesDiffer, AgedLog
<1>6. Typed
  BY <1>1, <1>2, <1>3, <1>5 DEF Typed
<1>7. BboltLog = Bbolt!EmptyLog
  <2>1. Cursors = {}
    BY <1>4 DEF Cursors
  <2>2. [c \in Cursors |-> RowAt(c)] = EmptyMap /\ {<<RowAt(c).device, c>> : c \in Cursors} = {}
    BY <2>1 DEF EmptyMap
  <2> QED
    BY <1>2, <1>4, <2>2 DEF BboltLog, Bbolt!EmptyLog
<1>8. Bbolt!Init
  <2>1. /\ msgs \in [{} -> [device : Devices, extraID : ExtraIDs \cup {NoID},
                            body : Bodies, deadline : TTLs \cup {NoTTL}]]
        /\ seq = IF {} = {} THEN 0 ELSE Bbolt!Greatest({})
        /\ Len(order) = Bbolt!Cardinality({})
    <3>1. Cardinality({}) = 0
      BY FS_EmptySet
    <3> QED
      BY <1>1, <1>2, <1>3, <3>1, SameSize
  <2>2. {<<msgs[id].device, id>> : id \in DOMAIN msgs} = {}
    BY <1>1, <1>2
  <2>3. {} \in SUBSET {}
    OBVIOUS
  <2> QED
    BY <1>1, <1>2, <1>7, <2>1, <2>2, <2>3 DEF Bbolt!Init, BboltLog, Bbolt!NoID, Bbolt!NoTTL, NoID, NoTTL
<1> QED
  BY <1>5, <1>6, <1>8 DEF Aged

LEMMA OpenIs ==
  ASSUME Typed, NewMemoryStore
  PROVE  Typed' /\ (Aged => Aged') /\ Bbolt!Open
<1>1. /\ up = FALSE /\ up' = TRUE /\ max' \in MaxChoices /\ DOMAIN msgs = {}
      /\ UNCHANGED <<msgs, order, seq, expires, dels, now, removed, forgotten>>
  BY DEF NewMemoryStore, history, Typed
<1>2. Typed' /\ (Aged => Aged')
  BY <1>1 DEF Typed, Aged
<1>3. /\ Len(order') = Len(order) /\ BboltLog' = BboltLog
      /\ {<<msgs'[id].device, id>> : id \in DOMAIN msgs'} = {<<msgs[id].device, id>> : id \in DOMAIN msgs}
  BY <1>1 DEF BboltLog, Cursors, RowAt
<1> QED
  BY <1>1, <1>2, <1>3 DEF Bbolt!Open, Bbolt!MigrateIndexes, Bbolt!history, BboltLog

LEMMA ExportIs ==
  ASSUME Typed, Export
  PROVE  Typed' /\ (Aged => Aged') /\ UNCHANGED Bbolt!vars
<1>1. UNCHANGED <<msgs, order, seq, expires, dels, max, up, now, removed, forgotten>>
  BY DEF Export, ExportBegin, ExportNext, ExportEnd, history
<1>2. Typed' /\ (Aged => Aged')
  BY <1>1 DEF Typed, Aged
<1> QED
  BY <1>1, <1>2 DEF Bbolt!vars, Cursors, RowAt

LEMMA TickIs ==
  ASSUME Typed, Tick
  PROVE  Typed' /\ (ClockMayStepBack = FALSE => (Aged => Aged') /\ Bbolt!Tick)
<1>1. /\ now' \in {t \in 0 .. MaxTime : t = now + 1 \/ (ClockMayStepBack /\ t < now)}
      /\ UNCHANGED <<msgs, order, seq, expires, dels, max, up, export, removed, forgotten>>
  BY DEF Tick, history
<1>2. now \in Nat /\ now' \in Nat /\ now' <= MaxTime /\ MaxTime \in Nat
  BY <1>1, MemAssumption DEF Typed
<1>3. Typed'
  BY <1>1, <1>2 DEF Typed
<1>4. ASSUME ClockMayStepBack = FALSE
      PROVE  now' = now + 1 /\ now < MaxTime
  BY <1>1, <1>2, <1>4
<1>5. ASSUME ClockMayStepBack = FALSE, Aged
      PROVE  Aged'
  <2>1. \A n \in DOMAIN dels.rows : dels.rows[n].rec.createdAt \in Nat
    BY RecAtCursor DEF Typed, Bbolt!Deletion
  <2> QED
    BY <1>1, <1>2, <1>4, <1>5, <2>1 DEF Aged, AgedLog
<1>6. /\ Len(order') = Len(order) /\ BboltLog' = BboltLog
      /\ {<<msgs'[id].device, id>> : id \in DOMAIN msgs'} = {<<msgs[id].device, id>> : id \in DOMAIN msgs}
  BY <1>1 DEF BboltLog, Cursors, RowAt
<1> QED
  BY <1>1, <1>3, <1>4, <1>5, <1>6 DEF Bbolt!Tick, Bbolt!tables, Bbolt!history, BboltLog

LEMMA StepIs ==
  ASSUME Typed, [MemNext]_memVars
  PROVE  /\ Typed'
         /\ ClockMayStepBack = FALSE /\ Aged => Aged' /\ [Bbolt!Next]_(Bbolt!vars)
<1>1. CASE NewMemoryStore
  BY <1>1, OpenIs DEF Bbolt!Next
<1>2. CASE Publish
  <2>1. ASSUME NEW d \in Devices, NEW b \in Bodies, NEW t \in TTLs \cup {NoTTL}, Add(d, b, t)
        PROVE  Typed' /\ (Aged => Aged') /\ Bbolt!Add(d, b, t)
    <3>1. up = TRUE /\ Insert(d, NoID, b, t) /\ NoID \in ExtraIDs \cup {NoID} /\ NoID = Bbolt!NoID
      BY <2>1 DEF Add, Typed, NoID, Bbolt!NoID
    <3>2. Typed' /\ (Aged => Aged') /\ Bbolt!Insert(d, NoID, b, t)
      BY <3>1, InsertIs
    <3> QED
      BY <3>1, <3>2 DEF Bbolt!Add, NoID, Bbolt!NoID
  <2>2. NoTTL = Bbolt!NoTTL
    BY DEF NoTTL, Bbolt!NoTTL
  <2> QED
    BY <1>2, <2>1, <2>2, UpsertIs DEF Publish, Bbolt!Next, Bbolt!Publish
<1>3. CASE Delete
  <2>1. AnyDevice = Bbolt!Any
    BY DEF AnyDevice, Bbolt!Any
  <2> QED
    BY <1>3, <2>1, DeleteAllIs, DeleteByDeviceIs, DeleteByExtraIs DEF Delete, Bbolt!Next, Bbolt!Remove
<1>4. CASE ExpireMessages
  BY <1>4, ExpireIs DEF Bbolt!Next, Bbolt!Maintain
<1>5. CASE CleanupDeletions
  BY <1>5, CleanupIs DEF Bbolt!Next, Bbolt!Maintain
<1>6. CASE Export
  BY <1>6, ExportIs
<1>7. CASE Tick
  BY <1>7, TickIs DEF Bbolt!Next
<1>8. CASE UNCHANGED memVars
  <2>1. UNCHANGED <<msgs, order, seq, expires, dels, max, up, now, removed, forgotten>>
    BY <1>8 DEF memVars, history
  <2> QED
    BY <2>1 DEF Typed, Aged, Bbolt!vars, Cursors, RowAt
<1> QED
  BY <1>1, <1>2, <1>3, <1>4, <1>5, <1>6, <1>7, <1>8 DEF MemNext

LEMMA TypedHolds == MemSpec => []Typed
<1>1. MemInit => Typed
  BY StartIs
<1>2. Typed /\ [MemNext]_memVars => Typed'
  BY StepIs
<1> QED
  BY <1>1, <1>2, PTL DEF MemSpec

(***************************************************************************)
(* The slice of ids is in ascending order and holds the stored ones, the   *)
(* deadlines are those of stored messages, the log ascends, and delMsg has *)
(* the "single" rows of the log and no others: what the lookups, the       *)
(* eviction and the readers of memoryStore rely on.  It holds however the  *)
(* clock is set.                                                           *)
(***************************************************************************)
THEOREM MemTyped == MemSpec => []MemTypeOK
<1>1. Typed => MemTypeOK
  <2>1. ASSUME Typed
        PROVE  Ascending([n \in DOMAIN dels.rows |-> dels.rows[n].cursor])
    BY <2>1 DEF Typed, LogTyped, Ascending
  <2> QED
    BY <2>1, TypedFacts DEF Typed, LogExact, KnownDevices, MemTypeOK
<1> QED
  BY <1>1, TypedHolds, PTL

(***************************************************************************)
(* While the clock is not set back, the memory store implements the bbolt  *)
(* store: read as buckets, its maps and slices start empty and take only   *)
(* steps that the bbolt store takes (the comment at store.go:1157).        *)
(***************************************************************************)
THEOREM MirrorsProved ==
  ASSUME ClockMayStepBack = FALSE
  PROVE  MemSpec => MirrorsBbolt
<1>1. MemInit => Aged /\ Bbolt!Init
  BY StartIs
<1>2. Typed /\ Aged /\ [MemNext]_memVars => Aged' /\ [Bbolt!Next]_(Bbolt!vars)
  BY StepIs
<1> QED
  BY <1>1, <1>2, TypedHolds, PTL DEF MemSpec, MirrorsBbolt, Bbolt!Spec

(***************************************************************************)
(* The reads.  A slice that is read from its end descends, and what is nth *)
(* then has n elements at or above it.                                     *)
(***************************************************************************)
Descending(s) == \A m, n \in DOMAIN s : m < n => s[n] < s[m]

LEMMA ReverseTurns ==
  ASSUME NEW s \in Seq(Nat)
  PROVE  /\ Reverse(s) \in Seq(Nat) /\ Range(Reverse(s)) = Range(s) /\ Len(Reverse(s)) = Len(s)
         /\ Ascending(s) => Descending(Reverse(s))
         /\ Descending(s) => Ascending(Reverse(s))
<1> DEFINE a == Len(s)
           r == Reverse(s)
<1>1. a \in Nat /\ DOMAIN s = 1 .. a /\ \A n \in 1 .. a : s[n] \in Nat
  OBVIOUS
<1>2. r = [i \in 1 .. a |-> s[a - i + 1]]
  BY DEF Reverse
<1> HIDE DEF a, r
<1>3. \A i \in 1 .. a : a - i + 1 \in 1 .. a /\ i = a - (a - i + 1) + 1
  BY <1>1
<1>4. r \in Seq(Nat) /\ DOMAIN r = 1 .. a /\ Len(r) = a
  BY <1>1, <1>2, <1>3
<1>5. Range(r) = Range(s)
  <2>1. \A i \in 1 .. a : r[i] = s[a - i + 1] /\ r[a - i + 1] = s[i]
    BY <1>2, <1>3
  <2>2. ASSUME NEW i \in 1 .. a
        PROVE  r[i] \in Range(s) /\ s[i] \in Range(r)
    <3>1. a - i + 1 \in 1 .. a
      BY <1>3
    <3> QED
      BY <1>1, <1>4, <2>1, <3>1 DEF Range
  <2>3. \A e \in Range(s) : \E i \in 1 .. a : e = s[i]
    BY <1>1 DEF Range
  <2>4. \A e \in Range(r) : \E i \in 1 .. a : e = r[i]
    BY <1>4 DEF Range
  <2> QED
    BY <2>2, <2>3, <2>4
<1>6. ASSUME NEW m \in 1 .. a, NEW n \in 1 .. a, m < n
      PROVE  /\ Ascending(s) => r[n] < r[m]
             /\ Descending(s) => r[m] < r[n]
  <2>1. a - n + 1 < a - m + 1 /\ a - n + 1 \in 1 .. a /\ a - m + 1 \in 1 .. a
    BY <1>1, <1>6
  <2>2. r[m] = s[a - m + 1] /\ r[n] = s[a - n + 1]
    BY <1>2
  <2> QED
    BY <1>1, <2>1, <2>2 DEF Ascending, Descending
<1>7. (Ascending(s) => Descending(r)) /\ (Descending(s) => Ascending(r))
  BY <1>4, <1>6 DEF Ascending, Descending
<1> QED
  BY <1>4, <1>5, <1>7 DEF a, r

LEMMA OnlyDescends ==
  ASSUME NEW s \in Seq(Nat), Descending(s), NEW S
  PROVE  Only(s, S) \in Seq(Nat) /\ Descending(Only(s, S)) /\ Range(Only(s, S)) = Range(s) \cap S
<1>1. PICK p \in Seq(DOMAIN s) :
        /\ Ascending(p)
        /\ Only(s, S) = [n \in 1 .. Len(p) |-> s[p[n]]]
        /\ Only(s, S) \in Seq(Nat)
        /\ DOMAIN Only(s, S) = 1 .. Len(p)
        /\ Range(Only(s, S)) = Range(s) \cap S
  BY OnlyFacts
<1>2. ASSUME NEW m \in 1 .. Len(p), NEW n \in 1 .. Len(p), m < n
      PROVE  Only(s, S)[n] < Only(s, S)[m]
  <2>1. p[m] \in DOMAIN s /\ p[n] \in DOMAIN s
    OBVIOUS
  <2>2. DOMAIN p = 1 .. Len(p) /\ Ascending(p)
    BY <1>1
  <2>3. p[m] < p[n]
    BY <1>2, <2>2 DEF Ascending
  <2>4. s[p[n]] < s[p[m]]
    BY <2>1, <2>3 DEF Descending
  <2>5. Only(s, S)[m] = s[p[m]] /\ Only(s, S)[n] = s[p[n]]
    BY <1>1
  <2> QED
    BY <2>4, <2>5
<1> QED
  BY <1>1, <1>2 DEF Descending

LEMMA DescendingCounts ==
  ASSUME NEW s \in Seq(Nat), Descending(s)
  PROVE  /\ Cardinality(Range(s)) = Len(s)
         /\ \A n \in DOMAIN s : Cardinality({j \in Range(s) : j >= s[n]}) = n
<1> DEFINE S         == Range(s)
           Above(i)  == {j \in S : j >= i}
<1>1. Len(s) \in Nat /\ DOMAIN s = 1 .. Len(s) /\ \A n \in DOMAIN s : s[n] \in Nat
  OBVIOUS
<1>2. \A m, n \in DOMAIN s : s[m] >= s[n] <=> m <= n
  BY <1>1 DEF Descending
<1>3. ASSUME NEW n \in DOMAIN s
      PROVE  Cardinality(Above(s[n])) = n
  <2> DEFINE part == [m \in 1 .. n |-> s[m]]
  <2>1. 1 .. n \in SUBSET DOMAIN s
    BY <1>1
  <2>2. Above(s[n]) = {s[m] : m \in 1 .. n}
    BY <1>1, <1>2, <2>1 DEF Range
  <2>3. part \in Bijection(1 .. n, Above(s[n]))
    <3>1. part \in [1 .. n -> Above(s[n])] /\ \A t \in Above(s[n]) : \E m \in 1 .. n : part[m] = t
      BY <2>2
    <3>2. \A l, m \in 1 .. n : part[l] = part[m] => l = m
      BY <1>1, <1>2, <2>1
    <3> QED
      BY <3>1, <3>2 DEF Bijection, Injection, Surjection, IsInjective
  <2>4. IsFiniteSet(1 .. n) /\ Cardinality(1 .. n) = n
    BY <1>1, FS_Interval
  <2> QED
    BY <2>3, <2>4, FS_Bijection DEF ExistsBijection
<1>4. Cardinality(S) = Len(s)
  <2>1. /\ Reverse(s) \in Seq(Nat) /\ Range(Reverse(s)) = S /\ Len(Reverse(s)) = Len(s)
        /\ Ascending(Reverse(s))
    BY ReverseTurns
  <2> QED
    BY <2>1, AscendingCounts
<1> QED
  BY <1>3, <1>4

LEMMA FrontFacts ==
  ASSUME NEW T, NEW s \in Seq(T), NEW k \in Nat
  PROVE  LET front == UpTo(s, k)
         IN /\ front \in Seq(T) /\ Len(front) = IF k < Len(s) THEN k ELSE Len(s)
            /\ \A n \in 1 .. Len(s) : n <= k => n \in 1 .. Len(front) /\ front[n] = s[n]
            /\ \A n \in 1 .. Len(front) : front[n] = s[n] /\ n \in 1 .. Len(s) /\ n <= k
<1> DEFINE a     == Len(s)
           b     == IF k < a THEN k ELSE a
           front == UpTo(s, k)
<1>1. a \in Nat /\ \A n \in 1 .. a : s[n] \in T
  OBVIOUS
<1>2. front = SubSeq(s, 1, b)
  BY DEF UpTo
<1> HIDE DEF a, front
<1>3. b \in Nat /\ b <= a /\ \A n \in 1 .. b : n \in 1 .. a /\ n <= k
  BY <1>1
<1>4. b = IF k < a THEN k ELSE a
  OBVIOUS
<1> HIDE DEF b
<1>5. /\ SubSeq(s, 1, b) \in Seq(T)
      /\ Len(SubSeq(s, 1, b)) = IF 1 <= b THEN b - 1 + 1 ELSE 0
      /\ \A i \in 1 .. b - 1 + 1 : SubSeq(s, 1, b)[i] = s[1 + i - 1]
  <2>1. b \in Int /\ 1 \in Int /\ \A i \in 1 .. b : s[i] \in T
    BY <1>1, <1>3
  <2> QED
    BY <2>1, SubSeqProperties
<1>6. /\ front \in Seq(T) /\ Len(front) = b
      /\ \A i \in 1 .. b : front[i] = s[i]
  BY <1>2, <1>3, <1>5
<1>7. \A n \in 1 .. a : n <= k => n \in 1 .. b
  BY <1>1, <1>4
<1> QED
  BY <1>3, <1>4, <1>6, <1>7 DEF a, front

\* What a reader takes from a slice without repetition, by the places.
LEMMA FrontIsPage ==
  ASSUME NEW T, NEW s \in Seq(T), NEW place, \A n \in DOMAIN s : place[s[n]] = n, NEW k \in Nat
  PROVE  /\ Range(UpTo(s, k)) = {e \in Range(s) : place[e] <= k}
         /\ Len(s) > k <=> {e \in Range(s) : place[e] <= k} # Range(s)
<1> DEFINE front == UpTo(s, k)
<1>1. /\ front \in Seq(T) /\ Len(front) \in Nat
      /\ \A n \in 1 .. Len(s) : n <= k => n \in 1 .. Len(front) /\ front[n] = s[n]
      /\ \A n \in 1 .. Len(front) : front[n] = s[n] /\ n \in 1 .. Len(s) /\ n <= k
  BY FrontFacts
<1>2. Len(s) \in Nat /\ DOMAIN s = 1 .. Len(s) /\ DOMAIN front = 1 .. Len(front)
  BY <1>1
<1> HIDE DEF front
<1>3. Range(front) = {e \in Range(s) : place[e] <= k}
  <2>1. ASSUME NEW e \in Range(front)
        PROVE  e \in Range(s) /\ place[e] <= k
    <3>1. PICK n \in 1 .. Len(front) : front[n] = e
      BY <1>2 DEF Range
    <3> QED
      BY <1>1, <1>2, <3>1 DEF Range
  <2>2. ASSUME NEW e \in Range(s), place[e] <= k
        PROVE  e \in Range(front)
    <3>1. PICK n \in 1 .. Len(s) : s[n] = e
      BY <1>2 DEF Range
    <3> QED
      BY <1>1, <1>2, <2>2, <3>1 DEF Range
  <2> QED
    BY <2>1, <2>2
<1>4. Len(s) > k => {e \in Range(s) : place[e] <= k} # Range(s)
  <2>1. ASSUME Len(s) > k
        PROVE  s[Len(s)] \in Range(s) /\ ~ (place[s[Len(s)]] <= k)
    BY <1>2, <2>1 DEF Range
  <2> QED
    BY <2>1
<1>5. ASSUME ~ (Len(s) > k)
      PROVE  {e \in Range(s) : place[e] <= k} = Range(s)
  <2>1. ASSUME NEW e \in Range(s)
        PROVE  place[e] <= k
    <3>1. PICK n \in 1 .. Len(s) : s[n] = e
      BY <1>2 DEF Range
    <3> QED
      BY <1>2, <1>5, <3>1
  <2> QED
    BY <2>1
<1> QED
  BY <1>3, <1>4, <1>5 DEF front

(***************************************************************************)
(* The reads of messages.  What a reader wants of the slice is a set of    *)
(* ids, which it gets newest first, or oldest first.                       *)
(***************************************************************************)
\* The greatest of S, as many as the limit allows.
Top(S, limit) == {id \in S : Bbolt!Cardinality({j \in S : j >= id}) <= limit}

LEMMA NewestFirst ==
  ASSUME Typed, NEW S, S \subseteq DOMAIN msgs
  PROVE  LET found == Only(Reverse(order), S)
         IN /\ Range(found) = S /\ Len(found) = Bbolt!Cardinality(S)
            /\ \A limit \in Nat :
                 /\ Range(UpTo(found, limit)) = Top(S, limit)
                 /\ Len(found) > limit <=> Top(S, limit) # S
<1> DEFINE found == Only(Reverse(order), S)
           place == [id \in S |-> Cardinality({j \in S : j >= id})]
<1>1. Reverse(order) \in Seq(Nat) /\ Range(Reverse(order)) = DOMAIN msgs /\ Descending(Reverse(order))
  BY ReverseTurns DEF Typed
<1>2. found \in Seq(Nat) /\ Descending(found) /\ Range(found) = S
  <2>1. found \in Seq(Nat) /\ Descending(found) /\ Range(found) = DOMAIN msgs \cap S
    BY <1>1, OnlyDescends
  <2> QED
    BY <2>1
<1> HIDE DEF found
<1>3. /\ Cardinality(S) = Len(found)
      /\ \A n \in DOMAIN found : Cardinality({j \in S : j >= found[n]}) = n
  BY <1>2, DescendingCounts
<1>4. \A n \in DOMAIN found : place[found[n]] = n
  BY <1>2, <1>3 DEF Range
<1>5. ASSUME NEW limit \in Nat
      PROVE  /\ Range(UpTo(found, limit)) = Top(S, limit)
             /\ Len(found) > limit <=> Top(S, limit) # S
  <2> DEFINE part == {id \in Range(found) : place[id] <= limit}
  <2>1. part = Top(S, limit)
    BY <1>2, SameSize DEF Top
  <2> HIDE DEF place
  <2>2. Range(UpTo(found, limit)) = part /\ (Len(found) > limit <=> part # Range(found))
    BY <1>2, <1>4, FrontIsPage
  <2> HIDE DEF part
  <2> QED
    BY <1>2, <2>1, <2>2
<1> QED
  BY <1>2, <1>3, <1>5, SameSize DEF found

LEMMA OldestFirst ==
  ASSUME Typed, NEW S, S \subseteq DOMAIN msgs, NEW limit \in Nat
  PROVE  LET found == Only(order, S)
         IN /\ Range(UpTo(found, limit)) = Bbolt!FirstOf(S, limit)
            /\ Len(found) > limit <=> Bbolt!FirstOf(S, limit) # S
<1> DEFINE found == Only(order, S)
           place == [id \in S |-> Cardinality({j \in S : j <= id})]
<1>2. found \in Seq(Nat) /\ Ascending(found) /\ Range(found) = S
  <2>1. found \in Seq(Nat) /\ Ascending(found) /\ Range(found) = DOMAIN msgs \cap S
    BY OnlyAscends DEF Typed
  <2> QED
    BY <2>1
<1> HIDE DEF found
<1>3. \A n \in DOMAIN found : Cardinality({j \in S : j <= found[n]}) = n
  BY <1>2, AscendingCounts
<1>4. \A n \in DOMAIN found : place[found[n]] = n
  BY <1>2, <1>3 DEF Range
<1> DEFINE part == {id \in Range(found) : place[id] <= limit}
<1>5. part = Bbolt!FirstOf(S, limit)
  BY <1>2, SameSize DEF Bbolt!FirstOf, Bbolt!Rank
<1> HIDE DEF place
<1>6. Range(UpTo(found, limit)) = part /\ (Len(found) > limit <=> part # Range(found))
  BY <1>2, <1>4, FrontIsPage
<1> HIDE DEF part
<1> QED
  BY <1>2, <1>5, <1>6 DEF found

LEMMA ScopesAgree ==
  ASSUME NEW d
  PROVE  /\ \A id : InScope(d, id) = Bbolt!InScope(d, id)
         /\ \A m, kw : MessageMatches(m, kw) = Bbolt!MessageMatches(m, kw)
         /\ NoKeyword = Bbolt!NoKeyword
         /\ d \in Devices => \A id : Bbolt!InScope(d, id) <=> msgs[id].device = d
BY MemAssumption DEF InScope, Bbolt!InScope, MessageMatches, Bbolt!MessageMatches,
                     NoKeyword, Bbolt!NoKeyword, AnyDevice, Bbolt!Any

LEMMA WalkIs ==
  ASSUME Typed, NEW d, NEW kw, NEW since
  PROVE  LET S == Bbolt!ForEachByDevice(d, kw, since)
         IN S \subseteq DOMAIN msgs /\ Walk(d, kw, since) = Only(Reverse(order), S)
BY ScopesAgree DEF Walk, Bbolt!ForEachByDevice

LEMMA MessagesAgree ==
  ASSUME Typed, NEW d \in Devices, NEW since, NEW limit \in Limits, NEW kw
  PROVE  /\ RecentByDevice(d, limit, since) = Bbolt!RecentByDevice(d, limit, since)
         /\ SearchByDevice(d, kw, limit, since) = Bbolt!SearchByDevice(d, kw, limit, since)
         /\ limit > 0 =>
              /\ RecentPageByDevice(d, limit, since) = Bbolt!RecentPageByDevice(d, limit, since)
              /\ AfterByDevice(d, since, limit) = Bbolt!AfterByDevice(d, since, limit)
<1>1. limit = -1 \/ limit \in Nat
  BY MemAssumption DEF Limits
<1>2. ASSUME NEW w
      PROVE  LET S     == Bbolt!ForEachByDevice(d, w, since)
                 found == Walk(d, w, since)
             IN /\ (IF limit < 0 THEN Range(found) ELSE Range(UpTo(found, limit))) = Bbolt!Capped(S, limit)
                /\ Len(found) = Bbolt!Cardinality(S)
                /\ limit > 0 => (Len(found) > limit <=> Bbolt!Capped(S, limit) # S)
  <2> DEFINE S     == Bbolt!ForEachByDevice(d, w, since)
             found == Walk(d, w, since)
  <2>1. S \subseteq DOMAIN msgs /\ found = Only(Reverse(order), S)
    BY WalkIs
  <2> HIDE DEF S, found
  <2>2. /\ Range(found) = S /\ Len(found) = Bbolt!Cardinality(S)
        /\ limit \in Nat =>
             /\ Range(UpTo(found, limit)) = Top(S, limit)
             /\ Len(found) > limit <=> Top(S, limit) # S
    BY <2>1, NewestFirst
  <2>3. Bbolt!Capped(S, limit) = {id \in S : limit < 0 \/ Bbolt!Cardinality({j \in S : j >= id}) <= limit}
    BY DEF Bbolt!Capped
  <2>4. CASE limit = -1
    <3>1. Bbolt!Capped(S, limit) = S /\ limit < 0 /\ ~ (limit > 0)
      BY <2>3, <2>4
    <3>2. /\ (IF limit < 0 THEN Range(found) ELSE Range(UpTo(found, limit))) = Bbolt!Capped(S, limit)
          /\ Len(found) = Bbolt!Cardinality(S)
          /\ limit > 0 => (Len(found) > limit <=> Bbolt!Capped(S, limit) # S)
      BY <2>2, <3>1
    <3> QED
      BY <3>2 DEF S, found
  <2>5. CASE limit \in Nat
    <3>1. Bbolt!Capped(S, limit) = Top(S, limit) /\ ~ (limit < 0)
      BY <2>3, <2>5 DEF Top
    <3>2. /\ (IF limit < 0 THEN Range(found) ELSE Range(UpTo(found, limit))) = Bbolt!Capped(S, limit)
          /\ Len(found) = Bbolt!Cardinality(S)
          /\ limit > 0 => (Len(found) > limit <=> Bbolt!Capped(S, limit) # S)
      BY <2>2, <2>5, <3>1
    <3> QED
      BY <3>2 DEF S, found
  <2> QED
    BY <1>1, <2>4, <2>5
<1>3. RecentByDevice(d, limit, since) = Bbolt!RecentByDevice(d, limit, since)
  <2>1. Range(IF limit < 0 THEN Walk(d, NoKeyword, since) ELSE UpTo(Walk(d, NoKeyword, since), limit))
          = Bbolt!Capped(Bbolt!ForEachByDevice(d, NoKeyword, since), limit)
    BY <1>2
  <2> QED
    BY <2>1, ScopesAgree DEF RecentByDevice, Bbolt!RecentByDevice
<1>4. SearchByDevice(d, kw, limit, since) = Bbolt!SearchByDevice(d, kw, limit, since)
  <2>1. /\ Range(IF limit < 0 THEN Walk(d, kw, since) ELSE UpTo(Walk(d, kw, since), limit))
             = Bbolt!Capped(Bbolt!ForEachByDevice(d, kw, since), limit)
        /\ Len(Walk(d, kw, since)) = Bbolt!Cardinality(Bbolt!ForEachByDevice(d, kw, since))
    BY <1>2
  <2> QED
    BY <2>1 DEF SearchByDevice, Bbolt!SearchByDevice
<1>5. ASSUME limit > 0
      PROVE  RecentPageByDevice(d, limit, since) = Bbolt!RecentPageByDevice(d, limit, since)
  <2> DEFINE S     == Bbolt!ForEachByDevice(d, NoKeyword, since)
             found == Walk(d, NoKeyword, since)
             page  == Top(S, limit)
  <2>1. limit \in Nat /\ ~ (limit < 0)
    BY <1>1, <1>5
  <2>2. S = {id \in DOMAIN msgs : Bbolt!InScope(d, id) /\ (since = 0 \/ id < since)}
    BY DEF Bbolt!ForEachByDevice, Bbolt!MessageMatches, Bbolt!NoKeyword, NoKeyword
  <2>3. Bbolt!RecentPageByDevice(d, limit, since) = [ids |-> page, hasMore |-> page # S]
    BY <2>2 DEF Bbolt!RecentPageByDevice, Top
  <2>4. Bbolt!Capped(S, limit) = page
    BY <2>1 DEF Bbolt!Capped, Top
  <2>5. RecentPageByDevice(d, limit, since) =
          [ids |-> Range(UpTo(found, limit)), hasMore |-> Len(found) > limit]
    BY DEF RecentPageByDevice, OnePage
  <2>6. Range(UpTo(found, limit)) = page /\ (Len(found) > limit <=> page # S)
    BY <1>2, <1>5, <2>1, <2>4
  <2> HIDE DEF S, found, page
  <2>7. (Len(found) > limit) = (page # S)
    BY <2>6
  <2> QED
    BY <2>3, <2>5, <2>6, <2>7
<1>6. ASSUME limit > 0
      PROVE  AfterByDevice(d, since, limit) = Bbolt!AfterByDevice(d, since, limit)
  <2> DEFINE S     == {id \in DOMAIN msgs : id > since /\ InScope(d, id)}
             found == Only(order, S)
             page  == Bbolt!FirstOf(S, limit)
             index == {<<msgs[id].device, id>> : id \in DOMAIN msgs}
  <2>1. limit \in Nat
    BY <1>1, <1>6
  <2>2. S = {id \in Bbolt!Scan(index, d) : id > since /\ id \in DOMAIN msgs}
    <3>1. ASSUME NEW id
          PROVE  id \in Bbolt!Scan(index, d) <=> id \in DOMAIN msgs /\ msgs[id].device = d
      <4>1. Bbolt!Scan(index, d) = {p[2] : p \in {q \in index : q[1] = d}}
        BY DEF Bbolt!Scan
      <4>2. \A p \in index : p[2] \in DOMAIN msgs /\ p[1] = msgs[p[2]].device
        OBVIOUS
      <4>3. id \in DOMAIN msgs => <<msgs[id].device, id>> \in index
        OBVIOUS
      <4>4. <<msgs[id].device, id>>[1] = msgs[id].device /\ <<msgs[id].device, id>>[2] = id
        OBVIOUS
      <4> HIDE DEF index
      <4>5. ASSUME id \in DOMAIN msgs, msgs[id].device = d
            PROVE  id \in Bbolt!Scan(index, d)
        BY <4>1, <4>3, <4>4, <4>5
      <4>6. ASSUME id \in Bbolt!Scan(index, d)
            PROVE  id \in DOMAIN msgs /\ msgs[id].device = d
        BY <4>1, <4>2, <4>6
      <4> QED
        BY <4>5, <4>6
    <3>2. \A id : InScope(d, id) <=> msgs[id].device = d
      BY ScopesAgree
    <3> HIDE DEF index
    <3> QED
      BY <3>1, <3>2
  <2>3. Bbolt!AfterByDevice(d, since, limit) = [ids |-> page, hasMore |-> page # S]
    BY <2>2 DEF Bbolt!AfterByDevice
  <2>4. AfterByDevice(d, since, limit) =
          [ids |-> Range(UpTo(found, limit)), hasMore |-> Len(found) > limit]
    BY DEF AfterByDevice, OnePage
  <2>5. S \subseteq DOMAIN msgs
    OBVIOUS
  <2> HIDE DEF S
  <2>6. Range(UpTo(found, limit)) = page /\ (Len(found) > limit <=> page # S)
    BY <2>1, <2>5, OldestFirst
  <2> HIDE DEF found, page
  <2>7. (Len(found) > limit) = (page # S)
    BY <2>6
  <2> QED
    BY <2>3, <2>4, <2>6, <2>7
<1> QED
  BY <1>3, <1>4, <1>5, <1>6

(***************************************************************************)
(* The reads of the log.  Rows whose cursors ascend stand for the set of   *)
(* these cursors.                                                          *)
(***************************************************************************)
CursorAscends(s) == \A m, n \in DOMAIN s : m < n => s[m].cursor < s[n].cursor

CursorsIn(s) == {row.cursor : row \in Range(s)}

LEMMA OnlyRows ==
  ASSUME NEW s \in Seq(Row), CursorAscends(s), NEW S
  PROVE  Only(s, S) \in Seq(Row) /\ CursorAscends(Only(s, S)) /\ Range(Only(s, S)) = Range(s) \cap S
<1>1. PICK p \in Seq(DOMAIN s) :
        /\ Ascending(p)
        /\ Only(s, S) = [n \in 1 .. Len(p) |-> s[p[n]]]
        /\ Only(s, S) \in Seq(Row)
        /\ DOMAIN Only(s, S) = 1 .. Len(p)
        /\ Range(Only(s, S)) = Range(s) \cap S
  BY OnlyFacts
<1>2. ASSUME NEW m \in 1 .. Len(p), NEW n \in 1 .. Len(p), m < n
      PROVE  Only(s, S)[m].cursor < Only(s, S)[n].cursor
  <2>1. p[m] \in DOMAIN s /\ p[n] \in DOMAIN s /\ p[m] < p[n]
    BY <1>1, <1>2 DEF Ascending
  <2> QED
    BY <1>1, <2>1 DEF CursorAscends
<1> QED
  BY <1>1, <1>2 DEF CursorAscends

LEMMA RowsTyped ==
  ASSUME NEW s \in Seq(Row)
  PROVE  /\ Len(s) \in Nat /\ DOMAIN s = 1 .. Len(s)
         /\ \A n \in 1 .. Len(s) : s[n] \in Row /\ s[n].cursor \in Nat
<1>1. Len(s) \in Nat /\ DOMAIN s = 1 .. Len(s) /\ \A n \in 1 .. Len(s) : s[n] \in Row
  OBVIOUS
<1>2. \A row \in Row : row.cursor \in Nat
  BY DEF Row
<1> QED
  BY <1>1, <1>2

LEMMA FrontRows ==
  ASSUME NEW s \in Seq(Row), CursorAscends(s), NEW k \in Nat
  PROVE  /\ CursorsIn(UpTo(s, k)) = Bbolt!FirstOf(CursorsIn(s), k)
         /\ Len(s) > k <=> Bbolt!FirstOf(CursorsIn(s), k) # CursorsIn(s)
         /\ UpTo(s, k) \in Seq(Row) /\ CursorAscends(UpTo(s, k))
         /\ Range(UpTo(s, k)) \subseteq Range(s)
         /\ k > 0 /\ Len(s) > 0 => Len(UpTo(s, k)) > 0
<1> DEFINE c     == [n \in 1 .. Len(s) |-> s[n].cursor]
           C     == CursorsIn(s)
           front == UpTo(s, k)
           place == [e \in C |-> Cardinality({j \in C : j <= e})]
           part  == {e \in Range(c) : place[e] <= k}
<1>1. Len(s) \in Nat /\ DOMAIN s = 1 .. Len(s) /\ \A n \in 1 .. Len(s) : s[n] \in Row /\ s[n].cursor \in Nat
  BY RowsTyped
<1>2. c \in Seq(Nat) /\ Len(c) = Len(s) /\ DOMAIN c = 1 .. Len(s) /\ \A n \in 1 .. Len(s) : c[n] = s[n].cursor
  BY <1>1
<1> HIDE DEF c
<1>3. Ascending(c) /\ Range(c) = C
  BY <1>1, <1>2 DEF Ascending, CursorAscends, Range, CursorsIn
<1> HIDE DEF C
<1>4. \A n \in DOMAIN c : Cardinality({j \in C : j <= c[n]}) = n
  BY <1>2, <1>3, AscendingCounts
<1>5. \A n \in DOMAIN c : place[c[n]] = n
  BY <1>3, <1>4 DEF Range
<1>6. part = Bbolt!FirstOf(C, k)
  BY <1>3, SameSize DEF Bbolt!FirstOf, Bbolt!Rank
<1> HIDE DEF place
<1>7. Range(UpTo(c, k)) = part /\ (Len(c) > k <=> part # Range(c))
  <2>1. c \in Seq(Nat)
    BY <1>2
  <2> QED
    BY <1>5, <2>1, FrontIsPage
<1> HIDE DEF part
<1>8. /\ front \in Seq(Row) /\ Len(front) = IF k < Len(s) THEN k ELSE Len(s)
      /\ \A n \in 1 .. Len(front) : front[n] = s[n] /\ n \in 1 .. Len(s) /\ n <= k
  BY FrontFacts, Zenon
<1>9. /\ UpTo(c, k) \in Seq(Nat) /\ Len(UpTo(c, k)) = IF k < Len(s) THEN k ELSE Len(s)
      /\ \A n \in 1 .. Len(UpTo(c, k)) : UpTo(c, k)[n] = c[n]
  <2>1. c \in Seq(Nat) /\ Len(c) = Len(s)
    BY <1>2
  <2>2. /\ UpTo(c, k) \in Seq(Nat) /\ Len(UpTo(c, k)) = IF k < Len(c) THEN k ELSE Len(c)
        /\ \A n \in 1 .. Len(UpTo(c, k)) : UpTo(c, k)[n] = c[n] /\ n \in 1 .. Len(c) /\ n <= k
    BY <2>1, FrontFacts, Zenon
  <2> QED
    BY <2>1, <2>2
<1> HIDE DEF front
<1>10. CursorsIn(front) = Range(UpTo(c, k))
  <2> DEFINE a == Len(front)
             u == UpTo(c, k)
  <2>1. DOMAIN front = 1 .. a /\ DOMAIN u = 1 .. a
    BY <1>8, <1>9
  <2> HIDE DEF a, u
  <2>2. \A n \in 1 .. a : front[n].cursor = u[n]
    BY <1>2, <1>8, <1>9, <2>1 DEF a, u
  <2>3. CursorsIn(front) = Range(u)
    BY <2>1, <2>2 DEF CursorsIn, Range
  <2> QED
    BY <2>3 DEF u
<1>11. CursorAscends(front) /\ Range(front) \subseteq Range(s)
  <2>1. DOMAIN front = 1 .. Len(front)
    BY <1>8
  <2>2. \A n \in DOMAIN front : front[n] = s[n] /\ n \in DOMAIN s
    BY <1>1, <1>8, <2>1
  <2> QED
    BY <2>2 DEF CursorAscends, Range
<1>12. k > 0 /\ Len(s) > 0 => Len(front) > 0
  BY <1>1, <1>8
<1> QED
  BY <1>2, <1>3, <1>6, <1>7, <1>8, <1>10, <1>11, <1>12 DEF C, front

LEMMA EndsOfRows ==
  ASSUME NEW s \in Seq(Row), CursorAscends(s)
  PROVE  /\ s = <<>> <=> CursorsIn(s) = {}
         /\ Len(s) > 0 => /\ Bbolt!Least(CursorsIn(s)) = Head(s).cursor
                          /\ Bbolt!Greatest(CursorsIn(s)) = Last(s).cursor
<1> DEFINE C == CursorsIn(s)
<1>1. Len(s) \in Nat /\ DOMAIN s = 1 .. Len(s) /\ \A n \in 1 .. Len(s) : s[n] \in Row /\ s[n].cursor \in Nat
  BY RowsTyped
<1>2. /\ \A n \in 1 .. Len(s) : s[n].cursor \in C
      /\ \A e \in C : \E n \in 1 .. Len(s) : e = s[n].cursor
  BY <1>1 DEF CursorsIn, Range
<1>3. s = <<>> <=> C = {}
  <2>1. s = <<>> <=> Len(s) = 0
    BY <1>1
  <2>2. Len(s) = 0 <=> C = {}
    BY <1>1, <1>2
  <2> QED
    BY <2>1, <2>2
<1> HIDE DEF C
<1>4. ASSUME Len(s) > 0
      PROVE  Bbolt!Least(C) = Head(s).cursor /\ Bbolt!Greatest(C) = Last(s).cursor
  <2> DEFINE a == Len(s)
  <2>1. /\ a \in Nat /\ 1 \in 1 .. a /\ a \in 1 .. a
        /\ \A n \in 1 .. a : n = 1 \/ 1 < n
        /\ \A n \in 1 .. a : n = a \/ n < a
    <3>1. a \in Nat /\ a > 0
      BY <1>1, <1>4
    <3> HIDE DEF a
    <3> QED
      BY <3>1
  <2>2. Head(s) = s[1] /\ Last(s) = s[a]
    BY <1>1, <1>4 DEF Last
  <2>3. \A m, n \in 1 .. a : m < n => s[m].cursor < s[n].cursor
    BY <1>1 DEF CursorAscends
  <2> HIDE DEF a
  <2>4. C \in SUBSET Nat /\ s[1].cursor \in C /\ s[a].cursor \in C
    BY <1>1, <1>2, <2>1 DEF a
  <2>5. \A e \in C : s[1].cursor <= e /\ e <= s[a].cursor
    <3>1. ASSUME NEW n \in 1 .. a
          PROVE  s[1].cursor <= s[n].cursor /\ s[n].cursor <= s[a].cursor
      <4>1. s[1].cursor \in Nat /\ s[n].cursor \in Nat /\ s[a].cursor \in Nat
        BY <1>1, <2>1 DEF a
      <4> QED
        BY <2>1, <2>3, <4>1
    <3> QED
      BY <1>2, <3>1 DEF a
  <2>6. Bbolt!Greatest(C) = s[a].cursor
    BY <2>4, <2>5, GreatestIs
  <2>7. Bbolt!Least(C) = s[1].cursor
    <3>1. ASSUME NEW e \in C, \A j \in C : e <= j
          PROVE  e = s[1].cursor
      <4>1. e <= s[1].cursor /\ s[1].cursor <= e /\ e \in Nat /\ s[1].cursor \in Nat
        BY <2>4, <2>5, <3>1
      <4> QED
        BY <4>1
    <3> QED
      BY <2>4, <2>5, <3>1 DEF Bbolt!Least
  <2> QED
    BY <2>2, <2>6, <2>7
<1> QED
  BY <1>3, <1>4 DEF C

LEMMA TargetsAgree ==
  ASSUME Typed, NEW s, Range(s) \subseteq Range(dels.rows), NEW cursor, NEW more, NEW reset
  PROVE  Page(s, cursor, more, reset) = Bbolt!Page(CursorsIn(s), cursor, more, reset)
<1>1. \A row \in Range(s) : BboltLog.rows[row.cursor] = row.rec
  <2>1. BboltLog.rows = [c \in CursorsOf(dels) |-> RecAt(dels, c)]
    BY LogIs DEF Buckets
  <2>2. \A row \in Range(dels.rows) : row.cursor \in CursorsOf(dels) /\ RecAt(dels, row.cursor) = row.rec
    BY RowsOf DEF Typed
  <2> QED
    BY <2>1, <2>2
<1>2. ASSUME NEW kind
      PROVE  Targets(s, kind) = Bbolt!Targets(CursorsIn(s), kind)
  <2> DEFINE C == CursorsIn(s)
             L == {BboltLog.rows[c].target : c \in {e \in C : BboltLog.rows[e].kind = kind}}
  <2>1. Bbolt!Targets(C, kind) = L
    BY DEF Bbolt!Targets, BboltLog
  <2>2. Targets(s, kind) = {row.rec.target : row \in {r \in Range(s) : r.rec.kind = kind}}
    BY DEF Targets
  <2>3. C = {row.cursor : row \in Range(s)}
    BY DEF CursorsIn
  <2> HIDE DEF C
  <2>4. {row.rec.target : row \in {r \in Range(s) : r.rec.kind = kind}} = L
    <3>1. \A row \in Range(s) : row.cursor \in C
      BY <2>3
    <3>2. \A c \in C : \E row \in Range(s) : c = row.cursor
      BY <2>3
    <3> QED
      BY <1>1, <3>1, <3>2
  <2> HIDE DEF L
  <2> QED
    BY <2>1, <2>2, <2>4 DEF C
<1> QED
  BY <1>2 DEF Page, Bbolt!Page

LEMMA DeletionsAgree ==
  ASSUME Typed, NEW d \in Devices, NEW since
  PROVE  DeletionsByDevice(d, since) = Bbolt!DeletionsByDevice(d, since)
<1> DEFINE mine    == Only(dels.rows, {row \in Range(dels.rows) : row.rec.device = d})
           events  == Only(mine, {row \in Range(mine) : row.cursor > since /\ row.rec.kind # "reset"})
           onPage  == UpTo(events, PageLimit)
           C       == Bbolt!Scan(BboltLog.byDev, d)
           E       == Bbolt!Events(d, since)
           P       == Bbolt!FirstOf(E, PageLimit)
<1>1. LogTyped(dels) /\ dels.rows \in Seq(Row) /\ CursorAscends(dels.rows)
  BY DEF Typed, LogTyped, CursorAscends
<1>2. /\ mine \in Seq(Row) /\ CursorAscends(mine)
      /\ Range(mine) = {row \in Range(dels.rows) : row.rec.device = d}
  <2> DEFINE wanted == {row \in Range(dels.rows) : row.rec.device = d}
  <2>1. mine \in Seq(Row) /\ CursorAscends(mine) /\ Range(mine) = Range(dels.rows) \cap wanted
    BY <1>1, OnlyRows
  <2> HIDE DEF mine
  <2> QED
    BY <2>1
<1>3. /\ events \in Seq(Row) /\ CursorAscends(events)
      /\ Range(events) = {row \in Range(mine) : row.cursor > since /\ row.rec.kind # "reset"}
  <2> DEFINE wanted == {row \in Range(mine) : row.cursor > since /\ row.rec.kind # "reset"}
  <2> HIDE DEF mine
  <2>1. events \in Seq(Row) /\ CursorAscends(events) /\ Range(events) = Range(mine) \cap wanted
    BY <1>2, OnlyRows
  <2> HIDE DEF events
  <2> QED
    BY <2>1
<1> HIDE DEF mine, events
<1>4. /\ BboltLog.rows = [c \in CursorsOf(dels) |-> RecAt(dels, c)]
      /\ BboltLog.byDev = {<<RecAt(dels, c).device, c>> : c \in CursorsOf(dels)}
  BY LogIs DEF Buckets
<1>5. /\ \A row \in Range(dels.rows) :
           row.cursor \in CursorsOf(dels) /\ RecAt(dels, row.cursor) = row.rec
      /\ CursorsOf(dels) = {row.cursor : row \in Range(dels.rows)}
  BY <1>1, RowsOf
<1>6. CursorsIn(mine) = C
  <2>1. C = {p[2] : p \in {q \in BboltLog.byDev : q[1] = d}}
    BY DEF Bbolt!Scan
  <2>2. ASSUME NEW c \in CursorsOf(dels), RecAt(dels, c).device = d
        PROVE  c \in C
    <3>1. <<RecAt(dels, c).device, c>> \in BboltLog.byDev
      BY <1>4
    <3> QED
      BY <2>1, <2>2, <3>1
  <2>3. ASSUME NEW c \in C
        PROVE  c \in CursorsOf(dels) /\ RecAt(dels, c).device = d
    BY <1>4, <2>1
  <2> HIDE DEF C
  <2>4. ASSUME NEW c \in C
        PROVE  c \in CursorsIn(mine)
    <3>1. PICK row \in Range(dels.rows) : c = row.cursor
      BY <1>5, <2>3
    <3> QED
      BY <1>2, <1>5, <2>3, <3>1 DEF CursorsIn
  <2>5. ASSUME NEW row \in Range(mine)
        PROVE  row.cursor \in C
    BY <1>2, <1>5, <2>2
  <2> QED
    BY <2>4, <2>5 DEF CursorsIn
<1>7. CursorsIn(events) = E
  <2>1. E = {c \in C : c > since /\ c \in DOMAIN BboltLog.rows /\ BboltLog.rows[c].kind # "reset"}
    BY DEF Bbolt!Events, BboltLog
  <2>2. \A row \in Range(dels.rows) :
          row.cursor \in DOMAIN BboltLog.rows /\ BboltLog.rows[row.cursor] = row.rec
    BY <1>4, <1>5
  <2>3. C = {row.cursor : row \in Range(mine)} /\ Range(mine) \subseteq Range(dels.rows)
    BY <1>2, <1>6 DEF CursorsIn
  <2> HIDE DEF C, E
  <2>4. ASSUME NEW c \in E
        PROVE  c \in CursorsIn(events)
    <3>1. PICK row \in Range(mine) : c = row.cursor
      BY <2>1, <2>3
    <3>2. row \in Range(events)
      BY <1>3, <2>1, <2>2, <2>3, <3>1
    <3> QED
      BY <3>1, <3>2 DEF CursorsIn
  <2>5. ASSUME NEW row \in Range(events)
        PROVE  row.cursor \in E
    BY <1>3, <2>1, <2>2, <2>3
  <2> QED
    BY <2>4, <2>5 DEF CursorsIn
<1> HIDE DEF C, E
<1>8. PageLimit \in Nat /\ PageLimit > 0
  BY MemAssumption
<1>9. /\ CursorsIn(onPage) = P /\ (Len(events) > PageLimit <=> P # E)
      /\ onPage \in Seq(Row) /\ CursorAscends(onPage) /\ Range(onPage) \subseteq Range(events)
      /\ Len(events) > 0 => Len(onPage) > 0
  BY <1>3, <1>7, <1>8, FrontRows
<1> HIDE DEF P, onPage
<1>10. /\ mine = <<>> <=> C = {}
       /\ C # {} => Bbolt!Least(C) = Head(mine).cursor /\ Bbolt!Greatest(C) = Last(mine).cursor
  <2>1. mine = <<>> \/ Len(mine) > 0
    BY <1>2
  <2> QED
    BY <1>2, <1>6, <2>1, EndsOfRows
<1>11. P # E => Bbolt!Greatest(P) = Last(onPage).cursor
  <2>1. P # E => Len(events) > 0
    <3>1. Len(events) > PageLimit => Len(events) > 0
      <4> DEFINE a == Len(events)
      <4>1. a \in Nat
        BY <1>3
      <4> HIDE DEF a
      <4>2. a > PageLimit => a > 0
        BY <1>8, <4>1
      <4> QED
        BY <4>2 DEF a
    <3> QED
      BY <1>9, <3>1
  <2> QED
    BY <1>9, <2>1, EndsOfRows
<1>12. ASSUME NEW cursor, NEW more, NEW reset
       PROVE  /\ Page(<<>>, cursor, more, reset) = Bbolt!Page({}, cursor, more, reset)
              /\ Page(events, cursor, more, reset) = Bbolt!Page(E, cursor, more, reset)
              /\ Page(onPage, cursor, more, reset) = Bbolt!Page(P, cursor, more, reset)
  <2>1. Range(<<>>) = {} /\ CursorsIn(<<>>) = {}
    BY DEF Range, CursorsIn
  <2>2. Range(events) \subseteq Range(dels.rows) /\ Range(onPage) \subseteq Range(dels.rows)
    BY <1>2, <1>3, <1>9
  <2>3. Range(<<>>) \subseteq Range(dels.rows)
    BY <2>1
  <2> QED
    BY <1>7, <1>9, <2>1, <2>2, <2>3, TargetsAgree
<1>13. DeletionsByDevice(d, since) =
         IF mine = <<>> THEN Page(<<>>, 0, FALSE, FALSE)
         ELSE IF since = 0 THEN Page(<<>>, Last(mine).cursor, FALSE, FALSE)
         ELSE IF since < Head(mine).cursor THEN Page(<<>>, Last(mine).cursor, FALSE, TRUE)
         ELSE IF Len(events) > PageLimit THEN Page(onPage, Last(onPage).cursor, TRUE, FALSE)
         ELSE Page(events, Last(mine).cursor, FALSE, FALSE)
  BY DEF DeletionsByDevice, onPage, events, mine
<1>14. Bbolt!DeletionsByDevice(d, since) =
         IF C = {} THEN Bbolt!Page({}, 0, FALSE, FALSE)
         ELSE IF since = 0 THEN Bbolt!Page({}, Bbolt!Greatest(C), FALSE, FALSE)
         ELSE IF since < Bbolt!Least(C) THEN Bbolt!Page({}, Bbolt!Greatest(C), FALSE, TRUE)
         ELSE IF P = E THEN Bbolt!Page(E, Bbolt!Greatest(C), FALSE, FALSE)
         ELSE Bbolt!Page(P, Bbolt!Greatest(P), TRUE, FALSE)
  BY DEF Bbolt!DeletionsByDevice, P, E, C, BboltLog
<1>15. CASE C = {}
  BY <1>10, <1>12, <1>13, <1>14, <1>15
<1>16. CASE C # {} /\ since = 0
  BY <1>10, <1>12, <1>13, <1>14, <1>16
<1>17. CASE C # {} /\ since # 0 /\ since < Bbolt!Least(C)
  BY <1>10, <1>12, <1>13, <1>14, <1>17
<1>18. CASE C # {} /\ since # 0 /\ ~ (since < Bbolt!Least(C)) /\ P = E
  <2>1. mine # <<>> /\ ~ (since < Head(mine).cursor) /\ ~ (Len(events) > PageLimit)
    BY <1>9, <1>10, <1>18
  <2>2. DeletionsByDevice(d, since) = Page(events, Last(mine).cursor, FALSE, FALSE)
    BY <1>13, <1>18, <2>1
  <2>3. Bbolt!DeletionsByDevice(d, since) = Bbolt!Page(E, Bbolt!Greatest(C), FALSE, FALSE)
    BY <1>14, <1>18
  <2> QED
    BY <1>10, <1>12, <1>18, <2>2, <2>3
<1>19. CASE C # {} /\ since # 0 /\ ~ (since < Bbolt!Least(C)) /\ P # E
  <2>1. mine # <<>> /\ ~ (since < Head(mine).cursor) /\ Len(events) > PageLimit
    BY <1>9, <1>10, <1>19
  <2>2. DeletionsByDevice(d, since) = Page(onPage, Last(onPage).cursor, TRUE, FALSE)
    BY <1>13, <1>19, <2>1
  <2>3. Bbolt!DeletionsByDevice(d, since) = Bbolt!Page(P, Bbolt!Greatest(P), TRUE, FALSE)
    BY <1>14, <1>19
  <2> QED
    BY <1>11, <1>12, <1>19, <2>2, <2>3
<1> QED
  BY <1>15, <1>16, <1>17, <1>18, <1>19

LEMMA ReadsAgree ==
  ASSUME Typed
  PROVE  AnswersAgree
BY DeletionsAgree, MessagesAgree DEF AnswersAgree

(***************************************************************************)
(* The export.  What it has passed over can no longer become steady: a     *)
(* message without an extras.id is as it was or is gone.                   *)
(***************************************************************************)
Passed(id) ==
  id \in DOMAIN msgs =>
    /\ export.keyword # NoKeyword
    /\ msgs[id].extraID # NoID \/ ~ MessageMatches(msgs[id], export.keyword)

Placed(id) == id \in Range(export.ids) \/ id \in Range(export.out) \/ Passed(id)

ExportInv ==
  /\ export = [on |-> export.on, device |-> export.device, keyword |-> export.keyword,
               ids |-> export.ids, out |-> export.out, began |-> export.began]
  /\ export.ids \in Seq(Nat) /\ Descending(export.ids)
  /\ export.out \in Seq(Nat) /\ Descending(export.out)
  /\ \A id \in Range(export.ids), o \in Range(export.out) : id < o
  /\ Range(export.out) \subseteq DOMAIN export.began
  /\ \A id \in Range(export.ids) : id <= seq
  /\ \A id \in Range(export.ids) \cap DOMAIN msgs :
       InScope(export.device, id) => id \in DOMAIN export.began
  /\ \A id \in DOMAIN export.began :
       /\ id \in Nat /\ id <= seq /\ Placed(id)
       /\ id \in DOMAIN msgs => InScope(export.device, id)

\* What a step does to the messages that were stored before.
ContentLasts ==
  /\ seq' \in Nat /\ seq <= seq'
  /\ \A id \in DOMAIN msgs' :
       id <= seq =>
         /\ id \in DOMAIN msgs
         /\ msgs'[id].device = msgs[id].device /\ msgs'[id].extraID = msgs[id].extraID
         /\ msgs[id].extraID = NoID => msgs'[id] = msgs[id]

LEMMA RemovalLasts ==
  ASSUME Typed, NEW S, RemoveLocked(msgs, S)
  PROVE  ContentLasts /\ export' = export
BY DEF ContentLasts, RemoveLocked, Drop, Typed

LEMMA InsertLasts ==
  ASSUME Typed, NEW d, NEW x, NEW b, NEW t, Insert(d, x, b, t)
  PROVE  ContentLasts /\ export' = export
<1> DEFINE id     == seq + 1
           m      == NewMessage(d, x, b, t)
           victim == Range(Evicted(Append(order, id)))
<1>1. /\ seq' = id /\ msgs' = Drop(With(msgs, id, m), victim) /\ export' = export
  BY DEF Insert
<1> HIDE DEF m, victim
<1>2. seq \in Nat
  BY DEF Typed
<1>3. ASSUME NEW i \in DOMAIN msgs', i <= seq
      PROVE  i \in DOMAIN msgs /\ msgs'[i] = msgs[i]
  <2>1. i # id
    BY <1>2, <1>3
  <2>2. i \in (DOMAIN msgs \cup {id}) \ victim /\ msgs'[i] = With(msgs, id, m)[i]
    BY <1>1, <1>3 DEF Drop, With
  <2> QED
    BY <2>1, <2>2 DEF With
<1> QED
  BY <1>1, <1>2, <1>3 DEF ContentLasts

LEMMA UpsertLasts ==
  ASSUME Typed, NEW d, NEW x \in ExtraIDs, NEW b, NEW t, UpsertByExtraID(d, x, b, t)
  PROVE  ContentLasts /\ export' = export
<1>1. CASE Matches(d, x) = {}
  BY <1>1, InsertLasts DEF UpsertByExtraID
<1>2. CASE Matches(d, x) # {}
  <2> DEFINE id == Newest(Matches(d, x))
             m  == NewMessage(d, x, b, t)
  <2>1. msgs' = [msgs EXCEPT ![id] = m] /\ seq' = seq /\ export' = export
    BY <1>2 DEF UpsertByExtraID
  <2>2. id \in DOMAIN msgs /\ msgs[id].device = d /\ msgs[id].extraID = x
    <3>1. id \in Bbolt!Matches(d, x)
      BY <1>2, NewestIs
    <3> QED
      BY <3>1 DEF Bbolt!Matches
  <2>3. m.device = d /\ m.extraID = x /\ x # NoID
    BY MemAssumption DEF NewMessage, NoID
  <2> HIDE DEF id, m
  <2>4. seq \in Nat /\ seq <= seq
    BY DEF Typed
  <2> QED
    BY <2>1, <2>2, <2>3, <2>4 DEF ContentLasts
<1> QED
  BY <1>1, <1>2

LEMMA StepLasts ==
  ASSUME Typed, [MemNext]_memVars, ~ Export
  PROVE  ContentLasts /\ export' = export
<1>1. CASE UNCHANGED <<msgs, seq, export>>
  BY <1>1 DEF ContentLasts, Typed
<1>2. CASE NewMemoryStore
  BY <1>1, <1>2 DEF NewMemoryStore
<1>3. CASE Publish
  BY <1>3, InsertLasts, UpsertLasts DEF Publish, Add
<1>4. CASE Delete
  BY <1>4, RemovalLasts DEF Delete, DeleteAllByDevice, DeleteByDevice, DeleteByExtraID
<1>5. CASE ExpireMessages
  BY <1>5, RemovalLasts DEF ExpireMessages
<1>6. CASE CleanupDeletions
  BY <1>1, <1>6 DEF CleanupDeletions
<1>7. CASE Tick
  BY <1>1, <1>7 DEF Tick
<1>8. CASE UNCHANGED memVars
  BY <1>1, <1>8 DEF memVars
<1> QED
  BY <1>2, <1>3, <1>4, <1>5, <1>6, <1>7, <1>8 DEF MemNext

\* Other calls run into an export.
LEMMA OthersKeep ==
  ASSUME Typed, ExportInv, ContentLasts, export' = export
  PROVE  ExportInv'
<1>1. ASSUME NEW id, id \in Nat, id <= seq
      PROVE  /\ id <= seq'
             /\ id \in DOMAIN msgs' => id \in DOMAIN msgs /\ InScope(export.device, id)' = InScope(export.device, id)
             /\ Passed(id) => Passed(id)'
  <2>1. id <= seq'
    BY <1>1 DEF ContentLasts, Typed
  <2>2. ASSUME id \in DOMAIN msgs'
        PROVE  /\ id \in DOMAIN msgs
               /\ msgs'[id].device = msgs[id].device /\ msgs'[id].extraID = msgs[id].extraID
               /\ msgs[id].extraID = NoID => msgs'[id] = msgs[id]
    BY <1>1, <2>2 DEF ContentLasts
  <2>3. Passed(id) => Passed(id)'
    BY <2>2 DEF Passed, MessageMatches
  <2> QED
    BY <2>1, <2>2, <2>3 DEF InScope
<1>2. /\ export.ids \in Seq(Nat)
      /\ \A id \in Range(export.ids) : id \in Nat /\ id <= seq
  BY DEF ExportInv, Range
<1>3. \A id \in DOMAIN export.began : id \in Nat /\ id <= seq /\ Placed(id)
  BY DEF ExportInv
<1>4. \A id \in DOMAIN export.began : Placed(id)'
  BY <1>1, <1>3 DEF Placed
<1>5. \A id \in Range(export.ids) \cap DOMAIN msgs' :
        InScope(export.device, id)' => id \in DOMAIN export.began
  BY <1>1, <1>2 DEF ExportInv
<1>6. \A id \in DOMAIN export.began : id \in DOMAIN msgs' => InScope(export.device, id)'
  BY <1>1, <1>3 DEF ExportInv
<1>7. \A id \in Range(export.ids) \cup DOMAIN export.began : id <= seq'
  BY <1>1, <1>2, <1>3
<1> QED
  BY <1>3, <1>4, <1>5, <1>6, <1>7 DEF ExportInv


LEMMA NothingExported ==
  /\ export = NoExport => ExportInv
  /\ export' = NoExport => ExportInv'
<1>1. DOMAIN EmptyMap = {}
  BY DEF EmptyMap
<1>2. <<>> \in Seq(Nat) /\ Range(<<>>) = {} /\ Descending(<<>>)
  BY DEF Range, Descending
<1> HIDE DEF EmptyMap
<1>3. ASSUME export = NoExport
      PROVE  ExportInv
  <2>1. /\ export = [on |-> export.on, device |-> export.device, keyword |-> export.keyword,
                     ids |-> export.ids, out |-> export.out, began |-> export.began]
        /\ export.ids = <<>> /\ export.out = <<>> /\ export.began = EmptyMap
    BY <1>3 DEF NoExport
  <2> QED
    BY <1>1, <1>2, <2>1 DEF ExportInv
<1>4. ASSUME export' = NoExport
      PROVE  ExportInv'
  <2>1. /\ export' = [on |-> export'.on, device |-> export'.device, keyword |-> export'.keyword,
                      ids |-> export'.ids, out |-> export'.out, began |-> export'.began]
        /\ export'.ids = <<>> /\ export'.out = <<>> /\ export'.began = EmptyMap
    BY <1>4 DEF NoExport
  <2> QED
    BY <1>1, <1>2, <2>1 DEF ExportInv
<1> QED
  BY <1>3, <1>4

LEMMA ExportStarts ==
  ASSUME Typed, NEW d \in Devices, NEW kw \in Keywords, NEW since \in 0 .. MaxSeq,
         ExportBegin(d, kw, since)
  PROVE  ExportInv'
<1> DEFINE wanted == {id \in DOMAIN msgs : since = 0 \/ id < since}
           stored == {id \in wanted : InScope(d, id)}
           began  == Drop(msgs, {id \in DOMAIN msgs : id \notin wanted \/ ~ InScope(d, id)})
           ids    == Only(Reverse(order), wanted)
<1>1. export' = [on |-> TRUE, device |-> d, keyword |-> kw, ids |-> ids,
                 out |-> <<>>, began |-> began]
  BY DEF ExportBegin, NoExport
<1>2. msgs' = msgs /\ seq' = seq
  BY DEF ExportBegin
<1>3. DOMAIN began = stored
  BY DEF Drop
<1>4. wanted \subseteq DOMAIN msgs
  OBVIOUS
<1> HIDE DEF wanted
<1>5. ids \in Seq(Nat) /\ Range(ids) = wanted /\ Descending(ids)
  <2>1. /\ Reverse(order) \in Seq(Nat) /\ Range(Reverse(order)) = DOMAIN msgs
        /\ Descending(Reverse(order))
    BY ReverseTurns DEF Typed
  <2> DEFINE back == Reverse(order)
  <2> HIDE DEF back
  <2>2. back \in Seq(Nat) /\ Range(back) = DOMAIN msgs /\ Descending(back)
    BY <2>1 DEF back
  <2>3. /\ Only(back, wanted) \in Seq(Nat) /\ Descending(Only(back, wanted))
        /\ Range(Only(back, wanted)) = Range(back) \cap wanted
    BY <2>2, OnlyDescends
  <2>4. Range(back) \cap wanted = wanted
    BY <1>4, <2>2
  <2>5. ids = Only(back, wanted)
    BY DEF back
  <2> QED
    BY <2>3, <2>4, <2>5
<1>6. <<>> \in Seq(Nat) /\ Range(<<>>) = {} /\ Descending(<<>>)
  BY DEF Range, Descending
<1>7. \A id \in DOMAIN msgs : id \in Nat /\ id <= seq
  BY DEF Typed
<1> HIDE DEF began, ids
<1>8. \A id \in stored : id \in wanted /\ InScope(d, id)
  OBVIOUS
<1>9. \A id \in wanted : InScope(d, id) => id \in stored
  OBVIOUS
<1> HIDE DEF stored
<1>10. \A id \in DOMAIN began : Placed(id)'
  BY <1>1, <1>3, <1>5, <1>8 DEF Placed
<1>11. \A id \in DOMAIN began : id \in DOMAIN msgs' => InScope(export.device, id)'
  BY <1>1, <1>2, <1>3, <1>8 DEF InScope
<1>12. \A id \in Range(ids) \cap DOMAIN msgs' : InScope(export.device, id)' => id \in DOMAIN began
  BY <1>1, <1>2, <1>3, <1>5, <1>9 DEF InScope
<1>13. \A id \in Range(ids) \cup DOMAIN began : id \in Nat /\ id <= seq'
  BY <1>2, <1>3, <1>4, <1>5, <1>7, <1>8
<1> QED
  BY <1>1, <1>5, <1>6, <1>10, <1>11, <1>12, <1>13 DEF ExportInv

LEMMA ExportSteps ==
  ASSUME Typed, ExportInv, ExportNext
  PROVE  ExportInv'
<1> DEFINE h    == Head(export.ids)
           left == Tail(export.ids)
           out  == export.out \o Sorted(Written)
           Reached == {id \in DOMAIN export.began : id # h /\ Placed(id)}
<1>1. /\ export.ids \in Seq(Nat) /\ export.ids # <<>> /\ Descending(export.ids)
      /\ export.out \in Seq(Nat) /\ Descending(export.out)
      /\ msgs' = msgs /\ seq' = seq
  BY DEF ExportInv, ExportNext
<1>2. export' = [on |-> export.on, device |-> export.device, keyword |-> export.keyword,
                 ids |-> left, out |-> out, began |-> export.began]
  BY DEF ExportInv, ExportNext
<1>3. /\ left \in Seq(Nat) /\ Descending(left) /\ h \in Nat
      /\ Range(export.ids) = Range(left) \cup {h}
      /\ \A id \in Range(left) : id < h
  <2> DEFINE a == Len(left)
             b == Len(export.ids)
  <2>1. h \in Nat /\ left \in Seq(Nat) /\ a = b - 1 /\ \A i \in 1 .. a : left[i] = export.ids[i + 1]
    BY <1>1, HeadTailProperties
  <2>2. /\ b \in Nat /\ DOMAIN export.ids = 1 .. b /\ h = export.ids[1]
        /\ a \in Nat /\ DOMAIN left = 1 .. a
    BY <1>1, <2>1
  <2> HIDE DEF a, b, left, h
  <2>3. \A i \in 1 .. a : i + 1 \in 1 .. b /\ 1 < i + 1
    BY <2>1, <2>2
  <2>4. 1 \in 1 .. b /\ \A i \in 1 .. b : i = 1 \/ (i - 1 \in 1 .. a /\ i = (i - 1) + 1)
    BY <2>1, <2>2
  <2>5. \A m, n \in 1 .. b : m < n => export.ids[n] < export.ids[m]
    BY <1>1, <2>2 DEF Descending
  <2>6. Descending(left)
    <3>1. ASSUME NEW m \in 1 .. a, NEW n \in 1 .. a, m < n
          PROVE  left[n] < left[m]
      <4>1. m + 1 < n + 1
        BY <3>1
      <4> QED
        BY <2>1, <2>3, <2>5, <4>1
    <3> QED
      BY <2>2, <3>1 DEF Descending
  <2>7. \A id \in Range(left) : id < h /\ id \in Range(export.ids)
    <3>1. ASSUME NEW i \in 1 .. a
          PROVE  left[i] < h /\ left[i] \in Range(export.ids)
      BY <2>1, <2>2, <2>3, <2>4, <2>5 DEF Range
    <3> QED
      BY <2>2, <3>1 DEF Range
  <2>8. h \in Range(export.ids)
    BY <2>2, <2>4 DEF Range
  <2>9. \A id \in Range(export.ids) : id = h \/ id \in Range(left)
    <3>1. ASSUME NEW i \in 1 .. b
          PROVE  export.ids[i] = h \/ export.ids[i] \in Range(left)
      <4>1. CASE i = 1
        BY <2>2, <4>1
      <4>2. CASE i - 1 \in 1 .. a /\ i = (i - 1) + 1
        <5>1. left[i - 1] = export.ids[i]
          BY <2>1, <4>2
        <5> QED
          BY <2>2, <4>2, <5>1 DEF Range
      <4> QED
        BY <2>4, <4>1, <4>2
    <3> QED
      BY <2>2, <3>1 DEF Range
  <2> QED
    BY <2>1, <2>6, <2>7, <2>8, <2>9
<1>4. /\ Written \subseteq {h} /\ Written \subseteq DOMAIN export.began
      /\ h \in DOMAIN export.began /\ h \notin Written => Passed(h)
  <2> HIDE DEF h
  <2>1. Written = {id \in {h} : /\ id \in DOMAIN msgs /\ InScope(export.device, id)
                                /\ MessageMatches(msgs[id], export.keyword)}
    BY DEF Written, Turn, h
  <2>2. h \in Range(export.ids)
    BY <1>3
  <2>3. h \in DOMAIN msgs /\ InScope(export.device, h) => h \in DOMAIN export.began
    BY <2>2 DEF ExportInv
  <2>4. h \in DOMAIN export.began /\ h \in DOMAIN msgs => InScope(export.device, h)
    BY DEF ExportInv
  <2>5. h \in DOMAIN export.began /\ h \notin Written => Passed(h)
    BY <2>1, <2>4 DEF Passed, MessageMatches
  <2> QED
    BY <2>1, <2>3, <2>5
<1> HIDE DEF h, left
<1>5. /\ out \in Seq(Nat) /\ Descending(out) /\ Range(out) = Range(export.out) \cup Written
  <2> DEFINE s == Sorted(Written)
             a == Len(export.out)
             b == Len(s)
  <2>1. Written \in SUBSET Nat /\ IsFiniteSet(Written)
    BY <1>3, <1>4, FS_Subset, FS_Singleton
  <2>2. s \in Seq(Written) /\ Range(s) = Written /\ Ascending(s)
    BY <2>1, SortedFacts
  <2>3. s \in Seq(Nat) /\ b \in Nat /\ DOMAIN s = 1 .. b /\ \A i \in 1 .. b : s[i] \in Written
    <3> HIDE DEF s
    <3>1. b \in Nat /\ DOMAIN s = 1 .. b /\ \A i \in 1 .. b : s[i] \in Written
      BY <2>2
    <3>2. s \in Seq(Nat)
      <4>1. \A i \in 1 .. b : s[i] \in Nat
        BY <2>1, <3>1
      <4>2. s = [i \in 1 .. b |-> s[i]]
        BY <2>2, <3>1
      <4> QED
        BY <3>1, <4>1, <4>2
    <3> QED
      BY <3>1, <3>2
  <2>4. a \in Nat /\ DOMAIN export.out = 1 .. a /\ \A i \in 1 .. a : export.out[i] \in Range(export.out)
    BY <1>1 DEF Range
  <2>5. /\ out \in Seq(Nat) /\ Len(out) = a + b
        /\ \A i \in 1 .. a + b : out[i] = IF i <= a THEN export.out[i] ELSE s[i - a]
    BY <1>1, <2>3, ConcatProperties
  <2>6. \A o \in Range(export.out) : h < o
    BY <1>3 DEF ExportInv
  <2>7. \A m, n \in 1 .. b : ~ (m < n)
    <3>1. ASSUME NEW m \in 1 .. b, NEW n \in 1 .. b, m < n
          PROVE  FALSE
      <4>1. s[m] < s[n]
        BY <2>2, <2>3, <3>1 DEF Ascending
      <4>2. s[m] = h /\ s[n] = h
        BY <1>4, <2>3
      <4> QED
        BY <1>3, <4>1, <4>2
    <3> QED
      BY <3>1
  <2> HIDE DEF s, out, a, b
  <2>8. DOMAIN out = 1 .. a + b
    BY <2>3, <2>4, <2>5
  <2>9. ASSUME NEW i \in 1 .. a + b
        PROVE  \/ i \in 1 .. a /\ out[i] = export.out[i]
               \/ i > a /\ i - a \in 1 .. b /\ out[i] = s[i - a] /\ out[i] = h
    <3>1. CASE i <= a
      BY <2>3, <2>4, <2>5, <3>1
    <3>2. CASE i > a
      <4>1. i - a \in 1 .. b
        BY <2>3, <2>4, <3>2
      <4>2. out[i] = s[i - a]
        BY <2>3, <2>4, <2>5, <3>2
      <4> QED
        BY <1>4, <2>3, <3>2, <4>1, <4>2
    <3> QED
      BY <2>3, <2>4, <3>1, <3>2
  <2>10. ASSUME NEW m \in 1 .. a + b, NEW n \in 1 .. a + b, m < n
         PROVE  out[n] < out[m]
    <3>1. CASE n \in 1 .. a /\ out[n] = export.out[n]
      <4>1. m \in 1 .. a /\ ~ (m > a)
        BY <2>3, <2>4, <2>10, <3>1
      <4>2. out[m] = export.out[m]
        BY <2>9, <4>1
      <4> QED
        BY <1>1, <2>4, <2>10, <3>1, <4>1, <4>2 DEF Descending
    <3>2. CASE n > a /\ n - a \in 1 .. b /\ out[n] = s[n - a] /\ out[n] = h
      <4>1. CASE m \in 1 .. a /\ out[m] = export.out[m]
        BY <2>4, <2>6, <3>2, <4>1
      <4>2. CASE m > a /\ m - a \in 1 .. b
        <5>1. m - a < n - a
          BY <2>3, <2>4, <2>10
        <5> QED
          BY <2>7, <3>2, <4>2, <5>1
      <4> QED
        BY <2>9, <4>1, <4>2
    <3> QED
      BY <2>9, <3>1, <3>2
  <2>11. Descending(out)
    BY <2>8, <2>10 DEF Descending
  <2>12. \A e \in Range(out) : e \in Range(export.out) \cup Written
    BY <2>3, <2>4, <2>8, <2>9 DEF Range
  <2>13. ASSUME NEW i \in 1 .. a
         PROVE  export.out[i] \in Range(out)
    <3>1. i \in 1 .. a + b /\ i <= a
      BY <2>3, <2>4
    <3>2. out[i] = export.out[i]
      BY <2>5, <3>1
    <3> QED
      BY <2>8, <3>1, <3>2 DEF Range
  <2>14. ASSUME NEW i \in 1 .. b
         PROVE  s[i] \in Range(out)
    <3>1. a + i \in 1 .. a + b /\ ~ (a + i <= a) /\ (a + i) - a = i
      BY <2>3, <2>4
    <3>2. out[a + i] = s[i]
      BY <2>5, <3>1
    <3> QED
      BY <2>8, <3>1, <3>2 DEF Range
  <2>15. (\A e \in Range(export.out) : e \in Range(out)) /\ (\A e \in Written : e \in Range(out))
    <3>1. \A e \in Range(export.out) : \E i \in 1 .. a : e = export.out[i]
      BY <2>4 DEF Range
    <3>2. \A e \in Written : \E i \in 1 .. b : e = s[i]
      BY <2>2, <2>3 DEF Range
    <3> QED
      BY <2>13, <2>14, <3>1, <3>2
  <2> QED
    BY <2>5, <2>11, <2>12, <2>15
<1> HIDE DEF out
<1>6. \A id \in DOMAIN export.began : Placed(id)'
  <2>1. ASSUME NEW id \in DOMAIN export.began
        PROVE  id \in Range(left) \/ id \in Range(out) \/ Passed(id)
    <3>1. id \in Range(export.ids) \/ id \in Range(export.out) \/ Passed(id)
      BY DEF ExportInv, Placed
    <3> QED
      BY <1>3, <1>4, <1>5, <3>1
  <2>2. \A id : Passed(id) => Passed(id)'
    BY <1>1, <1>2 DEF Passed, MessageMatches
  <2> QED
    BY <1>2, <2>1, <2>2 DEF Placed
<1>7. \A id \in Range(left), o \in Range(out) : id < o
  <2>1. \A id \in Range(left), o \in Range(export.out) : id < o
    BY <1>3 DEF ExportInv
  <2> QED
    BY <1>3, <1>4, <1>5, <2>1
<1>8. Range(out) \subseteq DOMAIN export.began
  BY <1>4, <1>5 DEF ExportInv
<1>9. /\ \A id \in Range(left) : id <= seq'
      /\ \A id \in Range(left) \cap DOMAIN msgs' :
           InScope(export.device, id)' => id \in DOMAIN export.began
  <2>1. Range(left) \subseteq Range(export.ids)
    BY <1>3
  <2>2. \A id : InScope(export.device, id)' <=> InScope(export.device, id)
    BY <1>1, <1>2 DEF InScope
  <2> QED
    BY <1>1, <2>1, <2>2 DEF ExportInv
<1>10. \A id \in DOMAIN export.began :
         /\ id \in Nat /\ id <= seq'
         /\ id \in DOMAIN msgs' => InScope(export.device, id)'
  <2>1. \A id : InScope(export.device, id)' <=> InScope(export.device, id)
    BY <1>1, <1>2 DEF InScope
  <2> QED
    BY <1>1, <2>1 DEF ExportInv
<1> QED
  BY <1>2, <1>3, <1>5, <1>6, <1>7, <1>8, <1>9, <1>10 DEF ExportInv

LEMMA ExportKept ==
  ASSUME Typed, ExportInv, [MemNext]_memVars
  PROVE  ExportInv'
<1>1. CASE ~ Export
  BY <1>1, StepLasts, OthersKeep
<1>2. CASE \E d \in Devices, kw \in Keywords, since \in 0 .. MaxSeq : ExportBegin(d, kw, since)
  BY <1>2, ExportStarts
<1>3. CASE ExportNext
  BY <1>3, ExportSteps
<1>4. CASE ExportEnd
  <2>1. export' = NoExport
    BY <1>4 DEF ExportEnd
  <2> QED
    BY <2>1, NothingExported
<1> QED
  BY <1>1, <1>2, <1>3, <1>4 DEF Export

LEMMA ExportIsSound ==
  ASSUME ExportInv
  PROVE  ExportSound
<1>1. export.out \in Seq(Nat) /\ Descending(export.out) /\ Range(export.out) \subseteq DOMAIN export.began
  BY DEF ExportInv
<1>2. Ascending(Reverse(export.out))
  BY <1>1, ReverseTurns
<1>3. ASSUME export.ids = <<>>, NEW id \in DOMAIN export.began, Steady(id)
      PROVE  id \in Range(export.out)
  <2>1. id \in Range(export.ids) \/ id \in Range(export.out) \/ Passed(id)
    BY DEF ExportInv, Placed
  <2>2. Range(export.ids) = {}
    BY <1>3 DEF Range
  <2>3. ~ Passed(id)
    BY <1>3 DEF Steady, Passed
  <2> QED
    BY <2>1, <2>2, <2>3
<1> QED
  BY <1>1, <1>2, <1>3 DEF ExportSound

(***************************************************************************)
(* In every state, whatever is stored, deleted, evicted and expired, each  *)
(* read of the memory store answers what the bbolt store answers from the  *)
(* same state, at every cursor and limit (RecentPageByDevice,              *)
(* SearchByDevice, AfterByDevice, DeletionsByDevice); and an export that   *)
(* other calls run into (ForEachByDevice) writes messages that were there  *)
(* when it began, newest first, and leaves out none that stayed.  It holds *)
(* however the clock is set.                                               *)
(***************************************************************************)
THEOREM ReadsAlwaysSound == MemSpec => []ReadsSound
<1>1. MemInit => ExportInv
  BY StartIs, NothingExported DEF MemInit
<1>2. Typed /\ ExportInv /\ [MemNext]_memVars => ExportInv'
  BY ExportKept
<1>3. Typed /\ ExportInv => ReadsSound
  BY ReadsAgree, ExportIsSound DEF ReadsSound
<1> QED
  BY <1>1, <1>2, <1>3, TypedHolds, PTL DEF MemSpec

=============================================================================
