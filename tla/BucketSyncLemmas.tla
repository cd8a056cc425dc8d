-------------------------- MODULE BucketSyncLemmas --------------------------
(***************************************************************************)
(* Buckets and their checkpoints, for every number of rows, routes,        *)
(* contents, retained operations, changes of a transaction and budget of a *)
(* scan: sums of hashes, one operation applied to the store, the replay of *)
(* the operations a client has not seen, transactions of any length, and   *)
(* what a client makes of a part of a snapshot.                            *)
(***************************************************************************)
EXTENDS BucketSync, FiniteSetTheorems, TLAPS

----------------------------------------------------------------------------
\* Induction and counting.

\* Induction over the natural numbers, for the set of numbers that have a property.
\* Otherwise the numbers up to n outside of S would be mapped into themselves by
\* the predecessor, which is one to one and misses n.
LEMMA NatSetInduction ==
    ASSUME NEW S, 0 \in S, \A n \in Nat : n \in S => n + 1 \in S
    PROVE  Nat \subseteq S
<1> SUFFICES ASSUME NEW n \in Nat, n \notin S
             PROVE  FALSE
  BY Zenon
<1> DEFINE B == {m \in 0..n : m \notin S}
           f == [m \in B |-> m - 1]
<1>1. IsFiniteSet(B)
  <2>1. IsFiniteSet(0..n) /\ B \in SUBSET (0..n)
    BY FS_Interval
  <2> HIDE DEF B
  <2> QED BY <2>1, FS_Subset, Zenon
<1>2. n \in B
  OBVIOUS
<1>3. \A m \in B : m \in Nat /\ m # 0 /\ m - 1 \in B \ {n}
  OBVIOUS
<1>4. f \in [B -> B \ {n}] /\ \A m \in B : f[m] = m - 1
  BY <1>3, Zenon
<1> HIDE DEF B, f
<1>5. /\ IsFiniteSet(B \ {n})
      /\ Cardinality(B \ {n}) = Cardinality(B) - 1 /\ Cardinality(B) \in Nat
  BY <1>1, <1>2, FS_RemoveElement, FS_CardinalityType, Zenon
<1> QED BY <1>1, <1>3, <1>4, <1>5, FS_PigeonHole

\* The elements of S up to i.
UpTo(S, i) == {j \in S : j <= i}

\* The elements of a finite set of numbers are counted by their ranks: rank k, for
\* k up to the size of the set, is the rank of exactly one element.
LEMMA Ranks ==
    ASSUME NEW S \in SUBSET Int, IsFiniteSet(S)
    PROVE  /\ Cardinality(S) \in Nat
           /\ \A i \in Int : IsFiniteSet(UpTo(S, i)) /\ Cardinality(UpTo(S, i)) \in Nat
           /\ \A i \in S : Cardinality(UpTo(S, i)) \in 1..Cardinality(S)
           /\ \A i, j \in S : i < j => Cardinality(UpTo(S, i)) < Cardinality(UpTo(S, j))
           /\ \A k \in 1..Cardinality(S) : \E i \in S : Cardinality(UpTo(S, i)) = k
<1> DEFINE n == Cardinality(S)
           rank == [i \in S |-> Cardinality(UpTo(S, i))]
<1>1. n \in Nat
  BY FS_CardinalityType, Zenon
<1>2. ASSUME NEW i \in Int
      PROVE  /\ IsFiniteSet(UpTo(S, i)) /\ Cardinality(UpTo(S, i)) \in Nat
             /\ Cardinality(UpTo(S, i)) <= n
  BY FS_Subset, FS_CardinalityType, Zenon DEF UpTo
<1>3. ASSUME NEW i \in S
      PROVE  Cardinality(UpTo(S, i)) \in 1..n
  <2>1. Cardinality(UpTo(S, i)) # 0
    BY <1>2, FS_EmptySet DEF UpTo
  <2> QED BY <1>1, <1>2, <2>1 DEF UpTo
<1>4. ASSUME NEW i \in S, NEW j \in S, i < j
      PROVE  Cardinality(UpTo(S, i)) < Cardinality(UpTo(S, j))
  <2>1. /\ UpTo(S, i) \in SUBSET UpTo(S, j)
        /\ j \in UpTo(S, j) /\ j \notin UpTo(S, i)
    <3>1. j <= j /\ ~(j <= i) /\ \A m \in S : m <= i => m <= j
      BY <1>4
    <3> QED BY <3>1, Zenon DEF UpTo
  <2> QED BY <1>2, <2>1, FS_Subset
<1>5. rank \in Injection(S, 1..n)
  BY <1>2, <1>3, <1>4 DEF Injection, IsInjective
<1>6. rank \in Surjection(S, 1..n)
  <2> HIDE DEF rank, n
  <2> QED BY <1>1, <1>5, FS_Interval, FS_Injection DEF n
<1>7. ASSUME NEW k \in 1..n
      PROVE  \E i \in S : Cardinality(UpTo(S, i)) = k
  BY <1>6, Zenon DEF Surjection
<1> QED BY <1>1, <1>2, <1>3, <1>4, <1>7, Zenon

----------------------------------------------------------------------------
\* Checksums.

Sums == [Hashes -> Int]

\* Hash inputs are distinct where they should be.
LEMMA HashFacts ==
    /\ \A i \in Ids, d \in Docs : PutHash(i, d) \in Hashes
    /\ \A i \in Ids : RemoveHash(i) \in Hashes
    /\ \A i, j \in Ids, d, e \in Docs : PutHash(i, d) = PutHash(j, e) => i = j /\ d.val = e.val
    /\ \A i, j \in Ids : RemoveHash(i) = RemoveHash(j) => i = j
    /\ \A i, j \in Ids, d \in Docs : PutHash(i, d) # RemoveHash(j)
<1> QED BY Zenon DEF PutHash, Hashes, Docs, RemoveHash

\* The sums of hashes, pointwise.
LEMMA SumFacts ==
    /\ ZeroSum \in Sums /\ \A h \in Hashes : ZeroSum[h] = 0
    /\ \A hs : HashSum(hs) \in Sums
    /\ \A hs : \A h \in Hashes : HashSum(hs)[h] = IF h \in hs THEN 1 ELSE 0
    /\ \A x, y \in Sums : Plus(x, y) \in Sums /\ \A h \in Hashes : Plus(x, y)[h] = x[h] + y[h]
    /\ \A x, y \in Sums : Minus(x, y) \in Sums /\ \A h \in Hashes : Minus(x, y)[h] = x[h] - y[h]
<1> QED BY DEF ZeroSum, Sums, HashSum, Plus, Minus

\* Sums are equal when they agree on every hash.
LEMMA SumsEqual ==
    ASSUME NEW x \in Sums, NEW y \in Sums, \A h \in Hashes : x[h] = y[h]
    PROVE  x = y
BY DEF Sums

\* What a document and what all of them contribute.
LEMMA DocSums ==
    ASSUME NEW b, NEW i \in Ids, NEW d \in Docs \cup {NoDoc}
    PROVE  /\ DocSum(b, i, d) \in Sums
           /\ \A h \in Hashes : DocSum(b, i, d)[h] =
                IF InBucket(d, b) /\ h = PutHash(i, d) THEN 1 ELSE 0
BY SumFacts DEF DocSum

\* The documents that a rescan sums up.
ShownHashes(rows, b) == {PutHash(i, rows[i]) : i \in {j \in Ids : InBucket(rows[j], b)}}

\* A rescan counts every shown document once.
LEMMA BucketSums ==
    ASSUME NEW rows, NEW b
    PROVE  /\ BucketSum(rows, b) \in Sums
           /\ \A h \in Hashes : BucketSum(rows, b)[h] =
                IF h \in ShownHashes(rows, b) THEN 1 ELSE 0
           /\ \A h : h \in ShownHashes(rows, b) <=>
                \E i \in Ids : InBucket(rows[i], b) /\ h = PutHash(i, rows[i])
<1> QED BY SumFacts, Zenon DEF BucketSum, ShownHashes

\* Only a document of the route is in its bucket.
LEMMA InBucketDoc ==
    ASSUME NEW d \in Docs \cup {NoDoc}, NEW b, InBucket(d, b)
    PROVE  d \in Docs /\ d.route = b
BY Zenon DEF InBucket

\* Replacing a document changes the sum of its bucket by the difference.
LEMMA ReplaceDocument ==
    ASSUME NEW rows \in Rows, NEW x \in Ids, NEW new \in Docs \cup {NoDoc}, NEW b
    PROVE  BucketSum([rows EXCEPT ![x] = new], b)
             = Plus(BucketSum(rows, b), CurrentDelta(b, x, rows[x], new))
<1> DEFINE after == [rows EXCEPT ![x] = new]
           old == rows[x]
<1>1. /\ old \in Docs \cup {NoDoc} /\ after[x] = new
      /\ \A i \in Ids : i # x => after[i] = rows[i]
      /\ \A i \in Ids : rows[i] \in Docs \cup {NoDoc}
  BY Zenon DEF Rows
<1>2. /\ DocSum(b, x, old) \in Sums /\ DocSum(b, x, new) \in Sums
      /\ BucketSum(rows, b) \in Sums /\ BucketSum(after, b) \in Sums
      /\ CurrentDelta(b, x, old, new) \in Sums
      /\ Plus(BucketSum(rows, b), CurrentDelta(b, x, old, new)) \in Sums
  BY <1>1, DocSums, BucketSums, SumFacts, Zenon DEF CurrentDelta
<1> HIDE DEF after, old
<1>3. ASSUME NEW h \in Hashes
      PROVE  BucketSum(after, b)[h]
               = BucketSum(rows, b)[h] + DocSum(b, x, new)[h] - DocSum(b, x, old)[h]
  BY <1>1, InBucketDoc, BucketSums, DocSums, HashFacts DEF old
<1>4. ASSUME NEW h \in Hashes
      PROVE  /\ BucketSum(rows, b)[h] \in Int /\ DocSum(b, x, new)[h] \in Int
             /\ DocSum(b, x, old)[h] \in Int
  BY <1>2, Zenon DEF Sums
<1>5. BucketSum(after, b) = Plus(BucketSum(rows, b), CurrentDelta(b, x, old, new))
  BY <1>2, <1>3, <1>4, SumFacts, SumsEqual DEF CurrentDelta
<1> QED BY <1>5, Zenon DEF after, old

----------------------------------------------------------------------------
\* One operation of a transaction.

Operations == [op : {"put", "remove"}, id : Ids, doc : Docs \cup {NoDoc},
               prev : Docs \cup {NoDoc}]

\* What holds of a store, also in the middle of a transaction.
LogOK(st) ==
    /\ \A i \in DOMAIN st.ops : /\ i \in Nat /\ i > retFloor /\ i > snapFloor
                                /\ i <= st.lastOp /\ st.ops[i] \in Operations
    /\ \A i \in Nat : i > retFloor /\ i > snapFloor /\ i <= st.lastOp => i \in DOMAIN st.ops
    /\ st.index = UNION {OpRoutes(st.ops[i]) \X {i} : i \in DOMAIN st.ops}

StoreOK(st) ==
    /\ st.docs \in Rows
    /\ st.lastOp \in Nat /\ st.lastOp >= Base /\ st.lastOp >= retFloor /\ st.lastOp >= snapFloor
    /\ \A b \in Routes : st.cur[b] = BucketSum(st.docs, b)
    /\ st.tail \in [Routes -> Sums]
    /\ LogOK(st)

\* t is st after the operation o, which leaves new as the document of x.
Applied(st, t, x, o, new) ==
    /\ o \in Operations /\ o.id = x /\ new \in Docs \cup {NoDoc}
    /\ \/ o.op = "put" /\ new = o.doc /\ new \in Docs /\ o.prev = st.docs[x]
       \/ o.op = "remove" /\ new = NoDoc /\ o.doc = st.docs[x] /\ o.prev = NoDoc
    /\ t.docs = [st.docs EXCEPT ![x] = new]
    /\ t.ops = [i \in DOMAIN st.ops \cup {st.lastOp + 1} |->
                  IF i = st.lastOp + 1 THEN o ELSE st.ops[i]]
    /\ t.index = st.index \cup (OpRoutes(o) \X {st.lastOp + 1})
    /\ t.lastOp = st.lastOp + 1
    /\ t.cur = [b \in Routes |-> Plus(st.cur[b], CurrentDelta(b, x, st.docs[x], new))]
    /\ t.tail = [b \in Routes |-> Plus(Plus(st.tail[b], DocSum(b, x, st.docs[x])),
                                       RemoveDelta(b, o))]

\* A PUT, materialized and applied.
LEMMA ApplyPut ==
    ASSUME NEW st, st.docs \in Rows, NEW x \in Ids, NEW d \in Docs
    PROVE  Applied(st, ApplyOp(st, Put(x, d)), x, Op("put", x, d, st.docs[x]), d)
<1> DEFINE o == Op("put", x, d, st.docs[x])
<1>1. /\ Materialize(st.docs, Put(x, d)) = o /\ o \in Operations
      /\ o.op = "put" /\ o.id = x /\ o.doc = d /\ o.prev = st.docs[x]
  BY Zenon DEF Materialize, Put, Op, Operations, Rows
<1> HIDE DEF o
<1>2. \A b : SupersededPut(b, o) = DocSum(b, x, st.docs[x])
  BY <1>1, Zenon DEF SupersededPut
<1>3. Applied(st, ApplyOp(st, Put(x, d)), x, o, d)
  BY <1>1, <1>2, Zenon DEF ApplyOp, Applied
<1> QED BY <1>3, Zenon DEF o

\* A REMOVE, materialized with the document it removes, and applied.
LEMMA ApplyRemove ==
    ASSUME NEW st, st.docs \in Rows, NEW x \in Ids
    PROVE  Applied(st, ApplyOp(st, Remove(x)), x, Op("remove", x, st.docs[x], NoDoc), NoDoc)
<1> DEFINE o == Op("remove", x, st.docs[x], NoDoc)
<1>1. /\ Materialize(st.docs, Remove(x)) = o /\ o \in Operations
      /\ o.op = "remove" /\ o.id = x /\ o.doc = st.docs[x] /\ o.prev = NoDoc
  BY Zenon DEF Materialize, Remove, Op, Operations, Rows
<1> HIDE DEF o
<1>2. \A b : SupersededPut(b, o) = DocSum(b, x, st.docs[x])
  BY <1>1, Zenon DEF SupersededPut
<1>3. Applied(st, ApplyOp(st, Remove(x)), x, o, NoDoc)
  BY <1>1, <1>2, Zenon DEF ApplyOp, Applied
<1> QED BY <1>3, Zenon DEF o

\* The floors and bounds that an operation leaves alone.
LEMMA OperationKeepsStore ==
    ASSUME NEW st, StoreOK(st), NEW t, NEW x \in Ids, NEW o, NEW new, Applied(st, t, x, o, new),
           retFloor \in Nat, snapFloor \in Nat
    PROVE  StoreOK(t)
<1> DEFINE n == st.lastOp + 1
<1>1. /\ st.docs \in Rows /\ st.lastOp \in Nat /\ st.lastOp >= Base
      /\ st.lastOp >= retFloor /\ st.lastOp >= snapFloor
      /\ \A b \in Routes : st.cur[b] = BucketSum(st.docs, b)
      /\ st.tail \in [Routes -> Sums] /\ LogOK(st)
  BY Zenon DEF StoreOK
<1>2. /\ t.docs \in Rows /\ t.lastOp = n /\ n \in Nat
      /\ n >= Base /\ n >= retFloor /\ n >= snapFloor
      /\ n > retFloor /\ n > snapFloor
  BY <1>1, TailAssumption DEF Applied, Rows
<1>3. ASSUME NEW b \in Routes
      PROVE  t.cur[b] = BucketSum(t.docs, b)
  <2>1. /\ t.cur[b] = Plus(st.cur[b], CurrentDelta(b, x, st.docs[x], new))
        /\ t.docs = [st.docs EXCEPT ![x] = new] /\ new \in Docs \cup {NoDoc}
    BY DEF Applied
  <2>2. BucketSum([st.docs EXCEPT ![x] = new], b)
          = Plus(BucketSum(st.docs, b), CurrentDelta(b, x, st.docs[x], new))
    BY <1>1, <2>1, ReplaceDocument
  <2> QED BY <1>1, <2>1, <2>2, Zenon
<1>4. t.tail \in [Routes -> Sums]
  <2>1. ASSUME NEW b \in Routes
        PROVE  Plus(Plus(st.tail[b], DocSum(b, x, st.docs[x])), RemoveDelta(b, o)) \in Sums
    <3>1. st.docs[x] \in Docs \cup {NoDoc} /\ st.tail[b] \in Sums
      BY <1>1, Zenon DEF Rows
    <3> QED BY <3>1, DocSums, SumFacts, Zenon DEF RemoveDelta
  <2> QED BY <2>1 DEF Applied
<1>5. /\ DOMAIN t.ops = DOMAIN st.ops \cup {n} /\ t.ops[n] = o /\ o \in Operations
      /\ \A i \in DOMAIN st.ops : i # n => t.ops[i] = st.ops[i]
  BY DEF Applied
<1>6. t.index = UNION {OpRoutes(t.ops[i]) \X {i} : i \in DOMAIN t.ops}
  <2>1. st.index = UNION {OpRoutes(t.ops[i]) \X {i} : i \in DOMAIN st.ops}
    BY <1>1, <1>5 DEF LogOK
  <2>2. t.index = st.index \cup (OpRoutes(t.ops[n]) \X {n})
    BY <1>5, Zenon DEF Applied
  <2> HIDE DEF n
  <2> QED BY <1>5, <2>1, <2>2
<1> QED BY <1>1, <1>2, <1>3, <1>4, <1>5, <1>6 DEF StoreOK, LogOK

----------------------------------------------------------------------------
\* What a client would make of the operations it has not seen yet.

Screens == [Ids -> Vals \cup {NoVal}]

\* The rows of bucket b among rows.
Shown(rows, b) == [i \in Ids |-> IF InBucket(rows[i], b) THEN rows[i].val ELSE NoVal]

Checkpoint(st, b) == Plus(st.cur[b], st.tail[b])

EntrySum(o, b) ==
    IF Effect(o, b) = "put" THEN HashSum({PutHash(o.id, o.doc)}) ELSE HashSum({RemoveHash(o.id)})
EntryVal(o, b) == IF Effect(o, b) = "put" THEN o.doc.val ELSE NoVal
RowsStep(rows, o, b) ==
    IF Effect(o, b) = "none" THEN rows ELSE [rows EXCEPT ![o.id] = EntryVal(o, b)]
SumStep(sum, o, b) == IF Effect(o, b) = "none" THEN sum ELSE Plus(sum, EntrySum(o, b))

\* The rows X[i] and checksums Y[i] of a client that applies the operations a+1 to n.
Replay(X, Y, log, b, a, n) ==
    /\ X \in [a..n -> Screens] /\ Y \in [a..n -> Sums]
    /\ \A i \in (a + 1)..n : /\ X[i] = RowsStep(X[i - 1], log[i], b)
                             /\ Y[i] = SumStep(Y[i - 1], log[i], b)

\* How a client compares with the store once it has seen everything.  A client that
\* has got every response whole shows the bucket.  A client that was cut may show
\* anything, but then its checksum tells: it has no REMOVE too few, and when it
\* agrees with the checkpoint the rows are right.
Caught(rows, sum, st, b, valid) ==
    /\ valid => rows = Shown(st.docs, b)
    /\ \A i \in Ids : sum[RemoveHash(i)] >= Checkpoint(st, b)[RemoveHash(i)]
    /\ sum = Checkpoint(st, b) => rows = Shown(st.docs, b)
    /\ replicaIdentity = "full" /\ valid => sum = Checkpoint(st, b)

Follows(rows, sum, st, b, a, valid) ==
    \E X, Y : /\ Replay(X, Y, st.ops, b, a, st.lastOp)
              /\ X[a] = rows /\ Y[a] = sum
              /\ Caught(X[st.lastOp], Y[st.lastOp], st, b, valid)

\* The effects that an operation can have on a bucket.
LEMMA Effects ==
    ASSUME NEW o \in Operations, NEW b
    PROVE  \/ Effect(o, b) = "put" /\ o.op = "put" /\ InBucket(o.doc, b)
           \/ /\ Effect(o, b) = "remove" /\ o.op = "put"
              /\ ~InBucket(o.doc, b) /\ InBucket(o.prev, b)
           \/ Effect(o, b) = "remove" /\ o.op = "remove" /\ InBucket(o.doc, b)
           \/ Effect(o, b) = "none" /\ o.op = "put" /\ ~InBucket(o.doc, b) /\ ~InBucket(o.prev, b)
           \/ Effect(o, b) = "none" /\ o.op = "remove" /\ ~InBucket(o.doc, b)
<1> HIDE DEF InBucket
<1> QED BY Zenon DEF Operations, Effect

\* A step of a replay keeps the types.
LEMMA StepTypes ==
    ASSUME NEW rows \in Screens, NEW sum \in Sums, NEW o \in Operations, NEW b
    PROVE  /\ RowsStep(rows, o, b) \in Screens /\ SumStep(sum, o, b) \in Sums
           /\ EntrySum(o, b) \in Sums
           /\ Effect(o, b) # "none" => EntryVal(o, b) \in Vals \cup {NoVal}
<1>1. SumStep(sum, o, b) \in Sums
  BY SumFacts, Zenon DEF SumStep, EntrySum
<1> QED BY <1>1, Effects, InBucketDoc, SumFacts DEF EntrySum, EntryVal, Docs,
           Operations, RowsStep, Screens

\* What operation o adds to the checksum of a client, at hash h.
AddedAt(after, sum, o, b, h) ==
    /\ Effect(o, b) = "put" =>
         after[h] = sum[h] + (IF h = PutHash(o.id, o.doc) THEN 1 ELSE 0)
    /\ Effect(o, b) = "remove" =>
         after[h] = sum[h] + (IF h = RemoveHash(o.id) THEN 1 ELSE 0)
    /\ Effect(o, b) = "none" => after[h] = sum[h]

\* What a step of a replay adds to the checksum, from the hash of its entry.
LEMMA SumStepAt ==
    ASSUME NEW sum \in Sums, NEW o \in Operations, NEW b, NEW h \in Hashes
    PROVE  AddedAt(SumStep(sum, o, b), sum, o, b, h)
<1>1. EntrySum(o, b) \in Sums
  BY SumFacts, Zenon DEF EntrySum
<1>2. Effect(o, b) # "none" => SumStep(sum, o, b)[h] = sum[h] + EntrySum(o, b)[h]
  BY <1>1, SumFacts DEF SumStep
<1>3. /\ Effect(o, b) = "put" =>
           EntrySum(o, b)[h] = IF h = PutHash(o.id, o.doc) THEN 1 ELSE 0
      /\ Effect(o, b) = "remove" =>
           EntrySum(o, b)[h] = IF h = RemoveHash(o.id) THEN 1 ELSE 0
  BY SumFacts DEF EntrySum
<1> QED BY <1>2, <1>3, Zenon DEF AddedAt, SumStep

\* What an operation adds to the checkpoint of a bucket: the hash of its PUT, or of
\* a REMOVE it was derived as.
LEMMA CheckpointStep ==
    ASSUME NEW st, StoreOK(st), NEW t, NEW x \in Ids, NEW o, NEW new, Applied(st, t, x, o, new),
           NEW b \in Routes
    PROVE  /\ Checkpoint(st, b) \in Sums /\ Checkpoint(t, b) \in Sums
           /\ \A h \in Hashes : Checkpoint(t, b)[h] =
                Checkpoint(st, b)[h] + DocSum(b, x, new)[h] + RemoveDelta(b, o)[h]
<1>1. /\ st.docs[x] \in Docs \cup {NoDoc} /\ st.tail[b] \in Sums /\ new \in Docs \cup {NoDoc}
  BY Zenon DEF StoreOK, Rows, Applied
<1>2. st.cur[b] \in Sums
  BY BucketSums DEF StoreOK
<1>3. /\ DocSum(b, x, st.docs[x]) \in Sums /\ DocSum(b, x, new) \in Sums
      /\ RemoveDelta(b, o) \in Sums
  BY <1>1, DocSums, SumFacts, Zenon DEF RemoveDelta
<1> DEFINE old == DocSum(b, x, st.docs[x])
           now == DocSum(b, x, new)
           rem == RemoveDelta(b, o)
<1> HIDE DEF old, now, rem
<1>4. \A h \in Hashes : /\ st.cur[b][h] \in Int /\ st.tail[b][h] \in Int
                        /\ old[h] \in Int /\ now[h] \in Int /\ rem[h] \in Int
  BY <1>1, <1>2, <1>3, Zenon DEF Sums, old, now, rem
<1>5. PICK sc, tl, tc, tt : /\ sc = st.cur[b] /\ tl = st.tail[b]
                            /\ tc = t.cur[b] /\ tt = t.tail[b]
                            /\ tc = Plus(sc, Minus(now, old)) /\ tt = Plus(Plus(tl, old), rem)
                            /\ sc \in Sums /\ tl \in Sums
  <2>1. t.cur[b] = Plus(st.cur[b], CurrentDelta(b, x, st.docs[x], new))
    BY Zenon DEF Applied
  <2>2. t.tail[b] = Plus(Plus(st.tail[b], DocSum(b, x, st.docs[x])), RemoveDelta(b, o))
    BY Zenon DEF Applied
  <2>3. t.cur[b] = Plus(st.cur[b], Minus(now, old))
    BY <2>1, Zenon DEF CurrentDelta, old, now
  <2>4. t.tail[b] = Plus(Plus(st.tail[b], old), rem)
    BY <2>2, Zenon DEF old, rem
  <2> QED BY <1>1, <1>2, <2>3, <2>4, Zenon
<1>6. old \in Sums /\ now \in Sums /\ rem \in Sums
  BY <1>3, Zenon DEF old, now, rem
<1>7. /\ tc \in Sums /\ \A h \in Hashes : tc[h] = sc[h] + (now[h] - old[h])
      /\ tt \in Sums /\ \A h \in Hashes : tt[h] = (tl[h] + old[h]) + rem[h]
  BY <1>5, <1>6, SumFacts
<1>8. /\ Plus(sc, tl) \in Sums /\ Plus(tc, tt) \in Sums
      /\ \A h \in Hashes : Plus(sc, tl)[h] = sc[h] + tl[h]
      /\ \A h \in Hashes : Plus(tc, tt)[h] = tc[h] + tt[h]
  BY <1>5, <1>7, SumFacts
<1>9. ASSUME NEW h \in Hashes
      PROVE  Plus(tc, tt)[h] = Plus(sc, tl)[h] + now[h] + rem[h]
  <2>1. sc[h] \in Int /\ tl[h] \in Int /\ old[h] \in Int /\ now[h] \in Int /\ rem[h] \in Int
    BY <1>4, <1>5, Zenon
  <2> QED BY <1>7, <1>8, <2>1
<1>10. Checkpoint(st, b) = Plus(sc, tl) /\ Checkpoint(t, b) = Plus(tc, tt)
  BY <1>5, Zenon DEF Checkpoint
<1> QED BY <1>8, <1>9, <1>10, Zenon DEF now, rem

\* Replacing a document replaces what a bucket shows of it.
Replaced(after, screen, x, new, old, b) ==
    /\ InBucket(new, b) => after = [screen EXCEPT ![x] = new.val]
    /\ ~InBucket(new, b) => after = [screen EXCEPT ![x] = NoVal]
    /\ ~InBucket(new, b) /\ ~InBucket(old, b) => after = screen

\* A bucket shows the new document in the place of the old one.
LEMMA ShownStep ==
    ASSUME NEW rows \in Rows, NEW x \in Ids, NEW new, NEW after, after = [rows EXCEPT ![x] = new],
           NEW b, NEW screen, screen = Shown(rows, b)
    PROVE  Replaced(Shown(after, b), screen, x, new, rows[x], b)
<1> DEFINE f == Shown(after, b)
<1>1. /\ \A i \in Ids : f[i] = IF InBucket(after[i], b) THEN after[i].val ELSE NoVal
      /\ \A i \in Ids : screen[i] = IF InBucket(rows[i], b) THEN rows[i].val ELSE NoVal
  BY Zenon DEF Shown
<1>2. f = [i \in Ids |-> f[i]]
  BY DEF Shown
<1> HIDE DEF f
<1>3. \A v : f[x] = v => f = [screen EXCEPT ![x] = v]
  BY <1>1, <1>2, Zenon DEF Shown, Rows
<1>4. f[x] = screen[x] => f = screen
  BY <1>1, <1>2 DEF Shown, Rows
<1>5. /\ InBucket(new, b) => f[x] = new.val
      /\ ~InBucket(new, b) => f[x] = NoVal
      /\ ~InBucket(rows[x], b) => screen[x] = NoVal
  BY <1>1 DEF Rows
<1>6. Replaced(f, screen, x, new, rows[x], b)
  BY <1>3, <1>4, <1>5, Zenon DEF Replaced
<1> QED BY <1>6, Zenon DEF f

\* A client that follows the store follows it over one more operation.  The rows it
\* would end with follow the documents.  Its checksum misses or exceeds the
\* checkpoint by what it did before, except when a row leaves the bucket by a
\* PUT: the client is sent a REMOVE that no accumulator has counted, and from
\* then on it has one too many.
LEMMA CaughtStep ==
    ASSUME NEW st, StoreOK(st), NEW t, NEW x \in Ids, NEW o, NEW new, Applied(st, t, x, o, new),
           NEW b \in Routes, NEW rows \in Screens, NEW sum \in Sums, NEW valid \in BOOLEAN,
           Caught(rows, sum, st, b, valid),
           replicaIdentity = "full" /\ o.op = "put" => st.docs[x] = NoDoc
    PROVE  Caught(RowsStep(rows, o, b), SumStep(sum, o, b), t, b, valid)
<1> DEFINE old == st.docs[x]
           was == Checkpoint(st, b)
           now == Checkpoint(t, b)
           sum2 == SumStep(sum, o, b)
           rows2 == RowsStep(rows, o, b)
<1>1. /\ o \in Operations /\ o.id = x /\ old \in Docs \cup {NoDoc} /\ new \in Docs \cup {NoDoc}
      /\ \/ o.op = "put" /\ new = o.doc /\ o.prev = old
         \/ o.op = "remove" /\ new = NoDoc /\ o.doc = old
      /\ t.docs = [st.docs EXCEPT ![x] = new] /\ st.docs \in Rows
  BY Zenon DEF Applied, StoreOK, Rows
<1>2. /\ was \in Sums /\ now \in Sums
      /\ \A h \in Hashes : now[h] = was[h] + DocSum(b, x, new)[h] + RemoveDelta(b, o)[h]
  BY CheckpointStep
<1>3. sum2 \in Sums /\ EntrySum(o, b) \in Sums
  BY <1>1, StepTypes, Zenon
<1>4. /\ \A h \in Hashes : DocSum(b, x, new)[h] =
           IF InBucket(new, b) /\ h = PutHash(x, new) THEN 1 ELSE 0
      /\ \A h \in Hashes : RemoveDelta(b, o)[h] =
           IF o.op = "remove" /\ InBucket(o.doc, b) /\ h = RemoveHash(x) THEN 1 ELSE 0
  BY <1>1, DocSums, SumFacts DEF RemoveDelta
<1>5. ~InBucket(NoDoc, b)
  BY Zenon DEF InBucket
<1>6. ASSUME rows = Shown(st.docs, b)
      PROVE  rows2 = Shown(t.docs, b)
  <2>1. Replaced(Shown(t.docs, b), rows, x, new, old, b)
    <3>1. st.docs \in Rows /\ t.docs = [st.docs EXCEPT ![x] = new]
      BY <1>1, Zenon
    <3> QED BY <1>6, <3>1, ShownStep, Zenon
  <2>2. CASE Effect(o, b) = "put"
    <3>1. InBucket(new, b) /\ new = o.doc
      BY <1>1, <2>2, Effects
    <3> QED BY <1>1, <2>1, <2>2, <3>1, Zenon DEF RowsStep, EntryVal, Replaced
  <2>3. CASE Effect(o, b) = "remove"
    BY <1>1, <1>5, <2>1, <2>3, Effects, Zenon DEF RowsStep, EntryVal, Replaced
  <2> QED BY <1>1, <1>5, <2>1, <2>2, <2>3, Effects, Zenon DEF RowsStep, Replaced
<1> HIDE DEF was, now, sum2, rows2
\* The operation is counted as it is sent.
<1>7. CASE ~(Effect(o, b) = "remove" /\ o.op = "put")
  <2>1. ASSUME NEW h \in Hashes
        PROVE  sum2[h] - sum[h] = now[h] - was[h]
    <3>1. sum[h] \in Int /\ sum2[h] \in Int /\ now[h] \in Int /\ was[h] \in Int
      BY <1>2, <1>3, Zenon DEF Sums
    <3>0. AddedAt(sum2, sum, o, b, h)
      BY <1>1, SumStepAt, Zenon DEF sum2
    <3>2. CASE Effect(o, b) = "put"
      <4>1. o.op = "put" /\ InBucket(new, b) /\ o.doc = new /\ o.id = x
        BY <1>1, <3>2, Effects, Zenon
      <4>2. sum2[h] = sum[h] + (IF h = PutHash(x, new) THEN 1 ELSE 0)
        BY <3>0, <3>2, <4>1, Zenon DEF AddedAt
      <4>3. now[h] = was[h] + (IF h = PutHash(x, new) THEN 1 ELSE 0) + 0
        BY <1>2, <1>4, <4>1, Zenon
      <4> QED BY <3>1, <4>2, <4>3
    <3>3. CASE Effect(o, b) = "remove"
      <4>1. sum2[h] = sum[h] + (IF h = RemoveHash(x) THEN 1 ELSE 0)
        BY <1>1, <3>0, <3>3, Zenon DEF AddedAt
      <4>2. o.op = "remove" /\ ~InBucket(new, b) /\ InBucket(o.doc, b)
        BY <1>1, <1>5, <1>7, <3>3, Effects, Zenon
      <4>3. now[h] = was[h] + 0 + (IF h = RemoveHash(x) THEN 1 ELSE 0)
        BY <1>2, <1>4, <4>2, Zenon
      <4> QED BY <3>1, <4>1, <4>3
    <3>4. CASE Effect(o, b) = "none"
      <4>1. ~InBucket(new, b) /\ ~(o.op = "remove" /\ InBucket(o.doc, b))
        BY <1>1, <1>5, <3>4, Effects, Zenon
      <4>2. sum2[h] = sum[h]
        BY <3>0, <3>4, Zenon DEF AddedAt
      <4>3. now[h] = was[h] + 0 + 0
        BY <1>2, <1>4, <4>1, Zenon
      <4> QED BY <3>1, <4>2, <4>3
    <3> QED BY <1>1, <3>2, <3>3, <3>4, Effects, Zenon
  <2>2. \A h \in Hashes : /\ sum[h] \in Int /\ sum2[h] \in Int /\ now[h] \in Int /\ was[h] \in Int
    BY <1>2, <1>3, Zenon DEF Sums
  <2>3. \A i \in Ids : sum2[RemoveHash(i)] >= now[RemoveHash(i)]
    <3> SUFFICES ASSUME NEW i \in Ids
                 PROVE  sum2[RemoveHash(i)] >= now[RemoveHash(i)]
      BY Zenon
    <3>1. RemoveHash(i) \in Hashes /\ sum[RemoveHash(i)] >= was[RemoveHash(i)]
      BY HashFacts, Zenon DEF Caught, was
    <3> QED BY <2>1, <2>2, <3>1
  <2>4. sum2 = now <=> sum = was
    <3>1. sum2 = now => \A h \in Hashes : sum[h] = was[h]
      BY <2>1, <2>2
    <3>2. sum = was => \A h \in Hashes : sum2[h] = now[h]
      BY <2>1, <2>2
    <3> QED BY <1>2, <1>3, <3>1, <3>2, SumsEqual, Zenon
  <2> QED BY <1>6, <2>3, <2>4, Zenon DEF rows2, sum2, Caught, was, now
\* A REMOVE that is sent and not counted.
<1>8. CASE Effect(o, b) = "remove" /\ o.op = "put"
  <2>1. ASSUME NEW h \in Hashes
        PROVE  sum2[h] = sum[h] + (IF h = RemoveHash(x) THEN 1 ELSE 0) /\ now[h] = was[h]
    <3>1. ~InBucket(new, b) /\ ~(o.op = "remove" /\ InBucket(o.doc, b))
      BY <1>1, <1>5, <1>8, Effects, Zenon
    <3>2. now[h] = was[h] + 0 + 0 /\ now[h] \in Int /\ was[h] \in Int
      BY <1>2, <1>4, <3>1, Zenon DEF Sums
    <3>3. now[h] = was[h]
      BY <3>2
    <3>4. AddedAt(sum2, sum, o, b, h)
      BY <1>1, SumStepAt, Zenon DEF sum2
    <3> QED BY <1>1, <1>8, <3>3, <3>4, Zenon DEF AddedAt
  <2>2. ASSUME NEW i \in Ids
        PROVE  /\ sum2[RemoveHash(i)] >= now[RemoveHash(i)]
               /\ i = x => sum2[RemoveHash(i)] > now[RemoveHash(i)]
    <3>1. RemoveHash(i) \in Hashes /\ sum[RemoveHash(i)] >= was[RemoveHash(i)]
      BY HashFacts, Zenon DEF Caught, was
    <3>2. sum[RemoveHash(i)] \in Int /\ was[RemoveHash(i)] \in Int
      BY <1>2, <3>1, Zenon DEF Sums
    <3>3. /\ sum2[RemoveHash(i)] =
               sum[RemoveHash(i)] + (IF RemoveHash(i) = RemoveHash(x) THEN 1 ELSE 0)
          /\ now[RemoveHash(i)] = was[RemoveHash(i)]
      BY <2>1, <3>1, Zenon
    <3> QED BY <3>1, <3>2, <3>3
  <2>3. sum2[RemoveHash(x)] # now[RemoveHash(x)]
    <3>1. now[RemoveHash(x)] \in Int /\ sum2[RemoveHash(x)] \in Int
      BY <1>2, <1>3, HashFacts, Zenon DEF Sums
    <3> QED BY <2>2, <3>1
  <2>4. replicaIdentity = "full" => st.docs[x] # NoDoc
    BY <1>1, <1>5, <1>8, Effects, Zenon
  <2>5. /\ valid => rows2 = Shown(t.docs, b)
        /\ ~(replicaIdentity = "full")
    BY <1>6, <1>8, <2>4, Zenon DEF Caught
  <2> QED BY <2>2, <2>3, <2>5, Zenon DEF rows2, sum2, Caught, now
<1> QED BY <1>7, <1>8, Zenon

\* The replay grows by the operation, and ends where the store now is.
LEMMA FollowsStep ==
    ASSUME NEW st, StoreOK(st), NEW t, NEW x \in Ids, NEW o, NEW new, Applied(st, t, x, o, new),
           NEW b \in Routes, NEW a \in Nat, a <= st.lastOp, NEW valid \in BOOLEAN, NEW rows, NEW sum,
           retFloor \in Nat, snapFloor \in Nat, a >= retFloor, a >= snapFloor,
           Follows(rows, sum, st, b, a, valid),
           replicaIdentity = "full" /\ o.op = "put" => st.docs[x] = NoDoc
    PROVE  Follows(rows, sum, t, b, a, valid)
<1> DEFINE m == st.lastOp
           n == st.lastOp + 1
<1>1. PICK X, Y : /\ Replay(X, Y, st.ops, b, a, m)
                  /\ X[a] = rows /\ Y[a] = sum
                  /\ Caught(X[m], Y[m], st, b, valid)
  BY Zenon DEF Follows
<1>2. /\ m \in Nat /\ n \in Nat /\ a <= m /\ m # n /\ n # a /\ m \in a..m
      /\ a \in a..n /\ m \in a..n /\ n \in a..n /\ n - 1 = m
      /\ \A i \in a..n : i # n => i \in a..m
      /\ \A i \in (a + 1)..n : /\ i - 1 \in a..n /\ i - 1 # n
                               /\ i # n => i \in (a + 1)..m
      /\ t.lastOp = n /\ t.ops[n] = o /\ o \in Operations
      /\ \A i \in DOMAIN st.ops : i # n => t.ops[i] = st.ops[i]
  <2>1. /\ m \in Nat /\ a <= m /\ t.lastOp = n /\ t.ops[n] = o /\ o \in Operations
        /\ \A i \in DOMAIN st.ops : i # n => t.ops[i] = st.ops[i]
    BY Zenon DEF StoreOK, Applied
  <2>2. PICK k \in Nat : k = m /\ a <= k
    BY <2>1, Zenon
  <2>3. /\ k # k + 1 /\ k + 1 # a /\ k \in a..k /\ k + 1 \in Nat
        /\ a \in a..(k + 1) /\ k \in a..(k + 1) /\ k + 1 \in a..(k + 1) /\ (k + 1) - 1 = k
        /\ \A i \in a..(k + 1) : i # k + 1 => i \in a..k
    BY <2>2
  <2>4. \A i \in (a + 1)..(k + 1) : /\ i - 1 \in a..(k + 1) /\ i - 1 # k + 1
                                    /\ i # k + 1 => i \in (a + 1)..k
    BY <2>2
  <2> QED BY <2>1, <2>2, <2>3, <2>4, Zenon
<1>3. /\ X \in [a..m -> Screens] /\ Y \in [a..m -> Sums]
      /\ \A i \in (a + 1)..m : /\ X[i] = RowsStep(X[i - 1], st.ops[i], b)
                               /\ Y[i] = SumStep(Y[i - 1], st.ops[i], b)
  BY <1>1, Zenon DEF Replay
<1> DEFINE r == RowsStep(X[m], o, b)
           s == SumStep(Y[m], o, b)
           X2 == [i \in a..n |-> IF i = n THEN r ELSE X[i]]
           Y2 == [i \in a..n |-> IF i = n THEN s ELSE Y[i]]
<1>4. r \in Screens /\ s \in Sums /\ Caught(r, s, t, b, valid)
  <2>1. X[m] \in Screens /\ Y[m] \in Sums /\ o \in Operations
    BY <1>2, <1>3, Zenon
  <2>2. Caught(X[m], Y[m], st, b, valid)
    BY <1>1, Zenon
  <2> QED BY <2>1, <2>2, StepTypes, CaughtStep, Zenon
<1> HIDE DEF m, n, r, s
<1>5. ASSUME NEW i \in (a + 1)..m
      PROVE  t.ops[i] = st.ops[i]
  BY <1>2 DEF StoreOK, LogOK, m
<1>6. Replay(X2, Y2, t.ops, b, a, n)
  <2>1. X2 \in [a..n -> Screens] /\ Y2 \in [a..n -> Sums]
    BY <1>2, <1>3, <1>4, Zenon
  <2>2. ASSUME NEW i \in (a + 1)..n
        PROVE  /\ X2[i] = RowsStep(X2[i - 1], t.ops[i], b)
               /\ Y2[i] = SumStep(Y2[i - 1], t.ops[i], b)
    <3>1. CASE i = n
      BY <1>2, <3>1, Zenon DEF r, s
    <3>2. CASE i # n
      <4>1. i \in (a + 1)..m /\ i - 1 \in a..n /\ i - 1 # n
        BY <1>2, <3>2, Zenon
      <4>2. X2[i] = X[i] /\ Y2[i] = Y[i] /\ X2[i - 1] = X[i - 1] /\ Y2[i - 1] = Y[i - 1]
        BY <3>2, <4>1
      <4> QED BY <1>3, <1>5, <4>1, <4>2, Zenon
    <3> QED BY <3>1, <3>2, Zenon
  <2> QED BY <2>1, <2>2, Zenon DEF Replay
<1>7. X2[a] = rows /\ Y2[a] = sum /\ X2[n] = r /\ Y2[n] = s
  BY <1>1, <1>2, Zenon
<1> HIDE DEF X2, Y2
<1> QED BY <1>2, <1>4, <1>6, <1>7, Zenon DEF Follows

\* A client whose next response may be a delta.
Live == /\ client.status # "mismatch" /\ client.after > 0
        /\ client.after >= snapFloor /\ client.after >= retFloor

ClientOK ==
    /\ client.bucket \in Routes /\ client.after \in Nat
    /\ client.rows \in Screens /\ client.sum \in Sums
    /\ client.status \in {"valid", "cut", "mismatch"}

\* The store in the middle of a transaction, and what the client will make of it.
StageOK(st) ==
    /\ StoreOK(st)
    /\ client.after <= st.lastOp
    /\ Live => Follows(client.rows, client.sum, st, client.bucket, client.after,
                       client.status = "valid")

\* An operation in the middle of a transaction keeps the store and the client.
LEMMA OperationStage ==
    ASSUME NEW st, StageOK(st), NEW t, NEW x \in Ids, NEW o, NEW new, Applied(st, t, x, o, new),
           ClientOK, retFloor \in Nat, snapFloor \in Nat,
           replicaIdentity = "full" /\ o.op = "put" => st.docs[x] = NoDoc
    PROVE  StageOK(t)
<1>1. /\ StoreOK(st) /\ client.after <= st.lastOp /\ client.after \in Nat
      /\ client.bucket \in Routes /\ st.lastOp \in Nat /\ t.lastOp = st.lastOp + 1
  BY Zenon DEF StageOK, ClientOK, StoreOK, Applied
<1>2. ASSUME Live
      PROVE  Follows(client.rows, client.sum, t, client.bucket, client.after,
                     client.status = "valid")
  <2>1. client.after >= retFloor /\ client.after >= snapFloor
    BY <1>2, Zenon DEF Live
  <2>2. Follows(client.rows, client.sum, st, client.bucket, client.after,
                client.status = "valid")
    BY <1>2, Zenon DEF StageOK
  <2>3. PICK valid \in BOOLEAN : valid = (client.status = "valid")
    BY Zenon
  <2>4. PICK rows, sum, b, a : /\ rows = client.rows /\ sum = client.sum
                               /\ b = client.bucket /\ a = client.after
    BY Zenon
  <2>5. Follows(rows, sum, st, b, a, valid)
    BY <2>2, <2>3, <2>4
  <2>6. b \in Routes /\ a \in Nat /\ a <= st.lastOp /\ a >= retFloor /\ a >= snapFloor
    BY <1>1, <2>1, <2>4, Zenon
  <2>7. StoreOK(st)
    BY <1>1, Zenon
  <2>8. Follows(rows, sum, t, b, a, valid)
    BY <2>5, <2>6, <2>7, FollowsStep
  <2> QED BY <2>3, <2>4, <2>8
<1> QED BY <1>1, <1>2, OperationKeepsStore DEF StageOK

\* A change of the source, of one or two operations.
LEMMA ChangeStage ==
    ASSUME NEW st, StageOK(st), NEW c \in Changes, Possible(st.docs, c),
           ClientOK, retFloor \in Nat, snapFloor \in Nat
    PROVE  StageOK(ApplyChange(st, c))
<1>1. st.docs \in Rows
  BY Zenon DEF StageOK, StoreOK
<1>2. ASSUME NEW x \in Ids
      PROVE  /\ StageOK(ApplyOp(st, Remove(x)))
             /\ ApplyOp(st, Remove(x)).docs = [st.docs EXCEPT ![x] = NoDoc]
             /\ ApplyOp(st, Remove(x)).docs \in Rows
  <2> DEFINE o == Op("remove", x, st.docs[x], NoDoc)
             t == ApplyOp(st, Remove(x))
  <2>1. Applied(st, t, x, o, NoDoc) /\ o.op = "remove"
    BY <1>1, ApplyRemove, Zenon DEF Op
  <2> HIDE DEF o, t
  <2>2. StageOK(t)
    BY <2>1, OperationStage, Zenon
  <2> QED BY <2>1, <2>2, Zenon DEF t, Applied, StageOK, StoreOK
<1>3. CASE c.kind = "insert"
  BY <1>1, <1>3, ApplyPut, OperationStage DEF Changes, Possible, ApplyChange
<1>4. CASE c.kind = "update"
  <2>1. c.id \in Ids /\ c.to \in Ids /\ c.doc \in Docs
    BY <1>4, Zenon DEF Changes
  <2>2. CASE replicaIdentity = "full" \/ c.to # c.id
    <3> DEFINE s == ApplyOp(st, Remove(c.id))
    <3>1. ApplyChange(st, c) = ApplyOp(s, Put(c.to, c.doc))
      BY <1>4, <2>2, Zenon DEF ApplyChange
    <3>2. StageOK(s) /\ s.docs = [st.docs EXCEPT ![c.id] = NoDoc] /\ s.docs \in Rows
      BY <1>2, <2>1, Zenon
    <3> HIDE DEF s
    <3> DEFINE o == Op("put", c.to, c.doc, s.docs[c.to])
    <3> HIDE DEF o
    <3> QED BY <1>1, <1>4, <2>1, <3>1, <3>2, ApplyPut, OperationStage DEF Rows,
               Possible
  <2> QED BY <1>1, <1>4, <2>1, <2>2, ApplyPut, OperationStage DEF ApplyChange
<1>5. CASE c.kind = "delete"
  <2>1. c.id \in Ids
    BY <1>5, Zenon DEF Changes
  <2>2. ApplyChange(st, c) = ApplyOp(st, Remove(c.id))
    BY <1>5 DEF ApplyChange
  <2> QED BY <1>2, <2>1, <2>2, Zenon
<1> QED BY <1>3, <1>4, <1>5, Zenon DEF Changes

----------------------------------------------------------------------------
\* The recursive functions of the model.

\* f is the recursive function Materialized on 0..n.
ChangesUpTo(f, n) ==
    f = [i \in 0..n |->
           IF i = 0 THEN {StoreNow}
           ELSE UNION {Changed(st) : st \in {s \in f[i - 1] : s.lastOp < OpLimit}}]

\* Materialized is what its recursive definition says.
LEMMA MaterializedUnfolds ==
    ChangesUpTo(Materialized, MaxChanges)
<1> DEFINE S == {n \in Nat : \E f : ChangesUpTo(f, n)}
           Step(T) == UNION {Changed(st) : st \in {s \in T : s.lastOp < OpLimit}}
<1> HIDE DEF Step
<1>1. 0 \in S
  <2> DEFINE f == [i \in 0..0 |-> {StoreNow}]
  <2>1. ChangesUpTo(f, 0)
    BY DEF ChangesUpTo
  <2> QED BY <2>1, Zenon
<1>2. ASSUME NEW n \in Nat, n \in S
      PROVE  n + 1 \in S
  <2>1. PICK f : ChangesUpTo(f, n)
    BY <1>2, Zenon
  <2> DEFINE g == [i \in 0..(n + 1) |-> IF i = n + 1 THEN Step(f[n]) ELSE f[i]]
  <2>2. \A i \in 0..n : f[i] = IF i = 0 THEN {StoreNow} ELSE Step(f[i - 1])
    BY <2>1, Zenon DEF ChangesUpTo, Step
  <2>3. /\ \A i \in 0..(n + 1) : i # n + 1 => i \in 0..n /\ i \in 0..(n + 1)
        /\ \A i \in 0..(n + 1) : i # 0 => i - 1 \in 0..n /\ i - 1 \in 0..(n + 1) /\ i - 1 # n + 1
        /\ n + 1 \in 0..(n + 1) /\ n + 1 # 0 /\ (n + 1) - 1 = n
    OBVIOUS
  <2>4. \A i \in 0..(n + 1) : g[i] = IF i = 0 THEN {StoreNow} ELSE Step(g[i - 1])
    BY <2>2, <2>3, Zenon
  <2>5. g = [i \in 0..(n + 1) |-> g[i]]
    BY Zenon
  <2> HIDE DEF g
  <2>6. g = [i \in 0..(n + 1) |-> IF i = 0 THEN {StoreNow} ELSE Step(g[i - 1])]
    BY <2>4, <2>5, Zenon
  <2> QED BY <2>6 DEF ChangesUpTo, Step
<1>3. MaxChanges \in S
  <2> HIDE DEF S
  <2> QED BY <1>1, <1>2, NatSetInduction, TailAssumption, Zenon
<1>4. \E f : ChangesUpTo(f, MaxChanges)
  BY <1>3, Zenon
<1> QED BY <1>4, Zenon DEF Materialized, ChangesUpTo

\* f is the recursive function upTo of ApplyEntries on 0..k.
AppliesUpTo(f, c, entries, k) ==
    f = [i \in 0..k |-> IF i = 0 THEN c ELSE ApplyEntry(f[i - 1], entries[i])]

\* Entries are applied one after the other.
LEMMA ApplyEntriesUnfolds ==
    ASSUME NEW c, NEW entries
    PROVE  /\ ApplyEntries(c, entries, 0) = c
           /\ \A k \in Nat : ApplyEntries(c, entries, k + 1)
                               = ApplyEntry(ApplyEntries(c, entries, k), entries[k + 1])
<1> DEFINE S == {n \in Nat : \E f : AppliesUpTo(f, c, entries, n)}
<1>1. 0 \in S
  <2> DEFINE f == [i \in 0..0 |-> c]
  <2>1. AppliesUpTo(f, c, entries, 0)
    BY DEF AppliesUpTo
  <2> QED BY <2>1, Zenon
<1>2. ASSUME NEW n \in Nat, n \in S
      PROVE  n + 1 \in S
  <2>1. PICK f : AppliesUpTo(f, c, entries, n)
    BY <1>2, Zenon
  <2> DEFINE g == [i \in 0..(n + 1) |-> IF i = n + 1 THEN ApplyEntry(f[n], entries[n + 1]) ELSE f[i]]
  <2>2. \A i \in 0..(n + 1) : g[i] = IF i = 0 THEN c ELSE ApplyEntry(g[i - 1], entries[i])
    BY <2>1 DEF AppliesUpTo
  <2>3. g = [i \in 0..(n + 1) |-> g[i]]
    BY Zenon
  <2> HIDE DEF g
  <2>4. AppliesUpTo(g, c, entries, n + 1)
    BY <2>2, <2>3, Zenon DEF AppliesUpTo
  <2> QED BY <2>4
<1>3. \A k \in Nat : \E f : AppliesUpTo(f, c, entries, k)
  <2>1. Nat \subseteq S
    <3> HIDE DEF S
    <3> QED BY <1>1, <1>2, NatSetInduction
  <2> QED BY <2>1, Zenon
<1>4. ASSUME NEW k \in Nat
      PROVE  \E f : AppliesUpTo(f, c, entries, k) /\ ApplyEntries(c, entries, k) = f[k]
  BY <1>3, Zenon DEF ApplyEntries, AppliesUpTo
\* The functions on 0..k and on 0..k+1 agree.
<1>5. ASSUME NEW k \in Nat, NEW f, NEW g,
             AppliesUpTo(f, c, entries, k), AppliesUpTo(g, c, entries, k + 1)
      PROVE  g[k] = f[k]
  <2> DEFINE T == {i \in Nat : i <= k => g[i] = f[i]}
  <2>1. 0 \in T
    BY <1>5 DEF AppliesUpTo
  <2>2. ASSUME NEW i \in Nat, i \in T
        PROVE  i + 1 \in T
    BY <1>5, <2>2 DEF AppliesUpTo
  <2>3. k \in T
    <3> HIDE DEF T
    <3> QED BY <2>1, <2>2, NatSetInduction, Zenon
  <2> QED BY <2>3
<1>6. ApplyEntries(c, entries, 0) = c
  <2>1. PICK f : AppliesUpTo(f, c, entries, 0) /\ ApplyEntries(c, entries, 0) = f[0]
    BY <1>4, Zenon
  <2> QED BY <2>1 DEF AppliesUpTo
<1>7. ASSUME NEW k \in Nat
      PROVE  ApplyEntries(c, entries, k + 1)
               = ApplyEntry(ApplyEntries(c, entries, k), entries[k + 1])
  <2>1. PICK f : AppliesUpTo(f, c, entries, k) /\ ApplyEntries(c, entries, k) = f[k]
    BY <1>4
  <2>2. PICK g : AppliesUpTo(g, c, entries, k + 1) /\ ApplyEntries(c, entries, k + 1) = g[k + 1]
    BY <1>4
  <2>3. g[k + 1] = ApplyEntry(g[(k + 1) - 1], entries[k + 1])
    BY <2>2 DEF AppliesUpTo
  <2> QED BY <1>5, <2>1, <2>2, <2>3
<1> QED BY <1>6, <1>7, Zenon

\* One more entry of a response, applied after the ones before it.
LEMMA ApplyNextEntry ==
    ASSUME NEW c, NEW entries, NEW k \in Nat
    PROVE  ApplyEntries(c, entries, k + 1) = ApplyEntry(ApplyEntries(c, entries, k), entries[k + 1])
BY ApplyEntriesUnfolds, Zenon

\* A transaction of any number of changes.
LEMMA TransactionStage ==
    ASSUME StageOK(StoreNow), ClientOK, retFloor \in Nat, snapFloor \in Nat,
           NEW n \in 0..MaxChanges, NEW st \in Materialized[n]
    PROVE  StageOK(st)
<1> DEFINE S == {m \in Nat : m <= MaxChanges => \A s \in Materialized[m] : StageOK(s)}
<1>1. MaxChanges \in Nat /\ 0 \in 0..MaxChanges
  BY TailAssumption
<1>2. 0 \in S
  BY <1>1, MaterializedUnfolds DEF ChangesUpTo
<1>3. ASSUME NEW m \in Nat, m \in S
      PROVE  m + 1 \in S
  <2>1. ASSUME m + 1 <= MaxChanges, NEW t \in Materialized[m + 1]
        PROVE  StageOK(t)
    <3>1. t \in UNION {Changed(s) : s \in {r \in Materialized[m] : r.lastOp < OpLimit}}
      BY <1>1, <2>1, MaterializedUnfolds DEF ChangesUpTo
    <3>2. PICK s \in Materialized[m] : t \in Changed(s)
      BY <3>1
    <3>3. PICK c \in Changes : Possible(s.docs, c) /\ t = ApplyChange(s, c)
      BY <3>2 DEF Changed
    <3> QED BY <1>1, <1>3, <2>1, <3>3, ChangeStage
  <2> QED BY <2>1
<1>4. n \in S
  <2> HIDE DEF S
  <2> QED BY <1>2, <1>3, NatSetInduction
<1> QED BY <1>1, <1>4

----------------------------------------------------------------------------
\* Replays.

\* A replay of the operations a+1 to n leads from rows and sum to rows2 and sum2.
Reaches(rows, sum, log, b, a, n, rows2, sum2) ==
    \E X, Y : /\ Replay(X, Y, log, b, a, n)
              /\ X[a] = rows /\ Y[a] = sum /\ X[n] = rows2 /\ Y[n] = sum2

\* A replay may start at any later operation.
LEMMA ReplaySuffix ==
    ASSUME NEW X, NEW Y, NEW log, NEW b, NEW a \in Nat, NEW n \in Nat, NEW i \in a..n,
           Replay(X, Y, log, b, a, n)
    PROVE  Reaches(X[i], Y[i], log, b, i, n, X[n], Y[n])
<1> DEFINE V == [j \in i..n |-> X[j]]
           W == [j \in i..n |-> Y[j]]
<1>1. /\ \A j \in i..n : j \in a..n
      /\ \A j \in (i + 1)..n : j \in (a + 1)..n /\ j \in i..n /\ j - 1 \in i..n
      /\ i \in i..n /\ n \in i..n
  OBVIOUS
<1>2. V \in [i..n -> Screens] /\ W \in [i..n -> Sums]
  BY <1>1, Zenon DEF Replay
<1>3. ASSUME NEW j \in (i + 1)..n
      PROVE  V[j] = RowsStep(V[j - 1], log[j], b) /\ W[j] = SumStep(W[j - 1], log[j], b)
  BY <1>1, Zenon DEF Replay
<1>4. V[i] = X[i] /\ W[i] = Y[i] /\ V[n] = X[n] /\ W[n] = Y[n]
  BY <1>1
<1> HIDE DEF V, W
<1>5. Replay(V, W, log, b, i, n)
  BY <1>2, <1>3, Zenon DEF Replay
<1> QED BY <1>4, <1>5, Zenon DEF Reaches

CanReplay(rows, sum, log, b, a, n) ==
    \E X, Y : Replay(X, Y, log, b, a, n) /\ X[a] = rows /\ Y[a] = sum

\* Every client can replay a log.
LEMMA ReplayExists ==
    ASSUME NEW log, NEW b, NEW a \in Nat, NEW n \in Nat, a <= n,
           NEW rows \in Screens, NEW sum \in Sums, \A i \in (a + 1)..n : log[i] \in Operations
    PROVE  CanReplay(rows, sum, log, b, a, n)
<1> DEFINE R(m, X, Y) == Replay(X, Y, log, b, a, m) /\ X[a] = rows /\ Y[a] = sum
           S == {d \in Nat : a + d <= n => \E X, Y : R(a + d, X, Y)}
<1>1. 0 \in S
  <2> DEFINE X == [i \in a..a |-> rows]
             Y == [i \in a..a |-> sum]
  <2>1. X \in [a..a -> Screens] /\ Y \in [a..a -> Sums] /\ X[a] = rows /\ Y[a] = sum
    OBVIOUS
  <2> HIDE DEF X, Y
  <2> QED BY <2>1 DEF Replay
<1>2. ASSUME NEW d \in Nat, d \in S
      PROVE  d + 1 \in S
  <2>1. ASSUME a + (d + 1) <= n
        PROVE  \E X, Y : R(a + (d + 1), X, Y)
    <3> DEFINE m == a + d
               k == a + (d + 1)
    <3>1. /\ m \in Nat /\ k \in Nat /\ k = m + 1 /\ m <= n /\ k \in (a + 1)..n
          /\ m \in a..m /\ a # k /\ a \in a..k /\ k \in a..k
          /\ \A i \in a..k : i # k => i \in a..m
          /\ \A i \in (a + 1)..k : i \in a..k /\ i - 1 \in a..k /\ i - 1 # k
          /\ \A i \in (a + 1)..k : i # k => i \in (a + 1)..m
          /\ k - 1 = m
      BY <2>1
    <3>2. PICK X, Y : R(m, X, Y)
      BY <1>2, <3>1, Zenon
    <3> HIDE DEF m, k
    <3>3. /\ X \in [a..m -> Screens] /\ Y \in [a..m -> Sums] /\ X[a] = rows /\ Y[a] = sum
          /\ \A i \in (a + 1)..m : /\ X[i] = RowsStep(X[i - 1], log[i], b)
                                   /\ Y[i] = SumStep(Y[i - 1], log[i], b)
      BY <3>2, Zenon DEF Replay
    <3> DEFINE r == RowsStep(X[m], log[k], b)
               s == SumStep(Y[m], log[k], b)
               V == [i \in a..k |-> IF i = k THEN r ELSE X[i]]
               W == [i \in a..k |-> IF i = k THEN s ELSE Y[i]]
    <3>4. r \in Screens /\ s \in Sums
      BY Zenon, <3>1, <3>3, StepTypes
    <3> HIDE DEF r, s
    <3>5. V \in [a..k -> Screens] /\ W \in [a..k -> Sums] /\ V[a] = rows /\ W[a] = sum
      BY <3>1, <3>3, <3>4, Zenon
    <3>6. ASSUME NEW i \in (a + 1)..k
          PROVE  V[i] = RowsStep(V[i - 1], log[i], b) /\ W[i] = SumStep(W[i - 1], log[i], b)
      <4>1. CASE i # k
        BY <3>1, <3>3, <4>1, Zenon
      <4> QED BY <3>1, <4>1, Zenon DEF r, s
    <3> HIDE DEF V, W
    <3> QED BY <3>5, <3>6, Zenon DEF k, Replay
  <2> QED BY <2>1
<1>3. n - a \in S
  <2> HIDE DEF S
  <2> QED BY <1>1, <1>2, NatSetInduction
<1> QED BY <1>3 DEF CanReplay

\* What the checksum tells of the entries that led from rows and sum to rows2 and
\* sum2: a row nobody sent is as it was, and any other shows a PUT that was sent
\* or was sent a REMOVE.
Tells(rows, sum, rows2, sum2) ==
    /\ \A h \in Hashes : sum2[h] >= sum[h]
    /\ \A x \in Ids :
         \/ /\ rows2[x] = rows[x]
            /\ \A d \in Docs : sum2[PutHash(x, d)] = sum[PutHash(x, d)]
         \/ sum2[RemoveHash(x)] > sum[RemoveHash(x)]
         \/ \E d \in Docs : rows2[x] = d.val /\ sum2[PutHash(x, d)] > sum[PutHash(x, d)]

\* One step of a replay keeps the count.
LEMMA TellsStep ==
    ASSUME NEW rows \in Screens, NEW sum \in Sums, NEW rows2 \in Screens, NEW sum2 \in Sums,
           Tells(rows, sum, rows2, sum2), NEW o \in Operations, NEW b
    PROVE  Tells(rows, sum, RowsStep(rows2, o, b), SumStep(sum2, o, b))
<1> DEFINE r == RowsStep(rows2, o, b)
           s == SumStep(sum2, o, b)
<1>1. CASE Effect(o, b) = "none"
  <2>1. r = rows2 /\ s = sum2
    BY <1>1, Zenon DEF RowsStep, SumStep
  <2> QED BY <2>1, Zenon
<1>2. CASE Effect(o, b) # "none"
  <2> DEFINE g == IF Effect(o, b) = "put" THEN PutHash(o.id, o.doc) ELSE RemoveHash(o.id)
  <2>1. o.id \in Ids /\ (Effect(o, b) = "put" => o.doc \in Docs)
    <3>1. Effect(o, b) = "put" => InBucket(o.doc, b)
      BY Effects, Zenon
    <3> QED BY <3>1, InBucketDoc, Zenon DEF Operations
  <2>2. s \in Sums /\ r \in Screens
    BY StepTypes, Zenon
  <2>3. \A h \in Hashes : s[h] = sum2[h] + (IF h = g THEN 1 ELSE 0)
    BY <1>2, SumFacts DEF SumStep, EntrySum
  <2>4. \A x \in Ids : x # o.id => r[x] = rows2[x]
    BY <1>2, <2>1, Zenon DEF RowsStep, Screens
  <2>5. Effect(o, b) = "put" => r[o.id] = o.doc.val
    BY <1>2, <2>1, Zenon DEF RowsStep, Screens, EntryVal
  <2>6. g \in Hashes
    BY <2>1, HashFacts, Zenon
  <2>7. \A h \in Hashes : /\ sum[h] \in Int /\ sum2[h] \in Int /\ s[h] \in Int
                          /\ sum2[h] >= sum[h]
    BY <2>2, Zenon DEF Sums, Tells
  <2> HIDE DEF r, s
  <2>8. \A h \in Hashes : s[h] >= sum2[h] /\ s[h] >= sum[h]
    BY <2>3, <2>7
  <2>9. ASSUME NEW x \in Ids
        PROVE  \/ /\ r[x] = rows[x]
                  /\ \A d \in Docs : s[PutHash(x, d)] = sum[PutHash(x, d)]
               \/ s[RemoveHash(x)] > sum[RemoveHash(x)]
               \/ \E d \in Docs : r[x] = d.val /\ s[PutHash(x, d)] > sum[PutHash(x, d)]
    <3>1. RemoveHash(x) \in Hashes /\ \A d \in Docs : PutHash(x, d) \in Hashes
      BY HashFacts, Zenon
    <3>2. CASE x # o.id
      <4>1. g # RemoveHash(x) /\ \A d \in Docs : g # PutHash(x, d)
        BY <2>1, <3>2, HashFacts
      <4>2. s[RemoveHash(x)] = sum2[RemoveHash(x)] + 0 /\ sum2[RemoveHash(x)] \in Int
        BY <2>3, <2>7, <3>1, <4>1, Zenon
      <4>3. \A d \in Docs : s[PutHash(x, d)] = sum2[PutHash(x, d)] + 0 /\ sum2[PutHash(x, d)] \in Int
        BY <2>3, <2>7, <3>1, <4>1, Zenon
      <4>4. /\ s[RemoveHash(x)] = sum2[RemoveHash(x)]
            /\ \A d \in Docs : s[PutHash(x, d)] = sum2[PutHash(x, d)]
        BY <4>2, <4>3
      <4>5. r[x] = rows2[x]
        BY <2>4, <3>2, Zenon
      <4> QED BY <4>4, <4>5, Zenon DEF Tells
    <3>3. CASE x = o.id /\ Effect(o, b) = "put"
      <4>1. s[PutHash(x, o.doc)] > sum[PutHash(x, o.doc)]
        BY <2>1, <2>3, <2>7, <3>1, <3>3
      <4> QED BY <2>1, <2>5, <3>3, <4>1, Zenon
    <3>4. CASE x = o.id /\ Effect(o, b) # "put"
      BY <2>3, <2>7, <3>1, <3>4
    <3> QED BY <3>2, <3>3, <3>4, Zenon
  <2> QED BY <2>8, <2>9, Zenon DEF Tells, r, s
<1> QED BY <1>1, <1>2, Zenon

\* So does a whole replay, by induction over its steps.
LEMMA ReplayTells ==
    ASSUME NEW X, NEW Y, NEW log, NEW b, NEW a \in Nat, NEW n \in Nat, a <= n,
           Replay(X, Y, log, b, a, n), \A i \in (a + 1)..n : log[i] \in Operations
    PROVE  Tells(X[a], Y[a], X[n], Y[n])
<1> DEFINE S == {d \in Nat : a + d <= n => Tells(X[a], Y[a], X[a + d], Y[a + d])}
<1>1. 0 \in S
  BY DEF Tells, Sums, Replay
<1>2. ASSUME NEW d \in Nat, d \in S
      PROVE  d + 1 \in S
  <2>1. ASSUME a + (d + 1) <= n
        PROVE  Tells(X[a], Y[a], X[a + (d + 1)], Y[a + (d + 1)])
    <3> DEFINE i == a + (d + 1)
    <3>1. i \in (a + 1)..n /\ i - 1 = a + d /\ i - 1 \in a..n /\ a + d <= n
      BY <2>1
    <3> HIDE DEF i
    <3>2. Tells(X[a], Y[a], X[i], Y[i])
      BY <1>2, <3>1, TellsStep DEF Replay
    <3> QED BY <3>2, Zenon DEF i
  <2> QED BY <2>1
<1>3. n - a \in S
  <2> HIDE DEF S
  <2> QED BY <1>1, <1>2, NatSetInduction
<1> QED BY <1>3

----------------------------------------------------------------------------
\* Snapshots.

ShownIds(st, b) == {i \in Ids : InBucket(st.docs[i], b)}

\* A client that got the CLEAR of a snapshot and the rows R.
SentHashes(st, R) == {PutHash(i, st.docs[i]) : i \in R}
SentRows(st, R) == [i \in Ids |-> IF i \in R THEN st.docs[i].val ELSE NoVal]
SentSum(st, b, R) == Plus(st.tail[b], HashSum(SentHashes(st, R)))

\* The sums of a part of a snapshot.
LEMMA SentFacts ==
    ASSUME NEW st, st.docs \in Rows, st.tail \in [Routes -> Sums], NEW b \in Routes,
           NEW R \in SUBSET ShownIds(st, b)
    PROVE  /\ SentRows(st, R) \in Screens /\ SentSum(st, b, R) \in Sums
           /\ R \subseteq Ids /\ \A i \in R : st.docs[i] \in Docs
           /\ \A i \in Ids : SentRows(st, R)[i] = IF i \in R THEN st.docs[i].val ELSE NoVal
           /\ \A h \in Hashes : SentSum(st, b, R)[h] =
                st.tail[b][h] + (IF h \in SentHashes(st, R) THEN 1 ELSE 0)
           /\ \A x \in Ids, d \in Docs : PutHash(x, d) \in SentHashes(st, R)
                <=> x \in R /\ d.val = st.docs[x].val
           /\ \A x \in Ids : RemoveHash(x) \notin SentHashes(st, R)
<1>1. \A i \in R : i \in Ids /\ InBucket(st.docs[i], b) /\ st.docs[i] \in Docs \cup {NoDoc}
  BY Zenon DEF ShownIds, Rows
<1>2. R \subseteq Ids /\ \A i \in R : st.docs[i] \in Docs
  BY <1>1, InBucketDoc, Zenon
<1>3. SentRows(st, R) \in Screens
  BY <1>2, Zenon DEF SentRows, Screens, Docs
<1>4. st.tail[b] \in Sums /\ HashSum(SentHashes(st, R)) \in Sums
  BY SumFacts, Zenon
<1>5. /\ SentSum(st, b, R) \in Sums
      /\ \A h \in Hashes : SentSum(st, b, R)[h] =
           st.tail[b][h] + (IF h \in SentHashes(st, R) THEN 1 ELSE 0)
  BY <1>4, SumFacts DEF SentSum
<1>6. ASSUME NEW x \in Ids, NEW d \in Docs
      PROVE  PutHash(x, d) \in SentHashes(st, R) <=> x \in R /\ d.val = st.docs[x].val
  <2>1. PutHash(x, d) \in SentHashes(st, R) => x \in R /\ d.val = st.docs[x].val
    BY <1>2, HashFacts DEF SentHashes
  <2>2. d.val = st.docs[x].val => PutHash(x, d) = PutHash(x, st.docs[x])
    BY Zenon DEF PutHash
  <2> QED BY <2>1, <2>2, Zenon DEF SentHashes
<1>7. \A x \in Ids : RemoveHash(x) \notin SentHashes(st, R)
  BY <1>2, HashFacts DEF SentHashes
<1>8. \A i \in Ids : SentRows(st, R)[i] = IF i \in R THEN st.docs[i].val ELSE NoVal
  BY Zenon DEF SentRows
<1> QED BY <1>2, <1>3, <1>5, <1>6, <1>7, <1>8, Zenon

\* A checksum that counts the rows R beside the tail's, and no removal.
Counts(sum, st, b, R) ==
    /\ \A x \in Ids, d \in Docs : sum[PutHash(x, d)] =
         st.tail[b][PutHash(x, d)] + (IF x \in R /\ d.val = st.docs[x].val THEN 1 ELSE 0)
    /\ \A x \in Ids : sum[RemoveHash(x)] = st.tail[b][RemoveHash(x)] + 0

\* The sum of a part of a snapshot, hash by hash.
LEMMA SentCounts ==
    ASSUME NEW st, st.docs \in Rows, st.tail \in [Routes -> Sums], NEW b \in Routes,
           NEW R \in SUBSET ShownIds(st, b)
    PROVE  Counts(SentSum(st, b, R), st, b, R)
<1>1. /\ \A h \in Hashes : SentSum(st, b, R)[h] =
           st.tail[b][h] + (IF h \in SentHashes(st, R) THEN 1 ELSE 0)
      /\ \A x \in Ids, d \in Docs : PutHash(x, d) \in SentHashes(st, R)
           <=> x \in R /\ d.val = st.docs[x].val
      /\ \A x \in Ids : RemoveHash(x) \notin SentHashes(st, R)
  BY SentFacts
<1>2. /\ \A x \in Ids : RemoveHash(x) \in Hashes
      /\ \A x \in Ids, d \in Docs : PutHash(x, d) \in Hashes
  BY HashFacts, Zenon
<1> QED BY <1>1, <1>2, Zenon DEF Counts

\* A whole snapshot shows the bucket and has its checkpoint.
LEMMA WholeSnapshot ==
    ASSUME NEW st, StoreOK(st), NEW b \in Routes
    PROVE  /\ SentRows(st, ShownIds(st, b)) = Shown(st.docs, b)
           /\ SentSum(st, b, ShownIds(st, b)) = Checkpoint(st, b)
           /\ Checkpoint(st, b) = Plus(BucketSum(st.docs, b), st.tail[b])
           /\ Checkpoint(st, b) \in Sums
<1> DEFINE R == ShownIds(st, b)
<1>1. /\ st.docs \in Rows /\ st.tail[b] \in Sums /\ st.cur[b] = BucketSum(st.docs, b)
      /\ BucketSum(st.docs, b) \in Sums
  BY BucketSums, Zenon DEF StoreOK
<1>2. Checkpoint(st, b) = Plus(BucketSum(st.docs, b), st.tail[b]) /\ Checkpoint(st, b) \in Sums
  BY <1>1, SumFacts, Zenon DEF Checkpoint
<1>3. SentRows(st, R) = Shown(st.docs, b)
  BY Zenon DEF SentRows, ShownIds, Shown
<1>4. BucketSum(st.docs, b) = HashSum(SentHashes(st, R))
  BY Zenon DEF BucketSum, SentHashes, ShownIds
<1> DEFINE x == BucketSum(st.docs, b)
           y == st.tail[b]
<1>5. x \in Sums /\ y \in Sums
  BY <1>1, Zenon
<1> HIDE DEF x, y, R
<1>6. Plus(x, y) = Plus(y, x)
  <2>1. Plus(x, y) \in Sums /\ Plus(y, x) \in Sums
    BY <1>5, SumFacts, Zenon
  <2>2. \A h \in Hashes : x[h] \in Int /\ y[h] \in Int
    BY <1>5, Zenon DEF Sums
  <2>3. \A h \in Hashes : Plus(x, y)[h] = x[h] + y[h] /\ Plus(y, x)[h] = y[h] + x[h]
    BY <1>5, SumFacts
  <2>4. \A h \in Hashes : Plus(x, y)[h] = Plus(y, x)[h]
    BY <2>2, <2>3
  <2> QED BY <2>1, <2>4, SumsEqual, Zenon
<1>7. SentSum(st, b, R) = Checkpoint(st, b)
  BY <1>2, <1>4, <1>6, Zenon DEF SentSum, x, y
<1> QED BY <1>2, <1>3, <1>7, Zenon DEF R

\* A client that was cut in a snapshot and goes on with operations that have nothing
\* to do with it ends with the checkpoint only when it was sent the missing rows
\* and nothing else.
LEMMA CutSnapshot ==
    ASSUME NEW st, StoreOK(st), NEW b \in Routes, NEW R \in SUBSET ShownIds(st, b),
           NEW rows \in Screens, NEW sum \in Sums,
           Tells(SentRows(st, R), SentSum(st, b, R), rows, sum)
    PROVE  Caught(rows, sum, st, b, FALSE)
<1> DEFINE A == ShownIds(st, b)
           r == SentRows(st, R)
           s == SentSum(st, b, R)
           t == Checkpoint(st, b)
<1>1. st.docs \in Rows /\ st.tail \in [Routes -> Sums]
  BY Zenon DEF StoreOK
<1>2. /\ s \in Sums /\ t \in Sums
      /\ \A i \in R : i \in Ids
      /\ \A i \in Ids : r[i] = IF i \in R THEN st.docs[i].val ELSE NoVal
      /\ \A x \in Ids, d \in Docs : s[PutHash(x, d)] =
           st.tail[b][PutHash(x, d)] + (IF x \in R /\ d.val = st.docs[x].val THEN 1 ELSE 0)
      /\ \A x \in Ids : s[RemoveHash(x)] = st.tail[b][RemoveHash(x)] + 0
  <2>1. t \in Sums
    BY WholeSnapshot, Zenon
  <2>2. /\ s \in Sums /\ \A i \in R : i \in Ids
        /\ \A i \in Ids : r[i] = IF i \in R THEN st.docs[i].val ELSE NoVal
    BY <1>1, SentFacts, Zenon
  <2>3. Counts(s, st, b, R)
    BY <1>1, SentCounts, Zenon
  <2> QED BY <2>1, <2>2, <2>3, Zenon DEF Counts
<1>3. /\ \A x \in Ids, d \in Docs : t[PutHash(x, d)] =
           st.tail[b][PutHash(x, d)] + (IF x \in A /\ d.val = st.docs[x].val THEN 1 ELSE 0)
      /\ \A x \in Ids : t[RemoveHash(x)] = st.tail[b][RemoveHash(x)] + 0
      /\ \A i \in A : st.docs[i] \in Docs
  <2>1. A \in SUBSET ShownIds(st, b)
    BY Zenon
  <2>2. t = SentSum(st, b, A)
    BY WholeSnapshot, Zenon
  <2> HIDE DEF A, t
  <2>3. \A i \in A : st.docs[i] \in Docs
    BY <1>1, <2>1, SentFacts, Zenon
  <2>4. Counts(t, st, b, A)
    BY <1>1, <2>1, <2>2, SentCounts, Zenon
  <2> QED BY <2>3, <2>4, Zenon DEF Counts
<1>4. /\ \A x \in Ids : RemoveHash(x) \in Hashes
      /\ \A x \in Ids, d \in Docs : PutHash(x, d) \in Hashes
  BY HashFacts, Zenon
<1>5. \A h \in Hashes : s[h] \in Int /\ t[h] \in Int /\ sum[h] \in Int /\ st.tail[b][h] \in Int
  BY <1>1, <1>2 DEF Sums
<1> HIDE DEF A, r, s, t
<1>6. \A x \in Ids : s[RemoveHash(x)] = t[RemoveHash(x)]
  BY <1>2, <1>3, Zenon
<1>7. /\ \A h \in Hashes : sum[h] >= s[h]
      /\ \A x \in Ids :
           \/ /\ rows[x] = r[x]
              /\ \A d \in Docs : sum[PutHash(x, d)] = s[PutHash(x, d)]
           \/ sum[RemoveHash(x)] > s[RemoveHash(x)]
           \/ \E d \in Docs : rows[x] = d.val /\ sum[PutHash(x, d)] > s[PutHash(x, d)]
  BY Zenon DEF Tells, r, s
<1>8. \A x \in Ids : sum[RemoveHash(x)] >= t[RemoveHash(x)]
  BY <1>4, <1>6, <1>7, Zenon
<1>9. ASSUME sum = t
      PROVE  rows = Shown(st.docs, b)
  <2> DEFINE sh == Shown(st.docs, b)
  <2>1. \A x \in Ids : sh[x] = IF x \in A THEN st.docs[x].val ELSE NoVal
    BY Zenon DEF Shown, ShownIds, A
  <2>2. ASSUME NEW x \in Ids
        PROVE  rows[x] = sh[x]
    <3>1. ~(sum[RemoveHash(x)] > s[RemoveHash(x)])
      <4>1. PICK n \in Int : n = s[RemoveHash(x)]
        BY <1>4, <1>5, Zenon
      <4>2. sum[RemoveHash(x)] = n
        BY <1>6, <1>9, <4>1, Zenon
      <4>3. ~(n > n)
        OBVIOUS
      <4> QED BY <4>1, <4>2, <4>3, Zenon
    <3>2. \A d \in Docs : sum[PutHash(x, d)] =
            st.tail[b][PutHash(x, d)] + (IF x \in A /\ d.val = st.docs[x].val THEN 1 ELSE 0)
      BY <1>3, <1>9, Zenon
    <3>3. \A d \in Docs : s[PutHash(x, d)] =
            st.tail[b][PutHash(x, d)] + (IF x \in R /\ d.val = st.docs[x].val THEN 1 ELSE 0)
      BY <1>2, Zenon
    <3>4. \A d \in Docs : st.tail[b][PutHash(x, d)] \in Int
      BY <1>4, <1>5, Zenon
    <3>5. ASSUME NEW d \in Docs, rows[x] = d.val, sum[PutHash(x, d)] > s[PutHash(x, d)]
          PROVE  rows[x] = sh[x]
      <4>1. x \in A /\ d.val = st.docs[x].val
        <5>1. PICK n, p, q : /\ n \in Int /\ n = st.tail[b][PutHash(x, d)]
                            /\ p = sum[PutHash(x, d)] /\ q = s[PutHash(x, d)]
          BY <3>4, Zenon
        <5>2. (q = n + 0 \/ q = n + 1) /\ p > q
          BY <3>3, <3>5, <5>1, Zenon
        <5>3. p # n + 0
          BY <5>1, <5>2
        <5> QED BY <3>2, <5>1, <5>3, Zenon
      <4> QED BY <2>1, <3>5, <4>1, Zenon
    <3>6. ASSUME rows[x] = r[x], \A d \in Docs : sum[PutHash(x, d)] = s[PutHash(x, d)]
          PROVE  rows[x] = sh[x]
      <4>1. CASE x \in A
        <5>1. st.docs[x] \in Docs
          BY <1>3, <4>1, Zenon
        <5>2. x \in R
          <6>1. PICK n, h : n \in Int /\ h = PutHash(x, st.docs[x]) /\ n = st.tail[b][h]
            BY <3>4, <5>1, Zenon
          <6>2. sum[h] = n + 1 /\ s[h] = sum[h]
            BY <3>2, <3>6, <4>1, <5>1, <6>1, Zenon
          <6>3. n + 1 # n + 0
            BY <6>1
          <6> QED BY <3>3, <5>1, <6>1, <6>2, <6>3, Zenon
        <5> QED BY <1>2, <2>1, <3>6, <4>1, <5>2, Zenon
      <4>2. CASE x \notin A
        <5>1. x \notin R
          BY <4>2, Zenon DEF A
        <5> QED BY <1>2, <2>1, <3>6, <4>2, <5>1, Zenon
      <4> QED BY <4>1, <4>2, Zenon
    <3> QED BY <1>7, <3>1, <3>5, <3>6, Zenon
  <2>3. rows = [x \in Ids |-> rows[x]] /\ sh = [x \in Ids |-> sh[x]]
    BY Zenon DEF Screens, Shown
  <2> HIDE DEF sh
  <2>4. rows = sh
    BY <2>2, <2>3, Zenon
  <2> QED BY <2>4, Zenon DEF sh
<1> QED BY <1>8, <1>9, Zenon DEF Caught, t
=============================================================================
