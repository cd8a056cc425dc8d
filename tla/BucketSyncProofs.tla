-------------------------- MODULE BucketSyncProofs --------------------------
(***************************************************************************)
(* The invariant of the bucket protocol and what follows from it.          *)
(*                                                                         *)
(* The store's half says that the accumulators are the rescan of the       *)
(* documents and that the log is complete above both floors.  The client's *)
(* half says where the client would end if it applied the operations it    *)
(* has not seen (Follows): a client that got every response whole would    *)
(* show the bucket, and one that was cut would show it if the checksums    *)
(* agreed.  Responses are related to that replay entry by entry.           *)
(***************************************************************************)
EXTENDS BucketSyncLemmas

\* The types of what a snapshot has sent.
LEMMA SentTypes ==
    ASSUME NEW st, st.docs \in Rows, st.tail \in [Routes -> Sums], NEW b \in Routes,
           NEW R \in SUBSET ShownIds(st, b)
    PROVE  SentRows(st, R) \in Screens /\ SentSum(st, b, R) \in Sums
BY SentFacts

\* A client that was cut in a snapshot can be followed.
LEMMA CutSnapshotFollows ==
    ASSUME NEW st, StoreOK(st), retFloor \in Nat, snapFloor \in Nat,
           NEW b \in Routes, NEW R \in SUBSET ShownIds(st, b),
           NEW a \in Nat, a <= st.lastOp, a >= retFloor, a >= snapFloor
    PROVE  Follows(SentRows(st, R), SentSum(st, b, R), st, b, a, FALSE)
<1> DEFINE n == st.lastOp
           r == SentRows(st, R)
           s == SentSum(st, b, R)
<1>1. n \in Nat /\ a <= n /\ a \in a..n /\ n \in a..n
  BY DEF StoreOK
<1>2. r \in Screens /\ s \in Sums
  BY Zenon, SentTypes DEF StoreOK
<1>3. ASSUME NEW i \in (a + 1)..n
      PROVE  st.ops[i] \in Operations
  BY <1>1 DEF StoreOK, LogOK
<1> HIDE DEF n, r, s
<1>4. PICK X, Y : Replay(X, Y, st.ops, b, a, n) /\ X[a] = r /\ Y[a] = s
  <2>1. CanReplay(r, s, st.ops, b, a, n)
    BY <1>1, <1>2, <1>3, ReplayExists
  <2> QED BY <2>1, Zenon DEF CanReplay
<1>5. Tells(r, s, X[n], Y[n])
  BY <1>1, <1>3, <1>4, ReplayTells
<1>6. X[n] \in Screens /\ Y[n] \in Sums
  BY <1>1, <1>4, Zenon DEF Replay
<1>7. Caught(X[n], Y[n], st, b, FALSE)
  BY <1>5, <1>6, CutSnapshot, Zenon DEF r, s
<1> QED BY <1>4, <1>7, Zenon DEF Follows, n, r, s

\* A client that shows the bucket and its checkpoint has caught up.
LEMMA ExactIsCaught ==
    ASSUME NEW st, NEW b, NEW valid, NEW rows, NEW sum,
           rows = Shown(st.docs, b), sum = Checkpoint(st, b),
           \A i \in Ids : Checkpoint(st, b)[RemoveHash(i)] \in Int
    PROVE  Caught(rows, sum, st, b, valid)
BY DEF Caught

\* A client that has seen everything has nothing to replay.
LEMMA CaughtUpFollows ==
    ASSUME NEW st, st.lastOp \in Nat, NEW b, NEW valid, NEW rows \in Screens, NEW sum \in Sums,
           Caught(rows, sum, st, b, valid)
    PROVE  Follows(rows, sum, st, b, st.lastOp, valid)
<1> DEFINE n == st.lastOp
           X == [i \in n..n |-> rows]
           Y == [i \in n..n |-> sum]
<1>1. X \in [n..n -> Screens] /\ Y \in [n..n -> Sums] /\ X[n] = rows /\ Y[n] = sum
  OBVIOUS
<1> HIDE DEF n, X, Y
<1> QED BY <1>1 DEF Follows, n, Replay

----------------------------------------------------------------------------
\* Responses.

\* The operations a delta sends.
Hits(b, after) == {i \in IndexedOps(b, after) : Effect(ops[i], b) # "none"}

\* An operation that has an effect on a bucket is indexed under its route.
LEMMA HitsAreEffects ==
    ASSUME StoreOK(StoreNow), retFloor \in Nat, snapFloor \in Nat, NEW b \in Routes,
           NEW a \in Nat, a <= lastOp, a >= retFloor, a >= snapFloor, NEW i \in (a + 1)..lastOp
    PROVE  ops[i] \in Operations /\ (i \in Hits(b, a) <=> Effect(ops[i], b) # "none")
<1>1. ASSUME Effect(ops[i], b) # "none"
      PROVE  <<b, i>> \in index
  BY <1>1, Effects DEF InBucket, OpRoutes, LogOK, StoreNow, StoreOK
<1> QED BY <1>1 DEF Hits, IndexedOps, LogOK, StoreNow, StoreOK

\* The entries of a delta, by rank.
LEMMA DeltaFacts ==
    ASSUME NEW b, NEW a \in Nat, lastOp \in Nat
    PROVE  /\ Hits(b, a) \in SUBSET Int /\ IsFiniteSet(Hits(b, a))
           /\ Hits(b, a) \subseteq (a + 1)..lastOp
           /\ Len(DeltaEntries(b, a)) = Cardinality(Hits(b, a))
           /\ \A i \in Hits(b, a) :
                DeltaEntries(b, a)[Cardinality(UpTo(Hits(b, a), i))] = TailEntry(ops[i], i, b)
<1> DEFINE H == Hits(b, a)
           nth(k) == CHOOSE i \in H : Cardinality(UpTo(H, i)) = k
<1>1. H \subseteq (a + 1)..lastOp /\ a + 1 \in Int /\ lastOp \in Int
  BY DEF Hits, IndexedOps
<1>2. H \in SUBSET Int
  BY <1>1
<1>3. IsFiniteSet(H)
  <2>1. IsFiniteSet((a + 1)..lastOp)
    BY <1>1, FS_Interval
  <2> QED BY <1>1, <2>1, FS_Subset
<1>4. DeltaEntries(b, a) = [k \in 1..Cardinality(H) |-> TailEntry(ops[nth(k)], nth(k), b)]
  BY Zenon DEF DeltaEntries, Hits, UpTo
<1> HIDE DEF H
<1>5. Len(DeltaEntries(b, a)) = Cardinality(H)
  BY <1>3, <1>4, FS_CardinalityType
<1>6. ASSUME NEW i \in H
      PROVE  DeltaEntries(b, a)[Cardinality(UpTo(H, i))] = TailEntry(ops[i], i, b)
  <2> DEFINE k == Cardinality(UpTo(H, i))
  <2>1. k \in 1..Cardinality(H)
    BY <1>2, <1>3, Ranks, Zenon
  <2>2. ASSUME NEW j \in H, Cardinality(UpTo(H, j)) = k
        PROVE  j = i
    <3>1. Cardinality(UpTo(H, i)) \in Nat /\ Cardinality(UpTo(H, j)) \in Nat
      BY <1>2, <1>3, Ranks
    <3>2. /\ i < j => Cardinality(UpTo(H, i)) < Cardinality(UpTo(H, j))
          /\ j < i => Cardinality(UpTo(H, j)) < Cardinality(UpTo(H, i))
      BY <1>2, <1>3, Ranks, Zenon
    <3> QED BY <1>2, <2>2, <3>1, <3>2
  <2> HIDE DEF k
  <2> QED BY <1>4, <2>1, <2>2, Zenon DEF k
<1> QED BY <1>1, <1>2, <1>3, <1>5, <1>6, Zenon DEF H

\* What an entry of a delta does to a client.
LEMMA ApplyTailEntry ==
    ASSUME NEW c, NEW o, NEW i, NEW b, Effect(o, b) # "none"
    PROVE  /\ ApplyEntry(c, TailEntry(o, i, b)).rows = RowsStep(c.rows, o, b)
           /\ ApplyEntry(c, TailEntry(o, i, b)).sum = SumStep(c.sum, o, b)
           /\ ApplyEntry(c, TailEntry(o, i, b)).after = i
<1> DEFINE e == TailEntry(o, i, b)
<1> HIDE DEF e
<1>1. RowsStep(c.rows, o, b) = [c.rows EXCEPT ![o.id] = EntryVal(o, b)]
  BY Zenon DEF RowsStep
<1>2. SumStep(c.sum, o, b) = Plus(c.sum, EntrySum(o, b))
  BY Zenon DEF SumStep
<1> QED BY <1>1, <1>2, Zenon DEF Client, e, ApplyEntry, TailEntry, EntryVal, EntrySum

\* The client c that got the first entries of a delta, up to operation i.
DeltaUpTo(c, b, a, i) == ApplyEntries(c, DeltaEntries(b, a), Cardinality(UpTo(Hits(b, a), i)))

\* It is where the replay is after operation i.
AtReplay(c, b, a, X, Y, i) ==
    /\ DeltaUpTo(c, b, a, i).rows = X[i]
    /\ DeltaUpTo(c, b, a, i).sum = Y[i]
    /\ i \in Hits(b, a) => DeltaUpTo(c, b, a, i).after = i

\* The entries of a delta replay the operations one by one.
LEMMA DeltaReplays ==
    ASSUME StoreOK(StoreNow), retFloor \in Nat, snapFloor \in Nat, NEW b \in Routes,
           NEW a \in Nat, a <= lastOp, a >= retFloor, a >= snapFloor,
           NEW X, NEW Y, Replay(X, Y, ops, b, a, lastOp),
           NEW c, c.rows = X[a], c.sum = Y[a], NEW i \in a..lastOp
    PROVE  AtReplay(c, b, a, X, Y, i)
<1> DEFINE H == Hits(b, a)
           At(j) == /\ DeltaUpTo(c, b, a, j).rows = X[j]
                    /\ DeltaUpTo(c, b, a, j).sum = Y[j]
                    /\ j \in H => DeltaUpTo(c, b, a, j).after = j
           S == {d \in Nat : a + d <= lastOp => At(a + d)}
<1>1. lastOp \in Nat
  BY Zenon DEF StoreOK, StoreNow
<1>2. /\ H \in SUBSET Int /\ IsFiniteSet(H) /\ H \subseteq (a + 1)..lastOp
      /\ \A j \in H : DeltaEntries(b, a)[Cardinality(UpTo(H, j))] = TailEntry(ops[j], j, b)
  BY <1>1, DeltaFacts, Zenon
<1>3. 0 \in S
  <2>1. Cardinality(UpTo(H, a)) = 0
    BY <1>1, <1>2, FS_EmptySet DEF UpTo
  <2> QED BY <1>1, <1>2, <2>1, ApplyEntriesUnfolds DEF UpTo, DeltaUpTo
<1>4. ASSUME NEW d \in Nat, d \in S
      PROVE  d + 1 \in S
  <2>1. ASSUME a + (d + 1) <= lastOp
        PROVE  At(a + (d + 1))
    <3> DEFINE j == a + (d + 1)
               m == a + d
    <3>1. /\ j \in Nat /\ m \in Nat /\ j \in (a + 1)..lastOp /\ j - 1 = m /\ m <= lastOp
          /\ j = m + 1
      BY <1>1, <2>1
    <3> HIDE DEF j, m
    <3>2. X[j] = RowsStep(X[m], ops[j], b) /\ Y[j] = SumStep(Y[m], ops[j], b)
      BY <3>1, Zenon DEF Replay
    <3>3. CASE j \notin H
      <4>1. DeltaUpTo(c, b, a, j) = DeltaUpTo(c, b, a, m)
        BY <1>2, <3>1, <3>3 DEF DeltaUpTo, UpTo
      <4> QED BY <1>4, <3>1, <3>2, <3>3, <4>1, HitsAreEffects DEF j, RowsStep, SumStep
    <3>4. CASE j \in H
      <4> DEFINE k == Cardinality(UpTo(H, m))
      <4>1. UpTo(H, j) = UpTo(H, m) \cup {j} /\ j \notin UpTo(H, m)
        BY <1>2, <3>1, <3>4 DEF UpTo
      <4>2. IsFiniteSet(UpTo(H, m)) /\ k \in Nat
        BY <1>2, <3>1, Ranks
      <4>3. Cardinality(UpTo(H, j)) = k + 1
        BY <4>1, <4>2, FS_AddElement, Zenon
      <4>4. DeltaUpTo(c, b, a, j) = ApplyEntry(DeltaUpTo(c, b, a, m), TailEntry(ops[j], j, b))
        <5>1. DeltaUpTo(c, b, a, m) = ApplyEntries(c, DeltaEntries(b, a), k)
          BY Zenon DEF DeltaUpTo
        <5> DEFINE D == DeltaEntries(b, a)
        <5> HIDE DEF D, k
        <5> QED BY <1>2, <3>4, <4>2, <4>3, <5>1, ApplyNextEntry DEF D, DeltaUpTo
      <4> QED BY <1>4, <3>1, <3>2, <3>4, <4>4, HitsAreEffects, ApplyTailEntry DEF j
    <3> QED BY <3>3, <3>4, Zenon
  <2> QED BY <2>1
<1>5. i - a \in S
  <2> HIDE DEF S
  <2> QED BY <1>1, <1>3, <1>4, NatSetInduction
<1>6. At(i)
  <2> HIDE DEF At
  <2> QED BY <1>1, <1>5
<1> QED BY <1>6, Zenon DEF AtReplay

\* The client c got a part of a delta: it is in the middle of the replay.
CutInDelta(c, X, Y, a) ==
    \E i \in (a + 1)..lastOp : c.rows = X[i] /\ c.sum = Y[i] /\ c.after = i

\* It got the whole delta: it is at the end of the replay.
AfterDelta(c, X, Y) == c.rows = X[lastOp] /\ c.sum = Y[lastOp]

\* A delta, whole or cut.
LEMMA DeltaResponse ==
    ASSUME StoreOK(StoreNow), retFloor \in Nat, snapFloor \in Nat, NEW b \in Routes,
           NEW a \in Nat, a <= lastOp, a >= retFloor, a >= snapFloor,
           NEW X, NEW Y, Replay(X, Y, ops, b, a, lastOp),
           NEW c, c.rows = X[a], c.sum = Y[a], NEW got, got = DeltaEntries(b, a)
    PROVE  /\ AfterDelta(ApplyEntries(c, got, Len(got)), X, Y)
           /\ \A k \in 1..Len(got) : CutInDelta(ApplyEntries(c, got, k), X, Y, a)
<1> DEFINE H == Hits(b, a)
<1>1. lastOp \in Nat /\ lastOp \in a..lastOp
  BY DEF StoreOK, StoreNow
<1>2. /\ H \in SUBSET Int /\ IsFiniteSet(H) /\ H \subseteq (a + 1)..lastOp
      /\ Len(got) = Cardinality(H)
  BY <1>1, DeltaFacts, Zenon
<1>3. ASSUME NEW k \in 1..Len(got)
      PROVE  CutInDelta(ApplyEntries(c, got, k), X, Y, a)
  <2>1. PICK i \in H : Cardinality(UpTo(H, i)) = k
    BY <1>2, Ranks, Zenon
  <2>2. i \in a..lastOp /\ i \in (a + 1)..lastOp
    BY <1>2, <2>1
  <2>3. AtReplay(c, b, a, X, Y, i)
    BY <1>1, <2>2, DeltaReplays, Zenon
  <2>4. DeltaUpTo(c, b, a, i) = ApplyEntries(c, got, k)
    BY <2>1, Zenon DEF DeltaUpTo
  <2> QED BY <2>1, <2>2, <2>3, <2>4, Zenon DEF CutInDelta, AtReplay
<1>4. AfterDelta(ApplyEntries(c, got, Len(got)), X, Y)
  <2>1. AtReplay(c, b, a, X, Y, lastOp)
    BY <1>1, DeltaReplays, Zenon
  <2>2. \A i \in H : i <= lastOp
    BY <1>1, <1>2
  <2>3. UpTo(H, lastOp) = H
    BY <2>2, Zenon DEF UpTo
  <2>4. DeltaUpTo(c, b, a, lastOp) = ApplyEntries(c, got, Len(got))
    BY <1>2, <2>3, Zenon DEF DeltaUpTo
  <2> QED BY <2>1, <2>4, Zenon DEF AfterDelta, AtReplay
<1> QED BY <1>3, <1>4, Zenon

\* The rows of a snapshot with the ranks up to k.
FirstRows(A, k) == {i \in A : Cardinality(UpTo(A, i)) <= k}

\* The checksum of one more row of a snapshot.
LEMMA SentNext ==
    ASSUME NEW st, st.docs \in Rows, st.tail \in [Routes -> Sums], NEW b \in Routes,
           NEW R \in SUBSET ShownIds(st, b), NEW x \in ShownIds(st, b), x \notin R,
           NEW Q, Q = R \cup {x}
    PROVE  SentSum(st, b, Q) = Plus(SentSum(st, b, R), HashSum({PutHash(x, st.docs[x])}))
<1> DEFINE p == PutHash(x, st.docs[x])
           s == SentSum(st, b, R)
           s2 == SentSum(st, b, Q)
           t == st.tail[b]
           h1 == HashSum({p})
           HR == SentHashes(st, R)
           HQ == SentHashes(st, Q)
<1>1. Q \in SUBSET ShownIds(st, b) /\ x \in Ids /\ x \in Q
  BY DEF ShownIds
<1>2. st.docs[x] \in Docs
  BY <1>1, SentFacts, Zenon
<1>3. p \in Hashes /\ p \notin HR
  BY <1>1, <1>2, SentFacts, HashFacts
<1>4. \A h : h \in HQ <=> h \in HR \/ h = p
  BY Zenon DEF SentHashes
<1>5. s2 \in Sums /\ \A h \in Hashes : s2[h] = t[h] + (IF h \in HQ THEN 1 ELSE 0)
  BY <1>1, SentFacts
<1>6. s \in Sums /\ \A h \in Hashes : s[h] = t[h] + (IF h \in HR THEN 1 ELSE 0)
  BY SentFacts
<1>7. h1 \in Sums /\ \A h \in Hashes : h1[h] = IF h = p THEN 1 ELSE 0
  BY SumFacts
<1>8. \A h \in Hashes : t[h] \in Int
  BY DEF Sums
<1> HIDE DEF s, s2, t, h1, p, HR, HQ
<1>9. s2 = Plus(s, h1)
  BY <1>3, <1>4, <1>5, <1>6, <1>7, <1>8, SumFacts, SumsEqual
<1> QED BY <1>9, Zenon DEF s, s2, h1, p

\* A client that got no row of a snapshot yet.
LEMMA SentNothing ==
    ASSUME NEW st, st.tail \in [Routes -> Sums], NEW b \in Routes
    PROVE  SentRows(st, {}) = NothingShown /\ SentSum(st, b, {}) = st.tail[b]
<1> DEFINE t == st.tail[b]
           z == HashSum({})
<1>1. t \in Sums /\ z \in Sums /\ \A h \in Hashes : z[h] = 0
  BY SumFacts
<1> HIDE DEF t, z
<1>2. Plus(t, z) = t
  BY <1>1, SumFacts, SumsEqual DEF Sums
<1> QED BY <1>2, Zenon DEF SentSum, t, z, SentRows, NothingShown, SentHashes

\* The entries of a snapshot: a CLEAR when cl is 1, and the rows A by rank.
SnapshotHas(got, b, A, cl, n) ==
    /\ A \in SUBSET Int /\ IsFiniteSet(A) /\ Cardinality(A) \in Nat
    /\ Cardinality(A) <= NumIds /\ Len(got) = n
    /\ cl = 1 => got[1] = [op |-> "clear", opId |-> lastOp - n + 1, id |-> 0,
                           val |-> NoVal, sum |-> tail[b]]
    /\ \A k \in 1..Cardinality(A) : \E i \in A :
         /\ Cardinality(UpTo(A, i)) = k
         /\ got[cl + k] = [op |-> "put", opId |-> lastOp - n + (cl + k), id |-> i,
                           val |-> docs[i].val, sum |-> HashSum({PutHash(i, docs[i])})]

\* The entries of a snapshot: the CLEAR when it is included, then one PUT for every row.
LEMMA SnapshotFacts ==
    ASSUME StoreOK(StoreNow), NEW b, NEW a, NEW A, A = ShownIds(StoreNow, b),
           NEW cl, cl = IF IncludeClear(b, a) THEN 1 ELSE 0,
           NEW n, n = Cardinality(A) + cl
    PROVE  SnapshotHas(SnapshotEntries(b, a), b, A, cl, n)
<1> DEFINE got == SnapshotEntries(b, a)
<1> DEFINE nth(k) == CHOOSE i \in A : Cardinality(UpTo(A, i)) = k
<1>1. /\ IsFiniteSet(A) /\ Cardinality(A) \in Nat /\ Cardinality(A) <= NumIds
      /\ A \in SUBSET Int
  <2>1. IsFiniteSet(Ids) /\ Cardinality(Ids) = NumIds /\ A \in SUBSET Ids
    BY TailAssumption, FS_Interval DEF ShownIds, Ids
  <2> QED BY <2>1, FS_Subset, TailAssumption, FS_CardinalityType DEF ShownIds, Ids
<1>2. got = [k \in 1..n |->
               IF k <= cl
               THEN [op |-> "clear", opId |-> lastOp - n + k, id |-> 0, val |-> NoVal,
                     sum |-> tail[b]]
               ELSE [op |-> "put", opId |-> lastOp - n + k, id |-> nth(k - cl),
                     val |-> docs[nth(k - cl)].val,
                     sum |-> HashSum({PutHash(nth(k - cl), docs[nth(k - cl)])})]]
  BY DEF SnapshotEntries, UpTo, ShownIds, StoreNow
<1> HIDE DEF got
<1>3. n \in Nat /\ cl \in {0, 1} /\ (cl = 1 => 1 \in 1..n /\ 1 <= cl)
  BY <1>1
<1>4. Len(got) = n
  BY <1>2, <1>3
<1>5. cl = 1 => got[1] = [op |-> "clear", opId |-> lastOp - n + 1, id |-> 0,
                          val |-> NoVal, sum |-> tail[b]]
  BY <1>2, <1>3, Zenon
<1>6. ASSUME NEW k \in 1..Cardinality(A)
      PROVE  \E i \in A :
                /\ Cardinality(UpTo(A, i)) = k
                /\ got[cl + k] = [op |-> "put", opId |-> lastOp - n + (cl + k), id |-> i,
                                  val |-> docs[i].val, sum |-> HashSum({PutHash(i, docs[i])})]
  <2>1. nth(k) \in A /\ Cardinality(UpTo(A, nth(k))) = k
    BY <1>1, Ranks, Zenon
  <2> DEFINE m == cl + k
             x == nth(k)
  <2>2. m \in 1..n /\ ~(m <= cl) /\ m - cl = k
    BY <1>1, <1>3
  <2>3. got[m] = [op |-> "put", opId |-> lastOp - n + m, id |-> nth(m - cl),
                  val |-> docs[nth(m - cl)].val,
                  sum |-> HashSum({PutHash(nth(m - cl), docs[nth(m - cl)])})]
    <3> HIDE DEF m, nth
    <3> QED BY <1>2, <2>2, Zenon
  <2>4. nth(m - cl) = x
    BY <2>2, Zenon
  <2> HIDE DEF nth, x
  <2>5. got[m] = [op |-> "put", opId |-> lastOp - n + m, id |-> x,
                  val |-> docs[x].val, sum |-> HashSum({PutHash(x, docs[x])})]
    BY <2>3, <2>4
  <2>6. x \in A /\ Cardinality(UpTo(A, x)) = k
    BY <2>1, Zenon DEF x
  <2> QED BY <2>5, <2>6, Zenon
<1> QED BY <1>1, <1>4, <1>5, <1>6, Zenon DEF SnapshotHas, got

\* The fields of the record of a client.
LEMMA ClientFields ==
    ASSUME NEW b, NEW after, NEW rows, NEW sum, NEW status
    PROVE  LET c == Client(b, after, rows, sum, status)
           IN /\ c.bucket = b /\ c.after = after /\ c.rows = rows /\ c.sum = sum
              /\ c.status = status
BY Zenon DEF Client

\* What a PUT or a REMOVE changes in it.
LEMMA PutFields ==
    ASSUME NEW c, NEW e, e.op # "clear"
    PROVE  /\ ApplyEntry(c, e).rows = [c.rows EXCEPT ![e.id] = e.val]
           /\ ApplyEntry(c, e).sum = Plus(c.sum, e.sum)
           /\ ApplyEntry(c, e).after = e.opId
BY ClientFields DEF ApplyEntry

\* The client c got a part of a snapshot.
CutInSnapshot(c, b) ==
    \E R \in SUBSET ShownIds(StoreNow, b) :
       c.rows = SentRows(StoreNow, R) /\ c.sum = SentSum(StoreNow, b, R)

\* What a client c holds after the entries of a whole or of a cut snapshot.
SnapshotSent(c, got, b) ==
    /\ Len(got) \in Nat /\ Len(got) <= NumIds + 1
    /\ ApplyEntries(c, got, Len(got)).rows = SentRows(StoreNow, ShownIds(StoreNow, b))
    /\ ApplyEntries(c, got, Len(got)).sum = SentSum(StoreNow, b, ShownIds(StoreNow, b))
    /\ \A k \in 1..Len(got) : /\ ApplyEntries(c, got, k).after = lastOp - Len(got) + k
                             /\ CutInSnapshot(ApplyEntries(c, got, k), b)

\* A snapshot, whole or cut.  Without a CLEAR it is only sent to a client that holds
\* nothing, of a bucket whose superseded remainder is zero.
LEMMA SnapshotResponse ==
    ASSUME StoreOK(StoreNow), NEW b \in Routes, NEW a, NEW c,
           IncludeClear(b, a) \/ (c.rows = NothingShown /\ c.sum = ZeroSum),
           NEW got, got = SnapshotEntries(b, a)
    PROVE  SnapshotSent(c, got, b)
<1> DEFINE st == StoreNow
           A == ShownIds(StoreNow, b)
           cl == IF IncludeClear(b, a) THEN 1 ELSE 0
           N == Cardinality(A)
           n == N + cl
           c2(d) == ApplyEntries(c, got, cl + d)
           At(d) == /\ c2(d).rows = SentRows(st, FirstRows(A, d))
                    /\ c2(d).sum = SentSum(st, b, FirstRows(A, d))
                    /\ cl + d >= 1 => c2(d).after = lastOp - n + (cl + d)
           S == {d \in Nat : d <= N => At(d)}
<1>1. /\ st.docs = docs /\ st.tail = tail /\ docs \in Rows /\ tail \in [Routes -> Sums]
      /\ st.docs \in Rows /\ st.tail \in [Routes -> Sums]
  BY Zenon DEF StoreOK, StoreNow
<1>2. cl \in {0, 1} /\ (cl = 1 <=> IncludeClear(b, a))
  OBVIOUS
<1>3. /\ A \in SUBSET Int /\ IsFiniteSet(A) /\ N \in Nat
      /\ N <= NumIds /\ Len(got) = n
      /\ cl = 1 => got[1] = [op |-> "clear", opId |-> lastOp - n + 1, id |-> 0,
                             val |-> NoVal, sum |-> tail[b]]
      /\ \A k \in 1..N : \E i \in A :
           /\ Cardinality(UpTo(A, i)) = k
           /\ got[cl + k] = [op |-> "put", opId |-> lastOp - n + (cl + k), id |-> i,
                             val |-> docs[i].val, sum |-> HashSum({PutHash(i, docs[i])})]
  <2>1. A = ShownIds(StoreNow, b) /\ cl = (IF IncludeClear(b, a) THEN 1 ELSE 0) /\ n = N + cl
    BY Zenon
  <2>2. SnapshotHas(got, b, A, cl, n)
    <3> HIDE DEF A, cl, n
    <3> QED BY <2>1, SnapshotFacts, Zenon
  <2> QED BY <2>2, Zenon DEF SnapshotHas
<1>4. /\ \A i \in A : Cardinality(UpTo(A, i)) \in 1..N /\ Cardinality(UpTo(A, i)) \in Nat
      /\ \A i, j \in A : i < j => Cardinality(UpTo(A, i)) < Cardinality(UpTo(A, j))
  BY <1>3, Ranks, Zenon
<1> HIDE DEF st, A, cl, N
<1>5. 0 \in S
  <2>1. FirstRows(A, 0) = {}
    <3>1. \A i \in A : ~(Cardinality(UpTo(A, i)) <= 0)
      BY <1>3, <1>4
    <3> QED BY <3>1, Zenon DEF FirstRows
  <2>2. /\ SentRows(st, FirstRows(A, 0)) = NothingShown
        /\ SentSum(st, b, FirstRows(A, 0)) = tail[b]
    BY <1>1, <2>1, SentNothing, Zenon
  <2>3. CASE cl = 1
    <3> DEFINE e == got[1]
    <3>1. c2(0) = ApplyEntry(c, e)
      <4>1. ApplyEntries(c, got, 0) = c /\ 0 + 1 = 1
        BY ApplyEntriesUnfolds
      <4> QED BY <2>3, <4>1, ApplyNextEntry
    <3>2. e.op = "clear" /\ e.sum = tail[b] /\ e.opId = lastOp - n + 1
      BY <1>3, <2>3
    <3> HIDE DEF e, c2
    <3> QED BY <2>2, <2>3, <3>1, <3>2 DEF Client, ApplyEntry
  <2> QED BY <1>2, <2>2, <2>3, ApplyEntriesUnfolds DEF IncludeClear
<1>6. ASSUME NEW d \in Nat, d \in S
      PROVE  d + 1 \in S
  <2>1. ASSUME d + 1 <= N
        PROVE  At(d + 1)
    <3> DEFINE m == cl + d
               k == d + 1
               F == FirstRows(A, d)
    <3>1. d <= N /\ k \in 1..N /\ m \in Nat /\ cl + k = m + 1 /\ m + 1 >= 1 /\ cl + (d + 1) = m + 1
      BY <1>2, <1>3, <2>1
    <3>2. PICK i \in A :
            /\ Cardinality(UpTo(A, i)) = k
            /\ got[cl + k] = [op |-> "put", opId |-> lastOp - n + (cl + k), id |-> i,
                              val |-> docs[i].val, sum |-> HashSum({PutHash(i, docs[i])})]
      BY <1>3, <3>1, Zenon
    <3>3. FirstRows(A, k) = F \cup {i} /\ i \notin F /\ F \in SUBSET A
      <4>1. \A j \in A : Cardinality(UpTo(A, j)) = k => j = i
        BY <1>3, <1>4, <3>2
      <4>2. \A j \in A : Cardinality(UpTo(A, j)) <= k
                           <=> Cardinality(UpTo(A, j)) <= d \/ Cardinality(UpTo(A, j)) = k
        <5> SUFFICES ASSUME NEW j \in A
                     PROVE  Cardinality(UpTo(A, j)) <= k
                              <=> Cardinality(UpTo(A, j)) <= d \/ Cardinality(UpTo(A, j)) = k
          OBVIOUS
        <5> QED BY <1>4
      <4>3. ~(Cardinality(UpTo(A, i)) <= d)
        BY <3>2
      <4> HIDE DEF k
      <4> QED BY <3>2, <4>1, <4>2, <4>3, Zenon DEF FirstRows
    <3>4. /\ SentRows(st, FirstRows(A, k)) = [SentRows(st, F) EXCEPT ![i] = docs[i].val]
          /\ SentSum(st, b, FirstRows(A, k))
               = Plus(SentSum(st, b, F), HashSum({PutHash(i, docs[i])}))
      <4> DEFINE Q == FirstRows(A, k)
      <4>1. /\ F \in SUBSET ShownIds(st, b) /\ i \in ShownIds(st, b) /\ i \notin F
            /\ st.docs \in Rows /\ st.tail \in [Routes -> Sums] /\ Q = F \cup {i}
        BY <1>1, <3>2, <3>3, Zenon DEF A, st
      <4> HIDE DEF F, Q
      <4>2. SentRows(st, Q) = [SentRows(st, F) EXCEPT ![i] = st.docs[i].val]
        BY <4>1, Zenon DEF SentRows, ShownIds
      <4>3. SentSum(st, b, Q) = Plus(SentSum(st, b, F), HashSum({PutHash(i, st.docs[i])}))
        <5> HIDE DEF st
        <5> QED BY <4>1, SentNext
      <4> QED BY <1>1, <4>2, <4>3, Zenon DEF Q
    <3> DEFINE e == got[m + 1]
    <3>5. /\ e.op # "clear" /\ e.opId = lastOp - n + (m + 1) /\ e.id = i
          /\ e.val = docs[i].val /\ e.sum = HashSum({PutHash(i, docs[i])})
      BY <3>1, <3>2
    <3>6. c2(d + 1) = ApplyEntry(c2(d), e)
      <4> HIDE DEF m
      <4> QED BY <3>1, ApplyNextEntry DEF m
    <3> HIDE DEF e, c2, m, F, k
    <3>7. /\ c2(d + 1).rows = SentRows(st, FirstRows(A, k))
           /\ c2(d + 1).sum = SentSum(st, b, FirstRows(A, k))
           /\ c2(d + 1).after = lastOp - n + (m + 1)
      <4>1. c2(d).rows = SentRows(st, F) /\ c2(d).sum = SentSum(st, b, F)
        BY <1>6, <3>1, Zenon DEF F
      <4>2. /\ c2(d + 1).rows = [c2(d).rows EXCEPT ![e.id] = e.val]
            /\ c2(d + 1).sum = Plus(c2(d).sum, e.sum) /\ c2(d + 1).after = e.opId
        <5>1. e.op # "clear"
          BY <3>5, Zenon
        <5> QED BY <3>6, <5>1, PutFields
      <4> QED BY <3>4, <3>5, <4>1, <4>2, Zenon
    <3> QED BY <3>1, <3>7, Zenon DEF k
  <2> HIDE DEF At
  <2> QED BY <2>1
<1>7. ASSUME NEW d \in 0..N
      PROVE  At(d)
  <2>1. d \in S
    <3> HIDE DEF S
    <3>1. d \in Nat
      BY <1>3
    <3>2. Nat \subseteq S
      BY <1>5, <1>6, NatSetInduction, Zenon
    <3> QED BY <3>1, <3>2, Zenon
  <2> HIDE DEF At
  <2> QED BY <1>3, <2>1
<1>8. n \in Nat /\ n <= NumIds + 1 /\ N \in 0..N /\ cl + N = n
  BY <1>2, <1>3, TailAssumption
<1>9. FirstRows(A, N) = A
  <2>1. \A i \in A : Cardinality(UpTo(A, i)) <= N
    BY <1>3, <1>4
  <2> QED BY <2>1 DEF FirstRows
<1>10. ASSUME NEW k \in 1..n
       PROVE  /\ ApplyEntries(c, got, k).after = lastOp - n + k
              /\ CutInSnapshot(ApplyEntries(c, got, k), b)
  <2> DEFINE d == k - cl
             R == FirstRows(A, d)
  <2>1. d \in 0..N /\ cl + d = k /\ cl + d >= 1
    BY <1>2, <1>3
  <2> HIDE DEF d
  <2>2. /\ ApplyEntries(c, got, k).after = lastOp - n + k
        /\ ApplyEntries(c, got, k).rows = SentRows(st, R)
        /\ ApplyEntries(c, got, k).sum = SentSum(st, b, R)
    BY <1>7, <2>1, Zenon
  <2>3. R \in SUBSET A
    BY Zenon DEF FirstRows
  <2> HIDE DEF R
  <2>4. PICK g : g = ApplyEntries(c, got, k)
    BY Zenon
  <2>5. CutInSnapshot(g, b)
    BY <2>2, <2>3, <2>4, Zenon DEF CutInSnapshot, st, A
  <2> QED BY <2>2, <2>4, <2>5, Zenon
<1> HIDE DEF n
<1>11. /\ ApplyEntries(c, got, n).rows = SentRows(st, A)
       /\ ApplyEntries(c, got, n).sum = SentSum(st, b, A)
  BY <1>7, <1>8, <1>9, Zenon
<1> QED BY <1>3, <1>8, <1>10, <1>11, Zenon DEF st, A, SnapshotSent

----------------------------------------------------------------------------
\* The invariant.

\* The store.  Until the snapshot is complete there are no tail records, and the
\* rows still to be copied are not there yet.
StoreInv ==
    /\ docs \in Rows /\ toCopy \in Rows /\ complete \in BOOLEAN
    /\ lastOp \in Nat /\ lastOp >= Base
    /\ retFloor \in Nat /\ lastOp >= retFloor /\ snapFloor \in Nat /\ lastOp >= snapFloor
    /\ \A b \in Routes : cur[b] = BucketSum(docs, b)
    /\ tail \in [Routes -> Sums]
    /\ complete => LogOK(StoreNow)
    /\ ~complete => /\ DOMAIN ops = {} /\ index = {}
                    /\ \A i \in Ids : toCopy[i] # NoDoc => docs[i] = NoDoc

\* The client.  A cursor at zero holds nothing.  A cursor that survives the reset of
\* the store cannot be continued.  Any other client follows the store.
ClientInv ==
    /\ ClientOK /\ client.after <= lastOp
    /\ client.after = 0 => client.rows = NothingShown /\ client.sum = ZeroSum
    /\ ~complete => client.after = 0 \/ client.after < retFloor
    /\ complete /\ Live => Follows(client.rows, client.sum, StoreNow, client.bucket,
                                   client.after, client.status = "valid")

BucketInv == StoreInv /\ ClientInv

\* The invariant of a complete store, as the store of a transaction begins with it.
LEMMA CompleteStore ==
    ASSUME BucketInv, complete
    PROVE  StoreOK(StoreNow) /\ StageOK(StoreNow)
<1> QED BY Zenon DEF BucketInv, ClientInv, StageOK, StoreNow, StoreInv, StoreOK

\* Following depends only on what is replayed and on where it ends.
LEMMA FollowsSame ==
    ASSUME NEW st, NEW t, t.docs = st.docs, t.cur = st.cur, t.tail = st.tail,
           t.lastOp = st.lastOp, NEW b, NEW a, NEW valid, NEW rows, NEW sum,
           \A i \in (a + 1)..st.lastOp : t.ops[i] = st.ops[i],
           Follows(rows, sum, st, b, a, valid), replicaIdentity' = replicaIdentity
    PROVE  Follows(rows, sum, t, b, a, valid)'
<1>1. PICK X, Y : /\ Replay(X, Y, st.ops, b, a, st.lastOp)
                  /\ X[a] = rows /\ Y[a] = sum
                  /\ Caught(X[st.lastOp], Y[st.lastOp], st, b, valid)
  BY Zenon DEF Follows
<1>2. Replay(X, Y, t.ops, b, a, t.lastOp)
  BY Zenon, <1>1 DEF Replay
<1>3. Caught(X[t.lastOp], Y[t.lastOp], t, b, valid)'
  BY <1>1, Zenon DEF Caught, Checkpoint
<1> QED BY <1>1, <1>2, <1>3, Zenon DEF Follows, Replay

\* The index of the operations D with the routes R.
IndexOf(R, D) == UNION {R[i] \X {i} : i \in D}

\* The routes of an operation are those of its documents.
LEMMA OperationRoutes ==
    ASSUME NEW o \in Operations
    PROVE  OpRoutes(o) \subseteq Routes
BY DEF OpRoutes, Operations, Docs

\* Pruning deletes only operations up to the new floor.
LEMMA PruneKeepsLog ==
    ASSUME NEW st, StoreOK(st), retFloor \in Nat, snapFloor \in Nat, PersistBatch(st)
    PROVE  /\ retFloor' \in Nat /\ retFloor' >= retFloor /\ st.lastOp >= retFloor'
           /\ \A i \in DOMAIN st.ops : i > retFloor' => i \in DOMAIN ops' /\ ops'[i] = st.ops[i]
           /\ LogOK(StoreNow)'
<1> DEFINE gone == PrunedIds(st.lastOp)
           top == MaxOf(retFloor, snapFloor)
<1>1. /\ st.lastOp \in Nat /\ LogOK(st) /\ st.lastOp >= retFloor
      /\ lastOp' = st.lastOp /\ snapFloor' = snapFloor /\ retFloor' = PrunedFloor(st.lastOp)
      /\ ops' = [i \in DOMAIN st.ops \ gone |-> st.ops[i]]
      /\ index' = st.index \ (Routes \X gone)
  BY Zenon DEF StoreOK, PersistBatch
<1>2. retFloor' \in Nat /\ retFloor' >= retFloor /\ st.lastOp >= retFloor'
  <2>1. st.lastOp \in Nat /\ st.lastOp >= retFloor /\ retFloor' = PrunedFloor(st.lastOp)
    BY <1>1, Zenon
  <2> QED BY <2>1, TailAssumption DEF PrunedFloor, MaxOf
<1>3. top \in Nat /\ top >= retFloor /\ top >= snapFloor /\ (top = retFloor \/ top = snapFloor)
  BY DEF MaxOf
<1>4. gone = (top + 1)..retFloor'
  BY Zenon, <1>1 DEF PrunedIds
<1> HIDE DEF gone, top
<1>5. ASSUME NEW i \in DOMAIN st.ops
      PROVE  i \in Nat /\ i > snapFloor /\ i <= st.lastOp /\ (i \notin gone <=> i > retFloor')
  <2>1. i \in Nat /\ i > retFloor /\ i > snapFloor /\ i <= st.lastOp
    BY <1>1, Zenon DEF LogOK
  <2>2. i > top
    BY <1>3, <2>1, Zenon
  <2>3. i \notin (top + 1)..retFloor' <=> i > retFloor'
    BY <1>2, <1>3, <2>1, <2>2
  <2> QED BY <1>4, <2>1, <2>3, Zenon
<1>6. /\ DOMAIN ops' = {i \in DOMAIN st.ops : i > retFloor'}
      /\ \A i \in DOMAIN ops' : ops'[i] = st.ops[i]
  BY Zenon, <1>1, <1>5
<1>7. index' = UNION {OpRoutes(ops'[i]) \X {i} : i \in DOMAIN ops'}
  <2>1. st.index = UNION {OpRoutes(st.ops[i]) \X {i} : i \in DOMAIN st.ops}
    BY Zenon, <1>1 DEF LogOK
  <2>2. ASSUME NEW i \in DOMAIN st.ops
        PROVE  OpRoutes(st.ops[i]) \subseteq Routes
    <3>1. st.ops[i] \in Operations
      BY <1>1, Zenon DEF LogOK
    <3> QED BY <3>1, OperationRoutes, Zenon
  <2> DEFINE D == DOMAIN st.ops
             E == DOMAIN ops'
             R == [i \in D |-> OpRoutes(st.ops[i])]
  <2>3. /\ \A i \in D : R[i] = OpRoutes(st.ops[i]) /\ R[i] \subseteq Routes
        /\ \A i \in E : R[i] = OpRoutes(ops'[i])
    BY <1>6, <2>2, Zenon
  <2>4. st.index = IndexOf(R, D)
    BY <2>1, <2>3, Zenon DEF IndexOf
  <2>5. UNION {OpRoutes(ops'[i]) \X {i} : i \in DOMAIN ops'} = IndexOf(R, E)
    BY <2>3, Zenon DEF IndexOf
  <2>6. E \in SUBSET D /\ \A i \in D : i \notin gone <=> i \in E
    BY <1>5, <1>6, Zenon
  <2> HIDE DEF D, E, R
  <2>7. IndexOf(R, D) \ (Routes \X gone) = IndexOf(R, E)
    <3>1. ASSUME NEW e \in IndexOf(R, D), e \notin Routes \X gone
          PROVE  e \in IndexOf(R, E)
      <4>1. PICK i \in D : e \in R[i] \X {i}
        BY <3>1, Zenon DEF IndexOf
      <4> QED BY <2>3, <2>6, <3>1, <4>1 DEF IndexOf
    <3>2. ASSUME NEW e \in IndexOf(R, E)
          PROVE  e \in IndexOf(R, D) /\ e \notin Routes \X gone
      <4>1. PICK i \in E : e \in R[i] \X {i}
        BY <3>2, Zenon DEF IndexOf
      <4> QED BY <2>6, <4>1 DEF IndexOf
    <3> QED BY <3>1, <3>2
  <2> QED BY <1>1, <2>4, <2>5, <2>7, Zenon
<1>8. LogOK(StoreNow)'
  <2>1. \A i \in DOMAIN ops' : /\ i \in Nat /\ i > retFloor' /\ i > snapFloor'
                               /\ i <= lastOp' /\ ops'[i] \in Operations
    BY <1>1, <1>5, <1>6, Zenon DEF LogOK
  <2>2. \A i \in Nat : i > retFloor' /\ i > snapFloor' /\ i <= lastOp' => i \in DOMAIN ops'
    BY <1>1, <1>2, <1>6 DEF LogOK
  <2> QED BY Zenon, <1>7, <2>1, <2>2 DEF LogOK, StoreNow
<1> QED BY <1>2, <1>6, <1>8, Zenon

\* A transaction of the source.
LEMMA TransactionKeeps ==
    ASSUME BucketInv, SourceTransaction, client' = client
    PROVE  BucketInv'
<1>1. complete
  BY DEF SourceTransaction
<1>2. StoreInv /\ ClientInv /\ ClientOK /\ retFloor \in Nat /\ snapFloor \in Nat
  BY Zenon DEF BucketInv, StoreInv, ClientInv
<1>3. PICK n \in 1..MaxChanges : \E st \in Materialized[n] : PersistBatch(st)
  BY DEF SourceTransaction
<1>4. PICK st \in Materialized[n] : PersistBatch(st)
  BY Zenon, <1>3
<1>5. StageOK(st) /\ StoreOK(st) /\ client.after <= st.lastOp
  <2>1. n \in 0..MaxChanges
    BY TailAssumption
  <2>2. StageOK(StoreNow)
    BY <1>1, CompleteStore, Zenon
  <2> QED BY <1>2, <2>1, <2>2, TransactionStage, Zenon DEF StageOK
<1>6. /\ retFloor' \in Nat /\ retFloor' >= retFloor /\ st.lastOp >= retFloor'
      /\ \A i \in DOMAIN st.ops : i > retFloor' => i \in DOMAIN ops' /\ ops'[i] = st.ops[i]
      /\ LogOK(StoreNow)'
  BY <1>2, <1>4, <1>5, PruneKeepsLog, Zenon
<1>7. /\ docs' = st.docs /\ lastOp' = st.lastOp /\ cur' = st.cur /\ tail' = st.tail
      /\ replicaIdentity' = replicaIdentity /\ snapFloor' = snapFloor
      /\ complete' = complete /\ toCopy' = toCopy
  BY Zenon, <1>4 DEF PersistBatch
<1>8. ASSUME Live'
       PROVE  Follows(client.rows, client.sum, StoreNow, client.bucket, client.after,
                      client.status = "valid")'
  <2>1. Follows(client.rows, client.sum, st, client.bucket, client.after, client.status = "valid")
    <3>1. /\ client.after \in Nat /\ client.after > 0 /\ client.status # "mismatch"
          /\ client.after >= retFloor' /\ client.after >= snapFloor
      BY <1>2, <1>7, <1>8, Zenon DEF Live, ClientOK
    <3>2. client.after >= retFloor
      BY <1>2, <1>6, <3>1
    <3> QED BY <1>5, <3>1, <3>2, Zenon DEF StageOK, Live
  <2>2. PICK t : t = StoreNow'
    BY Zenon
  <2>3. /\ t.docs = st.docs /\ t.cur = st.cur /\ t.tail = st.tail /\ t.lastOp = st.lastOp
        /\ t.ops = ops'
    BY <1>7, <2>2, Zenon DEF StoreNow
  <2>4. PICK rows, sum, b, a, valid :
          /\ rows = client.rows /\ sum = client.sum /\ b = client.bucket /\ a = client.after
          /\ valid = (client.status = "valid")
    BY Zenon
  <2>5. a \in Nat /\ a >= retFloor' /\ a >= snapFloor
    BY <1>2, <1>7, <1>8, <2>4, Zenon DEF Live, ClientOK
  <2>6. ASSUME NEW i \in (a + 1)..st.lastOp
        PROVE  t.ops[i] = st.ops[i]
    <3>1. st.lastOp \in Nat /\ LogOK(st)
      BY <1>5, Zenon DEF StoreOK
    <3>2. i \in Nat /\ i > retFloor /\ i > retFloor' /\ i > snapFloor /\ i <= st.lastOp
      BY <1>2, <1>6, <2>5, <3>1
    <3>3. i \in DOMAIN st.ops
      BY <3>1, <3>2, Zenon DEF LogOK
    <3> QED BY <1>6, <2>3, <3>2, <3>3, Zenon
  <2>7. Follows(rows, sum, st, b, a, valid)
    BY <2>1, <2>4, Zenon
  <2>8. Follows(rows, sum, t, b, a, valid)'
    BY <1>7, <2>3, <2>6, <2>7, FollowsSame, Zenon
  <2>9. /\ rows = client'.rows /\ sum = client'.sum /\ b = client'.bucket /\ a = client'.after
        /\ valid = (client'.status = "valid")
    BY <2>4, Zenon
  <2> QED BY <2>2, <2>8, <2>9, Zenon
<1> QED BY <1>1, <1>2, <1>5, <1>6, <1>7, <1>8, Zenon DEF BucketInv, StoreInv, StoreOK,
           ClientInv, ClientOK

\* An empty store has empty accumulators.
LEMMA EmptyStore ==
    /\ NoRows \in Rows /\ NoSums \in [Routes -> Sums]
    /\ \A b \in Routes : NoSums[b] = BucketSum(NoRows, b)
    /\ DOMAIN <<>> = {}
<1>1. NoRows \in Rows /\ NoSums \in [Routes -> Sums] /\ DOMAIN <<>> = {}
  BY SumFacts DEF NoRows, Rows, NoSums
<1>2. ASSUME NEW b \in Routes
      PROVE  NoSums[b] = BucketSum(NoRows, b)
  <2>1. \A i \in Ids : ~InBucket(NoRows[i], b)
    BY Zenon DEF NoRows, InBucket
  <2>2. \A h \in Hashes : h \notin ShownHashes(NoRows, b)
    BY <2>1, Zenon DEF ShownHashes
  <2>3. BucketSum(NoRows, b) \in Sums /\ \A h \in Hashes : BucketSum(NoRows, b)[h] = 0
    BY <2>2, BucketSums
  <2>4. NoSums[b] \in Sums /\ \A h \in Hashes : NoSums[b][h] = 0
    BY SumFacts, Zenon DEF NoSums
  <2>5. \A h \in Hashes : NoSums[b][h] = BucketSum(NoRows, b)[h]
    BY <2>3, <2>4, Zenon
  <2>6. NoSums[b] \in Sums /\ BucketSum(NoRows, b) \in Sums
    BY <2>3, <2>4, Zenon
  <2> QED BY <2>5, <2>6, SumsEqual, Zenon
<1> QED BY <1>1, <1>2, Zenon

\* The rows of a batch are new, so their hashes are.
LEMMA CopyRows ==
    ASSUME NEW rows \in Rows, NEW copy \in Rows, NEW batch \in SUBSET Ids,
           \A i \in batch : rows[i] = NoDoc,
           NEW new, new = [i \in Ids |-> IF i \in batch THEN copy[i] ELSE NoDoc],
           NEW after, after = [i \in Ids |-> IF i \in batch THEN copy[i] ELSE rows[i]],
           NEW b
    PROVE  /\ after \in Rows
           /\ BucketSum(after, b) = Plus(BucketSum(rows, b), BucketSum(new, b))
<1> DEFINE HA == ShownHashes(after, b)
           HR == ShownHashes(rows, b)
           HN == ShownHashes(new, b)
<1>1. /\ \A h : h \in HA <=> \E i \in Ids : InBucket(after[i], b) /\ h = PutHash(i, after[i])
      /\ \A h : h \in HR <=> \E i \in Ids : InBucket(rows[i], b) /\ h = PutHash(i, rows[i])
      /\ \A h : h \in HN <=> \E i \in Ids : InBucket(new[i], b) /\ h = PutHash(i, new[i])
  BY BucketSums
<1>2. /\ BucketSum(after, b) \in Sums /\ BucketSum(rows, b) \in Sums /\ BucketSum(new, b) \in Sums
      /\ \A h \in Hashes : BucketSum(after, b)[h] = IF h \in HA THEN 1 ELSE 0
      /\ \A h \in Hashes : BucketSum(rows, b)[h] = IF h \in HR THEN 1 ELSE 0
      /\ \A h \in Hashes : BucketSum(new, b)[h] = IF h \in HN THEN 1 ELSE 0
  BY BucketSums
<1> HIDE DEF HA, HR, HN
<1>3. ASSUME NEW h \in Hashes
      PROVE  ~(h \in HR /\ h \in HN) /\ (h \in HA <=> h \in HR \/ h \in HN)
  <2>1. h \in HA => h \in HR \/ h \in HN
    <3> SUFFICES ASSUME h \in HA
                 PROVE  h \in HR \/ h \in HN
      OBVIOUS
    <3>1. PICK i \in Ids : InBucket(after[i], b) /\ h = PutHash(i, after[i])
      BY Zenon, <1>1
    <3> QED BY Zenon, <1>1, <3>1, InBucketDoc DEF Rows, InBucket
  <2> QED BY <1>1, <2>1, InBucketDoc, HashFacts DEF Rows, InBucket
<1> DEFINE sa == BucketSum(after, b)
           sr == BucketSum(rows, b)
           sn == BucketSum(new, b)
           sp == Plus(sr, sn)
<1>4. /\ sa \in Sums /\ sr \in Sums /\ sn \in Sums
      /\ \A h \in Hashes : sa[h] = IF h \in HA THEN 1 ELSE 0
      /\ \A h \in Hashes : sr[h] = IF h \in HR THEN 1 ELSE 0
      /\ \A h \in Hashes : sn[h] = IF h \in HN THEN 1 ELSE 0
  BY <1>2, Zenon
<1> HIDE DEF sa, sr, sn
<1>5. sp \in Sums /\ \A h \in Hashes : sp[h] = sr[h] + sn[h]
  BY <1>4, SumFacts
<1> HIDE DEF sp
<1>6. ASSUME NEW h \in Hashes
      PROVE  sa[h] = sp[h]
  <2>1. ~(h \in HR /\ h \in HN) /\ (h \in HA <=> h \in HR \/ h \in HN)
    BY <1>3, Zenon
  <2>2. /\ sa[h] = IF h \in HA THEN 1 ELSE 0
        /\ sr[h] = IF h \in HR THEN 1 ELSE 0
        /\ sn[h] = IF h \in HN THEN 1 ELSE 0
        /\ sp[h] = sr[h] + sn[h]
    BY <1>4, <1>5, Zenon
  <2> QED BY <2>1, <2>2
<1>7. sa = sp
  BY <1>4, <1>5, <1>6, SumsEqual, Zenon
<1>8. after \in Rows
  BY Zenon DEF Rows
<1> QED BY <1>7, <1>8, Zenon DEF sa, sr, sn, sp

\* The store before its first batch, and a client that holds nothing.
LEMMA InitInv ==
    ASSUME Init
    PROVE  BucketInv
<1>1. PICK b \in Routes : client = FreshClient(b)
  BY Zenon DEF Init
<1>2. /\ docs = NoRows /\ ops = <<>> /\ index = {} /\ lastOp = Base /\ retFloor = Base
      /\ snapFloor = 0 /\ cur = NoSums /\ tail = NoSums /\ complete = FALSE /\ toCopy \in Rows
  BY Zenon DEF Init, TailInit
<1>3. Base \in Nat
  BY TailAssumption, Zenon
<1>4. StoreInv
  <2>1. \A i \in Ids : docs[i] = NoDoc
    BY <1>2, Zenon DEF NoRows
  <2>2. DOMAIN ops = {} /\ docs \in Rows /\ tail \in [Routes -> Sums]
    BY <1>2, EmptyStore, Zenon
  <2>3. \A c \in Routes : cur[c] = BucketSum(docs, c)
    BY <1>2, EmptyStore, Zenon
  <2>4. /\ lastOp \in Nat /\ lastOp >= Base /\ retFloor \in Nat /\ lastOp >= retFloor
        /\ snapFloor \in Nat /\ lastOp >= snapFloor
    BY <1>2, <1>3
  <2>5. toCopy \in Rows /\ complete = FALSE /\ index = {}
    BY <1>2, Zenon
  <2> QED BY <2>1, <2>2, <2>3, <2>4, <2>5, Zenon DEF StoreInv
<1>5. /\ client.bucket = b /\ client.after = 0 /\ client.rows = NothingShown
      /\ client.sum = ZeroSum /\ client.status = "valid"
  BY <1>1, ClientFields DEF FreshClient
<1>6. NothingShown \in Screens
  BY Zenon DEF NothingShown, Screens
<1>7. ClientInv
  BY <1>2, <1>3, <1>5, <1>6, SumFacts DEF ClientInv, ClientOK
<1> QED BY <1>4, <1>7, Zenon DEF BucketInv

\* The store starts over.
LEMMA ResetKeeps ==
    ASSUME BucketInv, ResetForSnapshot, client' = client
    PROVE  BucketInv'
<1>1. StoreInv /\ ClientInv /\ ClientOK
  BY Zenon DEF BucketInv, ClientInv
<1>2. PICK gap \in 1..MaxGap : lastOp' = lastOp + gap /\ retFloor' = lastOp + gap
  BY Zenon DEF ResetForSnapshot
<1>3. /\ docs' = NoRows /\ ops' = <<>> /\ index' = {} /\ snapFloor' = 0 /\ cur' = NoSums
      /\ tail' = NoSums /\ complete' = FALSE /\ toCopy' \in Rows
  BY Zenon DEF ResetForSnapshot
<1>4. /\ lastOp \in Nat /\ lastOp >= Base /\ gap \in Nat /\ gap > 0 /\ Base \in Nat
      /\ client.after \in Nat /\ client.after <= lastOp
  <2>1. /\ lastOp \in Nat /\ lastOp >= Base /\ client.after \in Nat /\ client.after <= lastOp
    BY <1>1, Zenon DEF StoreInv, ClientInv, ClientOK
  <2> QED BY <2>1, TailAssumption
<1>5. /\ lastOp' \in Nat /\ lastOp' >= Base /\ retFloor' \in Nat /\ lastOp' >= retFloor'
      /\ lastOp' >= 0 /\ client.after < retFloor' /\ client.after <= lastOp'
  BY <1>2, <1>4
<1>6. StoreInv'
  <2>1. \A i \in Ids : docs'[i] = NoDoc
    BY <1>3, Zenon DEF NoRows
  <2>2. DOMAIN ops' = {} /\ docs' \in Rows /\ tail' \in [Routes -> Sums]
    BY <1>3, EmptyStore, Zenon
  <2>3. \A c \in Routes : cur'[c] = BucketSum(docs', c)
    BY <1>3, EmptyStore, Zenon
  <2> QED BY <1>3, <1>5, <2>1, <2>2, <2>3, Zenon DEF StoreInv
<1>7. ClientInv'
  BY <1>1, <1>3, <1>5, Zenon DEF ClientInv, ClientOK
<1> QED BY <1>6, <1>7, Zenon DEF BucketInv

\* A batch of snapshot rows.
LEMMA BatchKeeps ==
    ASSUME BucketInv, SnapshotBatch, client' = client
    PROVE  BucketInv'
<1>1. StoreInv /\ ClientInv /\ ClientOK /\ ~complete
  BY Zenon DEF BucketInv, ClientInv, SnapshotBatch
<1> DEFINE New(batch) == [i \in Ids |-> IF i \in batch THEN toCopy[i] ELSE NoDoc]
<1>2. PICK batch \in SUBSET {i \in Ids : toCopy[i] # NoDoc} :
        /\ docs' = [i \in Ids |-> IF i \in batch THEN toCopy[i] ELSE docs[i]]
        /\ toCopy' = [i \in Ids |-> IF i \in batch THEN NoDoc ELSE toCopy[i]]
        /\ cur' = [b \in Routes |-> Plus(cur[b], SnapshotDelta(b, New(batch)))]
        /\ lastOp' = lastOp + Cardinality(batch)
  BY Zenon DEF SnapshotBatch
<1>3. /\ ops' = ops /\ index' = index /\ snapFloor' = snapFloor /\ retFloor' = retFloor
      /\ tail' = tail /\ complete' = complete
  BY Zenon DEF SnapshotBatch
<1>4. batch \in SUBSET Ids /\ \A i \in batch : docs[i] = NoDoc
  BY <1>1, <1>2, Zenon DEF StoreInv
<1>5. Cardinality(batch) \in Nat
  <2>1. IsFiniteSet(Ids)
    BY FS_Interval, TailAssumption DEF Ids
  <2> QED BY <1>4, <2>1, FS_Subset, FS_CardinalityType, Zenon
<1>6. docs \in Rows /\ toCopy \in Rows
  BY <1>1, Zenon DEF StoreInv
<1>7. PICK after, new : after = docs' /\ new = New(batch)
  BY Zenon
<1>8. docs' \in Rows /\ \A b \in Routes : cur'[b] = BucketSum(docs', b)
  <2>1. /\ new = [i \in Ids |-> IF i \in batch THEN toCopy[i] ELSE NoDoc]
        /\ after = [i \in Ids |-> IF i \in batch THEN toCopy[i] ELSE docs[i]]
    BY <1>2, <1>7, Zenon
  <2>2. after \in Rows
    BY <1>6, <2>1, Zenon DEF Rows
  <2>3. ASSUME NEW b \in Routes
        PROVE  cur'[b] = BucketSum(docs', b)
    <3>1. cur'[b] = Plus(cur[b], BucketSum(new, b)) /\ cur[b] = BucketSum(docs, b)
      BY <1>1, <1>2, <1>7, Zenon DEF SnapshotDelta, StoreInv
    <3>2. BucketSum(after, b) = Plus(BucketSum(docs, b), BucketSum(new, b))
      BY <1>4, <1>6, <2>1, CopyRows
    <3> QED BY <1>7, <3>1, <3>2, Zenon
  <2> QED BY <1>7, <2>2, <2>3, Zenon
<1>9. toCopy' \in Rows /\ \A i \in Ids : toCopy'[i] # NoDoc => docs'[i] = NoDoc
  BY <1>1, <1>2, <1>6, Zenon DEF StoreInv, Rows
<1>10. /\ lastOp' \in Nat /\ lastOp' >= lastOp /\ lastOp' >= Base
       /\ lastOp' >= retFloor /\ lastOp' >= snapFloor /\ client.after <= lastOp'
  <2>1. /\ lastOp \in Nat /\ lastOp >= Base /\ lastOp >= retFloor /\ lastOp >= snapFloor
        /\ retFloor \in Nat /\ snapFloor \in Nat /\ Base \in Nat
        /\ client.after \in Nat /\ client.after <= lastOp
    BY <1>1, TailAssumption, Zenon DEF StoreInv, ClientInv, ClientOK
  <2> QED BY <1>2, <1>5, <2>1
<1>11. StoreInv'
  BY <1>1, <1>3, <1>8, <1>9, <1>10, Zenon DEF StoreInv
<1>12. ClientInv'
  BY <1>1, <1>3, <1>10, Zenon DEF ClientInv, ClientOK
<1> QED BY <1>11, <1>12, Zenon DEF BucketInv

\* The snapshot marker.
LEMMA MarkerKeeps ==
    ASSUME BucketInv, SnapshotMarker, client' = client
    PROVE  BucketInv'
<1>1. StoreInv /\ ClientInv /\ ClientOK /\ ~complete
  BY Zenon DEF BucketInv, ClientInv, SnapshotMarker
<1>2. /\ complete' = TRUE /\ snapFloor' = lastOp /\ docs' = docs /\ ops' = ops /\ index' = index
      /\ lastOp' = lastOp /\ retFloor' = retFloor /\ cur' = cur /\ tail' = tail
      /\ toCopy' = toCopy
  BY Zenon DEF SnapshotMarker
<1>3. DOMAIN ops' = {} /\ index' = {} /\ lastOp \in Nat
  BY <1>1, <1>2, Zenon DEF StoreInv
<1>4. LogOK(StoreNow)'
  <2>1. \A i \in Nat : ~(i > snapFloor' /\ i <= lastOp')
    BY <1>2, <1>3
  <2>2. index' = UNION {OpRoutes(ops'[i]) \X {i} : i \in DOMAIN ops'}
    BY <1>3, Zenon
  <2> QED BY <1>3, <2>1, <2>2, Zenon DEF LogOK, StoreNow
<1>5. StoreInv'
  <2>1. lastOp' \in Nat /\ snapFloor' \in Nat /\ lastOp' >= snapFloor'
    BY <1>2, <1>3
  <2> QED BY <1>1, <1>2, <1>4, <2>1, Zenon DEF StoreInv
<1>6. ~Live'
  <2>1. client.after \in Nat /\ retFloor \in Nat /\ (client.after = 0 \/ client.after < retFloor)
    BY <1>1, Zenon DEF ClientInv, ClientOK, StoreInv
  <2>2. ~(client.after > 0 /\ client.after >= retFloor)
    BY <2>1
  <2> QED BY <1>2, <2>2, Zenon DEF Live
<1>7. ClientInv'
  BY <1>1, <1>2, <1>6, Zenon DEF ClientInv, ClientOK
<1> QED BY <1>5, <1>7, Zenon DEF BucketInv

----------------------------------------------------------------------------
\* The steps of the client.

\* Why a response is a delta, and that a snapshot without a CLEAR is the first one.
LEMMA ResponseKinds ==
    ASSUME BucketInv, complete, client.status # "mismatch",
           NEW b, b = client.bucket, NEW a, a = client.after
    PROVE  /\ b \in Routes /\ a \in Nat /\ a <= lastOp
           /\ ~FullSnapshot(b, a) => Live
           /\ FullSnapshot(b, a) =>
                IncludeClear(b, a) \/ (client.rows = NothingShown /\ client.sum = ZeroSum)
           /\ CheckpointSum(b, a) = Checkpoint(StoreNow, b)
<1>1. StoreInv /\ ClientInv /\ ClientOK
  BY Zenon DEF BucketInv, ClientInv
<1>2. b \in Routes /\ a \in Nat /\ a <= lastOp
  BY <1>1, Zenon DEF ClientInv, ClientOK
<1>3. ASSUME ~FullSnapshot(b, a)
      PROVE  Live
  <2>1. a # 0 /\ ~CursorReset(a)
    BY <1>3, Zenon DEF FullSnapshot
  <2>2. a > 0 /\ ~(a < snapFloor) /\ ~(a < retFloor)
    <3>1. a > 0
      BY <1>2, <2>1
    <3> QED BY <2>1, <3>1, Zenon DEF CursorReset
  <2>3. snapFloor \in Nat /\ retFloor \in Nat
    BY <1>1, Zenon DEF StoreInv
  <2>4. a >= snapFloor /\ a >= retFloor
    BY <1>2, <2>2, <2>3
  <2> QED BY <2>2, <2>4, Zenon DEF Live
<1>4. ASSUME FullSnapshot(b, a), ~IncludeClear(b, a)
      PROVE  client.rows = NothingShown /\ client.sum = ZeroSum
  <2>1. a = 0
    BY <1>4, Zenon DEF FullSnapshot, IncludeClear
  <2> QED BY <1>1, <2>1, Zenon DEF ClientInv
<1>5. CheckpointSum(b, a) = Checkpoint(StoreNow, b)
  <2>1. cur[b] = BucketSum(docs, b)
    BY <1>1, <1>2, Zenon DEF StoreInv
  <2> QED BY <2>1, Zenon DEF CheckpointSum, Checkpoint, StoreNow
<1> QED BY <1>2, <1>3, <1>4, <1>5, Zenon

\* What a client holds after a whole response.
LEMMA WholeResponse ==
    ASSUME BucketInv, complete, client.status # "mismatch",
           NEW b, b = client.bucket, NEW a, a = client.after,
           NEW got, got = Entries(b, a), NEW c, c = ApplyEntries(client, got, Len(got))
    PROVE  /\ c.rows \in Screens /\ c.sum \in Sums
           /\ Caught(c.rows, c.sum, StoreNow, b, client.status = "valid")
<1> DEFINE st == StoreNow
           valid == client.status = "valid"
<1>1. /\ b \in Routes /\ a \in Nat /\ a <= lastOp
      /\ ~FullSnapshot(b, a) => Live
      /\ FullSnapshot(b, a) =>
           IncludeClear(b, a) \/ (client.rows = NothingShown /\ client.sum = ZeroSum)
  BY ResponseKinds, Zenon
<1>2. /\ StoreOK(st) /\ st.lastOp = lastOp /\ st.ops = ops /\ st.docs = docs
      /\ retFloor \in Nat /\ snapFloor \in Nat /\ lastOp \in Nat
  BY CompleteStore, Zenon DEF BucketInv, StoreInv, StoreNow
<1>3. CASE FullSnapshot(b, a)
  <2>1. got = SnapshotEntries(b, a)
    BY <1>3, Zenon DEF Entries
  <2>2. c.rows = SentRows(st, ShownIds(st, b)) /\ c.sum = SentSum(st, b, ShownIds(st, b))
    <3>1. IncludeClear(b, a) \/ (client.rows = NothingShown /\ client.sum = ZeroSum)
      BY <1>1, <1>3, Zenon
    <3>2. SnapshotSent(client, got, b)
      BY <1>1, <1>2, <2>1, <3>1, SnapshotResponse, Zenon
    <3> QED BY <3>2, Zenon DEF SnapshotSent
  <2>3. c.rows = Shown(st.docs, b) /\ c.sum = Checkpoint(st, b) /\ Checkpoint(st, b) \in Sums
    BY <1>1, <1>2, <2>2, WholeSnapshot, Zenon
  <2>4. Shown(st.docs, b) \in Screens
    <3>1. ASSUME NEW i \in Ids, InBucket(docs[i], b)
          PROVE  docs[i].val \in Vals
      <4>1. docs[i] \in Docs \cup {NoDoc}
        BY <1>2, Zenon DEF StoreOK, Rows
      <4>2. docs[i] \in Docs
        BY <3>1, <4>1, InBucketDoc, Zenon
      <4> QED BY <4>2, Zenon DEF Docs
    <3> QED BY <1>2, <3>1, Zenon DEF Shown, Screens
  <2>5. \A i \in Ids : Checkpoint(st, b)[RemoveHash(i)] \in Int
    BY <2>3, HashFacts, Zenon DEF Sums
  <2> HIDE DEF st
  <2>6. Caught(c.rows, c.sum, st, b, valid)
    BY <2>3, <2>5, ExactIsCaught, Zenon
  <2> QED BY <2>3, <2>4, <2>6, Zenon DEF st
<1>4. CASE ~FullSnapshot(b, a)
  <2>1. got = DeltaEntries(b, a)
    BY <1>4, Zenon DEF Entries
  <2>2. Live /\ a >= retFloor /\ a >= snapFloor
    BY <1>1, <1>4, Zenon DEF Live
  <2>3. Follows(client.rows, client.sum, st, b, a, valid)
    BY <2>2, Zenon DEF BucketInv, ClientInv
  <2>4. PICK X, Y : /\ Replay(X, Y, ops, b, a, lastOp)
                    /\ X[a] = client.rows /\ Y[a] = client.sum
                    /\ Caught(X[lastOp], Y[lastOp], st, b, valid)
    BY <1>2, <2>3, Zenon DEF Follows
  <2>5. c.rows = X[lastOp] /\ c.sum = Y[lastOp]
    <3>1. /\ StoreOK(StoreNow) /\ Replay(X, Y, ops, b, a, lastOp)
          /\ client.rows = X[a] /\ client.sum = Y[a]
      BY <1>2, <2>4, Zenon
    <3>2. AfterDelta(ApplyEntries(client, got, Len(got)), X, Y)
      BY <1>1, <1>2, <2>1, <2>2, <3>1, DeltaResponse, Zenon
    <3> QED BY <3>2, Zenon DEF AfterDelta
  <2>6. X[lastOp] \in Screens /\ Y[lastOp] \in Sums
    <3>1. lastOp \in a..lastOp
      BY <1>1, <1>2
    <3> QED BY <2>4, <3>1, Zenon DEF Replay
  <2> QED BY <2>4, <2>5, <2>6, Zenon
<1> QED BY <1>3, <1>4, Zenon

\* What it holds after a response that was cut.
LEMMA CutResponse ==
    ASSUME BucketInv, complete, client.status # "mismatch",
           NEW b, b = client.bucket, NEW a, a = client.after,
           NEW got, got = Entries(b, a), NEW k \in 1..Len(got),
           NEW c, c = ApplyEntries(client, got, k)
    PROVE  /\ c.rows \in Screens /\ c.sum \in Sums
           /\ c.after \in Nat /\ c.after > 0 /\ c.after <= lastOp
           /\ c.after >= retFloor /\ c.after >= snapFloor =>
                Follows(c.rows, c.sum, StoreNow, b, c.after, FALSE)
<1> DEFINE st == StoreNow
           valid == client.status = "valid"
<1>1. /\ b \in Routes /\ a \in Nat /\ a <= lastOp
      /\ ~FullSnapshot(b, a) => Live
      /\ FullSnapshot(b, a) =>
           IncludeClear(b, a) \/ (client.rows = NothingShown /\ client.sum = ZeroSum)
  BY ResponseKinds, Zenon
<1>2. /\ StoreOK(st) /\ st.lastOp = lastOp /\ st.ops = ops /\ st.docs = docs
      /\ retFloor \in Nat /\ snapFloor \in Nat /\ lastOp \in Nat /\ lastOp >= Base
  BY CompleteStore, Zenon DEF BucketInv, StoreInv, StoreNow
<1>3. CASE FullSnapshot(b, a)
  <2>1. got = SnapshotEntries(b, a)
    BY <1>3, Zenon DEF Entries
  <2>2. /\ Len(got) \in Nat /\ Len(got) <= NumIds + 1
        /\ c.after = lastOp - Len(got) + k
        /\ CutInSnapshot(c, b)
    <3>1. IncludeClear(b, a) \/ (client.rows = NothingShown /\ client.sum = ZeroSum)
      BY <1>1, <1>3, Zenon
    <3>2. SnapshotSent(client, got, b)
      BY <1>1, <1>2, <2>1, <3>1, SnapshotResponse, Zenon
    <3> QED BY <3>2, Zenon DEF SnapshotSent
  <2>3. c.after \in Nat /\ c.after > 0 /\ c.after <= lastOp
    BY <1>2, <2>2, TailAssumption
  <2>4. PICK R \in SUBSET ShownIds(st, b) : c.rows = SentRows(st, R) /\ c.sum = SentSum(st, b, R)
    BY <2>2, Zenon DEF CutInSnapshot
  <2>5. st.docs \in Rows /\ st.tail \in [Routes -> Sums]
    BY <1>2, Zenon DEF StoreOK
  <2> HIDE DEF st
  <2>6. c.rows \in Screens /\ c.sum \in Sums
    <3>1. SentRows(st, R) \in Screens /\ SentSum(st, b, R) \in Sums
      BY <1>1, <2>4, <2>5, SentTypes, Zenon
    <3> QED BY <2>4, <3>1, Zenon
  <2>7. ASSUME c.after >= retFloor, c.after >= snapFloor
        PROVE  Follows(c.rows, c.sum, st, b, c.after, FALSE)
    <3>1. Follows(SentRows(st, R), SentSum(st, b, R), st, b, c.after, FALSE)
      BY <1>1, <1>2, <2>3, <2>7, CutSnapshotFollows, Zenon
    <3> QED BY <2>4, <3>1, Zenon
  <2> QED BY <2>3, <2>6, <2>7, Zenon DEF st
<1>4. CASE ~FullSnapshot(b, a)
  <2>1. got = DeltaEntries(b, a)
    BY <1>4, Zenon DEF Entries
  <2>2. Live /\ a >= retFloor /\ a >= snapFloor
    BY <1>1, <1>4, Zenon DEF Live
  <2>3. Follows(client.rows, client.sum, st, b, a, valid)
    BY <2>2, Zenon DEF BucketInv, ClientInv
  <2>4. PICK X, Y : /\ Replay(X, Y, ops, b, a, lastOp)
                    /\ X[a] = client.rows /\ Y[a] = client.sum
                    /\ Caught(X[lastOp], Y[lastOp], st, b, valid)
    BY <1>2, <2>3, Zenon DEF Follows
  <2>5. PICK i \in (a + 1)..lastOp : c.rows = X[i] /\ c.sum = Y[i] /\ c.after = i
    <3>1. CutInDelta(c, X, Y, a)
      BY <1>1, <1>2, <2>1, <2>2, <2>4, DeltaResponse, Zenon
    <3> QED BY <3>1, Zenon DEF CutInDelta
  <2>6. i \in Nat /\ i > 0 /\ i <= lastOp /\ i \in a..lastOp
    BY <1>1, <1>2
  <2>7. X[i] \in Screens /\ Y[i] \in Sums
    BY <2>4, <2>6, Zenon DEF Replay
  <2>8. PICK V, W : /\ Replay(V, W, ops, b, i, lastOp) /\ V[i] = X[i] /\ W[i] = Y[i]
                    /\ V[lastOp] = X[lastOp] /\ W[lastOp] = Y[lastOp]
    <3>1. Reaches(X[i], Y[i], ops, b, i, lastOp, X[lastOp], Y[lastOp])
      BY <1>1, <1>2, <2>4, <2>6, ReplaySuffix, Zenon
    <3> QED BY <3>1, Zenon DEF Reaches
  <2>9. Caught(V[lastOp], W[lastOp], st, b, FALSE)
    BY <2>4, <2>8, Zenon DEF Caught
  <2> HIDE DEF st
  <2>10. Follows(c.rows, c.sum, st, b, c.after, FALSE)
    <3>1. Follows(X[i], Y[i], st, b, i, FALSE)
      BY <1>2, <2>8, <2>9, Zenon DEF Follows
    <3> QED BY <2>5, <3>1, Zenon
  <2> QED BY <2>5, <2>6, <2>7, <2>10, Zenon DEF st
<1> QED BY <1>3, <1>4, Zenon

\* The store is left alone.
LEMMA StoreUnchanged ==
    ASSUME StoreInv, tailVars' = tailVars
    PROVE  /\ StoreInv' /\ StoreNow' = StoreNow /\ replicaIdentity' = replicaIdentity
           /\ lastOp' = lastOp /\ complete' = complete /\ retFloor' = retFloor
           /\ snapFloor' = snapFloor
<1>1. /\ replicaIdentity' = replicaIdentity /\ docs' = docs /\ ops' = ops /\ index' = index
      /\ lastOp' = lastOp /\ snapFloor' = snapFloor /\ retFloor' = retFloor /\ cur' = cur
      /\ tail' = tail /\ complete' = complete /\ toCopy' = toCopy
  BY Zenon DEF tailVars
<1>2. StoreNow' = StoreNow
  BY <1>1, Zenon DEF StoreNow
<1>3. LogOK(StoreNow) => LogOK(StoreNow)'
  BY <1>1, <1>2, Zenon DEF LogOK
<1> QED BY <1>1, <1>2, <1>3, Zenon DEF StoreInv

\* A client step keeps the invariant when the client can go on from where it is.
LEMMA ClientStep ==
    ASSUME BucketInv, complete, tailVars' = tailVars, NEW b \in Routes, NEW a \in Nat,
           a > 0, a <= lastOp, NEW rows \in Screens, NEW sum \in Sums,
           NEW status \in {"valid", "cut", "mismatch"}, client' = Client(b, a, rows, sum, status),
           status # "mismatch" /\ a >= retFloor /\ a >= snapFloor =>
             Follows(rows, sum, StoreNow, b, a, status = "valid")
    PROVE  BucketInv'
<1>1. /\ StoreInv' /\ StoreNow' = StoreNow /\ replicaIdentity' = replicaIdentity
      /\ lastOp' = lastOp /\ complete' = complete /\ retFloor' = retFloor
      /\ snapFloor' = snapFloor
  BY StoreUnchanged, Zenon DEF BucketInv
<1>2. /\ client'.bucket = b /\ client'.after = a /\ client'.rows = rows /\ client'.sum = sum
      /\ client'.status = status
  BY ClientFields
<1>3. ASSUME Live'
      PROVE  Follows(client.rows, client.sum, StoreNow, client.bucket, client.after,
                     client.status = "valid")'
  <2>1. Follows(rows, sum, StoreNow, b, a, status = "valid")
    BY <1>1, <1>2, <1>3, Zenon DEF Live
  <2>2. PICK st : st = StoreNow
    BY Zenon
  <2>3. Follows(rows, sum, st, b, a, status = "valid")
    BY <2>1, <2>2, Zenon
  <2>4. Follows(rows, sum, st, b, a, status = "valid")'
    BY <1>1, <2>3, FollowsSame, Zenon
  <2> QED BY <1>1, <1>2, <2>2, <2>4, Zenon
<1>4. ClientInv'
  BY <1>1, <1>2, <1>3 DEF ClientInv, ClientOK
<1> QED BY <1>1, <1>4, Zenon DEF BucketInv

\* What a whole response amounts to.
LEMMA CompletesStep ==
    ASSUME BucketInv, SyncCompletes
    PROVE  /\ BucketInv'
           /\ client.status = "valid" => client'.rows = BucketRows(client.bucket)
           /\ client'.status = "valid" => client'.rows = BucketRows(client.bucket)
           /\ replicaIdentity = "full" /\ client.status = "valid" => client'.status = "valid"
<1>1. PICK b, a, got : b = client.bucket /\ a = client.after /\ got = Entries(b, a)
  BY Zenon
<1>2. PICK c : c = ApplyEntries(client, got, Len(got))
  BY Zenon
<1>3. PICK status : status = IF c.sum = CheckpointSum(b, a) THEN "valid" ELSE "mismatch"
  BY Zenon
<1>4. /\ complete /\ client.status # "mismatch" /\ tailVars' = tailVars
      /\ client' = Client(b, lastOp, c.rows, c.sum, status)
  BY <1>1, <1>2, <1>3, Zenon DEF SyncCompletes
<1>5. b \in Routes /\ CheckpointSum(b, a) = Checkpoint(StoreNow, b)
  BY <1>1, <1>4, ResponseKinds, Zenon
<1>6. /\ c.rows \in Screens /\ c.sum \in Sums
      /\ Caught(c.rows, c.sum, StoreNow, b, client.status = "valid")
  BY <1>1, <1>2, <1>4, WholeResponse, Zenon
<1>7. /\ lastOp \in Nat /\ lastOp > 0 /\ lastOp <= lastOp /\ docs \in Rows
      /\ StoreNow.docs = docs /\ StoreNow.lastOp = lastOp
  BY TailAssumption DEF BucketInv, StoreInv, StoreNow
<1>8. BucketRows(b) = Shown(docs, b)
  BY Zenon DEF BucketRows, Shown, InBucket
<1>9. /\ status \in {"valid", "mismatch"}
      /\ status = "valid" <=> c.sum = Checkpoint(StoreNow, b)
  BY <1>3, <1>5, Zenon
<1>10. status # "mismatch" => Follows(c.rows, c.sum, StoreNow, b, lastOp, status = "valid")
  <2> SUFFICES ASSUME status = "valid"
               PROVE  Follows(c.rows, c.sum, StoreNow, b, lastOp, TRUE)
    BY <1>9, Zenon
  <2>1. Caught(c.rows, c.sum, StoreNow, b, TRUE)
    BY <1>6, <1>9, Zenon DEF Caught
  <2>2. PICK st : st = StoreNow
    BY Zenon
  <2>3. Follows(c.rows, c.sum, st, b, st.lastOp, TRUE)
    BY <1>6, <1>7, <2>1, <2>2, CaughtUpFollows, Zenon
  <2> QED BY <1>7, <2>2, <2>3, Zenon
<1>11. BucketInv'
  <2>1. PICK last \in Nat : last = lastOp
    BY <1>7, Zenon
  <2> QED BY <1>4, <1>5, <1>6, <1>7, <1>9, <1>10, <2>1, ClientStep, Zenon
<1>12. client'.rows = c.rows /\ client'.status = status
  BY <1>4, ClientFields
<1>13. client.status = "valid" => c.rows = Shown(docs, b)
  BY <1>6, <1>7, Zenon DEF Caught
<1>14. status = "valid" => c.rows = Shown(docs, b)
  BY <1>6, <1>7, <1>9, Zenon DEF Caught
<1>15. replicaIdentity = "full" /\ client.status = "valid" => status = "valid"
  BY <1>6, <1>9, Zenon DEF Caught
<1> QED BY <1>1, <1>8, <1>11, <1>12, <1>13, <1>14, <1>15, Zenon

\* SyncCut: the connection breaks in the middle of a response.
LEMMA CutStep ==
    ASSUME BucketInv, SyncCut
    PROVE  BucketInv' /\ client'.status = "cut"
<1>1. PICK b, a, got : b = client.bucket /\ a = client.after /\ got = Entries(b, a)
  BY Zenon
<1>2. PICK k \in 1..Len(got) :
        client' = Client(b, ApplyEntries(client, got, k).after, ApplyEntries(client, got, k).rows,
                         ApplyEntries(client, got, k).sum, "cut")
  BY <1>1, Zenon DEF SyncCut
<1>3. PICK c : c = ApplyEntries(client, got, k)
  BY Zenon
<1>4. /\ complete /\ client.status # "mismatch" /\ tailVars' = tailVars
      /\ client' = Client(b, c.after, c.rows, c.sum, "cut")
  BY <1>2, <1>3, Zenon DEF SyncCut
<1>5. b \in Routes
  BY <1>1, <1>4, ResponseKinds, Zenon
<1>6. /\ c.rows \in Screens /\ c.sum \in Sums
      /\ c.after \in Nat /\ c.after > 0 /\ c.after <= lastOp
      /\ c.after >= retFloor /\ c.after >= snapFloor =>
           Follows(c.rows, c.sum, StoreNow, b, c.after, FALSE)
  BY <1>1, <1>3, <1>4, CutResponse, Zenon
<1>7. PICK status \in {"valid", "cut", "mismatch"} : status = "cut"
  BY Zenon
<1>8. status # "mismatch" /\ c.after >= retFloor /\ c.after >= snapFloor =>
        Follows(c.rows, c.sum, StoreNow, b, c.after, status = "valid")
  <2>1. (status = "valid") = FALSE
    BY <1>7, Zenon
  <2> QED BY <1>6, <2>1, Zenon
<1>9. BucketInv'
  BY <1>4, <1>5, <1>6, <1>7, <1>8, ClientStep, Zenon
<1> QED BY <1>4, <1>9, ClientFields

\* ClientRestarts: after a mismatch the client drops what it holds.
LEMMA RestartStep ==
    ASSUME BucketInv, ClientRestarts
    PROVE  BucketInv' /\ client.status = "mismatch"
<1>1. client.status = "mismatch" /\ tailVars' = tailVars /\ client' = FreshClient(client.bucket)
  BY Zenon DEF ClientRestarts
<1>2. /\ StoreInv' /\ lastOp' = lastOp /\ lastOp \in Nat
  BY <1>1, StoreUnchanged, Zenon DEF BucketInv, StoreInv
<1>3. client.bucket \in Routes
  BY Zenon DEF BucketInv, ClientInv, ClientOK
<1>4. /\ client'.bucket = client.bucket /\ client'.after = 0 /\ client'.rows = NothingShown
      /\ client'.sum = ZeroSum /\ client'.status = "valid"
  BY <1>1, ClientFields DEF FreshClient
<1>5. NothingShown \in Screens /\ ZeroSum \in Sums
  BY SumFacts, Zenon DEF NothingShown, Screens
<1>6. ClientInv'
  BY <1>2, <1>3, <1>4, <1>5 DEF ClientInv, ClientOK, Live
<1> QED BY <1>1, <1>2, <1>6, Zenon DEF BucketInv

\* Nothing happens.
LEMMA StutterStep ==
    ASSUME BucketInv, UNCHANGED vars
    PROVE  BucketInv'
<1>1. tailVars' = tailVars /\ client' = client
  BY Zenon DEF vars, tailVars
<1>2. /\ StoreInv' /\ StoreNow' = StoreNow /\ replicaIdentity' = replicaIdentity
      /\ lastOp' = lastOp /\ complete' = complete /\ retFloor' = retFloor
      /\ snapFloor' = snapFloor
  BY <1>1, StoreUnchanged, Zenon DEF BucketInv
<1>3. ASSUME complete, Live
      PROVE  Follows(client.rows, client.sum, StoreNow, client.bucket, client.after,
                     client.status = "valid")'
  <2>1. PICK c, st : c = client /\ st = StoreNow
    BY Zenon
  <2>2. Follows(c.rows, c.sum, st, c.bucket, c.after, c.status = "valid")
    BY <1>3, <2>1, Zenon DEF BucketInv, ClientInv
  <2>3. Follows(c.rows, c.sum, st, c.bucket, c.after, c.status = "valid")'
    BY <1>2, <2>2, FollowsSame, Zenon
  <2> QED BY <1>1, <1>2, <2>1, <2>3, Zenon
<1>4. ClientInv'
  BY <1>1, <1>2, <1>3, Zenon DEF BucketInv, ClientInv, ClientOK, Live
<1> QED BY <1>2, <1>4, Zenon DEF BucketInv

----------------------------------------------------------------------------
\* The theorems.

\* The invariant, one step per action.
LEMMA BucketInvariant == Spec => []BucketInv
<1>1. Init => BucketInv
  BY InitInv, Zenon
<1>2. ASSUME BucketInv, [Next]_vars
      PROVE  BucketInv'
  <2>1. CASE SourceTransaction /\ UNCHANGED client
    BY <1>2, <2>1, TransactionKeeps, Zenon
  <2>2. CASE ResetForSnapshot /\ UNCHANGED client
    BY <1>2, <2>2, ResetKeeps, Zenon
  <2>3. CASE SnapshotBatch /\ UNCHANGED client
    BY <1>2, <2>3, BatchKeeps, Zenon
  <2>4. CASE SnapshotMarker /\ UNCHANGED client
    BY <1>2, <2>4, MarkerKeeps, Zenon
  <2>5. CASE SyncCompletes
    BY <1>2, <2>5, CompletesStep, Zenon
  <2>6. CASE SyncCut
    BY <1>2, <2>6, CutStep, Zenon
  <2>7. CASE ClientRestarts
    BY <1>2, <2>7, RestartStep, Zenon
  <2>8. CASE UNCHANGED vars
    BY <1>2, <2>8, StutterStep
  <2> QED BY <1>2, <2>1, <2>2, <2>3, <2>4, <2>5, <2>6, <2>7, <2>8 DEF Next, TailNext
<1> QED BY <1>1, <1>2, PTL DEF Spec

\* The current accumulators are the rescan of the documents in every reachable store:
\* through batches of snapshot rows, operations of transactions and resets
\* (persist_current_accumulator_deltas, persist_initial_snapshot_rows).
THEOREM AccumulatorsCorrect == Spec => []AccumulatorsMatchDocuments
<1>1. BucketInv => AccumulatorsMatchDocuments
  BY Zenon DEF BucketInv, StoreInv, AccumulatorsMatchDocuments
<1> QED BY <1>1, BucketInvariant, PTL

\* Above both floors the tail log is complete and indexed, however many changes a
\* transaction has and however few operations prune_sync_tail retains.
THEOREM RetainedLogCorrect == Spec => []RetainedLogComplete
<1>1. ASSUME BucketInv
      PROVE  RetainedLogComplete
  <2>1. CASE complete
    <3>1. LogOK(StoreNow) /\ lastOp \in Nat /\ retFloor \in Nat
      BY <1>1, <2>1, Zenon DEF BucketInv, StoreInv
    <3>2. \A i \in (retFloor + 1)..lastOp : i > snapFloor => i \in DOMAIN ops
      <4> SUFFICES ASSUME NEW i \in (retFloor + 1)..lastOp, i > snapFloor
                   PROVE  i \in DOMAIN ops
        BY Zenon
      <4>1. i \in Nat /\ i > retFloor /\ i <= lastOp
        BY <3>1
      <4> QED BY <3>1, <4>1, Zenon DEF LogOK, StoreNow
    <3>3. \A i \in DOMAIN ops : i > retFloor
      BY <3>1, Zenon DEF LogOK, StoreNow
    <3>4. index = UNION {OpRoutes(ops[i]) \X {i} : i \in DOMAIN ops}
      <4>1. PICK s : s = StoreNow
        BY Zenon
      <4>2. s.ops = ops /\ s.index = index
        BY <4>1, Zenon DEF StoreNow
      <4>3. s.index = UNION {OpRoutes(s.ops[i]) \X {i} : i \in DOMAIN s.ops}
        BY <3>1, <4>1, Zenon DEF LogOK
      <4> QED BY <4>2, <4>3, Zenon
    <3> QED BY <3>2, <3>3, <3>4, Zenon DEF RetainedLogComplete
  <2>2. CASE ~complete
    <3>1. DOMAIN ops = {} /\ index = {}
      BY <1>1, <2>2, Zenon DEF BucketInv, StoreInv
    <3>2. index = UNION {OpRoutes(ops[i]) \X {i} : i \in DOMAIN ops}
      BY <3>1, Zenon
    <3> QED BY Zenon, <2>2, <3>1, <3>2 DEF RetainedLogComplete
  <2> QED BY <2>1, <2>2
<1> QED BY <1>1, BucketInvariant, PTL

\* What the steps may do to the client, from the invariant.
LEMMA ClientSteps ==
    ASSUME BucketInv, [Next]_vars
    PROVE  \/ client' = client
           \/ /\ client.status = "valid" => client'.rows = BucketRows(client.bucket)
              /\ client'.status = "valid" => client'.rows = BucketRows(client.bucket)
              /\ replicaIdentity = "full" /\ client.status = "valid" => client'.status = "valid"
           \/ client'.status = "cut"
           \/ client.status = "mismatch"
<1>1. CASE TailNext /\ UNCHANGED client
  BY <1>1, Zenon
<1>2. CASE SyncCompletes
  BY <1>2, CompletesStep, Zenon
<1>3. CASE SyncCut
  BY <1>3, CutStep, Zenon
<1>4. CASE ClientRestarts
  BY <1>4, RestartStep, Zenon
<1>5. CASE UNCHANGED vars
  BY <1>5, Zenon DEF vars
<1> QED BY <1>1, <1>2, <1>3, <1>4, <1>5, Zenon DEF Next

\* A client that got every response whole has exactly the rows of its bucket, after
\* any sequence of transactions, prunings, resets, dense deltas and restarts
\* (read_bucket_snapshot_in_transaction, tail_op_effect_for_bucket).
THEOREM WholeResponsesCorrect == Spec => WholeResponsesExact
<1>1. BucketInv /\ [Next]_vars =>
        [(client.status = "valid" /\ client' # client /\ client'.status # "cut")
           => client'.rows = BucketRows(client.bucket)]_vars
  BY ClientSteps
<1> QED BY <1>1, BucketInvariant, PTL DEF Spec, WholeResponsesExact

\* A checkpoint that the client could validate shows exactly the rows of the bucket,
\* also when it resumed in the middle of a snapshot whose synthetic ids overlap
\* with tail operations (build_bucket_payload, BucketSyncChunkIterator).
THEOREM ValidatedCheckpointCorrect == Spec => ValidatedCheckpointExact
<1>1. BucketInv /\ [Next]_vars =>
        [(client' # client /\ client'.status = "valid" /\ client.status # "mismatch")
           => client'.rows = BucketRows(client.bucket)]_vars
  BY Zenon, ClientSteps
<1> QED BY <1>1, BucketInvariant, PTL DEF Spec, ValidatedCheckpointExact

\* With REPLICA IDENTITY FULL the checkpoint of a whole response always agrees with
\* the sum of what was sent (derive_sync_tail_ops, add_remove_accumulator_deltas).
THEOREM RecurrenceCorrect == Spec => FullIdentityRecurrence
<1>1. BucketInv /\ [Next]_vars =>
        [replicaIdentity = "full" /\ client.status = "valid" => client'.status # "mismatch"]_vars
  BY Zenon, ClientSteps
<1> QED BY <1>1, BucketInvariant, PTL DEF Spec, FullIdentityRecurrence
=============================================================================
