------------------------------ MODULE BucketSync ------------------------------
(***************************************************************************)
(* /sync/stream over the store of SyncTail: how a bucket is read for a     *)
(* cursor, what is sent, and what a client makes of it.  One client        *)
(* follows one bucket; clients do not interact.                            *)
(*                                                                         *)
(* A response is computed in one read transaction, so it is atomic here;   *)
(* what is not atomic is its delivery, which may be cut after any entry.   *)
(* The client resumes at the id of the last entry it got.                  *)
(*                                                                         *)
(* Requests are answered only while the snapshot marker is set (is_ready). *)
(* The store loses its marker only when a process boots, so no stream held *)
(* open by the process that owns the store outlives a complete snapshot.   *)
(***************************************************************************)
EXTENDS SyncTail

CONSTANT MaxScan   \* POWERSYNC_RUST_MAX_SYNC_READ_ENTRIES, as index-scan budget

ASSUME ScanAssumption == MaxScan \in Nat

VARIABLE client    \* [bucket, after, rows, sum, status]

vars == <<replicaIdentity, docs, ops, index, lastOp, snapFloor, retFloor, cur, tail,
          complete, toCopy, client>>

NoVal == "none"

\* The rows a bucket should show, by the definition of the sync rule: id ->
\* projected value.
BucketRows(b) ==
  [i \in Ids |->
     IF docs[i] # NoDoc /\ docs[i].route = b /\ docs[i].val \notin Hidden
     THEN docs[i].val ELSE NoVal]

Client(b, after, rows, sum, status) ==
  [bucket |-> b, after |-> after, rows |-> rows, sum |-> sum, status |-> status]

NothingShown == [i \in Ids |-> NoVal]

\* A client that holds nothing of the bucket.
FreshClient(b) == Client(b, 0, NothingShown, ZeroSum, "valid")

------------------------------------------------------------------------------
(***************************************************************************)
(* The server: read_bucket_snapshot_in_transaction, build_bucket_payload   *)
(* and BucketSyncChunkIterator::new.                                       *)
(***************************************************************************)

\* Mutant: a cursor below the retained log is continued.
CursorResetUnpruned(after) ==
  \/ after > lastOp
  \/ after > 0 /\ after < snapFloor

\* Cursors that cannot be continued: from the future, from before the snapshot
\* was complete, from before the retained log, or of an older generation.
CursorReset(after) ==
  \/ after > lastOp
  \/ after > 0 /\ (after < snapFloor \/ after < retFloor)

\* Tail operations the index lists for the bucket past the cursor.
IndexedOps(b, after) == {i \in (after + 1)..lastOp : <<b, i>> \in index}

\* The delta is too dense for the request's scan budget.
ScanExhausted(b, after) ==
  /\ after > 0 /\ ~CursorReset(after)
  /\ Cardinality(IndexedOps(b, after)) > MaxScan

FullSnapshot(b, after) ==
  after = 0 \/ CursorReset(after) \/ ScanExhausted(b, after)

\* A snapshot starts with a CLEAR that carries the tail checksum.
IncludeClear(b, after) ==
  CursorReset(after) \/ ScanExhausted(b, after) \/ tail[b] # ZeroSum

\* build_bucket_payload: current plus superseded remainder.  A snapshot sums up
\* the documents it sends, a delta relies on the current accumulator.
CheckpointSum(b, after) ==
  Plus(IF FullSnapshot(b, after) THEN BucketSum(docs, b) ELSE cur[b], tail[b])

\* Mutant: a row that leaves the bucket by an update is not removed.
EffectOfNewRow(o, b) ==
  CASE o.op = "put" /\ InBucket(o.doc, b) -> "put"
    [] o.op = "remove" /\ InBucket(o.doc, b) -> "remove"
    [] OTHER -> "none"

\* tail_op_effect_for_bucket.
Effect(o, b) ==
  CASE o.op = "put" /\ InBucket(o.doc, b) -> "put"
    [] o.op = "put" /\ ~InBucket(o.doc, b) /\ InBucket(o.prev, b) -> "remove"
    [] o.op = "remove" /\ InBucket(o.doc, b) -> "remove"
    [] OTHER -> "none"

\* The entries of a response, in order.  Snapshot entries get the synthetic ids
\* that end at the last op id.
SnapshotEntries(b, after) ==
  LET shown == {i \in Ids : InBucket(docs[i], b)}
      clear == IF IncludeClear(b, after) THEN 1 ELSE 0
      n == Cardinality(shown) + clear
      rank(i) == Cardinality({j \in shown : j <= i})
      nth(k) == CHOOSE i \in shown : rank(i) = k
  IN [k \in 1..n |->
        IF k <= clear
        THEN [op |-> "clear", opId |-> lastOp - n + k, id |-> 0, val |-> NoVal,
              sum |-> tail[b]]
        ELSE LET i == nth(k - clear) IN
             [op |-> "put", opId |-> lastOp - n + k, id |-> i, val |-> docs[i].val,
              sum |-> HashSum({PutHash(i, docs[i])})]]

\* task_tail_oplog_entry.
TailEntry(o, i, b) ==
  IF Effect(o, b) = "put"
  THEN [op |-> "put", opId |-> i, id |-> o.id, val |-> o.doc.val,
        sum |-> HashSum({PutHash(o.id, o.doc)})]
  ELSE [op |-> "remove", opId |-> i, id |-> o.id, val |-> NoVal,
        sum |-> HashSum({RemoveHash(o.id)})]

DeltaEntries(b, after) ==
  LET hits == {i \in IndexedOps(b, after) : Effect(ops[i], b) # "none"}
      nth(k) == CHOOSE i \in hits : Cardinality({j \in hits : j <= i}) = k
  IN [k \in 1..Cardinality(hits) |-> TailEntry(ops[nth(k)], nth(k), b)]

Entries(b, after) ==
  IF FullSnapshot(b, after) THEN SnapshotEntries(b, after) ELSE DeltaEntries(b, after)

------------------------------------------------------------------------------
(***************************************************************************)
(* The client, external to the repository: it applies entries in order,    *)
(* keeps the running checksum, and checks it at checkpoint_complete.       *)
(***************************************************************************)

ApplyEntry(c, e) ==
  IF e.op = "clear"
  THEN Client(c.bucket, e.opId, NothingShown, e.sum, c.status)
  ELSE Client(c.bucket, e.opId, [c.rows EXCEPT ![e.id] = e.val], Plus(c.sum, e.sum),
              c.status)

ApplyEntries(c, entries, k) ==
  LET upTo[i \in 0..k] == IF i = 0 THEN c ELSE ApplyEntry(upTo[i - 1], entries[i])
  IN upTo[k]

\* The whole response arrives, checkpoint_complete included.
SyncCompletes ==
  LET b == client.bucket
      got == Entries(b, client.after)
      c == ApplyEntries(client, got, Len(got))
  IN /\ complete
     /\ client.status # "mismatch"
     /\ client' = Client(b, lastOp, c.rows, c.sum,
                         IF c.sum = CheckpointSum(b, client.after)
                         THEN "valid" ELSE "mismatch")
     /\ UNCHANGED tailVars

\* The connection breaks after k entries.
SyncCut ==
  LET b == client.bucket
      got == Entries(b, client.after)
  IN /\ complete
     /\ client.status # "mismatch"
     /\ \E k \in 1..Len(got) :
          LET c == ApplyEntries(client, got, k)
          IN client' = Client(b, c.after, c.rows, c.sum, "cut")
     /\ UNCHANGED tailVars

\* A client whose checksum does not match discards the bucket and starts over.
ClientRestarts ==
  /\ client.status = "mismatch"
  /\ client' = FreshClient(client.bucket)
  /\ UNCHANGED tailVars

Init ==
  /\ TailInit
  /\ client \in {FreshClient(b) : b \in Routes}

Next ==
  \/ TailNext /\ UNCHANGED client
  \/ SyncCompletes
  \/ SyncCut
  \/ ClientRestarts

Spec == Init /\ [][Next]_vars

------------------------------------------------------------------------------

\* Store and client have their types.
TypeOK ==
  /\ TailTypeOK
  /\ client.bucket \in Routes
  /\ client.after \in 0..OpLimit
  /\ client.rows \in [Ids -> Vals \cup {NoVal}]
  /\ client.status \in {"valid", "cut", "mismatch"}

\* A client that has received every response whole ends each of them with
\* exactly the rows the bucket has, whatever generation, pruned range, dense
\* range or cut snapshot its cursor came from.  (CursorReset, the clearing
\* snapshot of read_bucket_snapshot_in_transaction, tail_op_effect_for_bucket.)
WholeResponsesExact ==
  [][(client.status = "valid" /\ client' # client /\ client'.status # "cut")
       => client'.rows = BucketRows(client.bucket)]_vars

\* A checkpoint whose checksum the client could validate shows exactly the
\* bucket's rows, even when earlier responses were cut and the client resumed in
\* the middle of a synthetic snapshot.  (Checkpoint checksums of current plus
\* superseded operations, CLEAR carrying the superseded remainder.)
ValidatedCheckpointExact ==
  [][(client' # client /\ client'.status = "valid" /\ client.status # "mismatch")
       => client'.rows = BucketRows(client.bucket)]_vars

\* The advertised checkpoint is the previous one plus the checksums and count of
\* the emitted entries: a client that received every response whole never
\* finds a mismatch (docs/correctness.md:36).
ChecksumRecurrence ==
  [][client.status = "valid" => client'.status # "mismatch"]_vars

\* The recurrence holds for tables with REPLICA IDENTITY FULL, whose updates carry
\* the old row: every REMOVE that tail_op_effect_for_bucket emits is then one that
\* add_remove_accumulator_deltas has counted.
FullIdentityRecurrence ==
  [][replicaIdentity = "full" /\ client.status = "valid" => client'.status # "mismatch"]_vars
==============================================================================
