------------------------------- MODULE SyncTail -------------------------------
(***************************************************************************)
(* The materialized state in MDBX that /sync/stream is served from: the    *)
(* current documents, the tail log of operations with its route index,     *)
(* the cursor floors, and the two checkpoint accumulators of every bucket. *)
(* A bucket is a route with a residual filter: it shows the rows of its    *)
(* route whose value is not in Hidden.                                     *)
(*                                                                         *)
(* A checksum is kept as how often each hash input was added to it, less   *)
(* how often it was subtracted: wrapping addition and subtraction of the   *)
(* 32-bit hashes is addition and subtraction of these counts, and only     *)
(* hash collisions are left out.  Its count is their sum.                  *)
(***************************************************************************)
EXTENDS Integers, Sequences, FiniteSets

CONSTANTS
  NumIds,       \* rows have the ids 1..NumIds
  Routes,       \* values of the routing column, one bucket each
  Vals,         \* projected row contents
  Hidden,       \* the contents the residual filter rejects
  NoDoc,        \* absent document
  Identities,   \* REPLICA IDENTITY settings the table may have
  Retain,       \* sync tail operations kept by pruning
  Base,         \* cursor generation base of the first bootstrap
  MaxGap,       \* bound on how far a later generation base jumps ahead
  MaxOp,        \* bound on op ids, see OpLimit
  MaxChanges    \* bound on the changes of one source transaction

ASSUME TailAssumption ==
  /\ NumIds \in Nat /\ Retain \in Nat /\ MaxOp \in Nat
  /\ MaxGap \in Nat \ {0} /\ MaxChanges \in Nat \ {0}
  /\ Hidden \subseteq Vals
  /\ Identities \subseteq {"full", "default"}
  /\ Base \in Nat /\ Base > NumIds

Ids == 1..NumIds
Docs == [route : Routes, val : Vals]
Rows == [Ids -> Docs \cup {NoDoc}]

ASSUME NoDocAssumption == NoDoc \notin Docs

VARIABLES
  replicaIdentity,  \* the table's REPLICA IDENTITY
  docs,        \* id -> current document
  ops,         \* op id -> persisted tail operation
  index,       \* route index of the tail: set of <<route, op id>>
  lastOp,      \* META_SYNC_TAIL_LAST_OP_ID
  snapFloor,   \* META_INITIAL_SNAPSHOT_CURSOR_FLOOR
  retFloor,    \* META_SYNC_TAIL_RETAINED_FLOOR
  cur,         \* bucket -> current checkpoint accumulator
  tail,        \* bucket -> tail checkpoint accumulator (superseded remainder)
  complete,    \* whether the snapshot marker is set
  toCopy       \* id -> document of the exported snapshot still to be copied

tailVars == <<replicaIdentity, docs, ops, index, lastOp, snapFloor, retFloor,
              cur, tail, complete, toCopy>>

\* Bound: updates of a table with full identity take two operations, so op ids
\* may go one further.
OpLimit == IF replicaIdentity = "full" THEN MaxOp + 1 ELSE MaxOp

NoRows == [i \in Ids |-> NoDoc]

\* The hash inputs of put_checksum and remove_checksum, and sums of hashes.
PutHash(id, d) == <<"put", id, d.val>>
RemoveHash(id) == <<"remove", id>>
Hashes == ({"put"} \X Ids \X Vals) \cup ({"remove"} \X Ids)
ZeroSum == [h \in Hashes |-> 0]
HashSum(hs) == [h \in Hashes |-> IF h \in hs THEN 1 ELSE 0]
Plus(x, y) == [h \in Hashes |-> x[h] + y[h]]
Minus(x, y) == [h \in Hashes |-> x[h] - y[h]]

NoSums == [b \in Routes |-> ZeroSum]

\* Mutant: the residual filter is ignored.
InRoute(d, b) == d # NoDoc /\ d.route = b

\* matches_object_routes_and_data: the document is in the bucket of route b.
InBucket(d, b) == d # NoDoc /\ d.route = b /\ d.val \notin Hidden

\* What a document contributes to bucket b's checksum.
DocSum(b, id, d) ==
  HashSum(IF InBucket(d, b) THEN {PutHash(id, d)} ELSE {})

\* The accumulator a rescan of the current documents would give.
BucketSum(rows, b) ==
  HashSum({PutHash(i, rows[i]) : i \in {j \in Ids : InBucket(rows[j], b)}})

------------------------------------------------------------------------------
(***************************************************************************)
(* Source transactions.  A change refers to rows that exist at the source; *)
(* the documents mirror the source because every transaction is applied    *)
(* once and in order (module ReplicationIngest).                           *)
(***************************************************************************)

Changes ==
  [kind : {"insert"}, id : Ids, to : {0}, doc : Docs]
    \cup [kind : {"update"}, id : Ids, to : Ids, doc : Docs]
    \cup [kind : {"delete"}, id : Ids, to : {0}, doc : {NoDoc}]

\* A change the source can make to rows.
Possible(rows, c) ==
  CASE c.kind = "insert" -> rows[c.id] = NoDoc
    [] c.kind = "update" -> rows[c.id] # NoDoc /\ (c.to = c.id \/ rows[c.to] = NoDoc)
    [] c.kind = "delete" -> rows[c.id] # NoDoc

Op(op, id, doc, prev) == [op |-> op, id |-> id, doc |-> doc, prev |-> prev]
Put(id, d) == Op("put", id, d, NoDoc)
Remove(id) == Op("remove", id, NoDoc, NoDoc)

\* materialize_sync_state_op: a PUT remembers the document it replaces, a REMOVE
\* the document it deletes.
Materialize(rows, o) ==
  IF o.op = "put" THEN Op("put", o.id, o.doc, rows[o.id])
                  ELSE Op("remove", o.id, rows[o.id], NoDoc)

\* collect_checkpoint_accumulator_deltas_for_op: the PUT an operation
\* supersedes, and the hash of a REMOVE.
SupersededPut(b, o) ==
  DocSum(b, o.id, IF o.op = "remove" THEN o.doc ELSE o.prev)

\* Mutant: a REMOVE adds no hash.
NoRemoveDelta(b, o) == ZeroSum

RemoveDelta(b, o) ==
  HashSum(IF o.op = "remove" /\ InBucket(o.doc, b) THEN {RemoveHash(o.id)} ELSE {})

\* Mutant: the document that is replaced stays in the accumulator.
NewDocDelta(b, id, old, new) == DocSum(b, id, new)

\* put_current_document and delete_current_document: what replacing old by new
\* changes in the current accumulator of bucket b.
CurrentDelta(b, id, old, new) == Minus(DocSum(b, id, new), DocSum(b, id, old))

\* sync_tail_index_keys_for_op.
OpRoutes(o) == {d.route : d \in {o.doc, o.prev} \ {NoDoc}}

\* A store in the middle of a write transaction.
StoreNow == [docs |-> docs, ops |-> ops, index |-> index, lastOp |-> lastOp,
             cur |-> cur, tail |-> tail]

\* One derived operation: materialized against the current documents, applied to
\* them and to the current accumulators, numbered, logged, indexed, and added
\* to the tail accumulators.
ApplyOp(st, derived) ==
  LET o == Materialize(st.docs, derived)
      n == st.lastOp + 1
      old == st.docs[o.id]
      new == IF o.op = "put" THEN o.doc ELSE NoDoc
  IN [docs |-> [st.docs EXCEPT ![o.id] = new],
      ops |-> [i \in DOMAIN st.ops \cup {n} |-> IF i = n THEN o ELSE st.ops[i]],
      index |-> st.index \cup (OpRoutes(o) \X {n}),
      lastOp |-> n,
      cur |-> [b \in Routes |-> Plus(st.cur[b], CurrentDelta(b, o.id, old, new))],
      tail |-> [b \in Routes |-> Plus(Plus(st.tail[b], SupersededPut(b, o)),
                                      RemoveDelta(b, o))]]

\* derive_sync_tail_ops for one change: PostgreSQL sends an old tuple with an
\* update when the replica identity is full or the key changed.
ApplyChange(st, c) ==
  CASE c.kind = "insert" -> ApplyOp(st, Put(c.id, c.doc))
    [] c.kind = "update" ->
         IF replicaIdentity = "full" \/ c.to # c.id
         THEN ApplyOp(ApplyOp(st, Remove(c.id)), Put(c.to, c.doc))
         ELSE ApplyOp(st, Put(c.to, c.doc))
    [] c.kind = "delete" -> ApplyOp(st, Remove(c.id))

\* The stores one more change of the source leads to, within the bound.
Changed(st) == {ApplyChange(st, c) : c \in {x \in Changes : Possible(st.docs, x)}}

\* materialize_sync_state_ops: the stores that n changes in a row lead to.
Materialized[n \in 0..MaxChanges] ==
  IF n = 0 THEN {StoreNow}
  ELSE UNION {Changed(st) : st \in {s \in Materialized[n - 1] : s.lastOp < OpLimit}}

MaxOf(x, y) == IF x >= y THEN x ELSE y

\* prune_sync_tail: the new retained floor for a last op id, and the op ids whose
\* records and index entries are deleted.  Snapshot rows hold no tail records,
\* so the ids up to snapFloor are jumped over.
PrunedFloor(last) == MaxOf(retFloor, last - Retain)

\* Mutant: one operation too many is deleted.
PrunedIdsOneMore(last) == (MaxOf(retFloor, snapFloor) + 1)..(PrunedFloor(last) + 1)

PrunedIds(last) == (MaxOf(retFloor, snapFloor) + 1)..PrunedFloor(last)

------------------------------------------------------------------------------

\* persist_batch: the store st that a source transaction leads to is written in one
\* MDBX transaction, pruning included.
PersistBatch(st) ==
  LET gone == PrunedIds(st.lastOp)
  IN /\ st.lastOp <= OpLimit
     /\ docs' = st.docs
     /\ ops' = [i \in DOMAIN st.ops \ gone |-> st.ops[i]]
     /\ index' = st.index \ (Routes \X gone)
     /\ lastOp' = st.lastOp
     /\ retFloor' = PrunedFloor(st.lastOp)
     /\ cur' = st.cur
     /\ tail' = st.tail
     /\ UNCHANGED <<replicaIdentity, snapFloor, complete, toCopy>>

SourceTransaction ==
  /\ complete
  /\ \E n \in 1..MaxChanges : \E st \in Materialized[n] : PersistBatch(st)

\* reset_incomplete_initial_snapshot, or the wipe at boot after a change of the
\* storage contract: everything goes, and the cursors start over at a base past
\* every op id handed out so far, however the clock moved.
ResetForSnapshot ==
  /\ \E gap \in 1..MaxGap :
       /\ lastOp + gap + NumIds <= OpLimit
       /\ lastOp' = lastOp + gap
       /\ retFloor' = lastOp + gap
  /\ docs' = NoRows
  /\ ops' = <<>>
  /\ index' = {}
  /\ snapFloor' = 0
  /\ cur' = NoSums
  /\ tail' = NoSums
  /\ complete' = FALSE
  /\ toCopy' \in Rows
  /\ UNCHANGED replicaIdentity

\* persist_initial_snapshot_rows: what a batch adds to the current accumulators.
SnapshotDelta(b, rows) == BucketSum(rows, b)

\* persist_initial_snapshot_rows: one batch of rows, no tail records; the cursor
\* advances by the number of rows.
SnapshotBatch ==
  /\ ~complete
  /\ \E batch \in SUBSET {i \in Ids : toCopy[i] # NoDoc} \ {{}} :
       LET new == [i \in Ids |-> IF i \in batch THEN toCopy[i] ELSE NoDoc] IN
       /\ docs' = [i \in Ids |-> IF i \in batch THEN toCopy[i] ELSE docs[i]]
       /\ toCopy' = [i \in Ids |-> IF i \in batch THEN NoDoc ELSE toCopy[i]]
       /\ cur' = [b \in Routes |-> Plus(cur[b], SnapshotDelta(b, new))]
       /\ lastOp' = lastOp + Cardinality(batch)
  /\ UNCHANGED <<replicaIdentity, ops, index, snapFloor, retFloor, tail, complete>>

\* persist_initial_snapshot_marker.
SnapshotMarker ==
  /\ ~complete
  /\ toCopy = NoRows
  /\ complete' = TRUE
  /\ snapFloor' = lastOp
  /\ UNCHANGED <<replicaIdentity, docs, ops, index, lastOp, retFloor, cur, tail, toCopy>>

TailInit ==
  /\ replicaIdentity \in Identities
  /\ docs = NoRows /\ ops = <<>> /\ index = {}
  /\ lastOp = Base /\ retFloor = Base /\ snapFloor = 0
  /\ cur = NoSums /\ tail = NoSums
  /\ complete = FALSE
  /\ toCopy \in Rows

TailNext == SourceTransaction \/ ResetForSnapshot \/ SnapshotBatch \/ SnapshotMarker

------------------------------------------------------------------------------

\* The type of the store.  Counts are unsigned.
TailTypeOK ==
  /\ replicaIdentity \in Identities
  /\ docs \in Rows /\ toCopy \in Rows
  /\ lastOp \in 0..OpLimit /\ snapFloor \in 0..lastOp /\ retFloor \in 0..lastOp
  /\ DOMAIN ops \subseteq 1..lastOp
  /\ index \subseteq Routes \X DOMAIN ops
  /\ cur \in [Routes -> [Hashes -> Nat]] /\ tail \in [Routes -> [Hashes -> Nat]]
  /\ complete \in BOOLEAN

\* The current accumulators, kept up to date by deltas, are what a rescan of the
\* documents would give, so the underflow clamp of
\* persist_current_accumulator_deltas never fires (docs/correctness.md:21).
AccumulatorsMatchDocuments ==
  \A b \in Routes : cur[b] = BucketSum(docs, b)

\* The retained log has no holes: after pruning it still holds every operation
\* above both floors, each one indexed under the routes it entered or left.
RetainedLogComplete ==
  /\ complete => \A i \in (retFloor + 1)..lastOp : i > snapFloor => i \in DOMAIN ops
  /\ \A i \in DOMAIN ops : i > retFloor
  /\ index = UNION {OpRoutes(ops[i]) \X {i} : i \in DOMAIN ops}
==============================================================================
