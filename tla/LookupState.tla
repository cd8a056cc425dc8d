----------------------------- MODULE LookupState -----------------------------
(***************************************************************************)
(* The rows of one parameter lookup table and the lookup index over them:  *)
(* copied from an exported snapshot, kept up to date from the change       *)
(* stream, and read when the buckets of a request are resolved.            *)
(*                                                                         *)
(* A batch is applied operation by operation on the private pages of an    *)
(* MDBX write transaction (work); readers see store, which Commit replaces *)
(* as a whole.  Keys of the index are tuples: the key encoding prefixes    *)
(* every part with its length, so distinct tuples have distinct keys and   *)
(* a prefix scan over lookup and key values finds exactly their entries.   *)
(* PostgreSQL and the change stream are external and modelled by what the  *)
(* store receives from them; positions and restarts of the stream are in   *)
(* ReplicationIngest.                                                      *)
(***************************************************************************)
EXTENDS Integers, Sequences, FiniteSets, Functions

CONSTANTS
  Ids,             \* primary keys of the table
  Columns,         \* columns the lookups refer to, without "id"
  Text,            \* text values of those columns
  Toasted,         \* values large enough to be stored out of line
  Null,            \* SQL NULL, and an absent value
  InitialTables,   \* source tables at the first export
  Lookups,         \* the lookups of the table: [keys, selected, terms]
  MaxEntries,      \* row limit of one lookup
  ToastedKeyChange,\* whether a row with an out-of-line value changes its key
  MaxChanges,      \* bound: changes the source makes
  MaxCrashes       \* bound: crashes

VARIABLES
  src,       \* the committed source table: id -> columns
  tx,        \* the open source transaction: changes and resulting table
  wal,       \* committed transactions not yet applied
  left,      \* rows of the exported snapshot not yet copied
  store,     \* committed rows and index
  work,      \* rows and index inside the write transaction, or Null
  ops,       \* lookup operations the write transaction still has to apply
  at,        \* the source table at the position of the store
  made, crashes

vars == <<src, tx, wal, left, store, work, ops, at, made, crashes>>

------------------------------------------------------------------------------
\* Rows, documents and lookups.

Value == Text \cup {Null}
AllColumns == Columns \cup {"id"}
RowValue == Value \cup Ids
Documents == [AllColumns -> RowValue]
Tables == UNION {[S -> [Columns -> Value]] : S \in SUBSET Ids}
Databases ==
  [rows : UNION {[S -> Documents] : S \in SUBSET Ids},
   index : SUBSET UNION {[at : [lookup : {l}, key : [1..Len(l.keys) -> RowValue], id : Ids],
                          payload : [l.selected -> RowValue]] : l \in Lookups}]

\* A compiled lookup refers to columns of its table, and compares with string
\* literals only; Null is none of the values it stands apart from.
ASSUME LookupAssumption ==
  /\ IsFiniteSet(Ids)
  /\ "id" \notin Columns
  /\ InitialTables \subseteq Tables
  /\ \A l \in Lookups :
       /\ l.keys \in Seq(AllColumns)
       /\ l.selected \subseteq AllColumns
       /\ \A t \in l.terms :
            /\ t.column \in AllColumns
            /\ \/ t.op = "is_null" /\ t.negated \in BOOLEAN
               \/ t.op = "eq" /\ t.value # Null
  /\ Null \notin Ids /\ Null \notin Documents /\ Null \notin Databases

\* The table as a function from the ids it holds to whole rows.
Row(id, cols) == [c \in AllColumns |-> IF c = "id" THEN id ELSE cols[c]]

\* Mutant: an absent column becomes null.
DocumentWithoutPrevious(row, previous) ==
  [c \in AllColumns |-> IF c \in DOMAIN row THEN row[c] ELSE Null]

\* The stored document: a column the update omits keeps its stored value.
parameter_lookup_row_document(row, previous) ==
  [c \in AllColumns |->
     IF c \in DOMAIN row THEN row[c]
     ELSE IF previous # Null THEN previous[c] ELSE Null]

\* A term is IS [NOT] NULL of a column, or the equality of a column and a string
\* literal: a null column never equals it.
row_predicate_eval(term, doc) ==
  IF term.op = "is_null" THEN (doc[term.column] = Null) # term.negated
  ELSE doc[term.column] # Null /\ doc[term.column] = term.value

row_predicate_matches(l, doc) == \A t \in l.terms : row_predicate_eval(t, doc)

\* collect::<Option<Vec<_>>>: a null key column yields no key.
HasKey(l, doc) == \A i \in 1..Len(l.keys) : doc[l.keys[i]] # Null
KeyOf(l, doc) == [i \in 1..Len(l.keys) |-> doc[l.keys[i]]]
HasPayload(l, doc) == \A c \in l.selected : doc[c] # Null
PayloadOf(l, doc) == [c \in l.selected |-> doc[c]]

\* The index keys under which delete_parameter_lookup_indexes looks.
IndexKeys(id, doc) ==
  {[lookup |-> l, key |-> KeyOf(l, doc), id |-> id] :
     l \in {m \in Lookups : row_predicate_matches(m, doc) /\ HasKey(m, doc)}}

Entry(l, id, doc) ==
  [at |-> [lookup |-> l, key |-> KeyOf(l, doc), id |-> id], payload |-> PayloadOf(l, doc)]

\* The entries put_parameter_lookup_indexes writes.
Entries(id, doc) ==
  {Entry(l, id, doc) :
     l \in {m \in Lookups : row_predicate_matches(m, doc) /\ HasKey(m, doc)
                            /\ HasPayload(m, doc)}}

delete_parameter_lookup_indexes(index, id, doc) ==
  {e \in index : e.at \notin IndexKeys(id, doc)}

\* An upsert replaces the entry under the same key.
put_parameter_lookup_indexes(index, id, doc) ==
  {e \in index : \A n \in Entries(id, doc) : n.at # e.at} \cup Entries(id, doc)

------------------------------------------------------------------------------
\* The operations of a write transaction.

Stored(db, id) == IF id \in DOMAIN db.rows THEN db.rows[id] ELSE Null

With(f, x, v) == [y \in DOMAIN f \cup {x} |-> IF y = x THEN v ELSE f[y]]
WithoutKey(f, x) == [y \in DOMAIN f \ {x} |-> f[y]]

Cleared(db, id) ==
  IF id \in DOMAIN db.rows
  THEN delete_parameter_lookup_indexes(db.index, id, db.rows[id])
  ELSE db.index

\* Mutant: the entries of the previous document stay.
PutKeepsEntries(db, row) ==
  LET doc == parameter_lookup_row_document(row, Stored(db, row["id"]))
  IN  [rows |-> With(db.rows, row["id"], doc),
       index |-> put_parameter_lookup_indexes(db.index, row["id"], doc)]

put_parameter_lookup_row(db, row) ==
  LET doc == parameter_lookup_row_document(row, Stored(db, row["id"]))
  IN  [rows |-> With(db.rows, row["id"], doc),
       index |-> put_parameter_lookup_indexes(Cleared(db, row["id"]), row["id"], doc)]

remove_parameter_lookup_row(db, id) ==
  [rows |-> WithoutKey(db.rows, id), index |-> Cleared(db, id)]

\* The row under the old key goes first when the old tuple names another id.
apply_parameter_lookup_op(db, op) ==
  CASE op.kind = "put" -> put_parameter_lookup_row(db, op.row)
    [] op.kind = "update" ->
         put_parameter_lookup_row(
           IF op.old \notin {Null, op.row["id"]}
             THEN remove_parameter_lookup_row(db, op.old) ELSE db,
           op.row)
    [] OTHER -> remove_parameter_lookup_row(db, op.old)

\* derive_parameter_lookup_ops: one operation per change; TRUNCATE of the table
\* fails the whole batch.
Truncates(batch) == \E i \in 1..Len(batch) : batch[i].kind = "truncate"
Derived(change) ==
  CASE change.kind = "insert" -> [kind |-> "put", row |-> change.row]
    [] change.kind = "update" -> [kind |-> "update", old |-> change.old, row |-> change.row]
    [] change.kind = "delete" -> [kind |-> "remove", old |-> change.old]
derive_parameter_lookup_ops(batch) == [i \in 1..Len(batch) |-> Derived(batch[i])]

------------------------------------------------------------------------------
EmptyStore == [rows |-> [i \in {} |-> Null], index |-> {}]
NoTx(table) == [changes |-> <<>>, post |-> table]

Init ==
  /\ src \in InitialTables
  /\ tx = NoTx(src)
  /\ wal = <<>>
  /\ left = DOMAIN src
  /\ store = EmptyStore
  /\ work = Null
  /\ ops = <<>>
  /\ at = src
  /\ made = 0
  /\ crashes = 0

\* The source: a transaction of inserts, updates, deletes and truncations.

Change(change, post) ==
  /\ made < MaxChanges
  /\ made' = made + 1
  /\ tx' = [changes |-> Append(tx.changes, change), post |-> post]
  /\ UNCHANGED <<src, wal, left, store, work, ops, at, crashes>>

Insert(id, cols) ==
  /\ id \notin DOMAIN tx.post
  /\ Change([kind |-> "insert", row |-> Row(id, cols)], With(tx.post, id, cols))

\* pgoutput omits the out-of-line columns an update leaves alone.
Omitted(id, cols) == {c \in Columns : cols[c] = tx.post[id][c] /\ cols[c] \in Toasted}

\* The old tuple is sent when the key changes, or always (replica identity full).
Update(id, new, cols, full) ==
  /\ id \in DOMAIN tx.post
  /\ new = id \/ new \notin DOMAIN tx.post
  /\ new # id => ToastedKeyChange \/ Omitted(id, cols) = {}
  /\ LET sent == AllColumns \ Omitted(id, cols)
     IN  Change([kind |-> "update", old |-> IF full \/ new # id THEN id ELSE Null,
                 row |-> [c \in sent |-> Row(new, cols)[c]]],
                With(WithoutKey(tx.post, id), new, cols))

Delete(id) ==
  /\ id \in DOMAIN tx.post
  /\ Change([kind |-> "delete", old |-> id], WithoutKey(tx.post, id))

Truncate == Change([kind |-> "truncate"], [i \in {} |-> Null])

SourceCommit ==
  /\ tx.changes # <<>>
  /\ src' = tx.post
  /\ wal' = Append(wal, tx)
  /\ tx' = NoTx(tx.post)
  /\ UNCHANGED <<left, store, work, ops, at, made, crashes>>

------------------------------------------------------------------------------
\* The writer.

CopyOps(order, n, table) ==
  [i \in 1..n |-> [kind |-> "put", row |-> Row(order[i], table[order[i]])]]

\* persist_initial_snapshot_lookup_rows, for one chunk of the snapshot, in the order
\* in which the cursor returns its rows.
BeginCopy(chunk) ==
  /\ work = Null /\ chunk # {} /\ chunk \subseteq left
  /\ work' = store
  /\ \E order \in Bijection(1..Cardinality(chunk), chunk) :
       ops' = CopyOps(order, Cardinality(chunk), at)
  /\ left' = left \ chunk
  /\ UNCHANGED <<src, tx, wal, store, at, made, crashes>>

\* persist_batch: nothing is written when deriving the operations fails, and the
\* runner meets the same batch again.
BeginBatch ==
  /\ work = Null /\ left = {} /\ wal # <<>>
  /\ ~Truncates(Head(wal).changes)
  /\ work' = store
  /\ ops' = derive_parameter_lookup_ops(Head(wal).changes)
  /\ at' = Head(wal).post
  /\ wal' = Tail(wal)
  /\ UNCHANGED <<src, tx, left, store, made, crashes>>

ApplyOp ==
  /\ work # Null /\ ops # <<>>
  /\ work' = apply_parameter_lookup_op(work, Head(ops))
  /\ ops' = Tail(ops)
  /\ UNCHANGED <<src, tx, wal, left, store, at, made, crashes>>

Commit ==
  /\ work # Null /\ ops = <<>>
  /\ store' = work
  /\ work' = Null
  /\ UNCHANGED <<src, tx, wal, left, ops, at, made, crashes>>

\* A crash during the copy: the transaction is lost, the next start resets the
\* store and exports a new snapshot (ReplicationIngest).
CrashDuringCopy ==
  /\ crashes < MaxCrashes
  /\ left # {}
  /\ crashes' = crashes + 1
  /\ store' = EmptyStore /\ work' = Null /\ ops' = <<>>
  /\ at' = src /\ left' = DOMAIN src /\ wal' = <<>>
  /\ UNCHANGED <<src, tx, made>>

Next ==
  \/ \E id \in Ids, cols \in [Columns -> Value] :
       \/ Insert(id, cols)
       \/ \E new \in Ids, full \in BOOLEAN : Update(id, new, cols, full)
  \/ \E id \in Ids : Delete(id)
  \/ Truncate
  \/ SourceCommit
  \/ \E chunk \in SUBSET left : BeginCopy(chunk)
  \/ BeginBatch
  \/ ApplyOp
  \/ Commit
  \/ CrashDuringCopy

Spec == Init /\ [][Next]_vars

------------------------------------------------------------------------------
\* Reads.

Matching(l, key) == {e \in store.index : e.at.lookup = l /\ e.at.key = key}

\* scan_parameter_lookup_entries: all entries, or an error past the limit.
scan_parameter_lookup_entries(l, key) ==
  LET E == Matching(l, key)
  IN  IF Cardinality(E) > MaxEntries THEN "resource limit"
      ELSE {[id |-> e.at.id, payload |-> e.payload] : e \in E}

------------------------------------------------------------------------------
DbOK(db) ==
  /\ DOMAIN db.rows \subseteq Ids
  /\ \A id \in DOMAIN db.rows : db.rows[id] \in Documents
  /\ \A e \in db.index : e.at.lookup \in Lookups /\ e.at.id \in DOMAIN db.rows

TypeOK ==
  /\ DbOK(store)
  /\ work # Null => DbOK(work)
  /\ left \subseteq Ids
  /\ DOMAIN src \subseteq Ids
  /\ made \in 0..MaxChanges /\ crashes \in 0..MaxCrashes

RowEntries(db, ids) == UNION {Entries(id, db.rows[id]) : id \in ids}

IndexOK(db) == db.index = RowEntries(db, DOMAIN db.rows)

\* The index holds exactly the entries of the stored rows, in the store readers
\* see and at every point inside a write transaction: no entry survives the row,
\* the key, the predicate or the selected value that justified it.
IndexFollowsRows == IndexOK(store) /\ (work # Null => IndexOK(work))

\* What PostgreSQL answers for the lookup: the rows of the table at the position
\* of the store whose predicate is true, whose key columns equal the key, and
\* whose selected columns are not null.
TermTrue(term, row) ==
  CASE term.op = "is_null" /\ ~term.negated -> row[term.column] = Null
    [] term.op = "is_null" /\ term.negated -> row[term.column] # Null
    [] term.op = "eq" -> row[term.column] = term.value

Answer(l, key, table) ==
  {[id |-> id, payload |-> [c \in l.selected |-> Row(id, table[id])[c]]] :
     id \in {i \in DOMAIN table :
               LET row == Row(i, table[i])
               IN  /\ \A t \in l.terms : TermTrue(t, row)
                   /\ \A k \in 1..Len(l.keys) : row[l.keys[k]] = key[k]
                   /\ \A c \in l.selected : row[c] # Null}}

Keys(l) == [1..Len(l.keys) -> RowValue \ {Null}]

\* Once the snapshot is copied, a read of the lookup between transactions
\* returns what the SQL of the lookup returns on the source table at the
\* position of the store, or an error when that is too much: never a part of it.
ScanIsQuery ==
  left = {} /\ work = Null =>
    \A l \in Lookups : \A key \in Keys(l) :
      LET A == Answer(l, key, at)
      IN  scan_parameter_lookup_entries(l, key) =
            IF Cardinality(A) > MaxEntries THEN "resource limit" ELSE A

\* An update that omits a column keeps the stored value of the column: "an absent
\* column therefore keeps its previously materialized value instead of
\* collapsing to null".
AbsentColumnKept ==
  left = {} /\ work = Null =>
    \A id \in DOMAIN store.rows : \A c \in Columns :
      store.rows[id][c] = at[id][c]
==============================================================================
