-------------------------- MODULE LookupStateProofs --------------------------
(***************************************************************************)
(* The lookup index follows the stored rows, for every table, every set of *)
(* lookups and every sequence of changes, truncated columns and moved keys *)
(* included.  The invariant is inductive as it stands: each operation of a *)
(* write transaction clears exactly the entries of the row it touches,     *)
(* because an entry carries the id of its row and is found again under the *)
(* keys computed from the stored document.                                 *)
(*                                                                         *)
(* A read is then the query of the lookup.  For that the rows must be      *)
(* those of the source table at the position of the store: the operations  *)
(* of a transaction replay the table before it into the one after it, the  *)
(* transactions of the stream lead from the position of the store to the   *)
(* source, and what a write transaction has not applied yet leads from its *)
(* rows to that position.                                                  *)
(***************************************************************************)
EXTENDS LookupState, FiniteSetTheorems, TLAPS

\* An entry of a row names the row and sits under one of the keys that
\* delete_parameter_lookup_indexes looks up for the same document.
LEMMA EntryKeys ==
  ASSUME NEW id, NEW doc, NEW e \in Entries(id, doc)
  PROVE  e.at.id = id /\ e.at \in IndexKeys(id, doc)
BY DEF Entries, Entry, IndexKeys

\* The keys of a row name the row.
LEMMA KeyId ==
  ASSUME NEW id, NEW doc, NEW k \in IndexKeys(id, doc)
  PROVE  k.id = id
BY DEF IndexKeys

\* Deleting the entries of a stored row leaves exactly those of the others.
LEMMA ClearedIsOthers ==
  ASSUME NEW db, NEW id, IndexOK(db)
  PROVE  Cleared(db, id) = RowEntries(db, DOMAIN db.rows \ {id})
<1>1. CASE id \notin DOMAIN db.rows
  BY <1>1 DEF Cleared, IndexOK
<1>2. CASE id \in DOMAIN db.rows
  <2>1. Cleared(db, id) = {e \in db.index : e.at \notin IndexKeys(id, db.rows[id])}
    BY <1>2 DEF Cleared, delete_parameter_lookup_indexes
  <2>2. ASSUME NEW e, e \in Cleared(db, id)
        PROVE  e \in RowEntries(db, DOMAIN db.rows \ {id})
    <3>1. PICK j \in DOMAIN db.rows : e \in Entries(j, db.rows[j])
      BY <2>1, <2>2 DEF IndexOK, RowEntries
    <3>2. j # id
      BY <2>1, <2>2, <3>1, EntryKeys
    <3> QED BY <3>1, <3>2 DEF RowEntries
  <2>3. ASSUME NEW e, e \in RowEntries(db, DOMAIN db.rows \ {id})
        PROVE  e \in Cleared(db, id)
    <3>1. PICK j \in DOMAIN db.rows \ {id} : e \in Entries(j, db.rows[j])
      BY <2>3 DEF RowEntries
    <3>2. e.at.id # id
      BY <3>1, EntryKeys
    <3>3. e.at \notin IndexKeys(id, db.rows[id])
      BY <3>2, KeyId
    <3>4. e \in db.index
      BY <3>1 DEF IndexOK, RowEntries
    <3> QED BY <2>1, <3>3, <3>4
  <2> QED BY <2>2, <2>3
<1> QED BY <1>1, <1>2

\* remove_parameter_lookup_row preserves the invariant.
LEMMA RemoveOK ==
  ASSUME NEW db, NEW id, IndexOK(db)
  PROVE  IndexOK(remove_parameter_lookup_row(db, id))
<1> DEFINE new == remove_parameter_lookup_row(db, id)
<1>1. /\ new.rows = WithoutKey(db.rows, id)
      /\ new.index = Cleared(db, id)
  BY DEF remove_parameter_lookup_row
<1>2. /\ DOMAIN new.rows = DOMAIN db.rows \ {id}
      /\ \A j \in DOMAIN db.rows \ {id} : new.rows[j] = db.rows[j]
  BY <1>1 DEF WithoutKey
<1> HIDE DEF new
<1>3. RowEntries(new, DOMAIN new.rows) = RowEntries(db, DOMAIN db.rows \ {id})
  BY <1>2 DEF RowEntries
<1>4. IndexOK(new)
  BY <1>1, <1>3, ClearedIsOthers DEF IndexOK
<1> QED BY <1>4 DEF new

\* put_parameter_lookup_row preserves it too.
LEMMA PutOK ==
  ASSUME NEW db, NEW row, IndexOK(db)
  PROVE  IndexOK(put_parameter_lookup_row(db, row))
<1> DEFINE id == row["id"]
           doc == parameter_lookup_row_document(row, Stored(db, id))
           new == put_parameter_lookup_row(db, row)
           others == DOMAIN db.rows \ {id}
<1>1. /\ new.rows = With(db.rows, id, doc)
      /\ new.index = put_parameter_lookup_indexes(Cleared(db, id), id, doc)
  BY DEF put_parameter_lookup_row
<1> HIDE DEF new, doc, id
<1>2. /\ DOMAIN new.rows = DOMAIN db.rows \cup {id}
      /\ new.rows[id] = doc
      /\ \A j \in others : new.rows[j] = db.rows[j]
  BY <1>1 DEF With
<1>3. DOMAIN new.rows = others \cup {id}
  BY <1>2
<1>4. RowEntries(new, DOMAIN new.rows) = RowEntries(db, others) \cup Entries(id, doc)
  BY <1>2, <1>3 DEF RowEntries
<1>5. Cleared(db, id) = RowEntries(db, others)
  BY ClearedIsOthers
<1>6. ASSUME NEW e \in RowEntries(db, others), NEW n \in Entries(id, doc)
      PROVE  n.at # e.at
  <2>1. PICK j \in others : e \in Entries(j, db.rows[j])
    BY <1>6 DEF RowEntries
  <2>2. e.at.id = j /\ n.at.id = id
    BY <2>1, <1>6, EntryKeys
  <2> QED BY <2>1, <2>2
<1>7. new.index = RowEntries(db, others) \cup Entries(id, doc)
  BY Zenon, <1>1, <1>5, <1>6 DEF put_parameter_lookup_indexes
<1>8. IndexOK(new)
  BY <1>4, <1>7 DEF IndexOK
<1> QED BY <1>8 DEF new

\* Every operation of a write transaction preserves it.
LEMMA ApplyOK ==
  ASSUME NEW db, NEW op, IndexOK(db)
  PROVE  IndexOK(apply_parameter_lookup_op(db, op))
<1>1. CASE op.kind = "put"
  BY <1>1, PutOK DEF apply_parameter_lookup_op
<1>2. CASE op.kind = "update"
  <2> DEFINE base == IF op.old \notin {Null, op.row["id"]}
                     THEN remove_parameter_lookup_row(db, op.old) ELSE db
  <2>1. IndexOK(base)
    BY RemoveOK
  <2>2. apply_parameter_lookup_op(db, op) = put_parameter_lookup_row(base, op.row)
    BY <1>2 DEF apply_parameter_lookup_op
  <2> HIDE DEF base
  <2> QED BY <2>1, <2>2, PutOK
<1>3. CASE op.kind \notin {"put", "update"}
  <2>1. apply_parameter_lookup_op(db, op) = remove_parameter_lookup_row(db, op.old)
    BY <1>3 DEF apply_parameter_lookup_op
  <2> QED BY <2>1, RemoveOK
<1> QED BY <1>1, <1>2, <1>3

\* The empty store has an empty index.
LEMMA EmptyOK == IndexOK(EmptyStore)
BY DEF IndexOK, RowEntries, EmptyStore

\* The index holds exactly the entries of the stored rows, in the store readers
\* see and inside every write transaction, for all lookups, tables and changes
\* (put_parameter_lookup_row and remove_parameter_lookup_row).
THEOREM IndexCorrect == Spec => []IndexFollowsRows
<1>1. Init => IndexFollowsRows
  BY EmptyOK DEF Init, IndexFollowsRows
<1>2. IndexFollowsRows /\ [Next]_vars => IndexFollowsRows'
  <2> SUFFICES ASSUME IndexFollowsRows, [Next]_vars
               PROVE  IndexFollowsRows'
    OBVIOUS
  <2> USE DEF IndexFollowsRows
  <2>1. CASE UNCHANGED <<store, work>>
    BY <2>1 DEF IndexOK
  <2>2. CASE \E chunk \in SUBSET left : BeginCopy(chunk)
    BY <2>2 DEF BeginCopy, IndexOK
  <2>3. CASE BeginBatch
    BY <2>3 DEF BeginBatch, IndexOK
  <2>4. CASE ApplyOp
    <3>1. IndexOK(work)
      BY <2>4 DEF ApplyOp
    <3>2. work' = apply_parameter_lookup_op(work, Head(ops)) /\ store' = store
      BY <2>4 DEF ApplyOp
    <3>3. IndexOK(apply_parameter_lookup_op(work, Head(ops)))
      BY <3>1, ApplyOK
    <3> QED BY <3>2, <3>3 DEF IndexOK
  <2>5. CASE Commit
    BY <2>5 DEF Commit, IndexOK
  <2>6. CASE CrashDuringCopy
    BY <2>6, EmptyOK DEF CrashDuringCopy, IndexOK
  <2>7. ASSUME NEW id \in Ids, NEW cols \in [Columns -> Value],
               \/ Insert(id, cols)
               \/ \E new \in Ids, full \in BOOLEAN : Update(id, new, cols, full)
        PROVE  UNCHANGED <<store, work>>
    BY Zenon, <2>7 DEF Insert, Update, Change
  <2>8. ASSUME (\E id \in Ids : Delete(id)) \/ Truncate \/ SourceCommit
        PROVE  UNCHANGED <<store, work>>
    BY Zenon, <2>8 DEF Delete, Truncate, SourceCommit, Change
  <2>9. CASE UNCHANGED vars
    BY <2>1, <2>9 DEF vars
  <2> QED BY <2>1, <2>2, <2>3, <2>4, <2>5, <2>6, <2>7, <2>8, <2>9 DEF Next
<1> QED BY <1>1, <1>2, PTL DEF Spec

------------------------------------------------------------------------------
\* What an operation does to the rows, whatever the index.

StoredIn(R, id) == IF id \in DOMAIN R THEN R[id] ELSE Null

PutRow(R, row) ==
  With(R, row["id"], parameter_lookup_row_document(row, StoredIn(R, row["id"])))

RowsAfter(op, R) ==
  IF op.kind = "put" THEN PutRow(R, op.row)
  ELSE IF op.kind = "update"
       THEN PutRow(IF op.old \notin {Null, op.row["id"]} THEN WithoutKey(R, op.old) ELSE R,
                   op.row)
       ELSE WithoutKey(R, op.old)

IsDb(db) == db = [rows |-> db.rows, index |-> db.index]

\* apply_parameter_lookup_op acts on the rows alone and returns a database.
LEMMA ApplyRows ==
  ASSUME NEW db, NEW op
  PROVE  /\ apply_parameter_lookup_op(db, op).rows = RowsAfter(op, db.rows)
         /\ IsDb(apply_parameter_lookup_op(db, op))
<1>1. ASSUME NEW d, NEW row
      PROVE  /\ put_parameter_lookup_row(d, row).rows = PutRow(d.rows, row)
             /\ IsDb(put_parameter_lookup_row(d, row))
  BY Zenon DEF put_parameter_lookup_row, PutRow, Stored, StoredIn, IsDb
<1>2. ASSUME NEW d, NEW id
      PROVE  /\ remove_parameter_lookup_row(d, id).rows = WithoutKey(d.rows, id)
             /\ IsDb(remove_parameter_lookup_row(d, id))
  BY DEF remove_parameter_lookup_row, IsDb
<1>3. CASE op.kind = "put"
  BY <1>1, <1>3 DEF apply_parameter_lookup_op, RowsAfter
<1>4. CASE op.kind = "update"
  <2> DEFINE base == IF op.old \notin {Null, op.row["id"]}
                     THEN remove_parameter_lookup_row(db, op.old) ELSE db
  <2>1. base.rows = IF op.old \notin {Null, op.row["id"]}
                    THEN WithoutKey(db.rows, op.old) ELSE db.rows
    BY <1>2
  <2>2. apply_parameter_lookup_op(db, op) = put_parameter_lookup_row(base, op.row)
    BY <1>4 DEF apply_parameter_lookup_op
  <2>3. RowsAfter(op, db.rows) = PutRow(base.rows, op.row)
    BY <1>4, <2>1 DEF RowsAfter
  <2> HIDE DEF base
  <2> QED BY <1>1, <2>2, <2>3
<1>5. CASE op.kind \notin {"put", "update"}
  BY <1>2, <1>5 DEF apply_parameter_lookup_op, RowsAfter
<1> QED BY <1>3, <1>4, <1>5

\* The messages of the stream and the operations derived from them.
SentRows ==
  {r \in UNION {[S -> RowValue] : S \in SUBSET AllColumns} : "id" \in DOMAIN r /\ r["id"] \in Ids}

ChangeSet ==
  [kind : {"insert"}, row : SentRows]
  \cup [kind : {"update"}, old : Ids \cup {Null}, row : SentRows]
  \cup [kind : {"delete"}, old : Ids]
  \cup [kind : {"truncate"}]

OpSet ==
  [kind : {"put"}, row : SentRows]
  \cup [kind : {"update"}, old : Ids \cup {Null}, row : SentRows]
  \cup [kind : {"remove"}, old : Ids]

DocTables == UNION {[S -> Documents] : S \in SUBSET Ids}

\* A change that is no truncation yields an operation.
LEMMA DerivedType ==
  ASSUME NEW c \in ChangeSet, c.kind # "truncate"
  PROVE  Derived(c) \in OpSet
<1>1. CASE c \in [kind : {"insert"}, row : SentRows]
  BY <1>1 DEF Derived, OpSet
<1>2. CASE c \in [kind : {"update"}, old : Ids \cup {Null}, row : SentRows]
  BY <1>2 DEF Derived, OpSet
<1>3. CASE c \in [kind : {"delete"}, old : Ids]
  BY <1>3 DEF Derived, OpSet
<1> QED BY <1>1, <1>2, <1>3 DEF ChangeSet

\* Documents stay documents under a put and under a removal.
LEMMA PutType ==
  ASSUME NEW R \in DocTables, NEW row \in SentRows
  PROVE  PutRow(R, row) \in DocTables
<1> DEFINE id == row["id"]
           doc == parameter_lookup_row_document(row, StoredIn(R, id))
<1>1. id \in Ids /\ DOMAIN row \subseteq AllColumns /\ \A c \in DOMAIN row : row[c] \in RowValue
  BY DEF SentRows
<1>2. DOMAIN R \subseteq Ids /\ \A i \in DOMAIN R : R[i] \in Documents
  BY DEF DocTables
<1>3. StoredIn(R, id) # Null => StoredIn(R, id) \in Documents
  BY <1>2 DEF StoredIn
<1>4. doc \in Documents
  BY <1>1, <1>3 DEF parameter_lookup_row_document, Documents, RowValue, Value
<1> HIDE DEF doc, id
<1>5. With(R, id, doc) \in [DOMAIN R \cup {id} -> Documents]
  BY <1>2, <1>4 DEF With
<1> QED BY <1>1, <1>2, <1>5 DEF PutRow, DocTables, doc, id

LEMMA RemoveType ==
  ASSUME NEW R \in DocTables, NEW id
  PROVE  WithoutKey(R, id) \in DocTables
<1>1. DOMAIN R \subseteq Ids /\ \A i \in DOMAIN R : R[i] \in Documents
  BY DEF DocTables
<1>2. WithoutKey(R, id) \in [DOMAIN R \ {id} -> Documents]
  BY <1>1 DEF WithoutKey
<1> QED BY <1>1, <1>2 DEF DocTables

LEMMA RowsType ==
  ASSUME NEW R \in DocTables, NEW op \in OpSet
  PROVE  RowsAfter(op, R) \in DocTables
<1>1. CASE op \in [kind : {"put"}, row : SentRows]
  BY <1>1, PutType DEF RowsAfter
<1>2. CASE op \in [kind : {"update"}, old : Ids \cup {Null}, row : SentRows]
  <2> DEFINE base == IF op.old \notin {Null, op.row["id"]} THEN WithoutKey(R, op.old) ELSE R
  <2>1. base \in DocTables
    BY RemoveType
  <2>2. RowsAfter(op, R) = PutRow(base, op.row) /\ op.row \in SentRows
    BY <1>2 DEF RowsAfter
  <2> HIDE DEF base
  <2> QED BY <2>1, <2>2, PutType
<1>3. CASE op \in [kind : {"remove"}, old : Ids]
  BY <1>3, RemoveType DEF RowsAfter
<1> QED BY <1>1, <1>2, <1>3 DEF OpSet

------------------------------------------------------------------------------
\* The operations of w, applied one after another, turn the rows R into S.
Replays(w, R, S) ==
  \E T : /\ T[0] = R /\ T[Len(w)] = S
         /\ \A i \in 1..Len(w) : T[i] = RowsAfter(w[i], T[i - 1])

\* Without operations the rows are what they were.
LEMMA ReplaysNothing ==
  ASSUME NEW R, NEW S
  PROVE  Replays(<<>>, R, S) <=> R = S
<1>1. Replays(<<>>, R, S) => R = S
  BY DEF Replays
<1>2. ASSUME R = S PROVE Replays(<<>>, R, S)
  <2> DEFINE T == [i \in {0} |-> R]
  <2>1. T[0] = R /\ Len(<<>>) = 0
    OBVIOUS
  <2> HIDE DEF T
  <2>2. T[Len(<<>>)] = S /\ \A i \in 1..Len(<<>>) : T[i] = RowsAfter(<<>>[i], T[i - 1])
    BY <1>2, <2>1
  <2> QED BY Zenon, <2>1, <2>2 DEF Replays
<1> QED BY <1>1, <1>2

\* One more operation.
LEMMA ReplaysAppend ==
  ASSUME NEW w \in Seq(OpSet), NEW R, NEW S, NEW op \in OpSet, Replays(w, R, S)
  PROVE  Replays(Append(w, op), R, RowsAfter(op, S))
<1>1. PICK T : /\ T[0] = R /\ T[Len(w)] = S
               /\ \A i \in 1..Len(w) : T[i] = RowsAfter(w[i], T[i - 1])
  BY DEF Replays
<1> DEFINE n == Len(w)
           v == Append(w, op)
           U == [i \in 0..(n + 1) |-> IF i = n + 1 THEN RowsAfter(op, S) ELSE T[i]]
<1>2. /\ n \in Nat /\ Len(v) = n + 1 /\ v[n + 1] = op
      /\ \A i \in 1..n : v[i] = w[i]
  OBVIOUS
<1>3. U[0] = R /\ U[n + 1] = RowsAfter(op, S) /\ \A i \in 0..n : U[i] = T[i]
  BY <1>1, <1>2
<1> HIDE DEF n, v, U
<1>4. ASSUME NEW i \in 1..(n + 1)
      PROVE  U[i] = RowsAfter(v[i], U[i - 1])
  <2>1. CASE i \in 1..n
    <3>1. U[i] = T[i] /\ U[i - 1] = T[i - 1] /\ v[i] = w[i]
      BY <1>2, <1>3, <2>1
    <3> QED BY <1>1, <2>1, <3>1 DEF n
  <2>2. CASE i = n + 1
    <3>1. U[i - 1] = S
      BY <1>1, <1>2, <1>3, <2>2 DEF n
    <3> QED BY <1>2, <1>3, <2>2, <3>1
  <2> QED BY <1>2, <2>1, <2>2
<1>5. Replays(v, R, RowsAfter(op, S))
  BY <1>2, <1>3, <1>4 DEF Replays
<1> QED BY <1>5 DEF v

\* The first operation is applied.
LEMMA ReplaysTail ==
  ASSUME NEW w \in Seq(OpSet), w # <<>>, NEW R, NEW S, Replays(w, R, S)
  PROVE  Replays(Tail(w), RowsAfter(Head(w), R), S)
<1>1. PICK T : /\ T[0] = R /\ T[Len(w)] = S
               /\ \A i \in 1..Len(w) : T[i] = RowsAfter(w[i], T[i - 1])
  BY DEF Replays
<1> DEFINE n == Len(w)
           v == Tail(w)
           U == [i \in 0..(n - 1) |-> T[i + 1]]
<1>2. /\ n \in Nat \ {0} /\ Len(v) = n - 1 /\ Head(w) = w[1]
      /\ \A i \in 1..(n - 1) : v[i] = w[i + 1]
  OBVIOUS
<1>3. \A i \in 0..(n - 1) : U[i] = T[i + 1]
  OBVIOUS
<1> HIDE DEF n, v, U
<1>4. U[0] = RowsAfter(Head(w), R)
  BY <1>1, <1>2, <1>3 DEF n
<1>5. U[n - 1] = S
  BY <1>1, <1>2, <1>3 DEF n
<1>6. ASSUME NEW i \in 1..(n - 1)
      PROVE  U[i] = RowsAfter(v[i], U[i - 1])
  <2>1. i + 1 \in 1..n /\ U[i] = T[i + 1] /\ U[i - 1] = T[i] /\ v[i] = w[i + 1]
    BY <1>2, <1>3
  <2>2. T[i + 1] = RowsAfter(w[i + 1], T[(i + 1) - 1])
    BY <1>1, <2>1 DEF n
  <2> QED BY <2>1, <2>2
<1>7. Replays(v, RowsAfter(Head(w), R), S)
  BY <1>2, <1>4, <1>5, <1>6 DEF Replays
<1> QED BY <1>7 DEF v

------------------------------------------------------------------------------
\* A table as the documents of its rows.
Docs(T) == [i \in DOMAIN T |-> Row(i, T[i])]

\* The columns of a table's rows.
LEMMA TableRows ==
  ASSUME NEW T \in Tables
  PROVE  /\ DOMAIN T \subseteq Ids
         /\ \A i \in DOMAIN T : T[i] \in [Columns -> Value]
         /\ T = [i \in DOMAIN T |-> T[i]]
BY DEF Tables

\* Whole rows are documents and may be sent.
LEMMA RowType ==
  ASSUME NEW id \in Ids, NEW cols \in [Columns -> Value]
  PROVE  /\ Row(id, cols) \in Documents
         /\ Row(id, cols) \in SentRows
         /\ Row(id, cols)["id"] = id
<1>1. Row(id, cols) \in Documents
  BY DEF Row, Documents, AllColumns, RowValue
<1>2. Row(id, cols)["id"] = id
  BY DEF Row, AllColumns
<1>3. Row(id, cols) \in SentRows
  BY <1>1, <1>2 DEF SentRows, Documents, AllColumns
<1> QED BY <1>1, <1>2, <1>3

\* A put of a whole row stores the row.
LEMMA PutWhole ==
  ASSUME NEW R, NEW id \in Ids, NEW cols \in [Columns -> Value]
  PROVE  PutRow(R, Row(id, cols)) = With(R, id, Row(id, cols))
<1>1. parameter_lookup_row_document(Row(id, cols), StoredIn(R, id)) = Row(id, cols)
  BY DEF parameter_lookup_row_document, Row
<1> QED BY <1>1, RowType DEF PutRow

LEMMA DocsWith ==
  ASSUME NEW T \in Tables, NEW id \in Ids, NEW cols \in [Columns -> Value]
  PROVE  /\ With(T, id, cols) \in Tables
         /\ Docs(With(T, id, cols)) = With(Docs(T), id, Row(id, cols))
<1>1. With(T, id, cols) \in [DOMAIN T \cup {id} -> [Columns -> Value]]
  BY TableRows DEF With
<1>2. DOMAIN T \cup {id} \in SUBSET Ids
  BY TableRows
<1> QED BY Zenon, <1>1, <1>2 DEF Tables, Docs, With

LEMMA DocsWithout ==
  ASSUME NEW T \in Tables, NEW id
  PROVE  /\ WithoutKey(T, id) \in Tables
         /\ Docs(WithoutKey(T, id)) = WithoutKey(Docs(T), id)
<1>1. WithoutKey(T, id) \in [DOMAIN T \ {id} -> [Columns -> Value]]
  BY TableRows DEF WithoutKey
<1>2. DOMAIN T \ {id} \in SUBSET Ids
  BY TableRows
<1> QED BY <1>1, <1>2 DEF Tables, Docs, WithoutKey

\* The message of an update, and what it makes of the stored rows: a column it omits
\* is one the update leaves alone, so the stored document supplies its value.
UpdateMessage(id, new, cols, full) ==
  [kind |-> "update", old |-> IF full \/ new # id THEN id ELSE Null,
   row |-> [c \in AllColumns \ Omitted(id, cols) |-> Row(new, cols)[c]]]

LEMMA UpdateEffect ==
  ASSUME tx.post \in Tables, NEW id \in DOMAIN tx.post, NEW new \in Ids,
         NEW cols \in [Columns -> Value], NEW full \in BOOLEAN,
         new # id => Omitted(id, cols) = {}
  PROVE  /\ UpdateMessage(id, new, cols, full) \in ChangeSet
         /\ RowsAfter(Derived(UpdateMessage(id, new, cols, full)), Docs(tx.post)) =
              Docs(With(WithoutKey(tx.post, id), new, cols))
<1> DEFINE R == Docs(tx.post)
           sent == AllColumns \ Omitted(id, cols)
           row == [c \in sent |-> Row(new, cols)[c]]
           old == IF full \/ new # id THEN id ELSE Null
           goal == With(WithoutKey(R, id), new, Row(new, cols))
<1>1. id \in Ids /\ tx.post[id] \in [Columns -> Value] /\ id \in DOMAIN R /\ R[id] = Row(id, tx.post[id])
  BY TableRows DEF Docs
<1>2. Docs(With(WithoutKey(tx.post, id), new, cols)) = goal
  BY DocsWith, DocsWithout
<1>3. "id" \in sent /\ sent \subseteq AllColumns
  BY LookupAssumption DEF AllColumns, Omitted
<1>4. row["id"] = new /\ DOMAIN row = sent
  BY <1>3, RowType
<1>5. row \in SentRows
  <2>1. \A c \in sent : Row(new, cols)[c] \in RowValue
    BY <1>3, RowType DEF Documents
  <2>2. row \in [sent -> RowValue]
    BY <2>1
  <2> QED BY Zenon, <1>3, <1>4, <2>2 DEF SentRows
<1>6. UpdateMessage(id, new, cols, full) = [kind |-> "update", old |-> old, row |-> row]
  BY DEF UpdateMessage
<1>7. old \in Ids \cup {Null}
  BY <1>1
<1>8. \A c \in sent : row[c] = Row(new, cols)[c]
  OBVIOUS
<1> HIDE DEF row
<1>9. UpdateMessage(id, new, cols, full) \in ChangeSet
  BY <1>5, <1>6, <1>7 DEF ChangeSet
<1>10. RowsAfter(Derived(UpdateMessage(id, new, cols, full)), R) =
         PutRow(IF old \notin {Null, new} THEN WithoutKey(R, old) ELSE R, row)
  BY <1>4, <1>6 DEF Derived, RowsAfter
<1>11. CASE new # id
  <2>1. old = id /\ id # Null /\ sent = AllColumns
    BY Zenon, <1>1, <1>11, LookupAssumption DEF Omitted
  <2>2. row = Row(new, cols)
    BY <2>1 DEF row, Row
  <2>3. RowsAfter(Derived(UpdateMessage(id, new, cols, full)), R) =
          PutRow(WithoutKey(R, id), Row(new, cols))
    BY <1>10, <1>11, <2>1, <2>2
  <2> QED BY <1>2, <1>9, <2>3, PutWhole
<1>12. CASE new = id
  <2>1. RowsAfter(Derived(UpdateMessage(id, new, cols, full)), R) = PutRow(R, row)
    BY <1>10, <1>12
  <2>2. StoredIn(R, id) = Row(id, tx.post[id]) /\ Row(id, tx.post[id]) # Null
    BY <1>1, RowType, LookupAssumption DEF StoredIn
  <2>3. ASSUME NEW c \in AllColumns \ sent
        PROVE  Row(id, tx.post[id])[c] = Row(new, cols)[c]
    <3>1. c \in Columns /\ cols[c] = tx.post[id][c] /\ c # "id" /\ c \in AllColumns
      BY Zenon, LookupAssumption DEF Omitted, AllColumns
    <3> QED BY <3>1 DEF Row
  <2>4. parameter_lookup_row_document(row, StoredIn(R, id)) = Row(new, cols)
    <3> DEFINE previous == Row(id, tx.post[id])
    <3>1. \A c \in AllColumns : c \notin sent => previous[c] = Row(new, cols)[c]
      BY <2>3
    <3>2. Row(new, cols) = [c \in AllColumns |-> Row(new, cols)[c]]
      BY DEF Row
    <3> HIDE DEF previous
    <3> QED BY <1>4, <1>8, <2>2, <3>1, <3>2 DEF parameter_lookup_row_document, previous
  <2>5. PutRow(R, row) = With(R, id, Row(new, cols))
    BY Zenon, <1>4, <1>12, <2>4 DEF PutRow
  <2>6. With(R, id, Row(new, cols)) = goal
    BY Zenon, <1>1, <1>12 DEF With, WithoutKey
  <2> QED BY <1>2, <1>9, <2>1, <2>5, <2>6
<1> QED BY <1>11, <1>12

------------------------------------------------------------------------------
\* What a transaction does: unless it truncates, its operations turn the table before
\* it into the table after it.
TxnSet == [changes : Seq(ChangeSet), post : Tables]

TxnOK(txn, T) ==
  ~Truncates(txn.changes) =>
    Replays(derive_parameter_lookup_ops(txn.changes), Docs(T), Docs(txn.post))

\* The operations of a batch without truncation.
LEMMA DeriveType ==
  ASSUME NEW s \in Seq(ChangeSet), ~Truncates(s)
  PROVE  derive_parameter_lookup_ops(s) \in Seq(OpSet)
<1>1. \A i \in 1..Len(s) : s[i] \in ChangeSet /\ s[i].kind # "truncate"
  BY DEF Truncates
<1>2. \A i \in 1..Len(s) : Derived(s[i]) \in OpSet
  BY <1>1, DerivedType
<1>3. Len(s) \in Nat
  OBVIOUS
<1> QED BY <1>2, <1>3 DEF derive_parameter_lookup_ops

LEMMA DeriveAppend ==
  ASSUME NEW s \in Seq(ChangeSet), NEW c \in ChangeSet, ~Truncates(Append(s, c))
  PROVE  /\ ~Truncates(s) /\ c.kind # "truncate"
         /\ derive_parameter_lookup_ops(Append(s, c)) =
              Append(derive_parameter_lookup_ops(s), Derived(c))
<1> DEFINE n == Len(s)
           v == Append(s, c)
<1>1. /\ n \in Nat /\ Len(v) = n + 1 /\ v[n + 1] = c
      /\ \A i \in 1..n : v[i] = s[i]
  OBVIOUS
<1>2. \A i \in 1..(n + 1) : v[i].kind # "truncate"
  BY <1>1 DEF Truncates
<1> HIDE DEF v
<1>3. ~Truncates(s) /\ c.kind # "truncate"
  BY <1>1, <1>2 DEF Truncates
<1>4. derive_parameter_lookup_ops(s) \in Seq(OpSet) /\ Derived(c) \in OpSet
  BY <1>3, DeriveType, DerivedType
<1>5. derive_parameter_lookup_ops(v) = Append(derive_parameter_lookup_ops(s), Derived(c))
  <2> DEFINE d == derive_parameter_lookup_ops(s)
             e == derive_parameter_lookup_ops(v)
  <2>1. Len(d) = n /\ \A i \in 1..n : d[i] = Derived(s[i])
    BY <1>1 DEF derive_parameter_lookup_ops
  <2>2. e = [i \in 1..(n + 1) |-> Derived(v[i])]
    BY <1>1 DEF derive_parameter_lookup_ops
  <2>3. d \in Seq(OpSet)
    BY <1>4
  <2> HIDE DEF d, e, n
  <2>4. Append(d, Derived(c)) = [i \in 1..(n + 1) |-> IF i = n + 1 THEN Derived(c) ELSE d[i]]
    <3> DEFINE a == Append(d, Derived(c))
    <3>1. a \in Seq(OpSet) /\ Len(a) = n + 1
      BY <1>4, <2>1, <2>3
    <3>2. \A i \in 1..(n + 1) : a[i] = IF i = n + 1 THEN Derived(c) ELSE d[i]
      BY <1>1, <1>4, <2>1, <2>3
    <3> HIDE DEF a
    <3>3. a = [i \in 1..(n + 1) |-> a[i]]
      BY <3>1
    <3>4. a = [i \in 1..(n + 1) |-> IF i = n + 1 THEN Derived(c) ELSE d[i]]
      BY <3>2, <3>3
    <3> QED BY <3>4 DEF a
  <2>5. \A i \in 1..(n + 1) : Derived(v[i]) = IF i = n + 1 THEN Derived(c) ELSE d[i]
    BY <1>1, <2>1
  <2>6. e = Append(d, Derived(c))
    BY <2>2, <2>4, <2>5
  <2> QED BY <2>6 DEF d, e
<1> QED BY <1>3, <1>5 DEF v

\* A change appended to the open transaction.
LEMMA TxnAppend ==
  ASSUME NEW txn \in TxnSet, NEW T, TxnOK(txn, T), NEW c \in ChangeSet, NEW post,
         c.kind # "truncate" => RowsAfter(Derived(c), Docs(txn.post)) = Docs(post)
  PROVE  TxnOK([changes |-> Append(txn.changes, c), post |-> post], T)
<1> SUFFICES ASSUME ~Truncates(Append(txn.changes, c))
             PROVE  Replays(derive_parameter_lookup_ops(Append(txn.changes, c)),
                            Docs(T), Docs(post))
  BY DEF TxnOK
<1>1. txn.changes \in Seq(ChangeSet)
  BY DEF TxnSet
<1>2. /\ ~Truncates(txn.changes) /\ c.kind # "truncate"
      /\ derive_parameter_lookup_ops(Append(txn.changes, c)) =
           Append(derive_parameter_lookup_ops(txn.changes), Derived(c))
  BY <1>1, DeriveAppend
<1>3. derive_parameter_lookup_ops(txn.changes) \in Seq(OpSet) /\ Derived(c) \in OpSet
  BY <1>1, <1>2, DeriveType, DerivedType
<1>4. Replays(derive_parameter_lookup_ops(txn.changes), Docs(T), Docs(txn.post))
  BY <1>2 DEF TxnOK
<1>5. RowsAfter(Derived(c), Docs(txn.post)) = Docs(post)
  BY <1>2
<1> QED BY Zenon, <1>2, <1>3, <1>4, <1>5, ReplaysAppend

\* A transaction without changes.
LEMMA TxnNothing ==
  ASSUME NEW T \in Tables
  PROVE  NoTx(T) \in TxnSet /\ TxnOK(NoTx(T), T)
<1>1. derive_parameter_lookup_ops(<<>>) = <<>>
  BY DEF derive_parameter_lookup_ops
<1>2. Replays(<<>>, Docs(T), Docs(T))
  BY ReplaysNothing
<1> QED BY <1>1, <1>2 DEF NoTx, TxnSet, TxnOK

\* The transactions of w lead from the table T to the table S.
Before(w, T, i) == IF i = 1 THEN T ELSE w[i - 1].post
Leads(w, T, S) ==
  /\ \A i \in 1..Len(w) : TxnOK(w[i], Before(w, T, i))
  /\ S = IF w = <<>> THEN T ELSE w[Len(w)].post

LEMMA LeadsAppend ==
  ASSUME NEW w \in Seq(TxnSet), NEW T, NEW S, NEW txn \in TxnSet, Leads(w, T, S), TxnOK(txn, S)
  PROVE  Leads(Append(w, txn), T, txn.post)
<1> DEFINE n == Len(w)
           v == Append(w, txn)
<1>1. /\ n \in Nat /\ Len(v) = n + 1 /\ v[n + 1] = txn /\ v # <<>>
      /\ \A i \in 1..n : v[i] = w[i]
      /\ w = <<>> <=> n = 0
  OBVIOUS
<1> HIDE DEF v, n
<1>2. ASSUME NEW i \in 1..(n + 1)
      PROVE  TxnOK(v[i], Before(v, T, i))
  <2>1. CASE i \in 1..n
    <3>1. v[i] = w[i] /\ Before(v, T, i) = Before(w, T, i)
      BY <1>1, <2>1 DEF Before
    <3> QED BY <2>1, <3>1 DEF Leads, n
  <2>2. CASE i = n + 1
    <3>1. Before(v, T, i) = S
      BY <1>1, <2>2 DEF Before, Leads, n
    <3> QED BY <1>1, <2>2, <3>1
  <2> QED BY <1>1, <2>1, <2>2
<1>3. Leads(v, T, txn.post)
  BY <1>1, <1>2 DEF Leads
<1> QED BY <1>3 DEF v

LEMMA LeadsTail ==
  ASSUME NEW w \in Seq(TxnSet), NEW T, NEW S, w # <<>>, Leads(w, T, S)
  PROVE  TxnOK(Head(w), T) /\ Leads(Tail(w), Head(w).post, S)
<1> DEFINE n == Len(w)
           v == Tail(w)
           h == Head(w)
<1>1. /\ n \in Nat \ {0} /\ Len(v) = n - 1 /\ h = w[1]
      /\ \A i \in 1..(n - 1) : v[i] = w[i + 1]
      /\ v \in Seq(TxnSet)
  OBVIOUS
<1> HIDE DEF v, n, h
<1>2. TxnOK(h, T)
  BY <1>1 DEF Leads, Before, n
<1>3. ASSUME NEW i \in 1..(n - 1)
      PROVE  TxnOK(v[i], Before(v, h.post, i))
  <2>1. i + 1 \in 1..n /\ v[i] = w[i + 1] /\ (i # 1 => v[i - 1] = w[i])
    BY <1>1
  <2>2. Before(v, h.post, i) = Before(w, T, i + 1)
    <3>1. i + 1 # 1 /\ (i + 1) - 1 = i
      OBVIOUS
    <3> QED BY Zenon, <1>1, <2>1, <3>1 DEF Before
  <2> QED BY <2>1, <2>2 DEF Leads, n
<1>4. S = IF v = <<>> THEN h.post ELSE v[Len(v)].post
  <2>1. v = <<>> <=> n = 1
    BY <1>1
  <2>2. n # 1 => v[n - 1] = w[n]
    BY <1>1
  <2>3. S = w[n].post
    BY DEF Leads, n
  <2> QED BY <1>1, <2>1, <2>2, <2>3
<1>5. Leads(v, h.post, S)
  BY Zenon, <1>1, <1>3, <1>4 DEF Leads
<1> QED BY <1>2, <1>5 DEF v, h

------------------------------------------------------------------------------
\* The documents of the rows of T outside the ids in L.
Partly(T, L) == [i \in DOMAIN T \ L |-> Row(i, T[i])]

\* Copying a chunk of the snapshot adds the rows of the chunk.
LEMMA CopyEffect ==
  ASSUME NEW T \in Tables, NEW L \in SUBSET DOMAIN T, NEW chunk \in SUBSET L,
         NEW n \in Nat, NEW f \in Bijection(1..n, chunk)
  PROVE  /\ CopyOps(f, n, T) \in Seq(OpSet)
         /\ Replays(CopyOps(f, n, T), Partly(T, L), Partly(T, L \ chunk))
<1> DEFINE w == CopyOps(f, n, T)
           Put(i) == {f[k] : k \in 1..i}
           F == [i \in 0..n |-> Partly(T, L \ Put(i))]
<1>2. /\ f \in [1..n -> chunk]
      /\ \A x \in chunk : \E i \in 1..n : f[i] = x
  BY DEF Bijection, Injection, Surjection
<1>3. ASSUME NEW i \in 1..n
      PROVE  /\ f[i] \in chunk /\ f[i] \in Ids /\ T[f[i]] \in [Columns -> Value]
             /\ f[i] \in DOMAIN T
  BY <1>2, TableRows
<1>4. /\ w = [i \in 1..n |-> [kind |-> "put", row |-> Row(f[i], T[f[i]])]]
      /\ DOMAIN w = 1..n
  BY Zenon DEF CopyOps
<1>5. w \in Seq(OpSet) /\ Len(w) = n
  <2>1. \A i \in 1..n : [kind |-> "put", row |-> Row(f[i], T[f[i]])] \in OpSet
    BY Zenon, <1>3, RowType DEF OpSet
  <2> HIDE DEF w
  <2> QED BY <1>2, <1>4, <2>1
<1>6. \A i \in 0..n : F[i] = Partly(T, L \ Put(i))
  OBVIOUS
<1>7. Put(0) = {} /\ Put(n) = chunk
  BY <1>2
<1> HIDE DEF w, F
<1>8. ASSUME NEW i \in 1..n
      PROVE  F[i] = RowsAfter(w[i], F[i - 1])
  <2> DEFINE A == L \ Put(i - 1)
             id == f[i]
  <2>1. Put(i) = Put(i - 1) \cup {id}
    BY <1>2
  <2>2. id \in DOMAIN T /\ i - 1 \in 0..n /\ i \in 0..n
    BY <1>2, <1>3
  <2>3. F[i - 1] = Partly(T, A) /\ F[i] = Partly(T, A \ {id})
    BY Zenon, <1>6, <2>1, <2>2
  <2>4. w[i] = [kind |-> "put", row |-> Row(id, T[id])]
    BY <1>4
  <2>5. RowsAfter(w[i], F[i - 1]) = PutRow(F[i - 1], Row(id, T[id]))
    BY <2>4 DEF RowsAfter
  <2>6. RowsAfter(w[i], F[i - 1]) = With(F[i - 1], id, Row(id, T[id]))
    BY Zenon, <1>3, <2>5, PutWhole
  <2> HIDE DEF A, id
  <2>7. With(Partly(T, A), id, Row(id, T[id])) = Partly(T, A \ {id})
    BY <2>2 DEF With, Partly
  <2> QED BY Zenon, <2>3, <2>6, <2>7
<1>9. F[0] = Partly(T, L) /\ F[Len(w)] = Partly(T, L \ chunk)
  <2>1. L \ {} = L
    OBVIOUS
  <2> QED BY <1>2, <1>5, <1>6, <1>7, <2>1
<1>10. Replays(w, Partly(T, L), Partly(T, L \ chunk))
  BY Zenon, <1>5, <1>8, <1>9 DEF Replays
<1> QED BY <1>5, <1>10 DEF w

LEMMA PartlyType ==
  ASSUME NEW T \in Tables, NEW L
  PROVE  /\ Partly(T, L) \in DocTables
         /\ Partly(T, {}) = Docs(T)
<1>1. \A i \in DOMAIN T \ L : Row(i, T[i]) \in Documents
  BY TableRows, RowType
<1>2. Partly(T, L) \in [DOMAIN T \ L -> Documents] /\ DOMAIN T \ L \in SUBSET Ids
  BY <1>1, TableRows DEF Partly
<1> QED BY Zenon, <1>2 DEF DocTables, Partly, Docs

\* A database whose index follows its rows is not Null.
LEMMA DatabaseNotNull ==
  ASSUME NEW db, IsDb(db), db.rows \in DocTables, IndexOK(db)
  PROVE  db # Null
<1> DEFINE EntrySet == UNION {[at : [lookup : {l}, key : [1..Len(l.keys) -> RowValue], id : Ids],
                               payload : [l.selected -> RowValue]] : l \in Lookups}
<1>1. ASSUME NEW e \in db.index
      PROVE  e \in EntrySet
  <2>1. PICK id \in DOMAIN db.rows : e \in Entries(id, db.rows[id])
    BY DEF IndexOK, RowEntries
  <2>2. id \in Ids /\ db.rows[id] \in Documents
    BY <2>1 DEF DocTables
  <2>3. PICK l \in Lookups : e = Entry(l, id, db.rows[id])
    BY <2>1 DEF Entries
  <2>4. KeyOf(l, db.rows[id]) \in [1..Len(l.keys) -> RowValue]
    <3>1. \A i \in 1..Len(l.keys) : l.keys[i] \in AllColumns
      BY LookupAssumption
    <3> QED BY <2>2, <3>1 DEF KeyOf, Documents
  <2>5. PayloadOf(l, db.rows[id]) \in [l.selected -> RowValue]
    BY Zenon, <2>2, LookupAssumption DEF PayloadOf, Documents
  <2>6. e \in [at : [lookup : {l}, key : [1..Len(l.keys) -> RowValue], id : Ids],
               payload : [l.selected -> RowValue]]
    BY Zenon, <2>2, <2>3, <2>4, <2>5 DEF Entry
  <2> QED BY Zenon, <2>6
<1>2. db.index \in SUBSET EntrySet
  BY Zenon, <1>1
<1> HIDE DEF EntrySet
<1>3. db \in [rows : DocTables, index : SUBSET EntrySet]
  BY <1>2 DEF IsDb
<1> QED BY Zenon, <1>3, LookupAssumption DEF Databases, DocTables, EntrySet

------------------------------------------------------------------------------
\* The source: what is committed and not yet applied leads from the table at the
\* position of the store to the table of the source.
SourceInv ==
  /\ src \in Tables /\ at \in Tables /\ tx \in TxnSet /\ wal \in Seq(TxnSet)
  /\ left \in SUBSET DOMAIN at
  /\ TxnOK(tx, src)
  /\ Leads(wal, at, src)

\* The store: outside a write transaction the rows are those of the table at its
\* position, as far as they are copied; inside one, what is left to apply makes them
\* so.
StoreInv ==
  /\ IsDb(store) /\ ops \in Seq(OpSet)
  /\ work = Null => store.rows = Partly(at, left)
  /\ work # Null => /\ IsDb(work) /\ work.rows \in DocTables
                    /\ Replays(ops, work.rows, Partly(at, left))

ScanInv == IndexFollowsRows /\ SourceInv /\ StoreInv

LEMMA ScanInit == Init => SourceInv /\ StoreInv
<1> SUFFICES ASSUME Init PROVE SourceInv /\ StoreInv
  OBVIOUS
<1>1. src \in Tables
  BY Zenon, LookupAssumption DEF Init
<1>2. SourceInv
  BY <1>1, TxnNothing DEF Init, SourceInv, Leads
<1>3. StoreInv
  BY DEF Init, StoreInv, EmptyStore, IsDb, Partly
<1> QED BY <1>2, <1>3

\* A change of the open source transaction.
LEMMA ChangeKeeps ==
  ASSUME ScanInv, NEW c \in ChangeSet, NEW post \in Tables, Change(c, post),
         c.kind # "truncate" => RowsAfter(Derived(c), Docs(tx.post)) = Docs(post)
  PROVE  SourceInv' /\ StoreInv'
<1>1. /\ tx' = [changes |-> Append(tx.changes, c), post |-> post]
      /\ UNCHANGED <<src, wal, left, store, work, ops, at>>
  BY Zenon DEF Change
<1>2. tx \in TxnSet /\ TxnOK(tx, src)
  BY DEF ScanInv, SourceInv
<1>3. TxnOK(tx', src)
  BY Zenon, <1>1, <1>2, TxnAppend
<1>4. tx' \in TxnSet
  BY <1>1, <1>2 DEF TxnSet
<1>5. SourceInv'
  BY <1>1, <1>3, <1>4 DEF ScanInv, SourceInv
<1>6. StoreInv'
  BY Zenon, <1>1 DEF ScanInv, StoreInv
<1> QED BY <1>5, <1>6

LEMMA InsertKeeps ==
  ASSUME ScanInv, NEW id \in Ids, NEW cols \in [Columns -> Value], Insert(id, cols)
  PROVE  SourceInv' /\ StoreInv'
<1> DEFINE c == [kind |-> "insert", row |-> Row(id, cols)]
<1>1. tx.post \in Tables
  BY DEF ScanInv, SourceInv, TxnSet
<1>2. c \in ChangeSet
  BY Zenon, RowType DEF ChangeSet
<1>3. RowsAfter(Derived(c), Docs(tx.post)) = PutRow(Docs(tx.post), Row(id, cols))
  BY DEF RowsAfter, Derived
<1>4. RowsAfter(Derived(c), Docs(tx.post)) = Docs(With(tx.post, id, cols))
  <2> DEFINE R == Docs(tx.post)
             row == Row(id, cols)
  <2>1. PutRow(R, row) = With(R, id, row)
    BY Zenon, PutWhole
  <2>2. Docs(With(tx.post, id, cols)) = With(R, id, row)
    BY Zenon, <1>1, DocsWith
  <2> HIDE DEF R, row
  <2> QED BY Zenon, <1>3, <2>1, <2>2 DEF R, row
<1>5. With(tx.post, id, cols) \in Tables
  BY <1>1, DocsWith
<1>6. Change(c, With(tx.post, id, cols))
  BY DEF Insert
<1> HIDE DEF c
<1> QED BY <1>2, <1>4, <1>5, <1>6, ChangeKeeps

\* ToastedKeyChange = FALSE: a row with an out-of-line value keeps its key.
LEMMA UpdateKeeps ==
  ASSUME ToastedKeyChange = FALSE, ScanInv,
         NEW id \in Ids, NEW new \in Ids, NEW cols \in [Columns -> Value], NEW full \in BOOLEAN,
         Update(id, new, cols, full)
  PROVE  SourceInv' /\ StoreInv'
<1> DEFINE c == UpdateMessage(id, new, cols, full)
           post == With(WithoutKey(tx.post, id), new, cols)
<1>1. tx.post \in Tables
  BY DEF ScanInv, SourceInv, TxnSet
<1>2. id \in DOMAIN tx.post /\ (new # id => Omitted(id, cols) = {})
  BY Zenon DEF Update
<1>3. Change(c, post)
  BY Zenon DEF Update, UpdateMessage
<1>4. c \in ChangeSet /\ RowsAfter(Derived(c), Docs(tx.post)) = Docs(post)
  BY Zenon, <1>1, <1>2, UpdateEffect
<1>5. post \in Tables
  BY <1>1, DocsWith, DocsWithout
<1> HIDE DEF c, post
<1> QED BY <1>3, <1>4, <1>5, ChangeKeeps

LEMMA DeleteKeeps ==
  ASSUME ScanInv, NEW id \in Ids, Delete(id)
  PROVE  SourceInv' /\ StoreInv'
<1> DEFINE c == [kind |-> "delete", old |-> id]
<1>1. tx.post \in Tables
  BY DEF ScanInv, SourceInv, TxnSet
<1>2. c \in ChangeSet
  BY Zenon DEF ChangeSet
<1>3. RowsAfter(Derived(c), Docs(tx.post)) = WithoutKey(Docs(tx.post), id)
  BY DEF RowsAfter, Derived
<1>4. RowsAfter(Derived(c), Docs(tx.post)) = Docs(WithoutKey(tx.post, id))
  BY Zenon, <1>1, <1>3, DocsWithout
<1>5. WithoutKey(tx.post, id) \in Tables
  BY <1>1, DocsWithout
<1>6. Change(c, WithoutKey(tx.post, id))
  BY DEF Delete
<1> HIDE DEF c
<1> QED BY <1>2, <1>4, <1>5, <1>6, ChangeKeeps

LEMMA TruncateKeeps ==
  ASSUME ScanInv, Truncate
  PROVE  SourceInv' /\ StoreInv'
<1> DEFINE c == [kind |-> "truncate"]
           post == [i \in {} |-> Null]
<1>1. c \in ChangeSet /\ c.kind = "truncate"
  BY DEF ChangeSet
<1>2. post \in Tables
  <2>1. post \in [{} -> [Columns -> Value]] /\ {} \in SUBSET Ids
    OBVIOUS
  <2> QED BY Zenon, <2>1 DEF Tables
<1>3. Change(c, post)
  BY DEF Truncate
<1> HIDE DEF c, post
<1> QED BY <1>1, <1>2, <1>3, ChangeKeeps

LEMMA CommitKeeps ==
  ASSUME ScanInv, SourceCommit
  PROVE  SourceInv' /\ StoreInv'
<1>1. /\ src' = tx.post /\ wal' = Append(wal, tx) /\ tx' = NoTx(tx.post)
      /\ UNCHANGED <<left, store, work, ops, at>>
  BY DEF SourceCommit
<1>2. /\ tx \in TxnSet /\ TxnOK(tx, src) /\ wal \in Seq(TxnSet) /\ Leads(wal, at, src)
      /\ tx.post \in Tables
  BY Zenon DEF ScanInv, SourceInv, TxnSet
<1>3. Leads(wal', at, src') /\ wal' \in Seq(TxnSet)
  BY <1>1, <1>2, LeadsAppend
<1>4. tx' \in TxnSet /\ TxnOK(tx', src')
  BY <1>1, <1>2, TxnNothing
<1>5. SourceInv'
  BY Zenon, <1>1, <1>2, <1>3, <1>4 DEF ScanInv, SourceInv
<1>6. StoreInv'
  BY Zenon, <1>1 DEF ScanInv, StoreInv
<1> QED BY <1>5, <1>6

\* A write transaction starts from the committed store, which is not Null.
LEMMA StoreNotNull ==
  ASSUME ScanInv, work = Null
  PROVE  store # Null /\ store.rows \in DocTables /\ store.rows = Partly(at, left)
<1>1. store.rows = Partly(at, left) /\ at \in Tables
  BY DEF ScanInv, StoreInv, SourceInv
<1>2. store.rows \in DocTables
  BY <1>1, PartlyType
<1> QED BY <1>1, <1>2, DatabaseNotNull DEF ScanInv, StoreInv, IndexFollowsRows

LEMMA BeginCopyKeeps ==
  ASSUME ScanInv, NEW chunk \in SUBSET left, BeginCopy(chunk)
  PROVE  SourceInv' /\ StoreInv'
<1> DEFINE n == Cardinality(chunk)
<1> PICK order \in Bijection(1..n, chunk) : ops' = CopyOps(order, n, at)
  BY DEF BeginCopy
<1>1. /\ work = Null /\ work' = store /\ left' = left \ chunk
      /\ UNCHANGED <<src, tx, wal, store, at>>
  BY Zenon DEF BeginCopy
<1>2. at \in Tables /\ left \in SUBSET DOMAIN at /\ IsDb(store)
  BY Zenon DEF ScanInv, SourceInv, StoreInv
<1>3. store # Null /\ store.rows \in DocTables /\ store.rows = Partly(at, left)
  BY <1>1, StoreNotNull
<1>4. n \in Nat
  <2>1. chunk \subseteq Ids
    BY <1>2, TableRows
  <2> QED BY Zenon, <2>1, LookupAssumption, FS_Subset, FS_CardinalityType
<1>5. /\ CopyOps(order, n, at) \in Seq(OpSet)
      /\ Replays(CopyOps(order, n, at), Partly(at, left), Partly(at, left \ chunk))
  BY Zenon, <1>2, <1>4, CopyEffect
<1> HIDE DEF n
<1>6. SourceInv'
  BY <1>1 DEF ScanInv, SourceInv
<1>7. StoreInv'
  BY Zenon, <1>1, <1>2, <1>3, <1>5 DEF StoreInv
<1> QED BY <1>6, <1>7

LEMMA BeginBatchKeeps ==
  ASSUME ScanInv, BeginBatch
  PROVE  SourceInv' /\ StoreInv'
<1> DEFINE h == Head(wal)
           d == derive_parameter_lookup_ops(h.changes)
<1>1. /\ work = Null /\ left = {} /\ wal # <<>> /\ ~Truncates(h.changes)
      /\ work' = store /\ ops' = d /\ at' = h.post /\ wal' = Tail(wal)
      /\ UNCHANGED <<src, tx, left, store>>
  BY Zenon DEF BeginBatch
<1>2. at \in Tables /\ wal \in Seq(TxnSet) /\ Leads(wal, at, src) /\ IsDb(store)
  BY DEF ScanInv, SourceInv, StoreInv
<1>3. h \in TxnSet /\ Tail(wal) \in Seq(TxnSet)
  BY <1>1, <1>2
<1>4. TxnOK(h, at) /\ Leads(Tail(wal), h.post, src)
  BY Zenon, <1>1, <1>2, LeadsTail
<1> HIDE DEF h
<1>5. h.changes \in Seq(ChangeSet) /\ h.post \in Tables
  BY <1>3 DEF TxnSet
<1>6. d \in Seq(OpSet) /\ Replays(d, Docs(at), Docs(h.post))
  BY <1>1, <1>4, <1>5, DeriveType DEF TxnOK
<1>7. store # Null /\ store.rows \in DocTables /\ store.rows = Docs(at)
  BY Zenon, <1>1, <1>2, StoreNotNull, PartlyType
<1>8. Partly(at', left') = Docs(h.post)
  BY Zenon, <1>1, <1>5, PartlyType
<1> HIDE DEF d
<1>9. SourceInv'
  BY Zenon, <1>1, <1>3, <1>4, <1>5 DEF ScanInv, SourceInv
<1>10. StoreInv'
  BY Zenon, <1>1, <1>2, <1>6, <1>7, <1>8 DEF StoreInv
<1> QED BY <1>9, <1>10

LEMMA ApplyOpKeeps ==
  ASSUME ScanInv, ApplyOp
  PROVE  SourceInv' /\ StoreInv'
<1> DEFINE op == Head(ops)
           db == apply_parameter_lookup_op(work, op)
<1>1. /\ work # Null /\ ops # <<>> /\ work' = db /\ ops' = Tail(ops)
      /\ UNCHANGED <<src, tx, wal, left, store, at>>
  BY DEF ApplyOp
<1>2. /\ ops \in Seq(OpSet) /\ work.rows \in DocTables /\ IndexOK(work)
      /\ Replays(ops, work.rows, Partly(at, left))
  BY Zenon, <1>1 DEF ScanInv, StoreInv, IndexFollowsRows
<1>3. op \in OpSet /\ Tail(ops) \in Seq(OpSet)
  BY <1>1, <1>2
<1>4. db.rows = RowsAfter(op, work.rows) /\ IsDb(db)
  BY ApplyRows
<1>5. db.rows \in DocTables /\ IndexOK(db)
  BY <1>2, <1>3, <1>4, RowsType, ApplyOK
<1>6. db # Null
  <2> HIDE DEF db, op
  <2> QED BY Zenon, <1>4, <1>5, DatabaseNotNull
<1>7. Replays(Tail(ops), RowsAfter(op, work.rows), Partly(at, left))
  BY <1>1, <1>2, ReplaysTail
<1> HIDE DEF db
<1>8. StoreInv'
  BY Zenon, <1>1, <1>3, <1>4, <1>5, <1>6, <1>7 DEF ScanInv, StoreInv
<1>9. SourceInv'
  BY <1>1 DEF ScanInv, SourceInv
<1> QED BY <1>8, <1>9

LEMMA WriteCommitKeeps ==
  ASSUME ScanInv, Commit
  PROVE  SourceInv' /\ StoreInv'
<1>1. /\ work # Null /\ ops = <<>> /\ store' = work /\ work' = Null
      /\ UNCHANGED <<src, tx, wal, left, ops, at>>
  BY Zenon DEF Commit
<1>2. work.rows = Partly(at, left) /\ IsDb(work)
  BY Zenon, <1>1, ReplaysNothing DEF ScanInv, StoreInv
<1>3. StoreInv'
  BY Zenon, <1>1, <1>2 DEF ScanInv, StoreInv
<1>4. SourceInv'
  BY <1>1 DEF ScanInv, SourceInv
<1> QED BY <1>3, <1>4

LEMMA CrashKeeps ==
  ASSUME ScanInv, CrashDuringCopy
  PROVE  SourceInv' /\ StoreInv'
<1>1. /\ store' = EmptyStore /\ work' = Null /\ ops' = <<>>
      /\ at' = src /\ left' = DOMAIN src /\ wal' = <<>>
      /\ UNCHANGED <<src, tx>>
  BY DEF CrashDuringCopy
<1>2. Partly(src, DOMAIN src) = EmptyStore.rows /\ IsDb(EmptyStore)
  BY Zenon DEF Partly, EmptyStore, IsDb
<1>3. StoreInv'
  BY <1>1, <1>2 DEF StoreInv
<1>4. SourceInv'
  BY <1>1 DEF ScanInv, SourceInv, Leads
<1> QED BY <1>3, <1>4

------------------------------------------------------------------------------
\* row_predicate_eval decides a term as SQL does.
LEMMA TermMeaning ==
  ASSUME NEW l \in Lookups, NEW t \in l.terms, NEW doc
  PROVE  row_predicate_eval(t, doc) <=> TermTrue(t, doc)
<1>1. \/ t.op = "is_null" /\ t.negated \in BOOLEAN
      \/ t.op = "eq" /\ t.value # Null
  BY Zenon, LookupAssumption
<1>2. CASE t.op = "is_null" /\ t.negated = TRUE
  BY Zenon, <1>2 DEF row_predicate_eval, TermTrue
<1>3. CASE t.op = "is_null" /\ t.negated = FALSE
  BY Zenon, <1>3 DEF row_predicate_eval, TermTrue
<1>4. CASE t.op = "eq" /\ t.value # Null
  BY <1>4 DEF row_predicate_eval, TermTrue
<1> QED BY Zenon, <1>1, <1>2, <1>3, <1>4

\* A row is selected by the lookup under the key.
Selected(l, key, row) ==
  /\ \A t \in l.terms : TermTrue(t, row)
  /\ \A k \in 1..Len(l.keys) : row[l.keys[k]] = key[k]
  /\ \A c \in l.selected : row[c] # Null

LEMMA SelectedMeaning ==
  ASSUME NEW l \in Lookups, NEW key \in Keys(l), NEW doc
  PROVE  Selected(l, key, doc) <=>
           /\ row_predicate_matches(l, doc) /\ HasKey(l, doc) /\ HasPayload(l, doc)
           /\ KeyOf(l, doc) = key
<1>1. row_predicate_matches(l, doc) <=> \A t \in l.terms : TermTrue(t, doc)
  BY Zenon, TermMeaning DEF row_predicate_matches
<1>2. HasPayload(l, doc) <=> \A c \in l.selected : doc[c] # Null
  BY Zenon DEF HasPayload
<1>3. key = [k \in 1..Len(l.keys) |-> key[k]] /\ \A k \in 1..Len(l.keys) : key[k] # Null
  BY DEF Keys
<1>4. (\A k \in 1..Len(l.keys) : doc[l.keys[k]] = key[k]) <=> HasKey(l, doc) /\ KeyOf(l, doc) = key
  BY Zenon, <1>3 DEF HasKey, KeyOf
<1> QED BY Zenon, <1>1, <1>2, <1>4 DEF Selected

\* A set indexed by the ids G of its members has as many members as G.
LEMMA IndexedCardinality ==
  ASSUME NEW G, IsFiniteSet(G), NEW S, NEW f \in [G -> S],
         \A i, j \in G : f[i] = f[j] => i = j,
         \A s \in S : \E i \in G : f[i] = s
  PROVE  Cardinality(S) = Cardinality(G)
<1>1. f \in Bijection(G, S)
  BY DEF Bijection, Injection, Surjection, IsInjective
<1> QED BY Zenon, <1>1, FS_Bijection DEF ExistsBijection

\* Between transactions a scan finds the rows the query selects, and as many.
LEMMA ScanAnswer ==
  ASSUME ScanInv, left = {}, work = Null, NEW l \in Lookups, NEW key \in Keys(l)
  PROVE  scan_parameter_lookup_entries(l, key) =
           IF Cardinality(Answer(l, key, at)) > MaxEntries THEN "resource limit"
           ELSE Answer(l, key, at)
<1> DEFINE Doc(i) == Row(i, at[i])
           Good == {i \in DOMAIN at : Selected(l, key, Doc(i))}
           Found(i) == [id |-> i, payload |-> PayloadOf(l, Doc(i))]
           A == Answer(l, key, at)
           E == Matching(l, key)
           f == [i \in Good |-> Entry(l, i, Doc(i))]
           g == [i \in Good |-> Found(i)]
<1>1. /\ at \in Tables /\ store.rows = Docs(at)
      /\ store.index = RowEntries(store, DOMAIN store.rows)
  BY Zenon, StoreNotNull, PartlyType DEF ScanInv, SourceInv, IndexFollowsRows, IndexOK
<1>2. /\ DOMAIN store.rows = DOMAIN at
      /\ \A i \in DOMAIN at : store.rows[i] = Doc(i)
  BY Zenon, <1>1 DEF Docs
<1>3. A = {Found(i) : i \in Good}
  BY Zenon DEF Answer, Selected, PayloadOf
<1>4. ASSUME NEW e \in E
      PROVE  \E i \in Good : e = Entry(l, i, Doc(i))
  <2>1. e \in store.index /\ e.at.lookup = l /\ e.at.key = key
    BY DEF Matching
  <2>2. PICK i \in DOMAIN at : e \in Entries(i, Doc(i))
    BY <1>1, <1>2, <2>1 DEF RowEntries
  <2>3. PICK m \in Lookups : /\ row_predicate_matches(m, Doc(i)) /\ HasKey(m, Doc(i))
                             /\ HasPayload(m, Doc(i)) /\ e = Entry(m, i, Doc(i))
    BY Zenon, <2>2 DEF Entries
  <2>4. m = l /\ KeyOf(m, Doc(i)) = key
    BY Zenon, <2>1, <2>3 DEF Entry
  <2>5. Selected(l, key, Doc(i))
    BY Zenon, <2>3, <2>4, SelectedMeaning
  <2> QED BY Zenon, <2>2, <2>3, <2>4, <2>5
<1>5. ASSUME NEW i \in Good
      PROVE  Entry(l, i, Doc(i)) \in E
  <2>1. /\ row_predicate_matches(l, Doc(i)) /\ HasKey(l, Doc(i)) /\ HasPayload(l, Doc(i))
        /\ KeyOf(l, Doc(i)) = key
    BY Zenon, SelectedMeaning
  <2>2. Entry(l, i, Doc(i)) \in Entries(i, Doc(i))
    BY Zenon, <2>1 DEF Entries
  <2>3. Entry(l, i, Doc(i)) \in store.index
    BY Zenon, <1>1, <1>2, <2>2 DEF RowEntries
  <2>4. Entry(l, i, Doc(i)).at.lookup = l /\ Entry(l, i, Doc(i)).at.key = key
    BY Zenon, <2>1 DEF Entry
  <2> QED BY Zenon, <2>3, <2>4 DEF Matching
<1>6. E = {Entry(l, i, Doc(i)) : i \in Good}
  BY Zenon, <1>4, <1>5
<1>7. {[id |-> e.at.id, payload |-> e.payload] : e \in E} = A
  <2>1. \A i \in Good : /\ Entry(l, i, Doc(i)).at.id = i
                        /\ Entry(l, i, Doc(i)).payload = PayloadOf(l, Doc(i))
    BY Zenon DEF Entry
  <2> DEFINE Shown(e) == [id |-> e.at.id, payload |-> e.payload]
  <2>2. \A i \in Good : Shown(Entry(l, i, Doc(i))) = Found(i)
    BY Zenon, <2>1
  <2> HIDE DEF E, A, Good, Doc, Found, Shown
  <2>3. ASSUME NEW e \in E PROVE Shown(e) \in A
    <3>1. PICK i \in Good : e = Entry(l, i, Doc(i))
      BY Zenon, <1>6
    <3> QED BY Zenon, <1>3, <2>2, <3>1
  <2>4. ASSUME NEW x \in A PROVE \E e \in E : x = Shown(e)
    <3>1. PICK i \in Good : x = Found(i)
      BY Zenon, <1>3
    <3> QED BY Zenon, <1>6, <2>2, <3>1
  <2>5. {Shown(e) : e \in E} = A
    BY Zenon, <2>3, <2>4
  <2> QED BY Zenon, <2>5 DEF Shown
<1>8. IsFiniteSet(Good)
  <2>1. Good \subseteq Ids
    BY Zenon, <1>1, TableRows
  <2> QED BY Zenon, <2>1, LookupAssumption, FS_Subset
<1>9. Cardinality(E) = Cardinality(Good)
  <2>1. \A i \in Good : f[i] = Entry(l, i, Doc(i))
    BY Zenon
  <2>2. \A i \in Good : f[i].at.id = i
    BY Zenon DEF Entry
  <2>3. f = [i \in Good |-> f[i]]
    BY Zenon
  <2> HIDE DEF f, Good, E, Doc
  <2>4. f \in [Good -> E]
    BY Zenon, <1>6, <2>1, <2>3
  <2>5. \A i, j \in Good : f[i] = f[j] => i = j
    BY Zenon, <2>2
  <2>6. ASSUME NEW s \in E
        PROVE  \E i \in Good : f[i] = s
    <3>1. PICK i \in Good : s = Entry(l, i, Doc(i))
      BY Zenon, <1>6
    <3> QED BY Zenon, <2>1, <3>1
  <2> QED BY Zenon, <1>8, <2>4, <2>5, <2>6, IndexedCardinality
<1>10. Cardinality(A) = Cardinality(Good)
  <2>1. \A i \in Good : g[i] = Found(i)
    BY Zenon
  <2>2. \A i \in Good : g[i].id = i
    BY Zenon
  <2>3. g = [i \in Good |-> g[i]]
    BY Zenon
  <2> HIDE DEF g, Good, A, Found
  <2>4. g \in [Good -> A]
    BY Zenon, <1>3, <2>1, <2>3
  <2>5. \A i, j \in Good : g[i] = g[j] => i = j
    BY Zenon, <2>2
  <2>6. ASSUME NEW s \in A
        PROVE  \E i \in Good : g[i] = s
    <3>1. PICK i \in Good : s = Found(i)
      BY Zenon, <1>3
    <3> QED BY Zenon, <2>1, <3>1
  <2> QED BY Zenon, <1>8, <2>4, <2>5, <2>6, IndexedCardinality
<1> HIDE DEF A, Good, f, g
<1>11. scan_parameter_lookup_entries(l, key) =
         IF Cardinality(A) > MaxEntries THEN "resource limit" ELSE A
  BY Zenon, <1>7, <1>9, <1>10 DEF scan_parameter_lookup_entries
<1> QED BY Zenon, <1>11 DEF A

\* Once the snapshot is copied, a lookup read between two write transactions returns
\* what the SQL of the lookup returns on the source table at the position of the store,
\* or the limit error when that is too much (scan_parameter_lookup_entries over what
\* persist_batch wrote): for every table, lookup and limit, as long as no update that
\* omits an out-of-line column changes the key of its row; one that does loses the
\* column (AbsentColumnKept under LookupKeyChange.cfg).
THEOREM ScanCorrect ==
  ASSUME ToastedKeyChange = FALSE
  PROVE  Spec => []ScanIsQuery
<1>1. Init => SourceInv /\ StoreInv
  BY ScanInit
<1>2. ScanInv /\ [Next]_vars => (SourceInv /\ StoreInv)'
  <2> SUFFICES ASSUME ScanInv, [Next]_vars
               PROVE  SourceInv' /\ StoreInv'
    BY Zenon
  <2>1. ASSUME NEW id \in Ids, NEW cols \in [Columns -> Value], Insert(id, cols)
        PROVE  SourceInv' /\ StoreInv'
    BY Zenon, <2>1, InsertKeeps
  <2>2. ASSUME NEW id \in Ids, NEW cols \in [Columns -> Value],
               NEW new \in Ids, NEW full \in BOOLEAN, Update(id, new, cols, full)
        PROVE  SourceInv' /\ StoreInv'
    BY Zenon, <2>2, UpdateKeeps
  <2>3. ASSUME NEW id \in Ids, Delete(id)
        PROVE  SourceInv' /\ StoreInv'
    BY <2>3, DeleteKeeps
  <2>4. CASE Truncate
    BY <2>4, TruncateKeeps
  <2>5. CASE SourceCommit
    BY <2>5, CommitKeeps
  <2>6. ASSUME NEW chunk \in SUBSET left, BeginCopy(chunk)
        PROVE  SourceInv' /\ StoreInv'
    BY Zenon, <2>6, BeginCopyKeeps
  <2>7. CASE BeginBatch
    BY <2>7, BeginBatchKeeps
  <2>8. CASE ApplyOp
    BY <2>8, ApplyOpKeeps
  <2>9. CASE Commit
    BY <2>9, WriteCommitKeeps
  <2>10. CASE CrashDuringCopy
    BY <2>10, CrashKeeps
  <2>11. CASE UNCHANGED vars
    BY Zenon, <2>11 DEF vars, ScanInv, SourceInv, StoreInv
  <2> QED BY <2>1, <2>2, <2>3, <2>4, <2>5, <2>6, <2>7, <2>8, <2>9, <2>10, <2>11 DEF Next
<1>3. ScanInv => ScanIsQuery
  BY Zenon, ScanAnswer DEF ScanIsQuery
<1>4. ScanInv <=> IndexFollowsRows /\ SourceInv /\ StoreInv
  BY DEF ScanInv
<1> QED BY <1>1, <1>2, <1>3, <1>4, IndexCorrect, PTL DEF Spec
==============================================================================
