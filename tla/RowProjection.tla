---------------------------- MODULE RowProjection ---------------------------
(***************************************************************************)
(* From a source row to the document that is stored, the object a query     *)
(* projects out of it, and the checksum contribution that stands for it     *)
(* (sync_rules/eval.rs, snapshot.rs, decoder.rs).  The initial copy         *)
(* projects from the row, the stream and the readers from the stored        *)
(* document, which they read again as JSON: an accumulator is right only as *)
(* long as both give the same text.  The copy's texts are casts to text,    *)
(* the stream's are the types' own output, and an update leaves out the     *)
(* unchanged columns PostgreSQL keeps out of line (TOAST).  One row and one *)
(* query are followed.                                                      *)
(***************************************************************************)
EXTENDS Integers, Sequences, FiniteSets, SequencesExt

CONSTANTS
  Columns,       \* columns of the table
  PgType,        \* their PostgreSQL types: a function
  RawRows,       \* rows: functions from columns to texts
  Projections,   \* projections a query may have
  Printed,       \* texts that Rust's f64 prints otherwise: a function
  Reread         \* texts that serde_json reads and prints otherwise: a function

VARIABLES
  projection,    \* the projection of the query
  copied,        \* the initial copy is over
  row,           \* the source row, or NoRow
  document,      \* the stored document, or NoDocument
  sum,           \* the accumulator: how often each projected object is counted
  imprecise      \* (ghost) the copy counted a number that is not read back as it was

vars == <<projection, copied, row, document, sum, imprecise>>

\* A text as the output function of its type prints it.  form says what it reads as; frac and tz are the
\* fraction digits and the time zone of a timestamp.
Raw(form, v) == [form |-> form, v |-> v, frac |-> 0, tz |-> ""]
Stamp(v, frac, tz) == [form |-> "stamp", v |-> v, frac |-> frac, tz |-> tz]
SqlNull == Raw("null", "")

\* A JSON value: its type and the texts it is made of.
Json(t, raw) == [t |-> t, text |-> <<raw>>]

NoRow == [c \in {} |-> SqlNull]
NoDocument == [c \in {} |-> Json("null", SqlNull)]

------------------------------------------------------------------------------
\* Column types, from the catalogue for the copy and from type ids for the stream.

json_column_type_from_postgres_type(type) ==
  CASE type \in {"int2", "int4", "int8", "float4", "float8", "numeric"} -> "number"
    [] type = "bool" -> "boolean"
    [] type \in {"date", "timestamp", "timestamptz"} -> "timestamp"
    [] type \in {"json", "jsonb"} -> "json"
    [] OTHER -> "string"

TypeOid ==
  [bool |-> 16, int8 |-> 20, int2 |-> 21, int4 |-> 23, text |-> 25, json |-> 114,
   float4 |-> 700, float8 |-> 701, bpchar |-> 1042, date |-> 1082, timestamp |-> 1114,
   timestamptz |-> 1184, numeric |-> 1700, jsonb |-> 3802]

\* Mutant: the ids of json and timestamptz are not known.
type_from_fewer_oids(oid) ==
  CASE oid = 16 -> "boolean"
    [] oid \in {20, 21, 23, 700, 701, 1700} -> "number"
    [] oid \in {1082, 1114} -> "timestamp"
    [] OTHER -> "string"

json_column_type_from_type_oid(oid) ==
  CASE oid = 16 -> "boolean"
    [] oid \in {20, 21, 23, 700, 701, 1700} -> "number"
    [] oid \in {1082, 1114, 1184} -> "timestamp"
    [] oid \in {114, 3802} -> "json"
    [] OTHER -> "string"

CopyTypes == [c \in Columns |-> json_column_type_from_postgres_type(PgType[c])]
StreamTypes == [c \in Columns |-> json_column_type_from_type_oid(TypeOid[PgType[c]])]

\* The copy selects column::text: a cast writes booleans out and drops the padding of a
\* char(n); the stream carries the output of the type.
CastText(raw, type) ==
  CASE type = "bool" /\ raw.form = "bool" -> [raw EXCEPT !.v = IF @ = "t" THEN "true" ELSE "false"]
    [] type = "bpchar" /\ raw.form = "padded" -> [raw EXCEPT !.form = "text"]
    [] OTHER -> raw

CastRow(r) == [c \in DOMAIN r |-> CastText(r[c], PgType[c])]

------------------------------------------------------------------------------
\* The texts as JSON.

Converted(raw, conversion) ==
  [raw EXCEPT !.v = IF @ \in DOMAIN conversion THEN conversion[@] ELSE @]

\* A JSON value after serde_json read and printed it: its default reading of a float may
\* miss the nearest one.
from_str(json) ==
  IF json.t \in {"float", "array"}
  THEN [json EXCEPT !.text = [i \in DOMAIN @ |-> Converted(@[i], Reread)]] ELSE json

\* Six fraction digits, and Z for every spelling of UTC.
canonical_timestamp_string(raw) ==
  [raw EXCEPT !.frac = 6, !.tz = IF @ \in {"", "Z", "+00", "+00:00", "+0000"} THEN "Z" ELSE @]

serialize_json_number(raw) ==
  CASE raw.form = "int" -> Json("int", raw)
    [] raw.form = "float" -> Json("float", Converted(raw, Printed))
    [] OTHER -> Json("string", raw)

serialize_json_bool(raw) ==
  IF raw.form = "bool"
  THEN Json("bool", Raw("word", IF raw.v \in {"t", "true", "TRUE"} THEN "true" ELSE "false"))
  ELSE Json("string", raw)

\* What parses as JSON is stored as JSON; "t" does not.
serialize_json_text(raw) ==
  CASE raw.form \in {"array", "int", "float"} -> from_str(Json(raw.form, raw))
    [] OTHER -> Json("string", raw)

JsonColumnValue(raw, type) ==
  CASE raw = SqlNull -> Json("null", raw)
    [] raw # SqlNull /\ type = "number" -> serialize_json_number(raw)
    [] raw # SqlNull /\ type = "boolean" -> serialize_json_bool(raw)
    [] raw # SqlNull /\ type = "timestamp" ->
         Json("string", IF raw.form = "stamp" THEN canonical_timestamp_string(raw) ELSE raw)
    [] raw # SqlNull /\ type = "json" -> serialize_json_text(raw)
    [] OTHER -> Json("string", raw)

serialize_row_json_fields(r, types) == [c \in DOMAIN r |-> JsonColumnValue(r[c], types[c])]

------------------------------------------------------------------------------
\* Projections: [kind, items]; an item is [alias, terms], a term [column, literal].

Failure == [ok |-> FALSE, object |-> NoDocument]
Success(object) == [ok |-> TRUE, object |-> object]

\* A term is a literal or a column that is a string, an integer or a boolean.
TermFails(term, object) ==
  /\ term.column # ""
  /\ ~(term.column \in DOMAIN object /\ object[term.column].t \in {"string", "int", "bool"})

evaluate_computed_expression(terms, object) ==
  [t |-> "string",
   text |-> FlattenSeq([i \in 1..Len(terms) |->
              IF terms[i].column = "" THEN <<terms[i].literal>> ELSE object[terms[i].column].text])]

Insert(object, alias, value) ==
  [a \in DOMAIN object \cup {alias} |-> IF a = alias THEN value ELSE object[a]]

\* Computed columns are added in order: one may read the one before.
WithComputed(items, object) ==
  FoldLeft(LAMBDA result, item :
             IF ~result.ok \/ \E t \in Range(item.terms) : TermFails(t, result.object)
             THEN Failure
             ELSE Success(Insert(result.object, item.alias,
                                 evaluate_computed_expression(item.terms, result.object))),
           Success(object), items)

SourceColumn(item) == item.terms[1].column

\* Only a projection that is no plain * reads the document.
project_document_json(p, data_json) ==
  LET object == [c \in DOMAIN data_json |-> from_str(data_json[c])]
  IN  CASE p.kind = "star" -> Success(data_json)
        [] p.kind = "computed" -> WithComputed(p.items, object)
        [] p.kind = "columns" ->
             IF \E i \in Range(p.items) : SourceColumn(i) \notin DOMAIN object THEN Failure
             ELSE Success(FoldLeft(LAMBDA o, i : Insert(o, i.alias, object[SourceColumn(i)]),
                                   NoDocument, p.items))

\* Mutant: a projected column is written without its type.
project_row_untyped(r, p, object) ==
  IF p.kind # "columns" THEN project_document_json(p, object)
  ELSE Success(FoldLeft(LAMBDA o, i : Insert(o, i.alias, JsonColumnValue(r[SourceColumn(i)], "string")),
                        NoDocument, p.items))

\* The copy projects plain columns from the row, the rest from the document.
project_row_json_from_serialized(r, p, object) ==
  IF p.kind # "columns" THEN project_document_json(p, object)
  ELSE IF \E i \in Range(p.items) : SourceColumn(i) \notin DOMAIN r THEN Failure
  ELSE Success(FoldLeft(LAMBDA o, i : Insert(o, i.alias,
                          JsonColumnValue(r[SourceColumn(i)], CopyTypes[SourceColumn(i)])),
                        NoDocument, p.items))

\* The terms of the id: those of the column named id of the projection, or the column id.
IdTerms(p) ==
  LET ids == SelectSeq(p.items, LAMBDA i : i.alias = "id"
                                           /\ (p.kind = "columns" => SourceColumn(i) # "id"))
  IN  IF p.kind = "star" \/ ids = <<>> THEN <<[column |-> "id", literal |-> SqlNull]>>
      ELSE ids[1].terms

\* Mutant: only the columns of the expression make the id.
object_id_without_literals(r, p) ==
  LET columns == SelectSeq(IdTerms(p), LAMBDA t : t.column # "")
  IN  [i \in 1..Len(columns) |-> r[columns[i].column]]

\* The texts of the id, from the row; <<>> when it has none, which fails the batch.
object_id_for_row(r, p) ==
  LET terms == IdTerms(p)
  IN  IF \E t \in Range(terms) : t.column # "" /\ (t.column \notin DOMAIN r \/ r[t.column] = SqlNull)
      THEN <<>>
      ELSE [i \in 1..Len(terms) |->
              IF terms[i].column = "" THEN terms[i].literal ELSE r[terms[i].column]]

\* Ids are made of types that a cast to text and the type's output print alike; a row
\* whose id they print differently is stored twice.
ASSUME IdColumnsAssumption ==
  \A p \in Projections : \A t \in Range(IdTerms(p)) :
    t.column # "" => PgType[t.column] \in {"text", "int8"}

------------------------------------------------------------------------------
Count(o) == IF o \in DOMAIN sum THEN sum[o] ELSE 0
\* The checksum is a sum: what is added and taken out again leaves nothing.
Add(s, o, n) ==
  LET total(x) == (IF x \in DOMAIN s THEN s[x] ELSE 0) + (IF x = o THEN n ELSE 0)
  IN  [x \in {y \in DOMAIN s \cup {o} : total(y) # 0} |-> total(x)]

Init ==
  /\ projection \in Projections
  /\ copied = FALSE
  /\ row = NoRow /\ document = NoDocument
  /\ sum = [o \in {} |-> 0]
  /\ imprecise = FALSE

Stored == document # NoDocument

\* A projected column whose value is not read back from the document as it was printed.
Imprecise(object) ==
  /\ projection.kind = "columns"
  /\ \E i \in Range(projection.items) : from_str(object[SourceColumn(i)]) # object[SourceColumn(i)]

\* persist_initial_snapshot_rows; a failed projection fails the whole copy.
CopyRow(r) ==
  /\ ~copied /\ ~Stored
  /\ object_id_for_row(CastRow(r), projection) # <<>>
  /\ LET object == serialize_row_json_fields(CastRow(r), CopyTypes)
         projected == project_row_json_from_serialized(CastRow(r), projection, object)
     IN  /\ projected.ok
         /\ document' = object
         /\ sum' = Add(sum, projected.object, 1)
         /\ imprecise' = Imprecise(object)
  /\ row' = r
  /\ UNCHANGED <<projection, copied>>

FinishCopy ==
  /\ ~copied /\ copied' = TRUE
  /\ UNCHANGED <<projection, row, document, sum, imprecise>>

\* Columns an update to r may leave out: large values that it did not change.
Unchanged(r) ==
  {c \in DOMAIN row : PgType[c] \in {"text", "bpchar", "json", "jsonb"} /\ r[c] = row[c]}

\* The accumulator without the stored document.
Removed == IF Stored THEN Add(sum, project_document_json(projection, document).object, -1) ELSE sum

\* An insert or update, keeping the id; a failed projection fails the whole batch.  What an
\* update leaves out is not in the new document.
PutRow(r, omitted) ==
  LET sent == Restrict(r, DOMAIN r \ omitted)
      object == serialize_row_json_fields(sent, StreamTypes)
      projected == project_document_json(projection, object)
  IN  /\ copied
      /\ object_id_for_row(sent, projection) # <<>>
      /\ Stored => object_id_for_row(sent, projection) = object_id_for_row(row, projection)
      /\ projected.ok
      /\ document' = object
      /\ sum' = Add(Removed, projected.object, 1)
      /\ row' = r
      /\ UNCHANGED <<projection, copied, imprecise>>

RemoveRow ==
  /\ copied /\ Stored
  /\ sum' = Removed
  /\ row' = NoRow /\ document' = NoDocument
  /\ UNCHANGED <<projection, copied, imprecise>>

Next ==
  \/ \E r \in RawRows : CopyRow(r)
  \/ FinishCopy
  \/ \E r \in RawRows : \E omitted \in SUBSET Unchanged(r) : PutRow(r, omitted)
  \/ RemoveRow

Spec == Init /\ [][Next]_vars

------------------------------------------------------------------------------
TypeOK ==
  /\ projection \in Projections
  /\ row \in RawRows \cup {NoRow}
  /\ imprecise \in BOOLEAN
  /\ \A o \in DOMAIN sum : sum[o] \in Int

\* What the accumulator holds is what a reader of the document computes, so that a later
\* update or delete takes out exactly what was put in.  The test
\* snapshot_row_projection_matches_document_projection_order asks it of one row of texts.
\* It does not hold of every float (ProjectionFloat.cfg).
SumIsReadersSum ==
  \A o \in DOMAIN sum \cup {project_document_json(projection, document).object} :
    Count(o) = IF Stored /\ o = project_document_json(projection, document).object THEN 1 ELSE 0

\* The copy's projection from the row (project_row_json_from_serialized) and the readers'
\* projection of the document they read again (project_document_json) count the same
\* object, after any later updates that leave columns out and any deletes: unless the copy
\* projected a column whose number serde_json does not read back as it was printed.
SumIsDocument == ~imprecise => SumIsReadersSum

\* A row is stored as the same values whether the copy or the stream wrote it, although
\* one casts to text and names types and the other takes their output and ids: what a
\* document has of a row is the row's current value.  char(n) differs by its padding, and
\* a column that an update left out is not in the document at all.
DocumentIsRow ==
  Stored => \A c \in DOMAIN document : PgType[c] # "bpchar" =>
              document[c] = JsonColumnValue(row[c], StreamTypes[c])

\* The id a row is stored under, made from its texts (object_id_for_row), is the id in the
\* object the client gets, made from the document.
IdIsProjected ==
  LET object == project_document_json(projection, document).object
  IN  Stored /\ "id" \in DOMAIN object =>
        object["id"].text = object_id_for_row(row, projection)
=============================================================================
