---------------------------- MODULE BatchDecoder ----------------------------
(***************************************************************************)
(* PgOutputBatchDecoder (replication/ingest/decoder.rs): the events of a    *)
(* replication session become one batch per source transaction, typed with  *)
(* the relations announced so far.  The source and its walsender are        *)
(* external: they send each committed transaction in order, announce a      *)
(* relation before its first change in a session and after it changes, and  *)
(* start again behind the last acknowledged commit after a disconnection.   *)
(***************************************************************************)
EXTENDS Naturals, Sequences, FiniteSets

CONSTANTS
  Ids,          \* relation ids
  Names,        \* table names (all in schema public)
  Kinds,        \* change kinds: insert, update, delete, truncate
  Types,        \* column types of a table: an opaque value
  Null,
  MaxTxns,      \* bound: transactions of the source
  MaxChanges,   \* bound: changes in a transaction
  MaxDrops      \* bound: disconnections

Relation(name, types) == [name |-> name, types |-> types]

ASSUME DecoderAssumption ==
  /\ IsFiniteSet(Ids)
  /\ MaxTxns \in Nat /\ MaxChanges \in Nat /\ MaxDrops \in Nat
  /\ Null \notin Nat \cup [name : Names, types : Types]
  /\ Null \notin Seq([kind : Kinds, name : Names])

VARIABLES
  catalog,      \* the source's tables: id -> [name, types], Null for none
  wal,          \* its committed transactions: sequences of [kind, id, name, types]
  acked,        \* transactions the store has persisted and acknowledged
  drops,
  next,         \* session: the transaction being sent
  sent,         \* session: its changes sent so far, Null before BEGIN
  announced,    \* session: the relations announced, id -> [name, types]
  relations,    \* decoder.state.relations
  transaction,  \* decoder.transaction: Null, or the changes collected so far
  batch,        \* what the last event returned: Null, or a batch
  failed        \* the last event was an error (the session ends)

source == <<catalog, wal>>
session == <<next, sent, announced>>
decoder == <<relations, transaction>>
vars == <<catalog, wal, acked, drops, next, sent, announced, relations, transaction, batch, failed>>

NoRelations == [i \in Ids |-> Null]

Init ==
  /\ catalog \in {c \in [Ids -> {Relation(n, t) : n \in Names, t \in Types} \cup {Null}] :
                    \A i, j \in Ids : i # j /\ c[i] # Null /\ c[j] # Null => c[i].name # c[j].name}
  /\ wal = <<>> /\ acked = 0 /\ drops = 0
  /\ next = 1 /\ sent = Null /\ announced = NoRelations
  /\ relations = NoRelations /\ transaction = Null
  /\ batch = Null /\ failed = FALSE

------------------------------------------------------------------------------
\* The source.

Change(kind, i) == [kind |-> kind, id |-> i, name |-> catalog[i].name, types |-> catalog[i].types]
Changes == {Change(k, i) : k \in Kinds, i \in {j \in Ids : catalog[j] # Null}}

SourceCommit ==
  /\ Len(wal) < MaxTxns
  /\ \E n \in 0..MaxChanges : \E cs \in [1..n -> Changes] : wal' = Append(wal, cs)
  /\ UNCHANGED <<catalog, acked, drops, session, decoder, batch, failed>>

\* ALTER TABLE, or DROP and CREATE under a new id.
SourceAlter ==
  /\ Len(wal) \in 1..MaxTxns - 1
  /\ \E i \in Ids : \E t \in Types :
       /\ catalog[i] # Null /\ catalog[i].types # t
       /\ catalog' = [catalog EXCEPT ![i] = Relation(@.name, t)]
  /\ UNCHANGED <<wal, acked, drops, session, decoder, batch, failed>>

SourceRecreate ==
  /\ Len(wal) \in 1..MaxTxns - 1
  /\ \E i, j \in Ids : \E t \in Types :
       /\ catalog[i] # Null /\ catalog[j] = Null
       /\ catalog' = [catalog EXCEPT ![i] = Null, ![j] = Relation(catalog[i].name, t)]
  /\ UNCHANGED <<wal, acked, drops, session, decoder, batch, failed>>

------------------------------------------------------------------------------
\* push_stream_event, driven by the walsender.

Pending == next <= Len(wal) /\ ~failed

Begin ==
  /\ Pending /\ sent = Null
  /\ sent' = 0
  /\ IF transaction # Null
     THEN failed' = TRUE /\ UNCHANGED transaction
     ELSE transaction' = <<>> /\ UNCHANGED failed
  /\ batch' = Null
  /\ UNCHANGED <<source, acked, drops, next, announced, relations>>

NextChange == wal[next][sent + 1]
Sending == Pending /\ sent # Null /\ sent < Len(wal[next])
IsAnnounced(c) == announced[c.id] = Relation(c.name, c.types)

\* Mutant: a relation already cached is not replaced.
add_relation_once(c) ==
  relations' = [relations EXCEPT ![c.id] = IF @ = Null THEN Relation(c.name, c.types) ELSE @]

add_relation(c) == relations' = [relations EXCEPT ![c.id] = Relation(c.name, c.types)]

\* LogicalReplicationMessage::Relation
AnnounceRelation ==
  /\ Sending /\ ~IsAnnounced(NextChange)
  /\ LET c == NextChange
     IN  /\ announced' = [announced EXCEPT ![c.id] = Relation(c.name, c.types)]
         /\ add_relation(c)
  /\ batch' = Null
  /\ UNCHANGED <<source, acked, drops, next, sent, transaction, failed>>

\* Mutant: changes are prepended.
push_change_reversed(change) ==
  IF transaction = Null
  THEN failed' = TRUE /\ UNCHANGED transaction
  ELSE transaction' = <<change>> \o transaction /\ UNCHANGED failed

push_change(change) ==
  IF transaction = Null
  THEN failed' = TRUE /\ UNCHANGED transaction
  ELSE transaction' = Append(transaction, change) /\ UNCHANGED failed

\* Insert, Update, Delete and Truncate name their table by the relation cached for the id.
decode_wal_payload ==
  /\ Sending /\ IsAnnounced(NextChange)
  /\ sent' = sent + 1
  /\ LET c == NextChange
     IN  IF relations[c.id] = Null
         THEN failed' = TRUE /\ UNCHANGED transaction
         ELSE push_change([kind |-> c.kind, name |-> relations[c.id].name])
  /\ batch' = Null
  /\ UNCHANGED <<source, acked, drops, next, announced, relations>>

\* The map is keyed by table name: of the relations of one name any may be the last.
current_relation_column_types(name) ==
  {relations[i].types : i \in {j \in Ids : relations[j] # Null /\ relations[j].name = name}}

Cached == {relations[i].name : i \in {j \in Ids : relations[j] # Null}}

Commit ==
  /\ Pending /\ sent # Null /\ sent = Len(wal[next])
  /\ transaction' = Null
  /\ IF transaction = Null
     THEN failed' = TRUE /\ batch' = Null
     ELSE /\ UNCHANGED failed
          /\ batch' \in
               {[txn |-> next, changes |-> transaction, types |-> t] :
                  t \in {f \in [Cached -> Types] :
                           \A n \in Cached : f[n] \in current_relation_column_types(n)}}
  /\ next' = next + 1
  /\ sent' = Null
  /\ UNCHANGED <<source, acked, drops, announced, relations>>

\* Mutant: a transaction without changes is not acknowledged.
AcknowledgeNonEmpty ==
  /\ batch # Null /\ batch.txn > acked /\ batch.changes # <<>>
  /\ acked' = batch.txn
  /\ batch' = Null
  /\ UNCHANGED <<source, drops, session, decoder, failed>>

\* The runner persists and acknowledges the batch before it takes the next event.
Acknowledge ==
  /\ batch # Null /\ batch.txn > acked
  /\ acked' = batch.txn
  /\ batch' = Null
  /\ UNCHANGED <<source, drops, session, decoder, failed>>

\* run_replication_ingest_with_store_and_readiness makes a decoder for each session.
new_decoder == relations' = NoRelations /\ transaction' = Null

\* The slot's confirmed position.
resume_point == acked + 1

Reconnect ==
  /\ drops < MaxDrops
  /\ drops' = drops + 1
  /\ next' = resume_point /\ sent' = Null /\ announced' = NoRelations
  /\ new_decoder
  /\ batch' = Null /\ failed' = FALSE
  /\ UNCHANGED <<source, acked>>

Next ==
  \/ SourceCommit \/ SourceAlter \/ SourceRecreate
  \/ (batch = Null /\ (Begin \/ AnnounceRelation \/ decode_wal_payload \/ Commit))
  \/ Acknowledge \/ Reconnect

\* The session goes on until the source is idle.
Fairness ==
  /\ WF_vars(batch = Null /\ (Begin \/ AnnounceRelation \/ decode_wal_payload \/ Commit))
  /\ WF_vars(Acknowledge)

Spec == Init /\ [][Next]_vars /\ Fairness

------------------------------------------------------------------------------
TypeOK ==
  /\ relations \in [Ids -> {Relation(n, t) : n \in Names, t \in Types} \cup {Null}]
  /\ transaction = Null \/ Len(transaction) <= MaxChanges
  /\ acked \in 0..Len(wal) /\ next \in acked + 1..Len(wal) + 1
  /\ failed \in BOOLEAN

\* A batch holds exactly the changes of one source transaction, in order, whatever was
\* cut off by a disconnection before it: no change of a half-received transaction leaks
\* into the next (push_stream_event, push_change).
BatchIsTransaction ==
  batch # Null =>
    /\ Len(batch.changes) = Len(wal[batch.txn])
    /\ \A i \in 1..Len(batch.changes) :
         /\ batch.changes[i].kind = wal[batch.txn][i].kind
         /\ batch.changes[i].name = wal[batch.txn][i].name

\* A well-behaved source never makes the decoder fail: BeginWhileTransactionOpen,
\* CommitWithoutBegin, ChangeOutsideTransaction and MissingRelation stay unreachable
\* across disconnections.
NoProtocolError == ~failed

\* The types of a batch are those the source had when the transaction committed, for
\* every table that has been known under one id only in this session.
BatchTypesCurrent ==
  batch # Null =>
    \A i \in 1..Len(wal[batch.txn]) :
      LET c == wal[batch.txn][i]
      IN  Cardinality({j \in Ids : relations[j] # Null /\ relations[j].name = c.name}) = 1 =>
            batch.types[c.name] = c.types

\* Every committed transaction is decoded and acknowledged: disconnections are bounded
\* and replay what they cut off.
EverythingDecoded == \A n \in 1..MaxTxns : Len(wal) >= n ~> acked >= n
=============================================================================
