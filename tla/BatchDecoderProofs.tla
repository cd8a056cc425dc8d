------------------------- MODULE BatchDecoderProofs -------------------------
(***************************************************************************)
(* What the batch decoder returns, for every catalog, every sequence of    *)
(* source transactions of any length and every disconnection.              *)
(*                                                                         *)
(* The inductive invariant says what a half-received transaction looks     *)
(* like: the decoder has one open exactly while the walsender is inside    *)
(* one, it holds the changes sent so far, and it knows exactly the         *)
(* relations announced in this session.  TypesInv adds that what the       *)
(* decoder knows of a relation is what the source logged last under its    *)
(* id, so the types attached to a batch are those of its changes.          *)
(***************************************************************************)
EXTENDS BatchDecoder, FiniteSetTheorems, TLAPS

Relations == [name : Names, types : Types]
Logged == [kind : Kinds, id : Ids, name : Names, types : Types]
Decoded == [kind : Kinds, name : Names]

SourceType ==
  /\ catalog \in [Ids -> Relations \cup {Null}]
  /\ wal \in Seq(Seq(Logged))

PositionType ==
  /\ acked \in 0..Len(wal)
  /\ next \in 1..(Len(wal) + 1)

\* The decoder knows what the session announced.
RelationsInv ==
  /\ relations \in [Ids -> Relations \cup {Null}]
  /\ relations = announced

\* cs are the first changes of the transaction txn.
PrefixOfTxn(cs, txn) ==
  \A i \in 1..Len(cs) : cs[i].kind = txn[i].kind /\ cs[i].name = txn[i].name

TransactionInv ==
  /\ sent = Null <=> transaction = Null
  /\ sent # Null =>
       /\ next <= Len(wal)
       /\ sent \in 0..Len(wal[next])
       /\ transaction \in Seq(Decoded)
       /\ Len(transaction) = sent
       /\ PrefixOfTxn(transaction, wal[next])

BatchInv ==
  batch # Null =>
    /\ batch.txn \in 1..Len(wal)
    /\ Len(batch.changes) = Len(wal[batch.txn])
    /\ PrefixOfTxn(batch.changes, wal[batch.txn])

DecoderInv ==
  /\ SourceType /\ PositionType /\ RelationsInv /\ TransactionInv /\ BatchInv
  /\ failed = FALSE

\* The absent value is no position, relation or transaction.
LEMMA NullOutside ==
  Null \notin Nat /\ Null \notin Relations /\ Null \notin Seq(Decoded)
BY DecoderAssumption DEF Relations, Decoded

\* A change of the catalog's tables is well formed.
LEMMA ChangesType ==
  ASSUME SourceType
  PROVE  Changes \subseteq Logged
BY DEF SourceType, Changes, Change, Relations, Logged

\* The log only grows: what was read of it stays as it was.
LEMMA LogGrows ==
  ASSUME DecoderInv, NEW cs \in Seq(Logged), wal' = Append(wal, cs),
         UNCHANGED <<catalog, acked, drops, session, decoder, batch, failed>>
  PROVE  DecoderInv'
<1>1. /\ wal' \in Seq(Seq(Logged)) /\ Len(wal) \in Nat /\ Len(wal') = Len(wal) + 1
      /\ \A n \in 1..Len(wal) : wal'[n] = wal[n]
  BY DEF DecoderInv, SourceType
<1>2. SourceType'
  BY <1>1 DEF DecoderInv, SourceType
<1>3. PositionType'
  BY <1>1 DEF DecoderInv, PositionType, session
<1>4. RelationsInv'
  BY DEF DecoderInv, RelationsInv, session, decoder
<1>5. TransactionInv'
  BY <1>1 DEF DecoderInv, TransactionInv, PositionType, PrefixOfTxn, session, decoder
<1>6. BatchInv'
  BY <1>1 DEF DecoderInv, BatchInv, PrefixOfTxn
<1> QED BY <1>2, <1>3, <1>4, <1>5, <1>6 DEF DecoderInv

\* Steps of the source.
LEMMA SourceSteps ==
  ASSUME DecoderInv, SourceCommit \/ SourceAlter \/ SourceRecreate
  PROVE  DecoderInv'
<1>1. CASE SourceCommit
  <2>1. PICK n \in 0..MaxChanges : \E cs \in [1..n -> Changes] : wal' = Append(wal, cs)
    BY <1>1 DEF SourceCommit
  <2>2. PICK cs \in [1..n -> Changes] : wal' = Append(wal, cs)
    BY <2>1
  <2>3. cs \in Seq(Logged)
    <3>1. n \in Nat
      BY DecoderAssumption
    <3>2. cs \in [1..n -> Logged]
      BY ChangesType DEF DecoderInv
    <3> QED BY <3>1, <3>2
  <2> QED BY <1>1, <2>2, <2>3, LogGrows DEF SourceCommit
<1>2. ASSUME catalog' \in [Ids -> Relations \cup {Null}],
             UNCHANGED <<wal, acked, drops, session, decoder, batch, failed>>
      PROVE  DecoderInv'
  BY Zenon, <1>2 DEF DecoderInv, SourceType, PositionType, RelationsInv, TransactionInv,
              BatchInv, PrefixOfTxn, session, decoder
<1>3. CASE SourceAlter
  <2>1. catalog' \in [Ids -> Relations \cup {Null}]
    BY <1>3 DEF SourceAlter, DecoderInv, SourceType, Relation, Relations
  <2> QED BY <1>2, <1>3, <2>1 DEF SourceAlter
<1>4. CASE SourceRecreate
  <2>1. PICK i \in Ids, j \in Ids, t \in Types :
          /\ catalog[i] # Null
          /\ catalog' = [catalog EXCEPT ![i] = Null, ![j] = Relation(catalog[i].name, t)]
    BY Zenon, <1>4 DEF SourceRecreate
  <2>2. Relation(catalog[i].name, t) \in Relations
    BY <2>1 DEF DecoderInv, SourceType, Relation, Relations
  <2>3. catalog' \in [Ids -> Relations \cup {Null}]
    BY <2>1, <2>2 DEF DecoderInv, SourceType
  <2> QED BY <1>2, <1>4, <2>3 DEF SourceRecreate
<1> QED BY <1>1, <1>3, <1>4

\* BEGIN opens a transaction in a decoder that has none.
LEMMA BeginStep ==
  ASSUME DecoderInv, Begin
  PROVE  DecoderInv'
<1>1. /\ sent = Null /\ transaction = Null /\ next <= Len(wal)
      /\ sent' = 0 /\ transaction' = <<>> /\ failed' = FALSE /\ batch' = Null
      /\ UNCHANGED <<catalog, wal, acked, drops, next, announced, relations>>
  BY DEF Begin, Pending, DecoderInv, TransactionInv, source
<1>2. wal[next] \in Seq(Logged)
  BY <1>1 DEF DecoderInv, SourceType, PositionType
<1>3. sent' # Null /\ transaction' # Null
  <2>1. sent' \in Nat /\ transaction' \in Seq(Decoded)
    BY <1>1
  <2> QED BY <2>1, NullOutside
<1>4. TransactionInv'
  BY <1>1, <1>2, <1>3 DEF TransactionInv, PrefixOfTxn
<1> QED BY <1>1, <1>4 DEF DecoderInv, SourceType, PositionType, RelationsInv, BatchInv

\* The next change of a transaction that is being sent.
LEMMA NextChangeType ==
  ASSUME DecoderInv, Sending
  PROVE  /\ sent \in Nat /\ sent + 1 \in 1..Len(wal[next])
         /\ wal[next] \in Seq(Logged)
         /\ NextChange \in Logged
<1>1. /\ next \in 1..Len(wal) /\ sent \in 0..Len(wal[next]) /\ sent < Len(wal[next])
  BY DEF Sending, Pending, DecoderInv, TransactionInv, PositionType, SourceType
<1>2. wal[next] \in Seq(Logged)
  BY <1>1 DEF DecoderInv, SourceType
<1> QED BY <1>1, <1>2 DEF NextChange

\* A Relation message.
LEMMA AnnounceStep ==
  ASSUME DecoderInv, AnnounceRelation
  PROVE  DecoderInv'
<1>1. NextChange \in Logged
  BY NextChangeType DEF AnnounceRelation
<1>2. /\ announced' = [announced EXCEPT ![NextChange.id] =
                         Relation(NextChange.name, NextChange.types)]
      /\ relations' = [relations EXCEPT ![NextChange.id] =
                         Relation(NextChange.name, NextChange.types)]
      /\ batch' = Null
      /\ UNCHANGED <<catalog, wal, acked, drops, next, sent, transaction, failed>>
  BY DEF AnnounceRelation, add_relation, source
<1>3. Relation(NextChange.name, NextChange.types) \in Relations
  BY <1>1 DEF Relation, Relations, Logged
<1>4. RelationsInv'
  BY Zenon, <1>2, <1>3 DEF DecoderInv, RelationsInv
<1> QED BY Zenon, <1>2, <1>4 DEF DecoderInv, SourceType, PositionType, TransactionInv,
                          BatchInv, PrefixOfTxn

\* A change of an announced relation.
LEMMA ChangeStep ==
  ASSUME DecoderInv, decode_wal_payload
  PROVE  DecoderInv'
<1> DEFINE c == NextChange
           d == [kind |-> c.kind, name |-> relations[c.id].name]
<1>1. /\ sent \in Nat /\ sent + 1 \in 1..Len(wal[next])
      /\ wal[next] \in Seq(Logged) /\ c \in Logged
  BY NextChangeType DEF decode_wal_payload
<1>2. relations[c.id] = [name |-> c.name, types |-> c.types]
  BY DEF decode_wal_payload, IsAnnounced, DecoderInv, RelationsInv, Relation
<1>3. relations[c.id] # Null
  <2>1. [name |-> c.name, types |-> c.types] \in Relations
    BY <1>1 DEF Relations, Logged
  <2> QED BY <1>2, <2>1, NullOutside
<1>4. /\ sent # Null /\ transaction # Null
      /\ transaction \in Seq(Decoded) /\ Len(transaction) = sent
      /\ PrefixOfTxn(transaction, wal[next]) /\ next <= Len(wal)
  BY DEF decode_wal_payload, Sending, DecoderInv, TransactionInv
<1>5. /\ sent' = sent + 1 /\ batch' = Null
      /\ transaction' = Append(transaction, d) /\ failed' = FALSE
      /\ UNCHANGED <<catalog, wal, acked, drops, next, announced, relations>>
  BY <1>3, <1>4 DEF decode_wal_payload, push_change, source, DecoderInv
<1>6. d \in Decoded /\ d.kind = c.kind /\ d.name = c.name
  BY <1>1, <1>2 DEF Decoded, Logged
<1>7. c = wal[next][sent + 1]
  BY DEF NextChange
<1> HIDE DEF c, d
<1>8. /\ transaction' \in Seq(Decoded) /\ Len(transaction') = sent + 1
      /\ \A i \in 1..sent : transaction'[i] = transaction[i]
      /\ transaction'[sent + 1] = d
  BY <1>1, <1>4, <1>5, <1>6
<1>9. PrefixOfTxn(transaction', wal[next])
  BY <1>1, <1>4, <1>6, <1>7, <1>8 DEF PrefixOfTxn
<1>10. transaction' # Null /\ sent' # Null
  <2>1. sent' \in Nat
    BY <1>1, <1>5
  <2> QED BY <1>8, <2>1, NullOutside
<1>11. TransactionInv'
  BY <1>1, <1>4, <1>5, <1>8, <1>9, <1>10 DEF TransactionInv, PrefixOfTxn
<1> QED BY <1>5, <1>11 DEF DecoderInv, SourceType, PositionType, RelationsInv, BatchInv

\* COMMIT hands over the whole transaction.
LEMMA CommitStep ==
  ASSUME DecoderInv, Commit
  PROVE  DecoderInv'
<1>1. /\ next \in 1..Len(wal) /\ sent # Null /\ sent = Len(wal[next])
      /\ transaction # Null /\ Len(transaction) = sent
      /\ PrefixOfTxn(transaction, wal[next])
  BY DEF Commit, Pending, DecoderInv, TransactionInv, PositionType, SourceType
<1>2. /\ transaction' = Null /\ sent' = Null /\ failed' = FALSE /\ next' = next + 1
      /\ UNCHANGED <<catalog, wal, acked, drops, announced, relations>>
  BY <1>1 DEF Commit, source, DecoderInv
<1>3. \E t : batch' = [txn |-> next, changes |-> transaction, types |-> t]
  BY <1>1 DEF Commit
<1>4. batch'.txn = next /\ batch'.changes = transaction
  BY <1>3
<1>5. BatchInv'
  BY <1>1, <1>2, <1>4 DEF BatchInv, PrefixOfTxn
<1>6. PositionType'
  BY <1>1, <1>2 DEF DecoderInv, PositionType, SourceType
<1> QED BY <1>2, <1>5, <1>6 DEF DecoderInv, SourceType, RelationsInv, TransactionInv

\* The runner's acknowledgement.
LEMMA AcknowledgeStep ==
  ASSUME DecoderInv, Acknowledge
  PROVE  DecoderInv'
<1>1. batch.txn \in 1..Len(wal)
  BY DEF Acknowledge, DecoderInv, BatchInv
<1>2. /\ acked' = batch.txn /\ batch' = Null
      /\ UNCHANGED <<catalog, wal, drops, next, sent, announced, relations, transaction,
                     failed>>
  BY DEF Acknowledge, source, session, decoder
<1>3. PositionType'
  BY <1>1, <1>2 DEF DecoderInv, PositionType, SourceType
<1> QED BY <1>2, <1>3 DEF DecoderInv, SourceType, RelationsInv, TransactionInv, BatchInv,
                          PrefixOfTxn

\* A new session with a new decoder.
LEMMA ReconnectStep ==
  ASSUME DecoderInv, Reconnect
  PROVE  DecoderInv'
<1>1. /\ next' = acked + 1 /\ sent' = Null /\ announced' = NoRelations
      /\ relations' = NoRelations /\ transaction' = Null
      /\ batch' = Null /\ failed' = FALSE
      /\ UNCHANGED <<catalog, wal, acked>>
  BY DEF Reconnect, resume_point, new_decoder, source
<1>2. PositionType'
  BY <1>1 DEF DecoderInv, PositionType, SourceType
<1>3. RelationsInv'
  BY <1>1 DEF RelationsInv, NoRelations
<1> QED BY <1>1, <1>2, <1>3 DEF DecoderInv, SourceType, TransactionInv, BatchInv

\* DecoderInv is inductive.
LEMMA DecoderInvariant == Spec => []DecoderInv
<1>1. Init => DecoderInv
  BY DEF Init, DecoderInv, SourceType, PositionType, RelationsInv, TransactionInv,
         BatchInv, NoRelations, Relation, Relations
<1>2. DecoderInv /\ [Next]_vars => DecoderInv'
  <2> SUFFICES ASSUME DecoderInv, [Next]_vars
               PROVE  DecoderInv'
    OBVIOUS
  <2>1. CASE UNCHANGED vars
    BY Zenon, <2>1 DEF vars, DecoderInv, SourceType, PositionType, RelationsInv,
                TransactionInv, BatchInv, PrefixOfTxn
  <2> QED BY <2>1, SourceSteps, BeginStep, AnnounceStep, ChangeStep, CommitStep,
             AcknowledgeStep, ReconnectStep DEF Next
<1> QED BY <1>1, <1>2, PTL DEF Spec

\* A batch holds exactly the changes of one source transaction, in order, whatever
\* a disconnection cut off before it (push_stream_event, push_change), for every
\* length of transaction and log.
THEOREM BatchesAreTransactions == Spec => []BatchIsTransaction
<1>1. DecoderInv => BatchIsTransaction
  BY DEF DecoderInv, BatchInv, PrefixOfTxn, BatchIsTransaction
<1> QED BY <1>1, DecoderInvariant, PTL

\* A well-behaved source never makes the decoder fail: its four protocol errors are
\* unreachable across disconnections, because the decoder is made anew for each
\* session (run_replication_ingest_with_store_and_readiness).
THEOREM DecoderNeverFails == Spec => []NoProtocolError
<1>1. DecoderInv => NoProtocolError
  BY DEF DecoderInv, NoProtocolError
<1> QED BY <1>1, DecoderInvariant, PTL
------------------------------------------------------------------------------
\* The types of a batch.

\* Every table of a transaction is logged under one definition, the one the
\* catalog had when the transaction committed.
LogConsistent ==
  \A n \in 1..Len(wal) : \A i, j \in 1..Len(wal[n]) :
    wal[n][i].id = wal[n][j].id =>
      wal[n][i].name = wal[n][j].name /\ wal[n][i].types = wal[n][j].types

\* The decoder knows the relation of a change as it was logged.
Known(c) == relations[c.id] = [name |-> c.name, types |-> c.types]

\* What was sent of the open transaction is known as it was logged: a later
\* announcement in the same transaction cannot be of another definition.
SentKnown == sent # Null => \A i \in 1..sent : Known(wal[next][i])

TypesInv == LogConsistent /\ SentKnown /\ BatchTypesCurrent

\* The log stays consistent while nothing is committed.
LEMMA LogKept ==
  ASSUME TypesInv, UNCHANGED wal
  PROVE  LogConsistent'
BY DEF TypesInv, LogConsistent

\* Steps that leave the log, the session's position, the relations and the batch
\* alone.
LEMMA TypesUntouched ==
  ASSUME TypesInv, UNCHANGED <<wal, next, sent, relations, batch>>
  PROVE  TypesInv'
<1>1. LogConsistent'
  BY LogKept
<1>2. SentKnown'
  BY Zenon DEF TypesInv, SentKnown, Known
<1>3. BatchTypesCurrent'
  BY Zenon DEF TypesInv, BatchTypesCurrent
<1> QED BY <1>1, <1>2, <1>3 DEF TypesInv

\* A source transaction takes all of its changes from one catalog.
LEMMA TypesCommitted ==
  ASSUME DecoderInv, TypesInv, SourceCommit
  PROVE  TypesInv'
<1>1. PICK n \in 0..MaxChanges : \E cs \in [1..n -> Changes] : wal' = Append(wal, cs)
  BY DEF SourceCommit
<1>2. PICK cs \in [1..n -> Changes] : wal' = Append(wal, cs)
  BY <1>1
<1>3. n \in Nat /\ Len(cs) = n
  BY DecoderAssumption
<1>4. /\ Len(wal) \in Nat /\ Len(wal') = Len(wal) + 1
      /\ \A m \in 1..Len(wal) : wal'[m] = wal[m]
      /\ wal'[Len(wal) + 1] = cs
  BY <1>2 DEF DecoderInv, SourceType
<1>5. \A i, j \in 1..n : cs[i].id = cs[j].id =>
        cs[i].name = cs[j].name /\ cs[i].types = cs[j].types
  <2>1. \A c \in Changes : c.name = catalog[c.id].name /\ c.types = catalog[c.id].types
    BY DEF Changes, Change
  <2> QED BY <2>1
<1>6. LogConsistent'
  <2> SUFFICES ASSUME NEW m \in 1..(Len(wal) + 1),
                      NEW i \in 1..Len(wal'[m]), NEW j \in 1..Len(wal'[m]),
                      wal'[m][i].id = wal'[m][j].id
               PROVE  /\ wal'[m][i].name = wal'[m][j].name
                      /\ wal'[m][i].types = wal'[m][j].types
    BY Zenon, <1>4 DEF LogConsistent
  <2>1. CASE m \in 1..Len(wal)
    <3>1. wal'[m] = wal[m]
      BY <1>4, <2>1
    <3> QED BY <2>1, <3>1 DEF TypesInv, LogConsistent
  <2>2. CASE m = Len(wal) + 1
    BY <1>3, <1>4, <1>5, <2>2
  <2> QED BY <1>4, <2>1, <2>2
<1>7. UNCHANGED <<next, sent, relations, batch>>
  BY DEF SourceCommit, session, decoder
<1>8. SentKnown'
  <2>1. sent # Null => next \in 1..Len(wal)
    BY DEF DecoderInv, TransactionInv, PositionType, SourceType
  <2> QED BY Zenon, <1>4, <1>7, <2>1 DEF TypesInv, SentKnown, Known
<1>9. BatchTypesCurrent'
  <2>1. batch # Null => batch.txn \in 1..Len(wal)
    BY DEF DecoderInv, BatchInv
  <2>2. batch # Null => wal'[batch.txn] = wal[batch.txn]
    BY <1>4, <2>1
  <2> QED BY <1>7, <2>2 DEF TypesInv, BatchTypesCurrent
<1> QED BY <1>6, <1>8, <1>9 DEF TypesInv

\* A Relation message replaces nothing the transaction already used.
LEMMA TypesAnnounced ==
  ASSUME DecoderInv, TypesInv, AnnounceRelation
  PROVE  TypesInv'
<1> DEFINE c == NextChange
<1>1. /\ sent \in Nat /\ sent + 1 \in 1..Len(wal[next]) /\ c \in Logged
      /\ c = wal[next][sent + 1] /\ next \in 1..Len(wal) /\ sent # Null
  <2>1. Sending
    BY DEF AnnounceRelation
  <2>2. next \in 1..Len(wal) /\ sent # Null
    BY <2>1 DEF Sending, Pending, DecoderInv, PositionType, SourceType
  <2> QED BY <2>1, <2>2, NextChangeType DEF NextChange
<1>2. /\ relations' = [relations EXCEPT ![c.id] = [name |-> c.name, types |-> c.types]]
      /\ batch' = Null /\ UNCHANGED <<wal, next, sent>>
      /\ relations[c.id] # [name |-> c.name, types |-> c.types]
  BY DEF AnnounceRelation, add_relation, Relation, source, IsAnnounced, DecoderInv,
         RelationsInv
<1> HIDE DEF c
<1>3. ASSUME NEW i \in 1..sent
      PROVE  Known(wal[next][i])'
  <2>1. i \in 1..Len(wal[next])
    BY <1>1, <1>3
  <2>2. Known(wal[next][i])
    BY <1>1 DEF TypesInv, SentKnown
  <2>3. wal[next][i].id # c.id
    <3>1. wal[next][i].id = c.id => wal[next][i].name = c.name /\ wal[next][i].types = c.types
      BY Zenon, <1>1, <2>1 DEF TypesInv, LogConsistent
    <3> QED BY <1>2, <2>2, <3>1 DEF Known
  <2> QED BY <1>2, <2>2, <2>3 DEF Known, DecoderInv, RelationsInv
<1>4. SentKnown'
  BY <1>2, <1>3 DEF SentKnown, Known
<1>5. LogConsistent' /\ BatchTypesCurrent'
  BY <1>2, LogKept DEF BatchTypesCurrent
<1> QED BY <1>4, <1>5 DEF TypesInv

\* A change is decoded only when its relation is known as it was logged.
LEMMA TypesDecoded ==
  ASSUME DecoderInv, TypesInv, decode_wal_payload
  PROVE  TypesInv'
<1>1. /\ sent # Null /\ sent' = sent + 1 /\ batch' = Null
      /\ UNCHANGED <<wal, next, relations>>
      /\ Known(wal[next][sent + 1])
  BY Zenon DEF decode_wal_payload, Sending, IsAnnounced, NextChange, Relation, Known, source,
         DecoderInv, RelationsInv
<1>2. \A i \in 1..sent : Known(wal[next][i])
  BY <1>1 DEF TypesInv, SentKnown
<1>3. sent \in Nat
  BY NextChangeType DEF decode_wal_payload
<1>4. \A i \in 1..(sent + 1) : Known(wal[next][i])
  BY <1>1, <1>2, <1>3
<1>5. SentKnown'
  BY Zenon, <1>1, <1>4 DEF SentKnown, Known
<1>6. LogConsistent' /\ BatchTypesCurrent'
  BY <1>1, LogKept DEF BatchTypesCurrent
<1> QED BY <1>5, <1>6 DEF TypesInv

\* COMMIT attaches types of relations that are known as they were logged.
LEMMA TypesAttached ==
  ASSUME DecoderInv, TypesInv, Commit
  PROVE  TypesInv'
<1>1. /\ next \in 1..Len(wal) /\ sent # Null /\ sent = Len(wal[next])
      /\ transaction # Null
  BY DEF Commit, Pending, DecoderInv, TransactionInv, PositionType, SourceType
<1>2. sent' = Null /\ UNCHANGED <<wal, relations>>
  BY DEF Commit, source
<1>3. PICK t \in {f \in [Cached -> Types] :
                    \A n \in Cached : f[n] \in current_relation_column_types(n)} :
        batch' = [txn |-> next, changes |-> transaction, types |-> t]
  BY <1>1 DEF Commit
<1>4. batch'.txn = next /\ batch'.types = t
  BY <1>3
<1>5. ASSUME NEW i \in 1..Len(wal[next]),
             Cardinality({j \in Ids : /\ relations[j] # Null
                                      /\ relations[j].name = wal[next][i].name}) = 1
      PROVE  t[wal[next][i].name] = wal[next][i].types
  <2> DEFINE c == wal[next][i]
             Same == {j \in Ids : relations[j] # Null /\ relations[j].name = c.name}
  <2>1. c \in Logged
    BY <1>1 DEF DecoderInv, SourceType
  <2>2. relations[c.id] = [name |-> c.name, types |-> c.types]
    BY <1>1 DEF TypesInv, SentKnown, Known
  <2> HIDE DEF c
  <2>3. relations[c.id] # Null
    BY <2>1, <2>2, NullOutside DEF Relations, Logged
  <2>4. c.id \in Same /\ c.name \in Cached
    BY <2>1, <2>2, <2>3 DEF Logged, Cached
  <2>5. IsFiniteSet(Same)
    BY FS_Subset, DecoderAssumption
  <2>6. Cardinality(Same) = 1
    BY <1>5 DEF c
  <2>7. Same = {c.id}
    <3> HIDE DEF Same
    <3> QED BY <2>4, <2>5, <2>6, FS_Singleton
  <2>8. current_relation_column_types(c.name) = {c.types}
    BY <2>2, <2>7 DEF current_relation_column_types
  <2> QED BY Zenon, <2>4, <2>8 DEF c
<1>6. BatchTypesCurrent'
  BY Zenon, <1>2, <1>4, <1>5 DEF BatchTypesCurrent
<1>7. LogConsistent' /\ SentKnown'
  BY <1>2, LogKept DEF SentKnown
<1> QED BY <1>6, <1>7 DEF TypesInv

\* The types of a batch are those the source had when the transaction committed,
\* for every table that has been known under one id only in this session
\* (add_relation replaces a cached relation; current_relation_column_types), however
\* often tables are altered or re-created and the stream is cut off.
THEOREM BatchTypesCorrect == Spec => []BatchTypesCurrent
<1>1. Init => TypesInv
  BY DEF Init, TypesInv, LogConsistent, SentKnown, BatchTypesCurrent
<1>2. DecoderInv /\ TypesInv /\ [Next]_vars => TypesInv'
  <2> SUFFICES ASSUME DecoderInv, TypesInv, [Next]_vars
               PROVE  TypesInv'
    OBVIOUS
  <2>1. CASE SourceAlter \/ SourceRecreate \/ UNCHANGED vars
    BY Zenon, <2>1, TypesUntouched DEF SourceAlter, SourceRecreate, session, decoder, vars
  <2>2. CASE Begin
    <3>1. sent' = 0 /\ batch' = Null /\ UNCHANGED <<wal, next, relations>>
      BY <2>2 DEF Begin, source
    <3>2. LogConsistent' /\ BatchTypesCurrent'
      BY <3>1, LogKept DEF BatchTypesCurrent
    <3>3. SentKnown'
      BY <3>1 DEF SentKnown
    <3> QED BY <3>2, <3>3 DEF TypesInv
  <2>3. CASE Acknowledge
    <3>1. batch' = Null /\ UNCHANGED <<wal, next, sent, relations>>
      BY <2>3 DEF Acknowledge, source, session, decoder
    <3>2. LogConsistent' /\ BatchTypesCurrent'
      BY <3>1, LogKept DEF BatchTypesCurrent
    <3>3. SentKnown'
      BY Zenon, <3>1 DEF TypesInv, SentKnown, Known
    <3> QED BY <3>2, <3>3 DEF TypesInv
  <2>4. CASE Reconnect
    <3>1. batch' = Null /\ sent' = Null /\ UNCHANGED wal
      BY <2>4 DEF Reconnect, source
    <3>2. LogConsistent' /\ BatchTypesCurrent'
      BY <3>1, LogKept DEF BatchTypesCurrent
    <3>3. SentKnown'
      BY <3>1 DEF SentKnown
    <3> QED BY <3>2, <3>3 DEF TypesInv
  <2> QED BY <2>1, <2>2, <2>3, <2>4, TypesCommitted, TypesAnnounced, TypesDecoded,
             TypesAttached DEF Next
<1>3. TypesInv => BatchTypesCurrent
  BY DEF TypesInv
<1> QED BY <1>1, <1>2, <1>3, DecoderInvariant, PTL DEF Spec
=============================================================================
