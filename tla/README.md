# powersync-mdbx in TLA+

powersync-mdbx replicates a PostgreSQL database through a logical replication
slot into one MDBX environment and serves sync-rule buckets from it to PowerSync
clients over `/sync/stream`. This directory holds TLA+ models of it, the TLC runs
that check them on small instances, and TLAPS proofs for every value of the
constants. Paths below are relative to `crates/powersync-mdbx/src/`.

## Inventory

| Part | State | Operations | What makes it hard | Module |
|---|---|---|---|---|
| Replication runner (`main.rs`, `replication/runner.rs`, `replication/runtime.rs`) | stream position, received batch, readiness flag | connect, check slot, start, receive, persist, acknowledge, end, retry | crash between persist and acknowledge, redelivery, walsender of the previous run, slot moved by others | `ReplicationIngest` |
| Bootstrap (`replication/snapshot.rs`) | durable intent, marker, identity, slot | inspect, drop, reset, create slot with exported snapshot, scan, marker | crash at every step, slot of somebody else, another source or contract | `ReplicationIngest` |
| Publication checks (`replication/runtime.rs`) | what separate queries found | create, read coverage, read each table, validate | a publication altered at any point, everything that makes pgoutput leave changes out | `Publication` |
| Batch decoder (`replication/ingest/decoder.rs`) | relations, open transaction | begin, relation, change, commit | connections cut inside a transaction, altered and recreated tables | `BatchDecoder` |
| Ingest store (`replication/ingest/store.rs`) | layout version, durable LSN, cursor generation | batch, snapshot batch, marker, reset, layout wipe; each one MDBX transaction | idempotency by LSN, generations that must not go back, a second process | `ReplicationIngest`, `SyncTail`, `SplitDeployment` |
| Tail log (`tail_log.rs`, `derive.rs`) | operations, route index, two floors | derive, log, index, prune | off-by-one at the floors, rows that change route | `SyncTail` |
| Documents and accumulators (`current_state.rs`, `accumulators.rs`) | current rows, current and tail checksum per query | put, remove, snapshot put | additive deltas that must equal a rescan | `SyncTail`, `RuleServing`, `RowProjection` |
| Parameter lookups (`lookup_state.rs`) | lookup rows, index | copy, put, remove, scan | omitted TOAST columns, entries of former values | `LookupState` |
| Rule compiler and evaluator (`sync_rules/`) | none | parse, normalize, lower, resolve, route, project | text rewriting that loses conditions; writer and reader that must agree | `RuleCompiler`, `RuleServing`, `RowProjection` |
| Bucket reads (`storage/wire_mdbx.rs`, `protocol/messages.rs`) | none (one read transaction) | cursor check, snapshot or delta, checkpoint | old, pruned, future and cut cursors, dense deltas | `BucketSync` |
| Stream requests (`http/sync_stream.rs`, `http/mod.rs`) | permits, queue, lifetime, captured plan | admit, wait, time out, answer, hold open, end | permits held for a stream's life, timers, retired plans | `StreamAdmission` |
| Held-open streams | cursors, watch receiver | compare, subscribe, wait, re-read | notification races | `TailWatch` |
| Control plane (`control_plane/`, `http/management.rs`) | current, pending and past rules, state file | deploy, reprocess, activate, fail, persist, load | separate critical sections, memory ahead of disk | `SyncRules` |
| Auth, TLS, options, encodings, scripts | see "Not modelled" | | | |

The decoder feeds the runner, the runner the store; the store's last op id feeds the
watch channel; reads are answered while the snapshot marker is set and, in unified
mode, while the runner is connected. The control plane supplies the plan that
derivation, routing and reads use. What each part must guarantee is stated by the
properties listed with the runs; the hazards behind them are listed with their lines
in `PROJECT.json`.

## Modules

**`ReplicationIngest`** models the runner, the bootstrap and the durable metadata.
A source is a PostgreSQL database with one slot of the configured name; its n-th
transaction has end LSN n. `applied` counts, for each part of the data set (one
snapshot batch each), how often each transaction's effect is in MDBX: the code's
additive accumulators are right exactly when every count is right. `pc` is the
place of the run:

| Action | Code |
|---|---|
| `Boot` | `ensure_layout_version_for`: a store of another contract is cleared, marker and intent included |
| `SkipSnapshot`, `InspectBootstrap`, `DropInterruptedSlot`, `ResetIncompleteSnapshot` | `run_initial_snapshot_if_enabled`, `reconcile_incomplete_bootstrap` |
| `CreateExportedSnapshot`, `PersistSnapshotBatch`, `PersistSnapshotMarker` | the scan and its transactions |
| `ValidateExistingSlot`, `StartReplication` | `validate_existing_slot`, `connect_existing` |
| `ReceiveCommit`, `PersistBatch` | the receive loop, `persist_batch_with_plan`, `update_applied_lsn` |
| `RunFails`, `RunRefused`, `Crash` | the error paths and the retry loop of `main.rs` |
| `Commit`, `SlotReleased`, `FeedbackArrives`, `PostgresRestarts`, `OperatorDropsSlot` | PostgreSQL, external |
| `OtherCreatesSlot`, `OtherAdvancesSlot` | `ensure_slot` and the tap (`run_with_observer`); in `SharedNext` and in `SplitDeployment` only |

A refusal that changes nothing is the negation of a guard. Each network request
and each MDBX transaction is a step of its own, so anything may happen between
them.

**`Replica`** is the abstract specification: readers see a prefix of one source
appear, grow by one transaction at a time, or be withdrawn. `ReplicationIngest`
implements it with `View` as the mapping (`ImplementsReplica`).

**`SyncTail`** models what the store is made of: documents, tail operations, route
index, floors, both accumulators. A write action is a whole MDBX transaction,
pruning included. A checksum is the number of times each hash input was added
less the number of times it was subtracted; wrapping 32-bit addition is addition
of those numbers, and what is left out is hash collisions. **`BucketSync`** extends
it by the read side and a client that may be cut off after any entry and resumes
at the last op id it got.

**`TailWatch`** models a held-open stream's wait: cursor comparison, baseline,
check, subscription, borrow, wait and re-check are separate steps against the
replication task's commit and send, and against a rule activation, which sends 0.

**`SplitDeployment`** extends `ReplicationIngest` by a second process: `ApiBoot` opens
the store with rules of its own (`ensure_layout_version_for`), and the replication
process, which verified the layout once, does not look again. `ReadDurable` and
`StartAtDurable` are the two halves of `connect_existing`, which uses the LSN read
before the connection. `OtherUsesSlot` is the tap or a second service on the slot. `sole`
is a history variable: nobody has cleared the store under the running process or used
its slot.

**`Publication`** models a start: `ensure_publication`, `publication_coverage`, one
`publication_table_semantics` per required table, `Validate`, then `Copy` on the first
start and the stream. `Alter` puts the publication in any state between any two of
them. What pgoutput sends for a publication (`Covered`, `PublishedAs`, `Output`) is
external: operations, table list, column lists, row filters, partition roots, and updates
that leave an out-of-line (TOAST) value alone and do not carry it (`UpdateOthers`). The
store takes the new tuple as it came (derive.rs:78), so the value is then missing from the
document until a later change carries it. The property says so: `bare` remembers the rows
whose last change did not carry the value, and `Carried` is the table as its last changes
carried it. Only lookup rows keep the former value (`LookupState`).

**`BatchDecoder`** models `push_stream_event` and `decode_wal_payload` against a
walsender that announces a relation before its first change and again after it was
altered, and that starts again from the acknowledged position after a disconnection,
with a new decoder.

**`LookupState`** models the lookup rows and their index. `BeginCopy` and `BeginBatch`
open a write transaction, `ApplyOp` applies one operation to its private pages,
`Commit` publishes them; a crash during the copy starts it again.

**`RuleCompiler`** holds the compiler as operators over syntax trees: what
`query.rs` and `lowering.rs` decide by looking at text is decided on the kinds of
operands, including the texts that are mistaken for something else. **`RuleServing`**
adds the evaluator, the route index, the accumulators and the resolution of a request's
buckets, and compares the rows served with an evaluation of the same rules as SQL
(`Selected`). That reference shares with the code's side only the scope of names (`InScope`)
and the values of a request (`binding_value`).

**`RowProjection`** follows one row of typed texts through serialization, projection
and its checksum contribution, along the copy's path and along the stream's. The copy's
texts are casts to text (`CastText`), the stream's are what the type prints. Readers and
the stream parse the stored document with serde_json and print it again (`from_str`), where
a float of 17 digits may come back as its neighbour (`Reread`: 31.245270191439438 as
31.24527019143944); the copy of a list of columns prints the row's own text instead
(`project_row_json_from_serialized`). `PutRow` may leave out unchanged TOAST columns.
Two limits follow, which the properties state: `SumIsDocument` leaves out a store whose
copy projected such a float (`imprecise`), and `DocumentIsRow` is about the columns a
document has, `char(n)` excepted, whose padding the cast drops. Ids are of text and integer
columns (`IdColumnsAssumption`), and no computed column hides a column that the id reads.

**`StreamAdmission`** models `sync_stream`: readiness, authorization, body and buckets
may refuse the request; it queues for a permit, which it gets in order of arrival or
misses by the timeout; each way to answer gives the permit back or keeps it with the
body. `Tick` is one unit of time for every timer; a timer that has run out stops the
clock until its owner has acted. A body is polled only while its client reads:
`StopReading` and `ReadOn` are the client's, and `take_until` ends a body whose time is
over at the next poll (`ReadOnTooLate`). A client that stays connected and reads no more
keeps its body and its permit, so `BodyEnds` asks that the client goes on reading and
`BodyEndsWithToken` speaks of bodies that are polled.

**`SyncRules`** models the control plane. `pc[r]` is the next critical section of
request r: `stage_candidate`, `pending_plan`, `storage_contract_id`,
`mark_activating`, then `refuse_layout_change`, or `reset_for_layout_version` and
`activate_pending`, with `give_up` on an error. Every section may find that
the write of the state file fails after memory was changed. A process may be started with
other configured rules than the one before: `Boot` lays the store out for the configured
rules, while the state file's rules, if there are any, are the active ones.
`persist_batch_with_plan` then clears the store for the active plan. Until it does, the
active plan is served from a store made for another one, which `ActivePlanMatchesStore`
says: it promises the store's contract only when the configured rules have the contract of
the rules active at the start.

The `MC*` modules only add model values, configuration sets and, for `bucket`, symmetry.
Operators commented `Mutant:` are wrong variants of the definition below them;
with one put in its place, the property named in `PROJECT.json` fails.

## Runs

| Run | Result | States | What it checks |
|---|---|---|---|
| `ingest` | pass | 170,948 | the store is an exact replica of the source it is labelled with, the slot is never ahead of it, readiness and stream position fit it, only an own slot is dropped, the service implements `Replica`; when faults stop, a bootstrap completes and every commit is persisted |
| `split` | pass | 84,322 | two processes over one store, either set of rules, other users of the slot: nothing is ever applied twice; readiness hides an incomplete store, unless it was cleared under the running replication process or the slot had another user (`sole`) |
| `bucket` | pass | 237,562 | both replica identities, transactions of one or two changes: accumulators equal a rescan, the retained log has no holes, a client that got whole responses or validated a checkpoint has exactly the bucket, and with full old tuples checkpoints follow the emitted checksums |
| `bucket_recurrence` | violation | | with the default identity an update that moves a row out of a bucket breaks that recurrence |
| `tail_watch_live` | pass | 221,034 | a stream that waits while there is news has its wake-up coming, and every commit reaches every stream that is read |
| `rules` | pass | 362,021 | two concurrent deploys, a failing write or store, a crash, a restart with other rules: the active plan is the one on record and fits the store unless other rules were configured, no update is lost, a version names one text, an answered activation is durable; without a fault a candidate keeps its plan and is resolved |
| `admission` | pass | 175,716 | permits are conserved on every path, a body that is polled outlives its token by at most the wait, every wait is answered, every body that is read ends |
| `lookup` | pass | 326,316 | index entries are those of the stored rows, and a scan is the SQL of the lookup or a limit error, through crashes of the copy |
| `serving` | pass | 14,299 | rows served are those the rules' SQL selects, as last written; counts are those of the rows served; buckets resolve within the limit |
| `decoder` | pass | 351,432 | a batch is exactly one transaction with the types it was committed under, and all are decoded in the end |
| `projection` | pass | 1,882 | the accumulator holds what readers of the document compute, unless the copy listed a float that is not read back; copy and stream store the same values; ids agree |
| `publication` | pass | 1,436,710 | an accepted publication publishes what the rules need, and the store then follows the source as its changes carried it |

**Disagreements.** `bucket_recurrence` is the one kept as a run; `findings` quotes the
sentence it contradicts. The following configurations are not runs of
`PROJECT.json`; each reproduces, in seconds, a disagreement met while modelling
between the code and a sentence of the repository (`tlc -config X.cfg` with the MC
module of the same part).

| Configuration | Property | What happens |
|---|---|---|
| `IngestRulesChange` | `WipedStoreRematerialized` | docs/correctness.md:23: a store of another contract "is wiped and re-materialized from a fresh snapshot on next boot"; the wipe removes the intent, and the old slot then makes every bootstrap refuse (snapshot.rs:330) until somebody drops it |
| `IngestForeignSlotDropped` | `DropsOnlyOwnSlot` | docs/scope.md:30: a reset needs an intent that "proves ownership of the inactive slot"; the intent also matches a slot somebody else created after it was written |
| `IngestStaleSlotCheck` | `StreamContinuesStore` | runtime.rs:254 refuses a slot "ahead of MDBX durable LSN"; the tap can advance it between that check and the start |
| `TailWatchMissed` | `NoMissedWakeup` | sync_stream.rs:732: commits wake streams "immediately"; one before the subscription is noticed after the poll interval |
| `LookupKeyChange` | `AbsentColumnKept` | lookup_state.rs:168: an absent column "keeps its previously materialized value"; not when the same update changes the id |
| `ServingComparison` | `OperatorsSupported` | tests/sync_rules_compat.rs:261: another operator "must fail closed at compile time"; a comparison with a request value is dropped with its conjunct instead, whether the query joins a with-query or not (lowering.rs:929, 963) |
| `ServingInList` | `ServedIsQuery` | a parenthesized list of quoted texts is taken for one text (query.rs:706) |
| `ServingArray` | `ServedIsQuery` | a route over an array column is indexed under the whole array and never met (eval.rs:662) |
| `ServingBound` | `ServedIsQuery` | docs/scope.md:34; a selected column compared with a request value is bound to it without the lookup, and other terms are not consulted (lowering.rs:309) |
| `ServingSameTable` | `CountIsServed` | docs/correctness.md:10; a row matched by two queries of one bucket is served once and counted twice (eval.rs:682) |
| `ServingDuplicates` | `DistinctBuckets` | docs/correctness.md:11: "no duplicate PUT ids"; two lookup rows with one value name a bucket twice |
| `ProjectionFloat` | `SumIsReadersSum` | sync_rules/tests.rs:650 asserts that the copy's projection equals the document's; not for a float that serde_json, built without `float_roundtrip`, does not read back, and the accumulator then stays wrong |
| `PublicationAltered` | `AlteredRejected` | README.md:36: an altered publication "is rejected at the next restart"; not when it was restored by then |

A further one is stated by `sole` in `SplitDeployment`: docs/scope.md:30 says that
"incomplete bootstraps are hidden by readiness", and without `sole` an API-only process
with other rules can clear the store during a copy, whose remaining batches and marker
then make an incomplete store ready.

**Type invariants** (`TypeOK`, `SplitTypeOK`) describe the shape of each module's state.
They hold in the runs' instances; the runs list only what says more. `TypeCorrect` and
`RulesTypeCorrect` prove those of `ReplicationIngest` and `SyncRules`.

**Bounds.** `MaxLsn` 2 or 3 with `NumBatches` 2 gives a transaction before, during
and after the scan, an acknowledged and an unacknowledged one, and a half-copied
store. Two sources and two contracts give every mismatch of identity. In `bucket` two
rows and two routes, with one visible and one filtered value, give every move between
buckets; `MaxOp` leaves room for a snapshot, for more operations than `Retain` keeps,
for deltas of two operations and of more than `MaxScan`, and for a second generation; a transaction has one or two changes
of any rows. Two held-open streams with two
commits and two activations give every order of the waits. In `rules` three revisions
let one request drop the candidate of another and a third deploy meet what is left
behind, and a restart may be configured with rules of another contract; after a fault two revisions are left, and there is one failing write or store
and one crash. In `admission` one permit and two connections are enough to queue
behind a stream and to come back behind a waiting request; tokens expire before and with
`MaxLifetime`, and an anonymous body lasts until then. `lookup` has two rows with two keys and one crash of the copy.
`serving` compiles each of the listed rule documents, writes and deletes two rows of
two tables, and asks every request of `MCRequests` in every state. `decoder` has two
transactions of up to two changes over two relation ids, altered and recreated tables,
and one cut connection. `projection` takes every listed projection over every combination
of raw values. `publication` has a partitioned table and its parts, every publication
of `MCPublication` at every point, and one restart. Deadlock is checked except in
`rules`, `lookup`, `decoder` and `publication`, whose bounded histories end.

**Fairness.** The runner is weakly fair: it is one task, and `main.rs` restarts it
for ever. Boots are fair: a supervisor restarts the process. PostgreSQL notices dead
clients and delivers feedback. `BootstrapRecovers` and `EveryCommitPersisted` assume
that crashes, failed requests and PostgreSQL restarts stop, and that the process then
runs with the store's source and contract, the snapshot enabled and the slot usable
(`SlotUsable`); without that the code refuses to go on by design. In `TailWatch` each
stream is weakly fair, the timer included, as the tokio runtime polls ready tasks, and
the send follows its commit: the property is about streams whose clients read. In
`SyncRules` a staged request is one synchronous function, so its thread runs on. In `StreamAdmission` handlers and the expired timers of
bodies that are polled are weakly fair; time, which a handler between two of its steps suspends, is strongly fair,
and infinitely often no handler is between two steps: they take no time in the model,
and only finitely many requests arrive at one instant. In `BatchDecoder` the decoder
and the walsender are weakly fair and disconnections bounded. Nothing is assumed of
clients beyond the reading that `BodyEnds` names.

## Proofs

The proof modules hold for every value of the constants that the named assumptions allow.
Each leaf names the facts it uses.

**`ReplicationIngestProofs`**, from `SourcesAssumption`, `BoundsAssumption` and
`ApiAssumption` (it extends `SplitDeployment`): `TypeCorrect`, `ReadinessCorrect`,
`StoreKept` and `AtMostOnce` for `SharedSpec`, in which somebody else uses the slot too;
`ReplicaIsExact`, `AcksDurable`, `SlotNotAhead`, `StreamContinues` and `Refinement` for
`Spec`, in which nobody else does, a restriction that is needed (`IngestStaleSlotCheck`).
The invariant has three layers. `ControlInv` adds to the types what each place of the run
implies about the store: up to the end of the scan the marker is not set, from `resume` on
the store is complete and of the configured identity, and a running process has the layout
of its contract. Readiness and the keeping of a completed store follow from it and are not
inductive without it. `AtMostInv` adds that during a scan exactly the copied parts are
filled, and that nothing lies beyond the durable LSN, so the LSN comparison excludes a
second application. `ExactInv` adds the exact replica itself, that the slot and the
acknowledgements under way are behind the store, that the slot created for a scan is at
the snapshot's point, and that the stream position is at most one past the store. The
refinement follows from `ExactInv`: each step leaves `View` alone, adds the next
transaction, makes a prefix appear, or withdraws it. `OwnSlotDropped` (`DropsOnlyOwnSlot`,
for `Spec`) needs `OwnSlotInv`: an intent is written while the slot is absent, so a slot
that exists beside an intent was created by the bootstrap, and only a run with an intent
reaches the drop. For `SplitSpec` there are two results. `IncompleteNeverServed`
(`IncompleteHidden`) follows from `SplitInv`: as long as `sole` holds the three layers do,
and the durable LSN a run has read is still the store's. `SplitAtMostOnce` needs neither
`sole` nor the layers, which an API process that clears the store under a run breaks;
`OnceInv` keeps only that a store that is streamed into, or may be, holds nothing past its
durable LSN (`HeldBehind`), cleared or not, and that a scan goes into empty parts
(`ScanAhead`).

**`StreamAdmissionProofs`**, from `AdmissionAssumption` with finitely many clients:
`PermitsCorrect` (`PermitsConserved`) and `ArrivalOrder` (`NoOvertaking`: a waiting
request is not overtaken). `AdmissionInv` is the count of free and held permits together
with the queue as a sequence without repetitions of exactly the waiting clients; the
conservation alone says nothing of the queue's order and is not inductive without it.
`BodiesEndWithToken` (`BodyEndsWithToken`) rests on `Timely`: how far a request may be
behind its token at each place of the handler, zero on arrival, the time waited so far in
the queue, and `AdmissionTimeout` at most from then on, or more for a body that is not
polled.

**`LookupStateProofs`**: `IndexCorrect` (`IndexFollowsRows`), which is inductive as it
stands because every operation replaces all entries of its row; the lemmas give that for
put, remove and each kind of operation. `ScanCorrect` (`ScanIsQuery`), from
`LookupAssumption`: finitely many rows, and lookups that refer to columns of their table
and test them for NULL or for equality with a literal. It supposes that
`ToastedKeyChange` is `FALSE`; `TRUE` is the update that changes the id and omits a column, the case of
`LookupKeyChange`. `SourceInv` says that the operations of a transaction that does not
truncate replay the table before it into the table after it (`TxnOK`) and that the
transactions not yet applied lead from the position of the store to the source (`Leads`);
`StoreInv` that the rows are those of the position as far as they are copied, or will be
once the write transaction has applied its remaining operations (`Replays`). The step that
matters is an update that omits a column: the stored document still has the value the
source kept (`UpdateEffect`). That the scan counts as many entries as the query has rows
is a bijection with the selected ids.

**`BatchDecoderProofs`**, from `DecoderAssumption`: `BatchesAreTransactions` and
`DecoderNeverFails`. `DecoderInv` ties the relations the decoder knows to those the
walsender announced in this session, and the open transaction to the prefix of changes
sent, so that a change never meets an unknown relation and a commit always closes what its
Begin opened. `BatchTypesCorrect` (`BatchTypesCurrent`) adds `TypesInv`: all changes of a
transaction were logged from one catalog, so what the decoder knows of the relations sent
so far is what was logged; the assumption has finitely many relation ids, which are 32-bit
numbers.

**`PublicationProofs`**, from `PublicationAssumption`: `AcceptedPublication`. `CheckInv`
says that, unless the publication was altered since the start began, what the queries have
returned so far is true of it (`CoverageTrue`); the validation reads only that.
`StoreFollows` (`StoreFollowsSource`) adds `FollowInv`: while nobody alters the accepted
publication, what the slot has still to send replays the stored rows into the rows of the
source as their last changes carried them (`CarriedAfter`). A replay is stated as the existence of its intermediate states (`Replays`), which
grows at the end with a commit and shrinks at the front with a received message and needs
no recursion; `LookupStateProofs` uses the same form.

**`BucketSyncLemmas`** and **`BucketSyncProofs`**, from `TailAssumption`,
`NoDocAssumption` and `ScanAssumption`: `AccumulatorsCorrect`, `RetainedLogCorrect`,
`WholeResponsesCorrect`, `ValidatedCheckpointCorrect` and `RecurrenceCorrect`, for any
number of rows, routes, contents, changes of a transaction, retained operations and any
scan budget. The one assumption beyond types is `Base > NumIds`: a generation base is the
time since the epoch at about a million ids per millisecond, and a snapshot numbers its
rows downwards from the last op id. `BucketInv` has two halves. `StoreInv` is the
accumulators as a rescan and the log above both floors. `ClientInv` says where the client
would end if it applied the operations it has not seen, one by one (`Replay`): a client
that got every response whole would show the bucket (`Caught`); one that was cut would
have at least the checkpoint's count of every REMOVE hash, and the bucket's rows if its
checksum were the checkpoint's. The property itself speaks only of the moment a response
ends and says nothing of a cursor in the middle of the log; it is not inductive.
`FollowsStep` keeps the replay over one operation, `TransactionStage` over a transaction;
`DeltaResponse` shows that a delta applies exactly the replay's steps, `SnapshotResponse`
what a snapshot leaves behind wherever it is cut, and `CutSnapshot` that what is left
behind can be followed. The last one is the reason why checksums count: whatever a replay
does to a row after a cut adds a hash for it (`Tells`), so the sums agree only where the
rows do.

**`SyncRulesProofs`**, from `RulesAssumption`: `RulesTypeCorrect`, `ActivePlanServed`,
`CandidatePlanned`, `ActivationDurable`, `UpdatesKept` and `VersionsStable`, for any
number of requests in flight, rule texts, failures and crashes. `RulesInv` adds to the
types that the file is an earlier state of the memory in which equal versions have equal
texts (`Behind`), and that a request that still holds its candidate has read this
candidate's plan, whose contract it has compared with the store's once it is past the
check (`RequestOK`). Versions only grow, so a request whose candidate was dropped can
never take another one for its own; without `RequestOK` an activation could promote a plan
for another layout. The layout of a process is that of the rules active at its start
(`booted`): activations keep the contract, so every batch lays the store out for it, and
it is the configured one where the two agree.

**Induction.** `TransactionStage`, `DeltaReplays`, `SnapshotResponse` and `ReplayTells`
are inductions over the length of a transaction, a log or a response. The library's
induction theorems take a predicate, which the provers cannot instantiate;
`NatSetInduction` states the same for a set of numbers and is proved from the pigeonhole
principle of `FiniteSetTheorems`.

Only model-checked: everything temporal under fairness, since fairness and `ENABLED` are
outside the prover's reach (`BootstrapRecovers`, `EveryCommitPersisted`,
`CandidateResolved`, `WaitingAnswered`, `BodyEnds`, `EverythingDecoded` and
`EveryCommitStreamed`), and the safety properties of `TailWatch` (`NewsWakes`), `RuleServing` (`ServedIsQuery`,
`CountIsServed`, `BucketsResolve`) and `RowProjection` (`SumIsDocument`, `DocumentIsRow`,
`IdIsProjected`). These compare what the compiler, the evaluator and the conversions
compute with reference definitions over the rules, rows and values of a small instance;
for every rule text they would need induction over syntax trees. `RECURSIVE` operators
would put a module out of the prover's reach, so there are none.

## Not modelled

- Byte formats, encodings and pagination (`protocol/`, `keys.rs`, the batch codec, JSON
  and BSON output), and the entry and byte budgets that turn a read into an error: no
  property tells their values apart, and their control is modelled by its outcome.
- Splitting YAML and SQL text into parts: `RuleCompiler` starts from syntax trees, and
  from the texts that the code mistakes for others.
- Verification of tokens and keys, TLS, option parsing, routing, health and metrics:
  no protocol state beyond the outcomes that `StreamAdmission` takes as inputs.
- The fixture storage backend, golden plan output, benchmark and evidence scripts.
- Rebuilding the route index of an older store, and values outside the listed types
  (an `inet`, like `char(n)`, is printed differently by the copy's cast).
- Resolving a bucket name that the active plan does not know under the configured rules
  (wire_mdbx.rs:411): `BucketsResolve` shows that the names of a stream request do not
  get there.

`PROJECT.json` gives for each component what is left out and why.
