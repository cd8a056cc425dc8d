-------------------------- MODULE ReplicationIngest --------------------------
(***************************************************************************)
(* The write side of powersync-mdbx: the initial snapshot bootstrap, the   *)
(* replication runner and the durable MDBX metadata that ties them         *)
(* together, with process crashes, runner failures and retries, lost       *)
(* acknowledgements and redelivery, PostgreSQL restarts, and other users   *)
(* of the same replication slot.                                           *)
(*                                                                         *)
(* A source is a PostgreSQL database holding one slot of the configured    *)
(* name.  Its n-th committed transaction has end LSN n.  Every transaction *)
(* touches every part of the data set, and the initial snapshot copies the *)
(* parts one batch after the other, so that `applied' counts for each part *)
(* how often the effect of each transaction is in MDBX: the additive       *)
(* deltas of the code (counts, checkpoint accumulators) are right exactly  *)
(* when every count is the right one.                                      *)
(***************************************************************************)
EXTENDS Integers, FiniteSets

CONSTANTS
  Sources,      \* PostgreSQL databases the service may be pointed at
  Contracts,    \* sync-rule storage contracts (storage_contract_id)
  Configs,      \* configurations the process may be booted with
  NoIdentity,   \* absent snapshot identity or bootstrap intent
  NoLayout,     \* absent layout version
  NumBatches,   \* batches of the initial snapshot
  MaxLsn        \* bound on the transactions a source commits

ASSUME SourcesAssumption ==
  /\ Sources # {}
  /\ Contracts # {}
  /\ Configs \subseteq [source : Sources, contract : Contracts, snapshot : BOOLEAN]
  /\ Configs # {}
  /\ NoIdentity \notin Sources \X Contracts
  /\ NoLayout \notin Contracts
ASSUME BoundsAssumption ==
  /\ NumBatches \in Nat
  /\ MaxLsn \in Nat

VARIABLES
  \* PostgreSQL
  wal,        \* source -> end LSN of its last committed transaction
  slot,       \* source -> the replication slot of the configured name
  \* MDBX, durable
  layout,     \* META_LAYOUT_VERSION
  intent,     \* META_INITIAL_SNAPSHOT_BOOTSTRAP_INTENT
  complete,   \* META_INITIAL_SNAPSHOT_COMPLETE
  identity,   \* META_INITIAL_SNAPSHOT_SOURCE_IDENTITY
  lastLsn,    \* META_LAST_COMMIT_END_LSN
  applied,    \* part -> <<source, LSN>> -> times the transaction is in the part
  \* the service process
  config,     \* its configuration; stale while the process is down
  pc,         \* where the replication runner is
  snapLsn,    \* consistent point of the exported snapshot being copied
  copied,     \* batches of that snapshot already persisted
  cursor,     \* end LSN of the last transaction received on the stream
  inflight,   \* received transaction not yet persisted, 0 if none
  ready       \* RuntimeReadinessGuard's flag

pgVars == <<wal, slot>>
storeVars == <<layout, intent, complete, identity, lastLsn, applied>>
runVars == <<snapLsn, copied, cursor, inflight>>
vars == <<wal, slot, layout, intent, complete, identity, lastLsn, applied,
          config, pc, snapLsn, copied, cursor, inflight, ready>>

Parts == 1..NumBatches
Lsns == 1..MaxLsn
Commits == Sources \X Lsns
Identities == Sources \X Contracts
NoLsn == -1

PCs == {"down", "idle", "drop", "reset", "create", "scan", "resume",
        "start", "streaming"}

Slots == [present : BOOLEAN, owner : {"ingest", "other"}, active : BOOLEAN,
          floor : 0..MaxLsn, confirmed : 0..MaxLsn, acked : 0..MaxLsn]

NoSlot == [present |-> FALSE, owner |-> "other", active |-> FALSE,
           floor |-> 0, confirmed |-> 0, acked |-> 0]

\* A slot just created at consistent point n.
NewSlot(owner, n) == [present |-> TRUE, owner |-> owner, active |-> FALSE,
                      floor |-> n, confirmed |-> n, acked |-> 0]

Nothing == [p \in Parts |-> [c \in Commits |-> 0]]

\* One part of a data set that holds the first n transactions of src, once each.
PrefixOf(src, n) == [c \in Commits |-> IF c[1] = src /\ c[2] <= n THEN 1 ELSE 0]

\* source_identity_from_parts: the cluster, database, slot, publication, group
\* and storage contract, hashed; everything but the contract is in the source.
SourceIdentity(c) == <<c.source, c.contract>>

MaxOf(a, b) == IF a >= b THEN a ELSE b

PgTypeOK ==
  /\ wal \in [Sources -> 0..MaxLsn]
  /\ slot \in [Sources -> Slots]

StoreTypeOK ==
  /\ layout \in Contracts \cup {NoLayout}
  /\ intent \in Identities \cup {NoIdentity}
  /\ complete \in BOOLEAN
  /\ identity \in Identities \cup {NoIdentity}
  /\ lastLsn \in {NoLsn} \cup (0..MaxLsn)
  /\ applied \in [Parts -> [Commits -> Nat]]

RunTypeOK ==
  /\ config \in Configs
  /\ pc \in PCs
  /\ snapLsn \in 0..MaxLsn
  /\ copied \in 0..NumBatches
  /\ cursor \in 0..MaxLsn
  /\ inflight \in 0..MaxLsn
  /\ ready \in BOOLEAN

\* Every variable has its type.
TypeOK == PgTypeOK /\ StoreTypeOK /\ RunTypeOK

Init ==
  /\ wal = [s \in Sources |-> 0]
  /\ slot \in [Sources -> {NoSlot, NewSlot("other", 0)}]  \* may be there already
  /\ layout = NoLayout
  /\ intent = NoIdentity
  /\ complete = FALSE
  /\ identity = NoIdentity
  /\ lastLsn = NoLsn
  /\ applied = Nothing
  /\ config \in Configs
  /\ pc = "down"
  /\ snapLsn = 0 /\ copied = 0 /\ cursor = 0 /\ inflight = 0
  /\ ready = FALSE

------------------------------------------------------------------------------
(***************************************************************************)
(* PostgreSQL and the other users of the slot.                             *)
(***************************************************************************)

Commit(s) ==
  /\ wal[s] < MaxLsn
  /\ wal' = [wal EXCEPT ![s] = @ + 1]
  /\ UNCHANGED <<slot, storeVars, config, pc, runVars, ready>>

\* A slot whose walsender is gone, with the acknowledgements it had not read.
Disconnected(sl) == [sl EXCEPT !.active = FALSE, !.acked = 0]

\* The walsender notices that its client is gone; until then the slot is active
\* and acknowledgements already sent may still arrive.
SlotReleased(s) ==
  /\ slot[s].active
  /\ ~(pc = "streaming" /\ config.source = s)
  /\ slot' = [slot EXCEPT ![s] = Disconnected(@)]
  /\ UNCHANGED <<wal, storeVars, config, pc, runVars, ready>>

\* A standby status update reaches the walsender.
FeedbackArrives(s) ==
  /\ slot[s].active
  /\ slot[s].acked > slot[s].confirmed
  /\ slot' = [slot EXCEPT ![s].confirmed = slot[s].acked]
  /\ UNCHANGED <<wal, storeVars, config, pc, runVars, ready>>

\* Slot positions reach PostgreSQL's disk lazily: after a restart
\* confirmed_flush_lsn may be an older value.
PostgresRestarts(s) ==
  /\ slot[s].present
  /\ \E n \in slot[s].floor..slot[s].confirmed :
       slot' = [slot EXCEPT ![s] = [Disconnected(@) EXCEPT !.confirmed = n]]
  /\ UNCHANGED <<wal, storeVars, config, pc, runVars, ready>>

\* run_replication_tap, or another service instance with the same slot name,
\* creates the missing slot (ensure_slot).
OtherCreatesSlot(s) ==
  /\ ~slot[s].present
  /\ slot' = [slot EXCEPT ![s] = NewSlot("other", wal[s])]
  /\ UNCHANGED <<wal, storeVars, config, pc, runVars, ready>>

\* run_with_observer acknowledges what it sees without persisting it.
OtherAdvancesSlot(s) ==
  /\ slot[s].present /\ ~slot[s].active
  /\ \E n \in (slot[s].confirmed + 1)..wal[s] :
       slot' = [slot EXCEPT ![s].confirmed = n]
  /\ UNCHANGED <<wal, storeVars, config, pc, runVars, ready>>

OperatorDropsSlot(s) ==
  /\ slot[s].present /\ ~slot[s].active
  /\ slot' = [slot EXCEPT ![s] = NoSlot]
  /\ UNCHANGED <<wal, storeVars, config, pc, runVars, ready>>

------------------------------------------------------------------------------
(***************************************************************************)
(* The process.                                                            *)
(***************************************************************************)

\* ensure_layout_version: the store was written under this storage contract.
LayoutCurrent(c) == layout = c.contract

\* ReplicationMdbxStore::new: a store with another layout is cleared, marker and
\* intent included.  The runner is not started yet and readiness is FALSE.
Boot(c) ==
  /\ pc = "down"
  /\ pc' = "idle"
  /\ config' = c
  /\ IF LayoutCurrent(c)
     THEN UNCHANGED storeVars
     ELSE /\ layout' = c.contract
          /\ intent' = NoIdentity
          /\ complete' = FALSE
          /\ identity' = NoIdentity
          /\ lastLsn' = NoLsn
          /\ applied' = Nothing
  /\ UNCHANGED <<pgVars, runVars, ready>>

Crash ==
  /\ pc # "down"
  /\ pc' = "down"
  /\ snapLsn' = 0 /\ copied' = 0 /\ cursor' = 0 /\ inflight' = 0
  /\ ready' = FALSE
  /\ UNCHANGED <<pgVars, storeVars, config>>

\* The run returns (an error, the end of the stream, the event limit): the guard
\* is dropped, readiness closes, and main's retry loop sleeps before it tries
\* again.  The walsender may keep the slot active for a while.
RunEnds ==
  /\ pc' = "idle"
  /\ snapLsn' = 0 /\ copied' = 0 /\ cursor' = 0 /\ inflight' = 0
  /\ ready' = FALSE
  /\ UNCHANGED <<storeVars, config>>

\* Any step may fail: a query, the connection, an MDBX transaction (which then
\* leaves no trace).
RunFails ==
  /\ pc \notin {"down", "idle"}
  /\ RunEnds
  /\ UNCHANGED pgVars

\* What PostgreSQL or validate_existing_slot answers to the runner's next
\* request ends the run: the slot to drop is gone or active, the slot to create
\* exists, the slot to resume from is missing, active or ahead of MDBX, or the
\* server closed the stream.
RunRefused ==
  LET sl == slot[config.source] IN
  /\ \/ pc = "drop" /\ (sl.present => sl.active)
     \/ pc = "create" /\ sl.present
     \/ pc = "resume" /\ (sl.present => sl.active \/ sl.confirmed > lastLsn)
     \/ pc = "start" /\ (sl.present => sl.active)
     \/ pc = "streaming" /\ ~sl.active
  /\ RunEnds
  /\ UNCHANGED pgVars

------------------------------------------------------------------------------
(***************************************************************************)
(* The replication run.  A run that is refused before it changed anything  *)
(* (snapshot disabled with no completed snapshot, another identity, an     *)
(* unowned or active slot) returns an error and is retried: it leaves the  *)
(* state as it is, so the refusals are the negations of the guards below.  *)
(***************************************************************************)

\* Mutant: the marker alone decides.
AnySnapshot == TRUE

\* The completed snapshot was taken from the configured source.
OwnSnapshot == identity = SourceIdentity(config)

\* run_initial_snapshot_if_enabled with the marker present.
SkipSnapshot ==
  /\ pc = "idle"
  /\ complete
  /\ OwnSnapshot
  /\ pc' = "resume"
  /\ UNCHANGED <<pgVars, storeVars, config, runVars, ready>>

\* Mutant: a slot is adopted without an intent.
MayResetUnowned(sl) ==
  /\ intent # NoIdentity => intent = SourceIdentity(config)
  /\ sl.present => ~sl.active

\* Mutant: an interrupted bootstrap is never taken up again.
MayResetFresh(sl) == intent = NoIdentity /\ ~sl.present

\* reconcile_incomplete_bootstrap: an existing slot must be inactive and covered
\* by an intent, and an intent must be of this source and contract.
MayReset(sl) ==
  /\ intent = NoIdentity => ~sl.present
  /\ intent # NoIdentity => intent = SourceIdentity(config)
  /\ sl.present => ~sl.active

\* run_initial_snapshot_if_enabled without the marker, up to what
\* reconcile_incomplete_bootstrap reads before it acts.
InspectBootstrap ==
  LET sl == slot[config.source] IN
  /\ pc = "idle"
  /\ ~complete
  /\ config.snapshot
  /\ MayReset(sl)
  /\ pc' = IF sl.present THEN "drop" ELSE "reset"
  /\ UNCHANGED <<pgVars, storeVars, config, runVars, ready>>

\* pg_drop_replication_slot: fails on a slot that is gone or active by now.
DropInterruptedSlot ==
  /\ pc = "drop"
  /\ slot[config.source].present /\ ~slot[config.source].active
  /\ slot' = [slot EXCEPT ![config.source] = NoSlot]
  /\ pc' = "reset"
  /\ UNCHANGED <<wal, storeVars, config, runVars, ready>>

\* reset_incomplete_initial_snapshot: one transaction clears the store and
\* writes the layout and the intent.
ResetIncompleteSnapshot ==
  /\ pc = "reset"
  /\ layout' = config.contract
  /\ intent' = SourceIdentity(config)
  /\ complete' = FALSE
  /\ identity' = NoIdentity
  /\ lastLsn' = NoLsn
  /\ applied' = Nothing
  /\ pc' = "create"
  /\ UNCHANGED <<pgVars, config, runVars, ready>>

\* create_exported_snapshot: fails (RunRefused) if the slot exists.
CreateExportedSnapshot ==
  LET s == config.source IN
  /\ pc = "create"
  /\ ~slot[s].present
  /\ slot' = [slot EXCEPT ![s] = NewSlot("ingest", wal[s])]
  /\ snapLsn' = wal[s]
  /\ copied' = 0
  /\ pc' = "scan"
  /\ UNCHANGED <<wal, storeVars, config, cursor, inflight, ready>>

\* persist_snapshot_batch: the rows of the next part, as the exported snapshot
\* shows them, added to the store with end LSN 0.
PersistSnapshotBatch ==
  /\ pc = "scan"
  /\ copied < NumBatches
  /\ applied' = [applied EXCEPT ![copied + 1] =
                   [c \in Commits |-> @[c] + PrefixOf(config.source, snapLsn)[c]]]
  /\ lastLsn' = 0
  /\ copied' = copied + 1
  /\ UNCHANGED <<pgVars, layout, intent, complete, identity, config, pc,
                 snapLsn, cursor, inflight, ready>>

\* persist_initial_snapshot_marker_with_plan: one transaction.
PersistSnapshotMarker ==
  /\ pc = "scan"
  /\ copied = NumBatches
  /\ lastLsn' = snapLsn
  /\ complete' = TRUE
  /\ identity' = SourceIdentity(config)
  /\ intent' = NoIdentity
  /\ pc' = "resume"
  /\ UNCHANGED <<pgVars, layout, applied, config, runVars, ready>>

\* last_persisted_end_lsn and validate_existing_slot, on a connection of their
\* own.  A refusal ends the run (RunRefused).
ValidateExistingSlot ==
  LET sl == slot[config.source] IN
  /\ pc = "resume"
  /\ lastLsn # NoLsn
  /\ sl.present /\ ~sl.active
  /\ sl.confirmed <= lastLsn
  /\ pc' = "start"
  /\ UNCHANGED <<pgVars, storeVars, config, runVars, ready>>

\* Mutant: replication starts at the server's current position.
CurrentWalLsn == wal[config.source]

\* connect_existing: the start position is the durable LSN.
StartLsn == lastLsn

\* START_REPLICATION at lsn.  PostgreSQL never starts before
\* confirmed_flush_lsn, and the code expects it may resend what lies between
\* that and the requested position.
StartReplicationAt(lsn) ==
  LET sl == slot[config.source] IN
  /\ pc = "start"
  /\ sl.present /\ ~sl.active
  /\ cursor' \in sl.confirmed..MaxOf(sl.confirmed, lsn)
  /\ inflight' = 0
  /\ slot' = [slot EXCEPT ![config.source].active = TRUE]
  /\ pc' = "streaming"
  /\ ready' = TRUE
  /\ UNCHANGED <<wal, storeVars, config, snapLsn, copied>>

StartReplication == StartReplicationAt(StartLsn)

\* Mutant: a transaction is acknowledged when it is received.
ReceiveAndAcknowledge ==
  LET s == config.source IN
  /\ pc = "streaming"
  /\ slot[s].active
  /\ inflight = 0
  /\ cursor < wal[s]
  /\ cursor' = cursor + 1
  /\ inflight' = cursor + 1
  /\ slot' = [slot EXCEPT ![s].acked = cursor + 1]
  /\ UNCHANGED <<wal, storeVars, config, pc, snapLsn, copied, ready>>

\* stream.recv until the decoder returns the batch of the next commit.
ReceiveCommit ==
  LET s == config.source IN
  /\ pc = "streaming"
  /\ slot[s].active
  /\ inflight = 0
  /\ cursor < wal[s]
  /\ cursor' = cursor + 1
  /\ inflight' = cursor + 1
  /\ UNCHANGED <<pgVars, storeVars, config, pc, snapLsn, copied, ready>>

\* Mutants: no idempotency check, and one that is off by one.
NeverPersisted(lsn) == FALSE
PersistedOrNext(lsn) == lsn <= lastLsn + 1

\* The batch is in the store already.
AlreadyPersisted(lsn) == lsn <= lastLsn

\* persist_batch_with_plan: the LSN comparison, the LSN update and the state
\* changes share one transaction.  update_applied_lsn follows it.
PersistBatch ==
  LET s == config.source IN
  /\ pc = "streaming"
  /\ inflight # 0
  /\ IF AlreadyPersisted(inflight)
     THEN UNCHANGED <<lastLsn, applied>>
     ELSE /\ lastLsn' = inflight
          /\ applied' = [p \in Parts |->
                           [applied[p] EXCEPT ![<<s, inflight>>] = @ + 1]]
  /\ slot' = [slot EXCEPT ![s].acked = IF slot[s].active THEN inflight ELSE 0]
  /\ inflight' = 0
  /\ UNCHANGED <<wal, layout, intent, complete, identity, config, pc, snapLsn,
                 copied, cursor, ready>>

------------------------------------------------------------------------------

Runner ==
  \/ SkipSnapshot
  \/ InspectBootstrap
  \/ DropInterruptedSlot
  \/ ResetIncompleteSnapshot
  \/ CreateExportedSnapshot
  \/ PersistSnapshotBatch
  \/ PersistSnapshotMarker
  \/ ValidateExistingSlot
  \/ StartReplication
  \/ ReceiveCommit
  \/ PersistBatch
  \/ RunRefused

Next ==
  \/ Runner
  \/ RunFails
  \/ Crash
  \/ \E c \in Configs : Boot(c)
  \/ \E s \in Sources : \/ Commit(s)
                        \/ SlotReleased(s)
                        \/ FeedbackArrives(s)
                        \/ PostgresRestarts(s)
                        \/ OperatorDropsSlot(s)

Spec == Init /\ [][Next]_vars

\* The service when the slot has other users too (the tap, or a second instance
\* configured with the same slot name).
SharedNext == Next \/ \E s \in Sources : OtherCreatesSlot(s) \/ OtherAdvancesSlot(s)

SharedSpec == Init /\ [][SharedNext]_vars

(***************************************************************************)
(* Fairness.  The runner is one task that takes its next step as long as   *)
(* it has one, main retries it for ever, a supervisor restarts the         *)
(* process, PostgreSQL notices dead clients and delivers feedback.         *)
(***************************************************************************)
Fairness ==
  /\ WF_vars(Runner)
  /\ WF_vars(\E c \in Configs : Boot(c))
  /\ \A s \in Sources : WF_vars(SlotReleased(s)) /\ WF_vars(FeedbackArrives(s))

FairSpec == Spec /\ Fairness

------------------------------------------------------------------------------
(***************************************************************************)
(* Properties.                                                             *)
(***************************************************************************)

\* A store whose snapshot marker is set holds exactly the first lastLsn
\* transactions of the source named by its identity, each of them once: nothing
\* the snapshot missed, nothing replayed twice, nothing of another database,
\* whatever crashes, redeliveries, interrupted bootstraps and configuration
\* changes came before.  (Idempotency check of persist_batch, marker written
\* with the LSN, reset before a new scan.)
ReplicaExact ==
  complete =>
    /\ identity # NoIdentity
    /\ lastLsn \in 0..wal[identity[1]]
    /\ \A p \in Parts : applied[p] = PrefixOf(identity[1], lastLsn)

\* No transaction is ever applied twice to any part, complete or not: a retried
\* snapshot batch or a redelivered commit would double additive deltas
\* (comment at store.rs is_initial_snapshot_complete).
AppliedAtMostOnce ==
  \A p \in Parts : \A c \in Commits : applied[p][c] <= 1

\* An acknowledgement on its way to PostgreSQL never exceeds what MDBX holds
\* durably: update_applied_lsn is called after the commit, and a connection left
\* over from before a crash or a wipe cannot acknowledge for the new contents.
AcksAreDurable ==
  \A s \in Sources :
    (slot[s].active /\ complete /\ identity[1] = s) => slot[s].acked <= lastLsn

\* The slot of the source a completed store replicates has not been confirmed
\* past the store, so no transaction the store needs has been released by
\* PostgreSQL (ack after persist, slot created at the snapshot's own point).
SlotNotAheadOfStore ==
  \A s \in Sources :
    (slot[s].present /\ complete /\ identity[1] = s)
      => slot[s].confirmed <= lastLsn

\* While readiness is open the store is complete, belongs to the configured
\* source and contract, and has that contract's layout.
\* (RuntimeReadinessGuard, is_ready.)
ReadyServesConfiguredSource ==
  ready =>
    /\ complete
    /\ identity = SourceIdentity(config)
    /\ layout = config.contract

\* The stream a run reads continues without a gap where the store ends: the
\* next transaction it receives is at most one past the durable LSN.
\* (validate_existing_slot refuses a slot ahead of MDBX.)
StreamContinuesStore ==
  pc = "streaming" => cursor <= lastLsn + (IF inflight = 0 THEN 0 ELSE 1)

KeepsStore ==
  complete => \/ complete' /\ lastLsn' >= lastLsn /\ identity' = identity
              \/ layout' # layout

\* A completed snapshot is given up only when the process boots with another
\* storage contract: no crash, retry, refused run or slot change resets it, and
\* its durable LSN never goes back.
CompletedStoreKept ==
  [][KeepsStore]_vars

\* reconcile_incomplete_bootstrap drops only a slot that an ingest bootstrap
\* created.
DropsOnlyOwnSlot ==
  [][\A s \in Sources :
       (pc = "drop" /\ pc' = "reset" /\ slot[s].present /\ ~slot'[s].present)
         => slot[s].owner = "ingest"]_vars

\* What readers see of the store once the marker is set.
View == [up |-> complete, rows |-> IF complete THEN applied ELSE Nothing]

Abstract == INSTANCE Replica WITH view <- View

\* The store implements the abstract replica: readers see a prefix of one source
\* appear, grow by one transaction at a time in commit order, or be withdrawn.
ImplementsReplica == Abstract!Spec

\* What goes wrong outside the runner's control.
Fault ==
  \/ Crash
  \/ RunFails
  \/ \E s \in Sources : PostgresRestarts(s)

\* Once crashes and failures stop...
EventuallyCalm == <>[][~Fault]_vars

\* ...and the process runs with the snapshot enabled and with the source and
\* contract the store holds, or holds an intent for, the slot of a completed
\* store is left in place, and no unowned slot takes its name before the
\* bootstrap, ...
SlotUsable ==
  /\ config.snapshot
  /\ IF complete
     THEN identity = SourceIdentity(config) /\ slot[config.source].present
     ELSE \/ intent = SourceIdentity(config)
          \/ intent = NoIdentity /\ ~slot[config.source].present

\* ...an interrupted or fresh bootstrap completes and readiness stays open.
\* (reconcile_incomplete_bootstrap, main's retry loop.)
BootstrapRecovers ==
  (EventuallyCalm /\ <>[]SlotUsable) => <>[]ready

\* ...the store catches up with the configured source again and again, however
\* often it commits: every transaction committed there reaches the store.
EveryCommitPersisted ==
  (EventuallyCalm /\ <>[]SlotUsable) => []<>(lastLsn = wal[config.source])

\* An existing completed store that is wiped because the storage contract
\* changed is materialized again from a fresh snapshot: once crashes stop, it is
\* complete for good.
WipedStoreRematerialized ==
  EventuallyCalm => [](complete => <>[]complete)
==============================================================================
