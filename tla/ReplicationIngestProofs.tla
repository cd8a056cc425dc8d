----------------------- MODULE ReplicationIngestProofs -----------------------
(***************************************************************************)
(* Proofs about ReplicationIngest and about two processes over one store   *)
(* (SplitDeployment), for all sources, contracts, batch counts and numbers *)
(* of transactions.                                                        *)
(*                                                                         *)
(* The inductive invariant has three layers.  ControlInv ties the place    *)
(* the runner is at to the durable metadata; it holds whoever uses the     *)
(* slot.  AtMostInv adds what is in MDBX, and also holds whoever uses the  *)
(* slot.  ExactInv adds the positions of slot, stream and store to each    *)
(* other, and needs the slot to be used by the service alone.  OwnSlotInv  *)
(* adds who created the slot, and SplitInv keeps all of it as long as no   *)
(* API process clears the store under a running replication process.       *)
(* OnceInv is what is left when one does.                                  *)
(***************************************************************************)
EXTENDS SplitDeployment, TLAPS

\* Where the runner is, against the durable metadata.
RunnerInv ==
  /\ pc # "down" => layout = config.contract
  /\ ready => pc = "streaming"
  /\ pc \in {"drop", "reset", "create", "scan"} => ~complete
  /\ pc \in {"resume", "start", "streaming"} => complete /\ identity = SourceIdentity(config)
  /\ complete => identity \in Identities /\ lastLsn # NoLsn

ControlInv == TypeOK /\ RunnerInv

\* What the parts hold during a scan.
ScanExact ==
  pc = "scan" =>
    \A p \in Parts :
      applied[p] = PrefixOf(config.source, IF p <= copied THEN snapLsn ELSE 0)

\* A completed store holds nothing beyond its durable LSN.
NothingBeyond ==
  complete =>
    \A p \in Parts : \A c \in Commits :
      applied[p][c] # 0 => c[1] = identity[1] /\ c[2] <= lastLsn

AtMostInv ==
  /\ AppliedAtMostOnce
  /\ NothingBeyond
  /\ pc = "create" => applied = Nothing
  /\ ScanExact

\* The slot of a completed store is behind it.
SlotBehind ==
  complete =>
    /\ slot[identity[1]].confirmed <= lastLsn
    /\ slot[identity[1]].acked <= lastLsn

\* The slot of a bootstrap stays at the exported snapshot's point.
SlotAtSnapshot ==
  pc = "scan" =>
    /\ snapLsn <= wal[config.source]
    /\ slot[config.source].confirmed <= snapLsn
    /\ slot[config.source].acked = 0
    /\ ~slot[config.source].active

\* The stream is at the store's position or one transaction past it.
StreamAtStore ==
  pc = "streaming" =>
    /\ inflight = 0 => cursor <= lastLsn
    /\ inflight # 0 => /\ inflight = cursor
                       /\ cursor <= lastLsn + 1
                       /\ cursor <= wal[config.source]

ExactInv == ReplicaExact /\ SlotBehind /\ SlotAtSnapshot /\ StreamAtStore

------------------------------------------------------------------------------

\* What the actions do to a slot leaves it a slot.
LEMMA SlotTypes ==
  ASSUME NEW sl \in Slots, NEW n \in 0..MaxLsn
  PROVE  /\ NoSlot \in Slots
         /\ NewSlot("ingest", n) \in Slots
         /\ NewSlot("other", n) \in Slots
         /\ [sl EXCEPT !.active = TRUE] \in Slots
         /\ [sl EXCEPT !.acked = n] \in Slots
         /\ [sl EXCEPT !.confirmed = n] \in Slots
         /\ Disconnected(sl) \in Slots
         /\ [Disconnected(sl) EXCEPT !.confirmed = n] \in Slots
<1> USE BoundsAssumption
<1>1. NoSlot \in Slots /\ NewSlot("ingest", n) \in Slots /\ NewSlot("other", n) \in Slots
  BY DEF NoSlot, NewSlot, Slots
<1>2. \A r \in Slots : [r EXCEPT !.active = TRUE] \in Slots
  BY Zenon DEF Slots
<1>3. \A r \in Slots : [r EXCEPT !.acked = n] \in Slots /\ [r EXCEPT !.acked = 0] \in Slots
  BY DEF Slots
<1>4. \A r \in Slots : [r EXCEPT !.confirmed = n] \in Slots
  BY DEF Slots
<1>5. [sl EXCEPT !.active = FALSE] \in Slots
  BY Zenon DEF Slots
<1>6. Disconnected(sl) \in Slots
  BY Zenon, <1>3, <1>5 DEF Disconnected
<1> QED
  BY Zenon, <1>1, <1>2, <1>3, <1>4, <1>6

LEMMA ControlInit == Init => ControlInv
<1> SUFFICES ASSUME Init PROVE ControlInv
  OBVIOUS
<1> USE BoundsAssumption
<1>1. PgTypeOK
  <2>1. NoSlot \in Slots /\ NewSlot("other", 0) \in Slots
    BY DEF Slots, NoSlot, NewSlot
  <2> QED
    BY <2>1 DEF Init, PgTypeOK
<1>2. StoreTypeOK
  <2>1. applied \in [Parts -> [Commits -> Nat]]
    BY DEF Init, Nothing
  <2> QED
    BY Zenon, <2>1 DEF Init, StoreTypeOK
<1>3. RunTypeOK
  <2>1. pc \in PCs /\ ready \in BOOLEAN /\ config \in Configs
    BY Zenon DEF Init, PCs
  <2> QED
    BY <2>1 DEF Init, RunTypeOK
<1> QED
  BY <1>1, <1>2, <1>3 DEF Init, ControlInv, TypeOK, RunnerInv

\* The parts of a configuration.
LEMMA ConfigTypes ==
  \A c \in Configs : /\ c.source \in Sources
                     /\ c.contract \in Contracts
                     /\ SourceIdentity(c) \in Identities
  BY SourcesAssumption DEF SourceIdentity, Identities

\* Starting the stream at any durable LSN keeps the types.
LEMMA StartTypes ==
  ASSUME TypeOK, NEW lsn \in {NoLsn} \cup (0..MaxLsn), StartReplicationAt(lsn)
  PROVE  TypeOK'
<1> USE BoundsAssumption
<1> USE DEF StartReplicationAt
<1>1. PgTypeOK'
  BY Zenon, SlotTypes, ConfigTypes DEF TypeOK, PgTypeOK, RunTypeOK
<1>2. StoreTypeOK'
  BY DEF TypeOK, StoreTypeOK, storeVars
<1>3. RunTypeOK'
  <2>1. pc' \in PCs /\ ready' \in BOOLEAN /\ config' \in Configs
    BY Zenon DEF TypeOK, RunTypeOK, PCs
  <2>2. slot[config.source].confirmed \in 0..MaxLsn
    BY ConfigTypes DEF TypeOK, PgTypeOK, RunTypeOK, Slots
  <2>3. cursor' \in 0..MaxLsn
    BY <2>2 DEF TypeOK, StoreTypeOK, MaxOf, NoLsn
  <2> QED
    BY <2>1, <2>3 DEF TypeOK, RunTypeOK
<1> QED
  BY <1>1, <1>2, <1>3 DEF TypeOK

\* Every step keeps the types.
LEMMA TypeStep == TypeOK /\ [SharedNext]_vars => TypeOK'
<1> SUFFICES ASSUME TypeOK, [SharedNext]_vars PROVE TypeOK'
  OBVIOUS
<1> USE BoundsAssumption
<1>1. CASE SkipSnapshot
  <2> USE <1>1 DEF SkipSnapshot
  <2>1. PgTypeOK'
    BY DEF TypeOK, PgTypeOK, pgVars
  <2>2. StoreTypeOK'
    BY DEF TypeOK, StoreTypeOK, storeVars
  <2>3. RunTypeOK'
    BY DEF TypeOK, RunTypeOK, runVars, PCs
  <2> QED
    BY <2>1, <2>2, <2>3 DEF TypeOK
<1>2. CASE InspectBootstrap
  <2> USE <1>2 DEF InspectBootstrap
  <2>1. PgTypeOK'
    BY DEF TypeOK, PgTypeOK, pgVars
  <2>2. StoreTypeOK'
    BY DEF TypeOK, StoreTypeOK, storeVars
  <2>3. RunTypeOK'
    BY DEF TypeOK, RunTypeOK, runVars, PCs
  <2> QED
    BY <2>1, <2>2, <2>3 DEF TypeOK
<1>3. CASE DropInterruptedSlot
  <2> USE <1>3 DEF DropInterruptedSlot
  <2>1. PgTypeOK'
    BY Zenon, SlotTypes, ConfigTypes DEF TypeOK, PgTypeOK, RunTypeOK
  <2>2. StoreTypeOK'
    BY DEF TypeOK, StoreTypeOK, storeVars
  <2>3. RunTypeOK'
    BY DEF TypeOK, RunTypeOK, runVars, PCs
  <2> QED
    BY <2>1, <2>2, <2>3 DEF TypeOK
<1>4. CASE ResetIncompleteSnapshot
  <2> USE <1>4 DEF ResetIncompleteSnapshot
  <2>1. PgTypeOK'
    BY DEF TypeOK, PgTypeOK, pgVars
  <2>2. StoreTypeOK'
    <3>1. Nothing \in [Parts -> [Commits -> Nat]]
      BY DEF Nothing
    <3> QED
      BY Zenon, <3>1, ConfigTypes DEF TypeOK, StoreTypeOK, RunTypeOK
  <2>3. RunTypeOK'
    BY DEF TypeOK, RunTypeOK, runVars, PCs
  <2> QED
    BY <2>1, <2>2, <2>3 DEF TypeOK
<1>5. CASE CreateExportedSnapshot
  <2> USE <1>5 DEF CreateExportedSnapshot
  <2>1. PgTypeOK'
    <3>1. wal[config.source] \in 0..MaxLsn
      BY ConfigTypes DEF TypeOK, PgTypeOK, RunTypeOK
    <3> QED
      BY Zenon, <3>1, SlotTypes, ConfigTypes DEF TypeOK, PgTypeOK, RunTypeOK
  <2>2. StoreTypeOK'
    BY DEF TypeOK, StoreTypeOK, storeVars
  <2>3. RunTypeOK'
    BY ConfigTypes DEF TypeOK, RunTypeOK, PgTypeOK, PCs
  <2> QED
    BY <2>1, <2>2, <2>3 DEF TypeOK
<1>6. CASE PersistSnapshotBatch
  <2> USE <1>6 DEF PersistSnapshotBatch
  <2>1. PgTypeOK'
    BY DEF TypeOK, PgTypeOK, pgVars
  <2>2. StoreTypeOK'
    <3>1. copied + 1 \in Parts
      BY DEF TypeOK, RunTypeOK, Parts
    <3>2. [c \in Commits |-> applied[copied + 1][c] + PrefixOf(config.source, snapLsn)[c]]
            \in [Commits -> Nat]
      BY <3>1 DEF TypeOK, StoreTypeOK, PrefixOf
    <3>3. applied' \in [Parts -> [Commits -> Nat]]
      BY <3>1, <3>2 DEF TypeOK, StoreTypeOK
    <3> QED
      BY <3>3 DEF TypeOK, StoreTypeOK
  <2>3. RunTypeOK'
    BY DEF TypeOK, RunTypeOK, runVars, PCs
  <2> QED
    BY <2>1, <2>2, <2>3 DEF TypeOK
<1>7. CASE PersistSnapshotMarker
  <2> USE <1>7 DEF PersistSnapshotMarker
  <2>1. PgTypeOK'
    BY DEF TypeOK, PgTypeOK, pgVars
  <2>2. StoreTypeOK'
    <3>1. complete' \in BOOLEAN
      BY Zenon
    <3> QED
      BY <3>1, ConfigTypes DEF TypeOK, StoreTypeOK, RunTypeOK
  <2>3. RunTypeOK'
    BY DEF TypeOK, RunTypeOK, runVars, PCs
  <2> QED
    BY <2>1, <2>2, <2>3 DEF TypeOK
<1>8. CASE ValidateExistingSlot
  <2> USE <1>8 DEF ValidateExistingSlot
  <2>1. PgTypeOK'
    BY DEF TypeOK, PgTypeOK, pgVars
  <2>2. StoreTypeOK'
    BY DEF TypeOK, StoreTypeOK, storeVars
  <2>3. RunTypeOK'
    BY DEF TypeOK, RunTypeOK, runVars, PCs
  <2> QED
    BY <2>1, <2>2, <2>3 DEF TypeOK
<1>9. CASE StartReplication
  BY Zenon, <1>9, StartTypes DEF StartReplication, StartLsn, TypeOK, StoreTypeOK
<1>10. CASE ReceiveCommit
  <2> USE <1>10 DEF ReceiveCommit
  <2>1. PgTypeOK'
    BY DEF TypeOK, PgTypeOK, pgVars
  <2>2. StoreTypeOK'
    BY DEF TypeOK, StoreTypeOK, storeVars
  <2>3. RunTypeOK'
    <3>1. wal[config.source] \in 0..MaxLsn
      BY ConfigTypes DEF TypeOK, PgTypeOK, RunTypeOK
    <3> QED
      BY <3>1 DEF TypeOK, RunTypeOK
  <2> QED
    BY <2>1, <2>2, <2>3 DEF TypeOK
<1>11. CASE PersistBatch
  <2> USE <1>11 DEF PersistBatch
  <2>1. PgTypeOK'
    <3>1. (IF slot[config.source].active THEN inflight ELSE 0) \in 0..MaxLsn
      BY DEF TypeOK, RunTypeOK
    <3> QED
      BY Zenon, <3>1, SlotTypes, ConfigTypes DEF TypeOK, PgTypeOK, RunTypeOK
  <2>2. StoreTypeOK'
    <3>1. applied' \in [Parts -> [Commits -> Nat]]
      <4>1. <<config.source, inflight>> \in Commits
        BY ConfigTypes DEF TypeOK, RunTypeOK, Commits, Lsns
      <4>2. \A p \in Parts :
              [applied[p] EXCEPT ![<<config.source, inflight>>] = @ + 1] \in [Commits -> Nat]
        BY <4>1 DEF TypeOK, StoreTypeOK
      <4>3. \/ applied' = applied
            \/ applied' = [p \in Parts |->
                 [applied[p] EXCEPT ![<<config.source, inflight>>] = @ + 1]]
        OBVIOUS
      <4>4. applied \in [Parts -> [Commits -> Nat]]
        BY DEF TypeOK, StoreTypeOK
      <4>5. [p \in Parts |-> [applied[p] EXCEPT ![<<config.source, inflight>>] = @ + 1]]
              \in [Parts -> [Commits -> Nat]]
        BY <4>2, Zenon
      <4> QED
        BY <4>3, <4>4, <4>5, Zenon
    <3> QED
      BY Zenon, <3>1 DEF TypeOK, StoreTypeOK, RunTypeOK
  <2>3. RunTypeOK'
    BY DEF TypeOK, RunTypeOK, runVars, PCs
  <2> QED
    BY <2>1, <2>2, <2>3 DEF TypeOK
<1>12. CASE RunRefused
  <2> USE <1>12 DEF RunRefused, RunEnds
  <2>1. PgTypeOK'
    BY DEF TypeOK, PgTypeOK, pgVars
  <2>2. StoreTypeOK'
    BY DEF TypeOK, StoreTypeOK, storeVars
  <2>3. RunTypeOK'
    <3>1. pc' \in PCs /\ ready' \in BOOLEAN /\ config' \in Configs
      BY Zenon DEF TypeOK, RunTypeOK, PCs
    <3> QED
      BY <3>1 DEF TypeOK, RunTypeOK
  <2> QED
    BY <2>1, <2>2, <2>3 DEF TypeOK
<1>13. CASE RunFails
  <2> USE <1>13 DEF RunFails, RunEnds
  <2>1. PgTypeOK'
    BY DEF TypeOK, PgTypeOK, pgVars
  <2>2. StoreTypeOK'
    BY DEF TypeOK, StoreTypeOK, storeVars
  <2>3. RunTypeOK'
    <3>1. pc' \in PCs /\ ready' \in BOOLEAN /\ config' \in Configs
      BY Zenon DEF TypeOK, RunTypeOK, PCs
    <3> QED
      BY <3>1 DEF TypeOK, RunTypeOK
  <2> QED
    BY <2>1, <2>2, <2>3 DEF TypeOK
<1>14. CASE Crash
  <2> USE <1>14 DEF Crash
  <2>1. PgTypeOK'
    BY DEF TypeOK, PgTypeOK, pgVars
  <2>2. StoreTypeOK'
    BY DEF TypeOK, StoreTypeOK, storeVars
  <2>3. RunTypeOK'
    <3>1. pc' \in PCs /\ ready' \in BOOLEAN /\ config' \in Configs
      BY Zenon DEF TypeOK, RunTypeOK, PCs
    <3> QED
      BY <3>1 DEF TypeOK, RunTypeOK
  <2> QED
    BY <2>1, <2>2, <2>3 DEF TypeOK
<1>15. ASSUME NEW c \in Configs, Boot(c) PROVE TypeOK'
  <2> USE <1>15 DEF Boot
  <2>1. PgTypeOK'
    BY DEF TypeOK, PgTypeOK, pgVars
  <2>2. StoreTypeOK'
    <3>1. Nothing \in [Parts -> [Commits -> Nat]]
      BY DEF Nothing
    <3>2. complete' \in BOOLEAN
      BY Zenon DEF TypeOK, StoreTypeOK, storeVars
    <3> QED
      BY <3>1, <3>2, ConfigTypes DEF TypeOK, StoreTypeOK, storeVars
  <2>3. RunTypeOK'
    BY DEF TypeOK, RunTypeOK, runVars, PCs
  <2> QED
    BY <2>1, <2>2, <2>3 DEF TypeOK
<1>16. ASSUME NEW s \in Sources, Commit(s) PROVE TypeOK'
  <2>1. PgTypeOK'
    BY <1>16 DEF Commit, TypeOK, PgTypeOK
  <2>2. StoreTypeOK' /\ RunTypeOK'
    BY <1>16 DEF Commit, TypeOK, StoreTypeOK, RunTypeOK, storeVars, runVars
  <2> QED
    BY <2>1, <2>2 DEF TypeOK
<1>17. ASSUME NEW s \in Sources, SlotReleased(s) PROVE TypeOK'
  <2>1. PgTypeOK'
    <3>1. slot[s] \in Slots /\ 0 \in 0..MaxLsn
      BY DEF TypeOK, PgTypeOK, Slots
    <3> QED
      BY Zenon, <1>17, <3>1, SlotTypes DEF SlotReleased, TypeOK, PgTypeOK
  <2>2. StoreTypeOK' /\ RunTypeOK'
    BY <1>17 DEF SlotReleased, TypeOK, StoreTypeOK, RunTypeOK, storeVars, runVars
  <2> QED
    BY <2>1, <2>2 DEF TypeOK
<1>18. ASSUME NEW s \in Sources, FeedbackArrives(s) PROVE TypeOK'
  <2>1. PgTypeOK'
    <3>1. slot[s] \in Slots /\ slot[s].acked \in 0..MaxLsn
      BY DEF TypeOK, PgTypeOK, Slots
    <3> QED
      BY Zenon, <1>18, <3>1, SlotTypes DEF FeedbackArrives, TypeOK, PgTypeOK
  <2>2. StoreTypeOK' /\ RunTypeOK'
    BY <1>18 DEF FeedbackArrives, TypeOK, StoreTypeOK, RunTypeOK, storeVars, runVars
  <2> QED
    BY <2>1, <2>2 DEF TypeOK
<1>19. ASSUME NEW s \in Sources, PostgresRestarts(s) PROVE TypeOK'
  <2>1. PgTypeOK'
    <3>1. PICK n \in slot[s].floor..slot[s].confirmed :
                 slot' = [slot EXCEPT ![s] = [Disconnected(@) EXCEPT !.confirmed = n]]
      BY Zenon, <1>19 DEF PostgresRestarts
    <3>2. slot[s] \in Slots /\ n \in 0..MaxLsn
      BY DEF TypeOK, PgTypeOK, Slots
    <3> QED
      BY Zenon, <1>19, <3>1, <3>2, SlotTypes DEF PostgresRestarts, TypeOK, PgTypeOK
  <2>2. StoreTypeOK' /\ RunTypeOK'
    BY <1>19 DEF PostgresRestarts, TypeOK, StoreTypeOK, RunTypeOK, storeVars, runVars
  <2> QED
    BY <2>1, <2>2 DEF TypeOK
<1>20. ASSUME NEW s \in Sources, OtherCreatesSlot(s) PROVE TypeOK'
  <2>1. PgTypeOK'
    <3>1. slot[s] \in Slots /\ wal[s] \in 0..MaxLsn
      BY DEF TypeOK, PgTypeOK, Slots
    <3> QED
      BY Zenon, <1>20, <3>1, SlotTypes DEF OtherCreatesSlot, TypeOK, PgTypeOK
  <2>2. StoreTypeOK' /\ RunTypeOK'
    BY Zenon, <1>20 DEF OtherCreatesSlot, TypeOK, StoreTypeOK, RunTypeOK, storeVars, runVars
  <2> QED
    BY <2>1, <2>2 DEF TypeOK
<1>21. ASSUME NEW s \in Sources, OtherAdvancesSlot(s) PROVE TypeOK'
  <2>1. PgTypeOK'
    <3>1. PICK n \in (slot[s].confirmed + 1)..wal[s] :
                 slot' = [slot EXCEPT ![s].confirmed = n]
      BY Zenon, <1>21 DEF OtherAdvancesSlot
    <3>2. slot[s] \in Slots /\ n \in 0..MaxLsn
      BY DEF TypeOK, PgTypeOK, Slots
    <3> QED
      BY Zenon, <1>21, <3>1, <3>2, SlotTypes DEF OtherAdvancesSlot, TypeOK, PgTypeOK
  <2>2. StoreTypeOK' /\ RunTypeOK'
    BY <1>21 DEF OtherAdvancesSlot, TypeOK, StoreTypeOK, RunTypeOK, storeVars, runVars
  <2> QED
    BY <2>1, <2>2 DEF TypeOK
<1>22. ASSUME NEW s \in Sources, OperatorDropsSlot(s) PROVE TypeOK'
  <2>1. PgTypeOK'
    <3>1. slot[s] \in Slots /\ 0 \in 0..MaxLsn
      BY DEF TypeOK, PgTypeOK, Slots
    <3> QED
      BY Zenon, <1>22, <3>1, SlotTypes DEF OperatorDropsSlot, TypeOK, PgTypeOK
  <2>2. StoreTypeOK' /\ RunTypeOK'
    BY <1>22 DEF OperatorDropsSlot, TypeOK, StoreTypeOK, RunTypeOK, storeVars, runVars
  <2> QED
    BY <2>1, <2>2 DEF TypeOK
<1>23. CASE UNCHANGED vars
  BY <1>23 DEF vars, TypeOK, PgTypeOK, StoreTypeOK, RunTypeOK
<1> QED
  BY <1>1, <1>2, <1>3, <1>4, <1>5, <1>6, <1>7, <1>8, <1>9, <1>10,
     <1>11, <1>12, <1>13, <1>14, <1>15, <1>16, <1>17, <1>18, <1>19, <1>20, <1>21, <1>22,
     <1>23 DEF SharedNext, Next, Runner

\* Every step keeps ControlInv.
LEMMA ControlStep == ControlInv /\ [SharedNext]_vars => ControlInv'
<1> SUFFICES ASSUME ControlInv, [SharedNext]_vars PROVE RunnerInv'
  BY TypeStep DEF ControlInv
<1> USE BoundsAssumption
<1> TypeOK /\ RunnerInv
  BY DEF ControlInv
<1>1. CASE SkipSnapshot
  BY <1>1 DEF SkipSnapshot, TypeOK, RunnerInv, storeVars, OwnSnapshot
<1>2. CASE InspectBootstrap
  BY Zenon, <1>2 DEF InspectBootstrap, TypeOK, RunnerInv, storeVars
<1>3. CASE DropInterruptedSlot
  BY <1>3 DEF DropInterruptedSlot, TypeOK, RunnerInv, storeVars
<1>4. CASE ResetIncompleteSnapshot
  BY <1>4 DEF ResetIncompleteSnapshot, TypeOK, RunnerInv, storeVars
<1>5. CASE CreateExportedSnapshot
  BY Zenon, <1>5 DEF CreateExportedSnapshot, TypeOK, RunnerInv, storeVars
<1>6. CASE PersistSnapshotBatch
  BY <1>6 DEF PersistSnapshotBatch, TypeOK, RunnerInv, storeVars
<1>7. CASE PersistSnapshotMarker
  BY <1>7, ConfigTypes DEF PersistSnapshotMarker, TypeOK, RunnerInv, RunTypeOK, NoLsn
<1>8. CASE ValidateExistingSlot
  BY <1>8 DEF ValidateExistingSlot, TypeOK, RunnerInv, storeVars
<1>9. CASE StartReplication
  BY <1>9 DEF StartReplication, StartReplicationAt, TypeOK, RunnerInv, storeVars
<1>10. CASE ReceiveCommit
  BY Zenon, <1>10 DEF ReceiveCommit, TypeOK, RunnerInv, storeVars
<1>11. CASE PersistBatch
  <2> USE <1>11 DEF PersistBatch
  <2>1. lastLsn' # NoLsn
    BY DEF TypeOK, RunTypeOK, RunnerInv, NoLsn
  <2> QED
    BY <2>1 DEF TypeOK, RunnerInv
<1>12. CASE RunRefused
  BY <1>12 DEF RunRefused, RunEnds, TypeOK, RunnerInv, storeVars
<1>13. CASE RunFails
  BY <1>13 DEF RunFails, RunEnds, TypeOK, RunnerInv, storeVars
<1>14. CASE Crash
  BY <1>14 DEF Crash, TypeOK, RunnerInv, storeVars
<1>15. ASSUME NEW c \in Configs, Boot(c) PROVE RunnerInv'
  BY <1>15 DEF Boot, TypeOK, RunnerInv, storeVars, LayoutCurrent
<1>16. CASE UNCHANGED <<storeVars, config, pc, runVars, ready>>
  BY <1>16 DEF storeVars, runVars, RunnerInv
<1> QED
  BY Zenon, <1>1, <1>2, <1>3, <1>4, <1>5, <1>6, <1>7, <1>8, <1>9, <1>10, <1>11, <1>12, <1>13, <1>14, <1>15, <1>16
  DEF SharedNext, Next, Runner, vars, storeVars, runVars, Commit, SlotReleased, FeedbackArrives,
      PostgresRestarts, OtherCreatesSlot, OtherAdvancesSlot, OperatorDropsSlot

\* The control invariant holds in every reachable state.
THEOREM ControlAlways == SharedSpec => []ControlInv
  BY ControlInit, ControlStep, PTL DEF SharedSpec

\* Every variable keeps its type, for all sources, contracts, batch counts and
\* numbers of transactions, whoever uses the slot.
THEOREM TypeCorrect == SharedSpec => []TypeOK
<1>1. ControlInv => TypeOK
  BY DEF ControlInv
<1> QED
  BY <1>1, ControlAlways, PTL

\* Readiness is open only over a completed store of the configured source and
\* contract (RuntimeReadinessGuard), whoever uses the slot.
THEOREM ReadinessCorrect == SharedSpec => []ReadyServesConfiguredSource
<1>1. ControlInv => ReadyServesConfiguredSource
  BY DEF ControlInv, RunnerInv, ReadyServesConfiguredSource
<1> QED
  BY <1>1, ControlAlways, PTL

\* Only a boot with another storage contract gives up a completed store, and the
\* durable LSN never goes back.
THEOREM StoreKept == SharedSpec => CompletedStoreKept
<1>1. ControlInv /\ [SharedNext]_vars => [KeepsStore]_vars
  <2> SUFFICES ASSUME ControlInv, SharedNext, complete PROVE KeepsStore
    BY DEF KeepsStore
  <2> USE DEF KeepsStore, ControlInv, RunnerInv, TypeOK
  <2>0. lastLsn \in Int
    BY BoundsAssumption DEF StoreTypeOK, NoLsn
  <2>1. CASE UNCHANGED <<complete, lastLsn, identity>>
    BY <2>0, <2>1
  <2>2. CASE \E c \in Configs : Boot(c)
    <3> PICK c \in Configs : Boot(c)
      BY <2>2
    <3>1. CASE layout = c.contract
      BY <3>1, <2>0 DEF Boot, LayoutCurrent, storeVars
    <3>2. CASE layout # c.contract
      BY <3>2 DEF Boot, LayoutCurrent
    <3> QED
      BY <3>1, <3>2
  <2>3. CASE ResetIncompleteSnapshot \/ PersistSnapshotBatch \/ PersistSnapshotMarker
    BY Zenon, <2>3 DEF ResetIncompleteSnapshot, PersistSnapshotBatch, PersistSnapshotMarker
  <2>4. CASE PersistBatch
    BY <2>0, <2>4, BoundsAssumption DEF PersistBatch, AlreadyPersisted, RunTypeOK
  <2> QED
    BY Zenon, <2>1, <2>2, <2>3, <2>4
    DEF SharedNext, Next, Runner, storeVars, SkipSnapshot, InspectBootstrap, DropInterruptedSlot,
        CreateExportedSnapshot, ValidateExistingSlot, StartReplication, StartReplicationAt, ReceiveCommit,
        RunRefused, RunEnds, RunFails, Crash, Commit, SlotReleased, FeedbackArrives,
        PostgresRestarts, OtherCreatesSlot, OtherAdvancesSlot, OperatorDropsSlot
<1> QED
  BY <1>1, ControlAlways, PTL DEF SharedSpec, CompletedStoreKept

------------------------------------------------------------------------------

\* The empty prefix, and a prefix that grows by its next transaction.
LEMMA PrefixZero ==
  ASSUME NEW s \in Sources
  PROVE  PrefixOf(s, 0) = [c \in Commits |-> 0]
  BY BoundsAssumption DEF PrefixOf, Commits, Lsns

LEMMA PrefixNext ==
  ASSUME NEW s \in Sources, NEW n \in Nat, n + 1 <= MaxLsn
  PROVE  [PrefixOf(s, n) EXCEPT ![<<s, n + 1>>] = @ + 1] = PrefixOf(s, n + 1)
<1>1. <<s, n + 1>> \in Commits
  BY BoundsAssumption DEF Commits, Lsns
<1>2. \A c \in Commits : c = <<s, n + 1>> <=> c[1] = s /\ c[2] = n + 1
  BY DEF Commits, Lsns
<1>3. \A c \in Commits :
        [PrefixOf(s, n) EXCEPT ![<<s, n + 1>>] = @ + 1][c] = PrefixOf(s, n + 1)[c]
  <2> TAKE c \in Commits
  <2>1. c[2] \in Int
    BY BoundsAssumption DEF Commits, Lsns
  <2> QED
    BY <1>1, <1>2, <2>1 DEF PrefixOf
<1> QED
  BY Zenon, <1>1, <1>3 DEF PrefixOf

LEMMA AtMostInit == Init => AtMostInv
  BY DEF Init, AtMostInv, AppliedAtMostOnce, NothingBeyond, ScanExact, Nothing

\* Every step keeps AtMostInv.
LEMMA AtMostStep == ControlInv /\ AtMostInv /\ [SharedNext]_vars => AtMostInv'
<1> SUFFICES ASSUME ControlInv, AtMostInv, [SharedNext]_vars PROVE AtMostInv'
  OBVIOUS
<1> USE BoundsAssumption
<1> TypeOK /\ RunnerInv
  BY DEF ControlInv
<1>1. CASE UNCHANGED storeVars /\ pc' \notin {"create", "scan"}
  BY <1>1 DEF storeVars, AtMostInv, AppliedAtMostOnce, NothingBeyond, ScanExact
<1>2. CASE UNCHANGED <<storeVars, config, pc, runVars>>
  BY <1>2 DEF storeVars, runVars, AtMostInv, AppliedAtMostOnce, NothingBeyond, ScanExact
<1>3. CASE ResetIncompleteSnapshot
  BY <1>3 DEF ResetIncompleteSnapshot, AtMostInv, AppliedAtMostOnce, NothingBeyond,
              ScanExact, Nothing
<1>4. CASE CreateExportedSnapshot
  <2> USE <1>4 DEF CreateExportedSnapshot, storeVars
  <2>1. ScanExact'
    BY PrefixZero, ConfigTypes
    DEF AtMostInv, ScanExact, Nothing, Parts, TypeOK, RunTypeOK
  <2> QED
    BY <2>1 DEF AtMostInv, AppliedAtMostOnce, NothingBeyond
<1>5. CASE PersistSnapshotBatch
  <2> USE <1>5 DEF PersistSnapshotBatch
  <2> DEFINE q == copied + 1
  <2>1. q \in Parts /\ ~complete
    BY DEF Parts, TypeOK, RunTypeOK, RunnerInv
  <2>2. applied[q] = PrefixOf(config.source, 0)
    BY <2>1 DEF AtMostInv, ScanExact, Parts, TypeOK, RunTypeOK
  <2>3. [c \in Commits |-> applied[q][c] + PrefixOf(config.source, snapLsn)[c]]
          = PrefixOf(config.source, snapLsn)
    BY <2>2, PrefixZero, ConfigTypes DEF PrefixOf, TypeOK, RunTypeOK
  <2>4. applied' = [applied EXCEPT ![q] = PrefixOf(config.source, snapLsn)]
    BY Zenon, <2>3
  <2>5. ScanExact'
    BY <2>1, <2>4 DEF AtMostInv, ScanExact, Parts, TypeOK, RunTypeOK, StoreTypeOK
  <2>6. AppliedAtMostOnce'
    BY <2>1, <2>4 DEF AtMostInv, AppliedAtMostOnce, PrefixOf, TypeOK, StoreTypeOK
  <2> QED
    BY <2>1, <2>5, <2>6 DEF AtMostInv, NothingBeyond
<1>6. CASE PersistSnapshotMarker
  <2> USE <1>6 DEF PersistSnapshotMarker
  <2>1. \A p \in Parts : applied[p] = PrefixOf(config.source, snapLsn)
    BY DEF AtMostInv, ScanExact, Parts, TypeOK, RunTypeOK
  <2>2. NothingBeyond'
    BY Zenon, <2>1 DEF NothingBeyond, PrefixOf, SourceIdentity
  <2> QED
    BY <2>2 DEF AtMostInv, AppliedAtMostOnce, ScanExact
<1>7. CASE PersistBatch
  <2> USE <1>7 DEF PersistBatch
  <2> DEFINE e == <<config.source, inflight>>
  <2>1. complete /\ identity[1] = config.source /\ identity' = identity
    BY DEF RunnerInv, SourceIdentity
  <2>2. CASE AlreadyPersisted(inflight)
    BY <2>2 DEF AtMostInv, AppliedAtMostOnce, NothingBeyond, ScanExact
  <2>3. CASE ~AlreadyPersisted(inflight)
    <3>1. e \in Commits /\ lastLsn' = inflight /\ lastLsn < inflight
      BY <2>3, ConfigTypes
      DEF TypeOK, RunTypeOK, StoreTypeOK, AlreadyPersisted, Commits, Lsns, NoLsn
    <3>2. \A p \in Parts : applied[p][e] = 0
      BY <2>1, <3>1 DEF AtMostInv, NothingBeyond, TypeOK, StoreTypeOK, RunTypeOK, NoLsn
    <3>3. \A p \in Parts, c \in Commits :
            applied'[p][c] = IF c = e THEN 1 ELSE applied[p][c]
      <4>1. applied' = [p \in Parts |-> [applied[p] EXCEPT ![e] = @ + 1]]
        BY <2>3
      <4> TAKE p \in Parts, c \in Commits
      <4>2. applied[p] \in [Commits -> Nat]
        BY DEF TypeOK, StoreTypeOK
      <4>3. applied'[p] = [applied[p] EXCEPT ![e] = @ + 1]
        BY <4>1, Zenon
      <4> HIDE <1>7
      <4> QED
        BY <3>1, <3>2, <4>2, <4>3
    <3>4. AppliedAtMostOnce'
      BY <3>3 DEF AtMostInv, AppliedAtMostOnce
    <3>5. NothingBeyond'
      <4> SUFFICES ASSUME NEW p \in Parts, NEW c \in Commits, applied'[p][c] # 0
                   PROVE  c[1] = identity[1] /\ c[2] <= inflight
        BY <2>1, <3>1 DEF NothingBeyond
      <4>1. CASE c = e
        BY <4>1, <2>1 DEF TypeOK, RunTypeOK
      <4>2. CASE c # e
        <5>1. c[1] = identity[1] /\ c[2] <= lastLsn
          BY <4>2, <2>1, <3>3 DEF AtMostInv, NothingBeyond
        <5>2. c[2] \in Int
          BY DEF Commits, Lsns
        <5> QED
          BY <5>1, <5>2, <3>1 DEF TypeOK, StoreTypeOK, RunTypeOK, NoLsn
      <4> QED
        BY <4>1, <4>2
    <3> QED
      BY <3>4, <3>5 DEF AtMostInv, ScanExact
  <2> QED
    BY <2>2, <2>3
<1>8. CASE \E c \in Configs : Boot(c)
  <2> PICK c \in Configs : Boot(c)
    BY <1>8
  <2>1. CASE LayoutCurrent(c)
    BY <2>1, <1>1 DEF Boot
  <2>2. CASE ~LayoutCurrent(c)
    BY <2>2 DEF Boot, AtMostInv, AppliedAtMostOnce, NothingBeyond, ScanExact, Nothing
  <2> QED
    BY <2>1, <2>2
<1> QED
  BY Zenon, <1>1, <1>2, <1>3, <1>4, <1>5, <1>6, <1>7, <1>8
  DEF SharedNext, Next, Runner, vars, storeVars, runVars, SkipSnapshot, InspectBootstrap,
      DropInterruptedSlot, ValidateExistingSlot, StartReplication, StartReplicationAt, ReceiveCommit,
      RunRefused, RunEnds, RunFails, Crash, Commit, SlotReleased, FeedbackArrives,
      PostgresRestarts, OtherCreatesSlot, OtherAdvancesSlot, OperatorDropsSlot

\* No transaction is applied twice to any part, by a retried snapshot batch or a
\* redelivered commit, whoever uses the slot.
THEOREM AtMostOnce == SharedSpec => []AppliedAtMostOnce
<1>1. AtMostInv => AppliedAtMostOnce
  BY DEF AtMostInv
<1> QED
  BY <1>1, AtMostInit, AtMostStep, ControlAlways, PTL DEF SharedSpec

------------------------------------------------------------------------------

LEMMA ExactInit == Init => ExactInv
  BY Zenon DEF Init, ExactInv, ReplicaExact, SlotBehind, SlotAtSnapshot, StreamAtStore

\* The fields of changed slots.
LEMMA SlotFields ==
  ASSUME NEW sl \in Slots, NEW n \in 0..MaxLsn
  PROVE  /\ sl.confirmed \in 0..MaxLsn /\ sl.acked \in 0..MaxLsn
         /\ NoSlot.confirmed = 0 /\ NoSlot.acked = 0 /\ NoSlot.active = FALSE
         /\ LET t == Disconnected(sl) IN
              t.confirmed = sl.confirmed /\ t.acked = 0 /\ t.active = FALSE
         /\ LET t == [Disconnected(sl) EXCEPT !.confirmed = n] IN
              t.confirmed = n /\ t.acked = 0 /\ t.active = FALSE
         /\ LET t == [sl EXCEPT !.acked = n] IN
              t.confirmed = sl.confirmed /\ t.acked = n /\ t.active = sl.active
         /\ LET t == [sl EXCEPT !.active = TRUE] IN
              t.confirmed = sl.confirmed /\ t.acked = sl.acked
  BY BoundsAssumption DEF Slots, NoSlot, Disconnected

\* A step that at most moves slots back keeps ExactInv.
LEMMA ShrinkKeepsExact ==
  ASSUME ControlInv, ControlInv', ExactInv,
         UNCHANGED <<wal, storeVars, config, pc, runVars>>,
         \A s \in Sources : /\ slot'[s].confirmed <= slot[s].confirmed
                            /\ slot'[s].acked <= slot[s].acked
                            /\ slot'[s].active => slot[s].active
  PROVE  ExactInv'
<1> USE BoundsAssumption DEF storeVars, runVars
<1>0. config.source \in Sources /\ (complete => identity[1] \in Sources)
  BY Zenon, ConfigTypes DEF ControlInv, TypeOK, RunTypeOK, RunnerInv, Identities
<1>1. \A s \in Sources :
        /\ slot[s].confirmed \in Nat /\ slot[s].acked \in Nat
        /\ slot'[s].confirmed \in Nat /\ slot'[s].acked \in Nat
  BY DEF ControlInv, TypeOK, PgTypeOK, Slots
<1>2. lastLsn \in Int /\ snapLsn \in Int
  BY DEF ControlInv, TypeOK, StoreTypeOK, RunTypeOK, NoLsn
<1>3. ReplicaExact' /\ StreamAtStore'
  BY Zenon DEF ExactInv, ReplicaExact, StreamAtStore
<1>4. SlotBehind'
  BY <1>0, <1>1, <1>2 DEF ExactInv, SlotBehind
<1>5. SlotAtSnapshot'
  BY <1>0, <1>1, <1>2 DEF ExactInv, SlotAtSnapshot
<1> QED
  BY <1>3, <1>4, <1>5 DEF ExactInv

\* Every step of a service that has its slot to itself keeps ExactInv.
LEMMA ExactStep ==
  ControlInv /\ ControlInv' /\ AtMostInv /\ ExactInv /\ [Next]_vars => ExactInv'
<1> SUFFICES ASSUME ControlInv, ControlInv', AtMostInv, ExactInv, [Next]_vars
             PROVE  ExactInv'
  OBVIOUS
<1> USE BoundsAssumption
<1> TypeOK /\ RunnerInv
  BY DEF ControlInv
<1> DEFINE cs == config.source
<1>a. cs \in Sources /\ slot[cs] \in Slots /\ wal[cs] \in 0..MaxLsn
  BY ConfigTypes DEF TypeOK, RunTypeOK, PgTypeOK
<1>b. complete => /\ identity[1] \in Sources
                  /\ slot[identity[1]] \in Slots
                  /\ wal[identity[1]] \in 0..MaxLsn
                  /\ lastLsn \in 0..MaxLsn
  BY DEF RunnerInv, Identities, TypeOK, PgTypeOK, StoreTypeOK
<1>c. pc \in {"resume", "start", "streaming"} => complete /\ identity[1] = cs
  BY DEF RunnerInv, SourceIdentity
<1>1. CASE UNCHANGED <<pgVars, storeVars>> /\ pc' \notin {"scan", "streaming"}
  BY Zenon, <1>1 DEF pgVars, storeVars, ExactInv, ReplicaExact, SlotBehind, SlotAtSnapshot,
              StreamAtStore
<1>2. CASE ~complete' /\ pc' \notin {"scan", "streaming"}
  BY Zenon, <1>2 DEF ExactInv, ReplicaExact, SlotBehind, SlotAtSnapshot, StreamAtStore
<1>3. CASE DropInterruptedSlot \/ ResetIncompleteSnapshot
  BY Zenon, <1>2, <1>3 DEF DropInterruptedSlot, ResetIncompleteSnapshot, RunnerInv, storeVars
<1>4. CASE CreateExportedSnapshot
  <2> USE <1>4 DEF CreateExportedSnapshot, storeVars
  <2>1. SlotAtSnapshot'
    BY <1>a DEF SlotAtSnapshot, NewSlot, TypeOK, PgTypeOK
  <2> QED
    BY Zenon, <2>1 DEF ExactInv, ReplicaExact, SlotBehind, StreamAtStore, RunnerInv
<1>5. CASE PersistSnapshotBatch
  BY Zenon, <1>5 DEF PersistSnapshotBatch, pgVars, ExactInv, ReplicaExact, SlotBehind,
              SlotAtSnapshot, StreamAtStore, RunnerInv
<1>6. CASE PersistSnapshotMarker
  <2> USE <1>6 DEF PersistSnapshotMarker, pgVars, runVars
  <2>1. identity'[1] = cs /\ identity' # NoIdentity
    BY ConfigTypes, SourcesAssumption DEF SourceIdentity, TypeOK, RunTypeOK
  <2>2. \A p \in Parts : applied[p] = PrefixOf(cs, snapLsn)
    BY DEF AtMostInv, ScanExact, Parts, TypeOK, RunTypeOK
  <2>3. ReplicaExact'
    <3>1. snapLsn \in 0..wal[cs]
      BY <1>a DEF ExactInv, SlotAtSnapshot, TypeOK, RunTypeOK
    <3>2. lastLsn' = snapLsn /\ wal' = wal /\ applied' = applied
      BY Zenon
    <3> HIDE <1>6
    <3> QED BY Zenon, <2>1, <2>2, <3>1, <3>2 DEF ReplicaExact
  <2>4. SlotBehind'
    BY <2>1 DEF ExactInv, SlotBehind, SlotAtSnapshot, TypeOK, RunTypeOK
  <2> QED
    BY Zenon, <2>3, <2>4 DEF ExactInv, SlotAtSnapshot, StreamAtStore
<1>7. CASE StartReplication
  <2> USE <1>7 DEF StartReplication, StartReplicationAt, storeVars
  <2>1. slot'[cs].confirmed = slot[cs].confirmed /\ slot'[cs].acked = slot[cs].acked
    BY <1>a, SlotFields DEF TypeOK, PgTypeOK
  <2>2. StreamAtStore'
    BY <1>a, <1>b, <1>c DEF ExactInv, SlotBehind, StreamAtStore, StartLsn, MaxOf, Slots
  <2> QED
    BY <2>1, <2>2, <1>c DEF ExactInv, ReplicaExact, SlotBehind, SlotAtSnapshot
<1>8. CASE ReceiveCommit
  <2> USE <1>8 DEF ReceiveCommit, pgVars, storeVars
  <2>1. StreamAtStore'
    BY <1>a, <1>b, <1>c DEF ExactInv, StreamAtStore, TypeOK, RunTypeOK
  <2> QED
    BY <2>1 DEF ExactInv, ReplicaExact, SlotBehind, SlotAtSnapshot
<1>9. CASE PersistBatch
  <2> USE <1>9 DEF PersistBatch
  <2>1. inflight \in 1..MaxLsn /\ inflight = cursor /\ cursor <= lastLsn + 1
          /\ cursor <= wal[cs]
    BY DEF ExactInv, StreamAtStore, TypeOK, RunTypeOK
  <2>2. lastLsn' \in 0..wal[cs] /\ inflight <= lastLsn' /\ lastLsn <= lastLsn'
          /\ wal' = wal /\ identity' = identity /\ complete' = complete
          /\ pc = "streaming" /\ pc' = pc /\ config' = config /\ cursor' = cursor /\ inflight' = 0
    BY <1>a, <1>b, <1>c, <2>1 DEF AlreadyPersisted, ExactInv, ReplicaExact
  <2>3. \A p \in Parts : applied'[p] = PrefixOf(cs, lastLsn')
    <3>1. \A p \in Parts : applied[p] = PrefixOf(cs, lastLsn)
      BY <1>c DEF ExactInv, ReplicaExact
    <3>2. CASE AlreadyPersisted(inflight)
      BY <3>1, <3>2
    <3>3. CASE ~AlreadyPersisted(inflight)
      <4>0. lastLsn' = inflight
        BY <3>3
      <4>1. inflight = lastLsn + 1 /\ lastLsn' = inflight /\ lastLsn \in Nat
        <5> HIDE <1>9 DEF PersistBatch
        <5> QED
          BY <1>b, <1>c, <2>1, <2>2, <3>3, <4>0 DEF AlreadyPersisted
      <4>2. \A p \in Parts : applied'[p] = [applied[p] EXCEPT ![<<cs, inflight>>] = @ + 1]
        BY <3>3
      <4> QED
        BY <1>a, <2>1, <3>1, <4>1, <4>2, PrefixNext
    <3> QED
      BY <3>2, <3>3
  <2>4. ReplicaExact'
    BY <1>c, <2>2, <2>3 DEF ExactInv, ReplicaExact
  <2>5. SlotBehind'
    <3>1. slot'[cs].confirmed = slot[cs].confirmed /\ slot'[cs].acked \in {0, inflight}
      BY <1>a, SlotFields DEF TypeOK, PgTypeOK, RunTypeOK
    <3>2. slot[cs].confirmed <= lastLsn
      BY <1>c DEF ExactInv, SlotBehind
    <3>3. slot[cs].confirmed \in Int /\ lastLsn \in Int
      BY <1>a, <1>b, <1>c DEF Slots
    <3> HIDE <1>9
    <3> QED
      BY <1>a, <1>c, <2>1, <2>2, <3>1, <3>2, <3>3 DEF SlotBehind
  <2>6. StreamAtStore'
    BY <1>a, <2>1, <2>2 DEF StreamAtStore
  <2> QED
    BY <2>4, <2>5, <2>6 DEF ExactInv, SlotAtSnapshot
<1>10. CASE \E c \in Configs : Boot(c)
  <2> PICK c \in Configs : Boot(c)
    BY <1>10
  <2>1. CASE LayoutCurrent(c)
    BY <2>1, <1>1 DEF Boot
  <2>2. CASE ~LayoutCurrent(c)
    BY <2>2, <1>2 DEF Boot
  <2> QED
    BY <2>1, <2>2
<1>11. ASSUME NEW s \in Sources, Commit(s) PROVE ExactInv'
  <2>1. \A x \in Sources : wal[x] \in Int /\ wal'[x] \in Int /\ wal[x] <= wal'[x]
    BY <1>11 DEF Commit, TypeOK, PgTypeOK
  <2>2. cursor \in Int /\ snapLsn \in Int
    BY DEF TypeOK, RunTypeOK
  <2>3. UNCHANGED <<slot, storeVars, config, pc, runVars>>
    BY <1>11 DEF Commit
  <2> HIDE <1>11
  <2>4. ReplicaExact'
    BY <1>b, <2>1, <2>3 DEF storeVars, ExactInv, ReplicaExact
  <2>5. SlotBehind'
    BY Zenon, <2>3 DEF storeVars, ExactInv, SlotBehind
  <2>6. SlotAtSnapshot'
    BY <1>a, <2>1, <2>2, <2>3 DEF runVars, ExactInv, SlotAtSnapshot
  <2>7. StreamAtStore'
    BY <1>a, <2>1, <2>2, <2>3 DEF storeVars, runVars, ExactInv, StreamAtStore
  <2> QED
    BY <2>4, <2>5, <2>6, <2>7 DEF ExactInv
<1>12. ASSUME NEW s \in Sources,
              SlotReleased(s) \/ PostgresRestarts(s) \/ OperatorDropsSlot(s)
       PROVE  ExactInv'
  <2> UNCHANGED <<wal, storeVars, config, pc, runVars>>
    BY <1>12 DEF SlotReleased, PostgresRestarts, OperatorDropsSlot, storeVars, runVars
  <2>0. slot[s] \in Slots /\ 0 \in 0..MaxLsn /\ slot[s].confirmed \in 0..MaxLsn
    BY DEF TypeOK, PgTypeOK, Slots
  <2>1. ASSUME NEW t \in Slots, slot' = [slot EXCEPT ![s] = t],
               t.confirmed <= slot[s].confirmed, t.acked = 0, t.active = FALSE
        PROVE  ExactInv'
    <3>1. \A x \in Sources : /\ slot'[x].confirmed <= slot[x].confirmed
                             /\ slot'[x].acked <= slot[x].acked
                             /\ slot'[x].active => slot[x].active
      BY <2>1 DEF TypeOK, PgTypeOK, Slots
    <3> QED
      BY Zenon, <3>1, ShrinkKeepsExact
  <2> DEFINE t0 == Disconnected(slot[s])
  <2>2. t0 \in Slots /\ t0.confirmed = slot[s].confirmed /\ t0.acked = 0
          /\ t0.active = FALSE
    BY Zenon, <2>0, SlotTypes, SlotFields
  <2>3. CASE SlotReleased(s)
    <3>1. slot' = [slot EXCEPT ![s] = t0]
      BY <2>3 DEF SlotReleased, TypeOK, PgTypeOK
    <3> HIDE DEF t0
    <3>2. t0.confirmed <= slot[s].confirmed
      BY <2>0, <2>2
    <3> QED
      BY <2>1, <2>2, <3>1, <3>2, Zenon
  <2>4. CASE PostgresRestarts(s)
    <3>1. PICK n \in slot[s].floor..slot[s].confirmed :
               slot' = [slot EXCEPT ![s] = [t0 EXCEPT !.confirmed = n]]
      BY Zenon, <2>4 DEF PostgresRestarts, TypeOK, PgTypeOK
    <3>2. n \in 0..MaxLsn /\ n <= slot[s].confirmed
      BY <2>0 DEF Slots
    <3> DEFINE t1 == [t0 EXCEPT !.confirmed = n]
    <3> HIDE DEF t0
    <3>3. t1 \in Slots /\ t1.confirmed = n /\ t1.acked = 0 /\ t1.active = FALSE
      BY <2>2, <3>2 DEF Slots
    <3> HIDE DEF t1
    <3>4. slot' = [slot EXCEPT ![s] = t1]
      BY <3>1 DEF t1
    <3> QED
      BY Zenon, <2>1, <3>2, <3>3, <3>4
  <2>5. CASE OperatorDropsSlot(s)
    <3>1. NoSlot \in Slots /\ NoSlot.confirmed = 0 /\ NoSlot.acked = 0
            /\ NoSlot.active = FALSE
      BY Zenon, <2>0, SlotTypes, SlotFields
    <3>2. slot' = [slot EXCEPT ![s] = NoSlot]
      BY <2>5 DEF OperatorDropsSlot
    <3>3. NoSlot.confirmed <= slot[s].confirmed
      BY <2>0, <3>1
    <3> QED
      BY <2>1, <3>1, <3>2, <3>3, Zenon
  <2> QED
    BY <1>12, <2>3, <2>4, <2>5
<1>13. ASSUME NEW s \in Sources, FeedbackArrives(s) PROVE ExactInv'
  <2>1. slot'[s].confirmed = slot[s].acked /\ slot'[s].acked = slot[s].acked
          /\ slot'[s].active /\ slot[s].active
          /\ \A x \in Sources \ {s} : slot'[x] = slot[x]
    BY <1>13 DEF FeedbackArrives, TypeOK, PgTypeOK, Slots
  <2> QED
    BY <1>13, <1>a, <1>b, <2>1
    DEF FeedbackArrives, storeVars, runVars, ExactInv, ReplicaExact, SlotBehind,
        SlotAtSnapshot, StreamAtStore
<1>14. CASE UNCHANGED vars
  BY Zenon, <1>14 DEF vars, ExactInv, ReplicaExact, SlotBehind, SlotAtSnapshot, StreamAtStore
<1>15. CASE SkipSnapshot \/ InspectBootstrap \/ ValidateExistingSlot \/ RunRefused
            \/ RunFails \/ Crash
  BY Zenon, <1>1, <1>15 DEF SkipSnapshot, InspectBootstrap, ValidateExistingSlot, RunRefused,
                     RunEnds, RunFails, Crash
<1> QED
  BY <1>3, <1>4, <1>5, <1>6, <1>7, <1>8, <1>9, <1>10, <1>11, <1>12, <1>13, <1>14, <1>15
  DEF Next, Runner

\* All layers together hold in every reachable state of a service that has its
\* slot to itself.
THEOREM ExactAlways == Spec => [](ControlInv /\ AtMostInv /\ ExactInv)
<1>1. Init => ControlInv /\ AtMostInv /\ ExactInv
  BY ControlInit, AtMostInit, ExactInit
<1>2. (ControlInv /\ AtMostInv /\ ExactInv) /\ [Next]_vars
        => (ControlInv /\ AtMostInv /\ ExactInv)'
  BY Zenon, ControlStep, AtMostStep, ExactStep DEF SharedNext
<1> QED
  BY <1>1, <1>2, PTL DEF Spec

\* A completed store holds exactly the first lastLsn transactions of its source,
\* each of them once.
THEOREM ReplicaIsExact == Spec => []ReplicaExact
<1>1. ExactInv => ReplicaExact
  BY DEF ExactInv
<1> QED
  BY <1>1, ExactAlways, PTL

\* Nothing is acknowledged to PostgreSQL before it is durable in MDBX.
THEOREM AcksDurable == Spec => []AcksAreDurable
<1>1. ExactInv => AcksAreDurable
  BY DEF ExactInv, SlotBehind, AcksAreDurable
<1> QED
  BY <1>1, ExactAlways, PTL

\* The slot is never confirmed past the store that depends on it.
THEOREM SlotNotAhead == Spec => []SlotNotAheadOfStore
<1>1. ExactInv => SlotNotAheadOfStore
  BY DEF ExactInv, SlotBehind, SlotNotAheadOfStore
<1> QED
  BY <1>1, ExactAlways, PTL

\* The stream a run reads continues the store without a gap.
THEOREM StreamContinues == Spec => []StreamContinuesStore
<1>1. ControlInv /\ ExactInv => StreamContinuesStore
  BY BoundsAssumption
  DEF ControlInv, TypeOK, StoreTypeOK, RunTypeOK, ExactInv, StreamAtStore,
      StreamContinuesStore, NoLsn
<1> QED
  BY <1>1, ExactAlways, PTL

------------------------------------------------------------------------------
(***************************************************************************)
(* Refinement: the store implements the abstract replica.                  *)
(***************************************************************************)

\* Without the marker there is no view, before and after a step.
LEMMA ViewAbsent ==
  /\ ControlInv /\ ~complete => View = Abstract!NoView
  /\ ControlInv' /\ ~complete' => View' = Abstract!NoView
<1>1. Abstract!NoView = [up |-> FALSE, rows |-> Nothing]
  BY DEF Abstract!NoView, Nothing, Abstract!Commits, Commits, Lsns
<1>2. ASSUME ControlInv, ~complete PROVE View = [up |-> FALSE, rows |-> Nothing]
  BY Zenon, <1>2 DEF View, ControlInv, TypeOK, StoreTypeOK
<1>3. ASSUME ControlInv', ~complete' PROVE View' = [up |-> FALSE, rows |-> Nothing]
  <2>1. Nothing' = Nothing
    BY DEF Nothing, Commits, Lsns, Parts
  <2> QED
    BY Zenon, <1>3, <2>1 DEF View, ControlInv, TypeOK, StoreTypeOK
<1> QED
  BY <1>1, <1>2, <1>3

\* A data set with a prefix in every part is a view of the abstract replica.
LEMMA PrefixIsView ==
  ASSUME NEW src \in Sources, NEW n \in Nat
  PROVE  Abstract!View(src, n) = [up |-> TRUE, rows |-> [p \in Parts |-> PrefixOf(src, n)]]
<1>1. Abstract!Prefix(src, n) = [p \in Parts |-> PrefixOf(src, n)]
  BY DEF PrefixOf, Abstract!Prefix, Abstract!Commits, Commits, Lsns
<1> QED
  BY <1>1 DEF Abstract!View

\* With the marker the view is a prefix of the store's source.
LEMMA ViewPresent ==
  /\ ControlInv /\ ReplicaExact /\ complete => View = Abstract!View(identity[1], lastLsn)
  /\ (ControlInv /\ ReplicaExact /\ complete)'
       => View' = Abstract!View(identity'[1], lastLsn')
<1>1. ASSUME ControlInv, ReplicaExact, complete
      PROVE  View = Abstract!View(identity[1], lastLsn)
  <2>1. identity[1] \in Sources /\ lastLsn \in Nat
    BY <1>1, BoundsAssumption
    DEF ControlInv, RunnerInv, Identities, TypeOK, StoreTypeOK
  <2>2. View = [up |-> TRUE, rows |-> applied]
    BY <1>1 DEF View, ControlInv, TypeOK, StoreTypeOK
  <2>3. applied = [p \in Parts |-> applied[p]]
    BY <1>1 DEF ControlInv, TypeOK, StoreTypeOK
  <2>4. applied = [p \in Parts |-> PrefixOf(identity[1], lastLsn)]
    BY <1>1, <2>3 DEF ReplicaExact
  <2> QED
    BY <2>1, <2>2, <2>4, PrefixIsView, Zenon
<1>2. ASSUME ControlInv', ReplicaExact', complete'
      PROVE  View' = Abstract!View(identity'[1], lastLsn')
  <2>1. identity'[1] \in Sources /\ lastLsn' \in Nat
    BY <1>2, BoundsAssumption
    DEF ControlInv, RunnerInv, Identities, TypeOK, StoreTypeOK
  <2>2. View' = [up |-> TRUE, rows |-> applied']
    BY Zenon, <1>2 DEF View, ControlInv, TypeOK, StoreTypeOK
  <2>3. applied' = [p \in Parts |-> applied'[p]]
    BY <1>2 DEF ControlInv, TypeOK, StoreTypeOK
  <2>4. applied' = [p \in Parts |-> PrefixOf(identity'[1], lastLsn')]
    BY <1>2, <2>3 DEF ReplicaExact
  <2> QED
    BY <2>1, <2>2, <2>4, PrefixIsView, Zenon
<1> QED
  BY Zenon, <1>1, <1>2

\* Every step is a step of the abstract replica or leaves its variables alone.
LEMMA RefinesStep ==
  ASSUME ControlInv, AtMostInv, ExactInv,
         ControlInv', ExactInv', [Next]_vars
  PROVE  [Abstract!Next]_<<wal, View>>
<1> USE BoundsAssumption
<1> DEFINE cs == config.source
<1> TypeOK /\ RunnerInv
  BY DEF ControlInv
<1>a. cs \in Sources /\ wal[cs] \in 0..MaxLsn
  BY Zenon, ConfigTypes DEF TypeOK, RunTypeOK, PgTypeOK
<1>1. CASE UNCHANGED <<wal, complete, applied>>
  BY <1>1 DEF View
<1>2. CASE wal' = wal /\ ~complete'
  <2>1. View' = Abstract!NoView
    BY <1>2, ViewAbsent
  <2> QED
    BY <1>2, <2>1 DEF Abstract!Next, Abstract!Withdraw
<1>3. ASSUME NEW s \in Sources, Commit(s) PROVE Abstract!Next
  BY Zenon, <1>3 DEF Commit, storeVars, View, Abstract!Next, Abstract!Commit
<1>4. CASE PersistSnapshotMarker
  <2> USE <1>4 DEF PersistSnapshotMarker, pgVars
  <2>1. View = Abstract!NoView
    BY ViewAbsent DEF RunnerInv
  <2>2. complete' /\ ReplicaExact' /\ identity'[1] = cs /\ lastLsn' = snapLsn /\ wal' = wal
    BY Zenon DEF ExactInv, SourceIdentity
  <2>3. View' = Abstract!View(cs, snapLsn)
    BY <2>2, ViewPresent, Zenon
  <2>4. snapLsn \in 0..wal[cs]
    BY <1>a DEF ExactInv, SlotAtSnapshot, TypeOK, RunTypeOK
  <2> QED
    BY Zenon, <1>a, <2>1, <2>2, <2>3, <2>4 DEF Abstract!Next, Abstract!Appear
<1>5. CASE PersistBatch
  <2> USE <1>5 DEF PersistBatch
  <2>1. CASE AlreadyPersisted(inflight)
    BY <1>1, <2>1
  <2>2. CASE ~AlreadyPersisted(inflight)
    <3>1. complete /\ identity[1] = cs /\ complete' /\ identity'[1] = cs /\ wal' = wal
            /\ lastLsn' = inflight
      BY <2>2 DEF RunnerInv, SourceIdentity
    <3>2. lastLsn \in Nat /\ lastLsn <= wal[cs]
      BY <3>1 DEF ExactInv, ReplicaExact, RunnerInv, TypeOK, StoreTypeOK
    <3>3. inflight \in 1..wal[cs] /\ lastLsn = inflight - 1
      <4>1. pc = "streaming" /\ inflight # 0
        OBVIOUS
      <4> HIDE <1>5 DEF PersistBatch
      <4> QED
        BY <1>a, <2>2, <3>2, <4>1
        DEF ExactInv, StreamAtStore, AlreadyPersisted, TypeOK, RunTypeOK
    <3>4. View = Abstract!View(cs, inflight - 1)
      BY <3>1, <3>3, ViewPresent DEF ExactInv
    <3>5. View' = Abstract!View(cs, inflight)
      BY <3>1, ViewPresent, Zenon DEF ExactInv
    <3> HIDE <1>5 DEF PersistBatch
    <3> QED
      BY Zenon, <1>a, <3>1, <3>3, <3>4, <3>5 DEF Abstract!Next, Abstract!Advance
  <2> QED
    BY <2>1, <2>2
<1>6. CASE \E c \in Configs : Boot(c)
  <2> PICK c \in Configs : Boot(c)
    BY <1>6
  <2>1. CASE LayoutCurrent(c)
    BY <2>1, <1>1 DEF Boot, pgVars, storeVars
  <2>2. CASE ~LayoutCurrent(c)
    BY <2>2, <1>2 DEF Boot, pgVars
  <2> QED
    BY <2>1, <2>2
<1>7. CASE ResetIncompleteSnapshot \/ PersistSnapshotBatch
  BY Zenon, <1>2, <1>7 DEF ResetIncompleteSnapshot, PersistSnapshotBatch, RunnerInv, pgVars
<1>8. ASSUME NEW s \in Sources,
             SlotReleased(s) \/ PostgresRestarts(s) \/ OperatorDropsSlot(s)
               \/ FeedbackArrives(s)
      PROVE  UNCHANGED <<wal, complete, applied>>
  BY <1>8 DEF SlotReleased, PostgresRestarts, OperatorDropsSlot, FeedbackArrives, storeVars
<1>9. CASE SkipSnapshot \/ InspectBootstrap \/ ValidateExistingSlot \/ RunRefused
           \/ RunFails \/ Crash \/ DropInterruptedSlot \/ CreateExportedSnapshot
           \/ StartReplication \/ ReceiveCommit \/ UNCHANGED vars
  BY Zenon, <1>1, <1>9
  DEF SkipSnapshot, InspectBootstrap, ValidateExistingSlot, RunRefused, RunEnds, RunFails,
      Crash, DropInterruptedSlot, CreateExportedSnapshot, StartReplication, StartReplicationAt, ReceiveCommit,
      vars, pgVars, storeVars
<1> QED
  BY Zenon, <1>1, <1>3, <1>4, <1>5, <1>6, <1>7, <1>8, <1>9
  DEF Next, Runner

\* Readers of the store see the abstract replica: a prefix of one source that
\* appears, grows in commit order one transaction at a time, or is withdrawn.
THEOREM Refinement == Spec => ImplementsReplica
<1>1. Init => Abstract!Init
  BY ViewAbsent, ControlInit DEF Init, Abstract!Init
<1>2. (ControlInv /\ AtMostInv /\ ExactInv) /\ (ControlInv /\ AtMostInv /\ ExactInv)'
        /\ [Next]_vars => [Abstract!Next]_<<wal, View>>
  BY Zenon, RefinesStep
<1> QED
  BY <1>1, <1>2, ExactAlways, PTL DEF Spec, ImplementsReplica, Abstract!Spec
------------------------------------------------------------------------------
(***************************************************************************)
(* Ownership of the slot.                                                  *)
(***************************************************************************)

\* A bootstrap intent vouches for the slot of its source, because it is written
\* while that slot is absent; only a run with an intent goes on to drop a slot.
OwnSlotInv ==
  /\ intent # NoIdentity /\ slot[intent[1]].present => slot[intent[1]].owner = "ingest"
  /\ pc = "reset" => ~slot[config.source].present
  /\ pc = "drop" => intent = SourceIdentity(config)

\* A step that creates no slot, and leaves the owners of the others alone.
NoNewSlot ==
  \A s \in Sources : slot'[s].present => slot[s].present /\ slot'[s].owner = slot[s].owner

\* Steps that write no intent keep OwnSlotInv.
LEMMA OwnSlotKept ==
  ASSUME ControlInv, OwnSlotInv, NoNewSlot,
         intent' \in {intent, NoIdentity},
         \/ UNCHANGED <<pc, config, intent>>
         \/ pc' \notin {"reset", "drop"}
  PROVE  OwnSlotInv'
<1>1. config.source \in Sources /\ (intent # NoIdentity => intent[1] \in Sources)
  BY Zenon, ConfigTypes DEF ControlInv, TypeOK, RunTypeOK, StoreTypeOK, Identities
<1> QED BY Zenon, <1>1 DEF OwnSlotInv, NoNewSlot

\* t is the slot sl, changed, or no slot.
SameOwner(t, sl) == t.present => sl.present /\ t.owner = sl.owner

\* What the actions do to a slot changes neither its owner nor whether it exists.
LEMMA SlotOwner ==
  ASSUME NEW sl \in Slots, NEW n, NEW b
  PROVE  /\ SameOwner(Disconnected(sl), sl)
         /\ SameOwner([Disconnected(sl) EXCEPT !.confirmed = n], sl)
         /\ SameOwner([sl EXCEPT !.acked = n], sl)
         /\ SameOwner([sl EXCEPT !.confirmed = n], sl)
         /\ SameOwner([sl EXCEPT !.active = b], sl)
BY DEF Slots, SameOwner, Disconnected

\* Only the bootstrap creates slots.
LEMMA OnlyBootstrapCreates ==
  ASSUME ControlInv, Next, ~CreateExportedSnapshot
  PROVE  NoNewSlot
<1>1. slot \in [Sources -> Slots] /\ config.source \in Sources
  BY ConfigTypes DEF ControlInv, TypeOK, PgTypeOK, RunTypeOK
<1>2. CASE slot' = slot
  BY <1>2 DEF NoNewSlot
<1>3. ASSUME NEW s \in Sources, NEW t, slot' = [slot EXCEPT ![s] = t],
             SameOwner(t, slot[s])
      PROVE  NoNewSlot
  BY Zenon, <1>1, <1>3 DEF NoNewSlot, SameOwner
<1>4. CASE DropInterruptedSlot \/ \E s \in Sources : OperatorDropsSlot(s)
  BY Zenon, <1>1, <1>3, <1>4 DEF DropInterruptedSlot, OperatorDropsSlot, NoSlot, SameOwner
<1>5. CASE StartReplication
  <2>1. slot' = [slot EXCEPT ![config.source] = [slot[config.source] EXCEPT !.active = TRUE]]
    BY <1>5 DEF StartReplication, StartReplicationAt
  <2> QED BY Zenon, <1>1, <1>3, <2>1, SlotOwner
<1>6. CASE PersistBatch
  <2>1. PICK n : slot' = [slot EXCEPT ![config.source] = [slot[config.source] EXCEPT !.acked = n]]
    BY Zenon, <1>6 DEF PersistBatch
  <2> QED BY Zenon, <1>1, <1>3, <2>1, SlotOwner
<1>7. ASSUME NEW s \in Sources,
             SlotReleased(s) \/ FeedbackArrives(s) \/ PostgresRestarts(s)
      PROVE  NoNewSlot
  <2>1. CASE SlotReleased(s)
    <3>1. slot' = [slot EXCEPT ![s] = Disconnected(slot[s])]
      BY <2>1 DEF SlotReleased
    <3> QED BY Zenon, <1>1, <1>3, <3>1, SlotOwner
  <2>2. CASE FeedbackArrives(s)
    <3>1. slot' = [slot EXCEPT ![s] = [slot[s] EXCEPT !.confirmed = slot[s].acked]]
      BY <2>2 DEF FeedbackArrives
    <3> QED BY Zenon, <1>1, <1>3, <3>1, SlotOwner
  <2>3. CASE PostgresRestarts(s)
    <3>1. PICK n : slot' = [slot EXCEPT ![s] = [Disconnected(slot[s]) EXCEPT !.confirmed = n]]
      BY Zenon, <2>3 DEF PostgresRestarts
    <3> QED BY Zenon, <1>1, <1>3, <3>1, SlotOwner
  <2> QED BY <1>7, <2>1, <2>2, <2>3
<1>8. CASE \/ SkipSnapshot \/ InspectBootstrap \/ ResetIncompleteSnapshot
           \/ PersistSnapshotBatch \/ PersistSnapshotMarker \/ ValidateExistingSlot
           \/ ReceiveCommit \/ RunRefused \/ RunFails \/ Crash
           \/ (\E c \in Configs : Boot(c)) \/ (\E s \in Sources : Commit(s))
  BY Zenon, <1>2, <1>8
  DEF SkipSnapshot, InspectBootstrap, ResetIncompleteSnapshot, PersistSnapshotBatch,
      PersistSnapshotMarker, ValidateExistingSlot, ReceiveCommit, RunRefused, RunFails, Crash,
      Boot, Commit, pgVars
<1> QED BY Zenon, <1>4, <1>5, <1>6, <1>7, <1>8 DEF Next, Runner

\* Every step of a service that has its slot to itself keeps OwnSlotInv.
LEMMA OwnSlotStep ==
  ControlInv /\ OwnSlotInv /\ [Next]_vars => OwnSlotInv'
<1> SUFFICES ASSUME ControlInv, OwnSlotInv, [Next]_vars PROVE OwnSlotInv'
  OBVIOUS
<1>1. /\ slot \in [Sources -> Slots] /\ config.source \in Sources
      /\ SourceIdentity(config)[1] = config.source /\ SourceIdentity(config) # NoIdentity
  BY Zenon, ConfigTypes, SourcesAssumption
  DEF ControlInv, TypeOK, PgTypeOK, RunTypeOK, SourceIdentity, Identities
<1>2. CASE UNCHANGED vars
  BY Zenon, <1>2 DEF vars, OwnSlotInv
<1>3. CASE CreateExportedSnapshot
  <2>1. /\ slot' = [slot EXCEPT ![config.source] = NewSlot("ingest", wal[config.source])]
        /\ pc' = "scan" /\ UNCHANGED <<intent, config>>
    BY Zenon, <1>3 DEF CreateExportedSnapshot, storeVars
  <2>2. intent # NoIdentity => intent[1] \in Sources
    <3>1. intent \in Identities \cup {NoIdentity}
      BY Zenon DEF ControlInv, TypeOK, StoreTypeOK
    <3> QED BY <3>1 DEF Identities
  <2> QED BY Zenon, <1>1, <2>1, <2>2 DEF OwnSlotInv, NewSlot
<1>4. CASE InspectBootstrap
  <2>1. UNCHANGED <<slot, intent, config>>
    BY Zenon, <1>4 DEF InspectBootstrap, pgVars, storeVars
  <2>2. /\ pc' = "reset" => ~slot[config.source].present
        /\ pc' = "drop" => intent = SourceIdentity(config)
    BY Zenon, <1>4 DEF InspectBootstrap, MayReset
  <2> QED BY Zenon, <2>1, <2>2 DEF OwnSlotInv, SourceIdentity
<1>5. CASE DropInterruptedSlot
  <2>1. /\ slot' = [slot EXCEPT ![config.source] = NoSlot] /\ pc' = "reset"
        /\ UNCHANGED <<intent, config>>
    BY Zenon, <1>5 DEF DropInterruptedSlot, storeVars
  <2>2. NoNewSlot /\ ~slot'[config.source].present
    BY Zenon, <1>1, <2>1 DEF NoNewSlot, NoSlot
  <2>3. intent # NoIdentity => intent[1] \in Sources
    BY DEF ControlInv, TypeOK, StoreTypeOK, Identities
  <2> QED BY Zenon, <2>1, <2>2, <2>3 DEF OwnSlotInv, NoNewSlot
<1>6. CASE ResetIncompleteSnapshot
  <2>1. /\ intent' = SourceIdentity(config) /\ pc' = "create" /\ UNCHANGED <<slot, config>>
        /\ pc = "reset"
    BY <1>6 DEF ResetIncompleteSnapshot, pgVars
  <2> QED BY Zenon, <1>1, <2>1 DEF OwnSlotInv
<1>7. CASE \/ SkipSnapshot \/ PersistSnapshotMarker \/ ValidateExistingSlot
           \/ StartReplication \/ RunRefused \/ RunFails \/ Crash
           \/ \E c \in Configs : Boot(c)
  <2>1. pc' \notin {"reset", "drop"} /\ intent' \in {intent, NoIdentity}
    BY Zenon, <1>7 DEF SkipSnapshot, PersistSnapshotMarker, ValidateExistingSlot, StartReplication,
         StartReplicationAt, RunRefused, RunFails, RunEnds, Crash, Boot, storeVars
  <2>2. NoNewSlot
    <3>1. CASE CreateExportedSnapshot
      <4>1. pc = "create" /\ pc' = "scan"
        BY Zenon, <3>1 DEF CreateExportedSnapshot
      <4> QED BY Zenon, <1>7, <4>1
          DEF SkipSnapshot, PersistSnapshotMarker, ValidateExistingSlot, StartReplication,
              StartReplicationAt, RunRefused, RunFails, RunEnds, Crash, Boot
    <3>2. CASE ~CreateExportedSnapshot
      BY <1>7, <3>2, OnlyBootstrapCreates DEF Next, Runner
    <3> QED BY <3>1, <3>2
  <2> QED BY <2>1, <2>2, OwnSlotKept
<1>8. CASE \/ PersistSnapshotBatch \/ ReceiveCommit \/ PersistBatch
           \/ \E s \in Sources : \/ Commit(s) \/ SlotReleased(s) \/ FeedbackArrives(s)
                                 \/ PostgresRestarts(s) \/ OperatorDropsSlot(s)
  <2>1. UNCHANGED <<pc, config, intent>>
    BY Zenon, <1>8 DEF PersistSnapshotBatch, ReceiveCommit, PersistBatch, Commit, SlotReleased,
         FeedbackArrives, PostgresRestarts, OperatorDropsSlot, storeVars
  <2>2. CASE CreateExportedSnapshot
    BY <1>3, <2>2
  <2>3. CASE ~CreateExportedSnapshot
    <3>1. NoNewSlot
      BY Zenon, <1>8, <2>3, OnlyBootstrapCreates DEF Next, Runner
    <3> QED BY <2>1, <3>1, OwnSlotKept
  <2> QED BY <2>2, <2>3
<1> QED BY Zenon, <1>2, <1>3, <1>4, <1>5, <1>6, <1>7, <1>8 DEF Next, Runner

\* reconcile_incomplete_bootstrap drops only a slot that an ingest bootstrap created,
\* whatever crash or change of configuration came between the bootstrap that wrote the
\* intent and the one that acts on it.
THEOREM OwnSlotDropped == Spec => DropsOnlyOwnSlot
<1> DEFINE Step == \A s \in Sources :
              (pc = "drop" /\ pc' = "reset" /\ slot[s].present /\ ~slot'[s].present)
                => slot[s].owner = "ingest"
<1>1. Init => OwnSlotInv
  BY Zenon DEF Init, OwnSlotInv
<1>2. ControlInv /\ OwnSlotInv /\ [Next]_vars => [Step]_vars
  <2> SUFFICES ASSUME ControlInv, OwnSlotInv, Next, NEW s \in Sources,
                      pc = "drop", pc' = "reset", slot[s].present, ~slot'[s].present
               PROVE  slot[s].owner = "ingest"
    BY Zenon
  <2>1. DropInterruptedSlot
    BY Zenon DEF Next, Runner, SkipSnapshot, InspectBootstrap, ResetIncompleteSnapshot,
       CreateExportedSnapshot, PersistSnapshotBatch, PersistSnapshotMarker,
       ValidateExistingSlot, StartReplication, StartReplicationAt, ReceiveCommit, PersistBatch,
       RunRefused, RunEnds, RunFails, Crash, Boot, Commit, SlotReleased, FeedbackArrives,
       PostgresRestarts, OperatorDropsSlot
  <2>2. s = config.source
    BY <2>1 DEF DropInterruptedSlot, ControlInv, TypeOK, PgTypeOK
  <2>3. /\ intent = SourceIdentity(config) /\ SourceIdentity(config)[1] = config.source
        /\ SourceIdentity(config) # NoIdentity
    BY Zenon, ConfigTypes, SourcesAssumption
    DEF OwnSlotInv, SourceIdentity, ControlInv, TypeOK, RunTypeOK, Identities
  <2> QED BY Zenon, <2>2, <2>3 DEF OwnSlotInv
<1>3. Spec => []OwnSlotInv
  BY <1>1, OwnSlotStep, ExactAlways, PTL DEF Spec
<1> QED BY <1>2, <1>3, ExactAlways, PTL DEF Spec, DropsOnlyOwnSlot

------------------------------------------------------------------------------
(***************************************************************************)
(* The split deployment.                                                   *)
(***************************************************************************)

\* As long as no API process cleared the store under a running replication process
\* and nobody else used its slot, all layers hold, and the durable LSN a run read
\* is still the store's.
SplitInv ==
  sole => /\ ControlInv /\ AtMostInv /\ ExactInv
          /\ pc = "start" => durable = lastLsn

\* A step of the unsplit service keeps the layers.
LEMMA LayersKept ==
  ASSUME ControlInv, AtMostInv, ExactInv, [Next]_vars
  PROVE  ControlInv' /\ AtMostInv' /\ ExactInv'
BY Zenon, ControlStep, AtMostStep, ExactStep DEF SharedNext

\* An API process that clears the store while the replication process is down.
LEMMA ClearedStore ==
  ASSUME ControlInv, NEW c \in Contracts, pc = "down",
         layout' = c, intent' = NoIdentity, complete' = FALSE, identity' = NoIdentity,
         lastLsn' = NoLsn, applied' = Nothing,
         UNCHANGED <<pgVars, config, pc, runVars, ready>>
  PROVE  ControlInv' /\ AtMostInv' /\ ExactInv'
<1>1. PgTypeOK' /\ RunTypeOK'
  BY Zenon DEF ControlInv, TypeOK, PgTypeOK, RunTypeOK, pgVars, runVars
<1>2. StoreTypeOK'
  BY Zenon DEF StoreTypeOK, Nothing
<1>3. RunnerInv'
  BY Zenon DEF ControlInv, RunnerInv
<1>4. AtMostInv'
  BY DEF AtMostInv, AppliedAtMostOnce, NothingBeyond, ScanExact, Nothing
<1>5. ExactInv'
  BY Zenon DEF ExactInv, ReplicaExact, SlotBehind, SlotAtSnapshot, StreamAtStore
<1> QED BY <1>1, <1>2, <1>3, <1>4, <1>5 DEF ControlInv, TypeOK

\* Steps of the replication process and of PostgreSQL.
LEMMA SplitReplicationStep ==
  ASSUME SplitInv, ReplicationStep, UNCHANGED <<durable, sole>>
  PROVE  SplitInv'
<1> SUFFICES ASSUME sole
             PROVE  /\ ControlInv' /\ AtMostInv' /\ ExactInv'
                    /\ pc' = "start" => durable' = lastLsn'
  BY DEF SplitInv
<1>1. ControlInv' /\ AtMostInv' /\ ExactInv'
  <2>1. Next
    BY Zenon DEF ReplicationStep, Next, Runner
  <2> QED BY Zenon, <2>1, LayersKept DEF SplitInv
<1>2. pc' = "start" => pc = "start" /\ lastLsn' = lastLsn
  BY Zenon DEF ReplicationStep, SkipSnapshot, InspectBootstrap, DropInterruptedSlot,
     ResetIncompleteSnapshot, CreateExportedSnapshot, PersistSnapshotBatch,
     PersistSnapshotMarker, ReceiveCommit, PersistBatch, Boot, Commit, SlotReleased,
     FeedbackArrives, PostgresRestarts, OperatorDropsSlot, storeVars
<1> QED BY Zenon, <1>1, <1>2 DEF SplitInv

\* Steps of the API process.
LEMMA SplitApiStep ==
  ASSUME SplitInv, NEW c \in Contracts, ApiBoot(c)
  PROVE  SplitInv'
<1>1. CASE ~sole'
  BY <1>1 DEF SplitInv
<1>2. CASE sole' /\ layout = c
  <2>1. sole /\ UNCHANGED <<vars, durable>>
    BY Zenon, <1>2 DEF ApiBoot, ensure_layout_version_for, vars, pgVars, storeVars, runVars
  <2>2. ControlInv' /\ AtMostInv' /\ ExactInv'
    BY Zenon, <2>1, LayersKept DEF SplitInv
  <2> QED BY Zenon, <2>1, <2>2 DEF SplitInv, vars
<1>3. CASE sole' /\ layout # c
  <2>1. /\ sole /\ pc = "down" /\ layout' = c /\ intent' = NoIdentity /\ complete' = FALSE
        /\ identity' = NoIdentity /\ lastLsn' = NoLsn /\ applied' = Nothing
        /\ UNCHANGED <<pgVars, config, pc, runVars, ready>>
    BY Zenon, <1>3 DEF ApiBoot, ensure_layout_version_for
  <2>2. ControlInv' /\ AtMostInv' /\ ExactInv'
    BY Zenon, <2>1, ClearedStore DEF SplitInv
  <2> QED BY Zenon, <2>1, <2>2 DEF SplitInv
<1> QED BY <1>1, <1>2, <1>3

\* SplitInv is inductive.
LEMMA SplitInvariant == SplitSpec => []SplitInv
<1>1. SplitInit => SplitInv
  BY Zenon, ControlInit, AtMostInit, ExactInit DEF SplitInit, SplitInv, Init
<1>2. SplitInv /\ [SplitNext]_splitVars => SplitInv'
  <2> SUFFICES ASSUME SplitInv, [SplitNext]_splitVars PROVE SplitInv'
    OBVIOUS
  <2>1. CASE ReplicationStep /\ UNCHANGED <<api, durable, sole>>
    BY <2>1, SplitReplicationStep
  <2>2. CASE ReadDurable
    <3>1. /\ Next /\ lastLsn' = lastLsn /\ durable' = lastLsn /\ sole' = sole
      BY Zenon, <2>2 DEF ReadDurable, ValidateExistingSlot, Next, Runner, storeVars
    <3> QED BY <3>1, LayersKept DEF SplitInv
  <2>3. CASE StartAtDurable
    <3>1. pc = "start" /\ pc' = "streaming" /\ sole' = sole
      BY <2>3 DEF StartAtDurable, StartReplicationAt
    <3>2. sole => Next
      BY <2>3, <3>1 DEF SplitInv, StartAtDurable, StartReplication, StartLsn, Next, Runner
    <3> QED BY Zenon, <3>1, <3>2, LayersKept DEF SplitInv
  <2>4. CASE ProcessEnds
    <3>1. Next /\ pc' = "down" /\ sole' = sole
      BY Zenon, <2>4 DEF ProcessEnds, Crash, Next
    <3> QED BY Zenon, <3>1, LayersKept DEF SplitInv
  <2>5. CASE OtherUsesSlot
    BY <2>5 DEF OtherUsesSlot, SplitInv
  <2>6. CASE \E c \in Contracts : ApiBoot(c)
    BY <2>6, SplitApiStep
  <2>7. CASE ApiStops \/ UNCHANGED splitVars
    <3>1. UNCHANGED <<vars, durable, sole>>
      BY <2>7 DEF ApiStops, splitVars
    <3> QED BY Zenon, <3>1, LayersKept DEF SplitInv, vars
  <2> QED BY <2>1, <2>2, <2>3, <2>4, <2>5, <2>6, <2>7 DEF SplitNext
<1> QED BY <1>1, <1>2, PTL DEF SplitSpec

\* A ready API-only process serves a whole replica, wherever the replication process
\* is in its run and however often either is restarted (is_initial_snapshot_complete
\* reads marker and identity, ensure_layout_version_for clears both with the data), as
\* long as no API process with other rules cleared the store under a running
\* replication process and the slot had no other user.
THEOREM IncompleteNeverServed == SplitSpec => []IncompleteHidden
<1>1. SplitInv => IncompleteHidden
  BY DEF SplitInv, ExactInv, IncompleteHidden
<1> QED BY <1>1, SplitInvariant, PTL

\* Whatever the API processes clear and whoever uses the slot: a store that a run
\* streams into, or may start to stream into, holds nothing past its durable LSN, and
\* a scan copies into empty parts.
HeldBehind ==
  complete \/ pc \in {"resume", "start", "streaming"} =>
    \A p \in Parts, c \in Commits : applied[p][c] # 0 => c[2] <= lastLsn

ScanAhead ==
  pc = "scan" =>
    \A p \in Parts, c \in Commits : applied[p][c] # 0 => p <= copied /\ c[2] <= snapLsn

OnceInv ==
  /\ AppliedAtMostOnce
  /\ pc \in {"drop", "reset", "create", "scan"} => ~complete
  /\ pc = "create" => applied = Nothing
  /\ HeldBehind /\ ScanAhead

\* The snapshot batch goes into an empty part.
LEMMA OnceBatch ==
  ASSUME TypeOK, OnceInv, PersistSnapshotBatch
  PROVE  OnceInv'
<1> USE BoundsAssumption
<1> DEFINE q == copied + 1
           pre == PrefixOf(config.source, snapLsn)
<1>1. /\ pc = "scan" /\ pc' = "scan" /\ q \in Parts /\ copied' = q /\ snapLsn' = snapLsn
      /\ complete' = complete /\ ~complete
      /\ applied' = [applied EXCEPT ![q] = [c \in Commits |-> @[c] + pre[c]]]
  BY DEF PersistSnapshotBatch, Parts, TypeOK, RunTypeOK, OnceInv
<1>2. applied \in [Parts -> [Commits -> Nat]] /\ copied \in Nat
  BY DEF TypeOK, StoreTypeOK, RunTypeOK
<1>3. \A c \in Commits : applied[q][c] = 0
  <2>1. ~(q <= copied)
    BY <1>2
  <2> HIDE DEF q
  <2> QED BY Zenon, <1>1, <2>1 DEF OnceInv, ScanAhead
<1>4. \A c \in Commits : pre[c] \in {0, 1} /\ (pre[c] # 0 => c[2] <= snapLsn)
  BY DEF PrefixOf
<1> HIDE DEF pre, q
<1>5. \A p \in Parts, c \in Commits :
        applied'[p][c] = IF p = q THEN pre[c] ELSE applied[p][c]
  <2>1. \A c \in Commits : applied[q][c] + pre[c] = pre[c]
    BY <1>3, <1>4
  <2> QED BY Zenon, <1>1, <1>2, <2>1
<1>6. AppliedAtMostOnce'
  <2>1. \A c \in Commits : pre[c] <= 1
    BY <1>4
  <2> QED BY Zenon, <1>5, <2>1 DEF OnceInv, AppliedAtMostOnce
<1>7. ScanAhead'
  <2> SUFFICES ASSUME NEW p \in Parts, NEW c \in Commits, applied'[p][c] # 0
               PROVE  p <= q /\ c[2] <= snapLsn
    BY Zenon, <1>1 DEF ScanAhead
  <2>1. CASE p = q
    BY <1>4, <1>5, <2>1 DEF Parts
  <2>2. CASE p # q
    <3>1. p <= copied /\ c[2] <= snapLsn
      <4>1. applied[p][c] # 0
        BY <1>5, <2>2
      <4> QED BY Zenon, <1>1, <4>1 DEF OnceInv, ScanAhead
    <3> QED BY <1>2, <3>1 DEF Parts, q
  <2> QED BY Zenon, <2>1, <2>2
<1> QED BY Zenon, <1>1, <1>6, <1>7 DEF OnceInv, HeldBehind

\* A transaction is added only past the durable LSN.
LEMMA OncePersist ==
  ASSUME TypeOK, OnceInv, PersistBatch
  PROVE  OnceInv'
<1> USE BoundsAssumption
<1> DEFINE e == <<config.source, inflight>>
<1>1. /\ pc = "streaming" /\ pc' = pc /\ complete' = complete /\ inflight # 0
  BY DEF PersistBatch
<1>2. CASE AlreadyPersisted(inflight)
  BY <1>1, <1>2 DEF PersistBatch, OnceInv, AppliedAtMostOnce, HeldBehind, ScanAhead
<1>3. CASE ~AlreadyPersisted(inflight)
  <2>1. applied' = [p \in Parts |-> [applied[p] EXCEPT ![e] = @ + 1]] /\ lastLsn' = inflight
    BY <1>3 DEF PersistBatch
  <2>2. /\ applied \in [Parts -> [Commits -> Nat]] /\ lastLsn \in Int /\ inflight \in Int
        /\ lastLsn < inflight /\ e \in Commits
    <3>1. inflight \in Lsns /\ config.source \in Sources
      BY <1>1, ConfigTypes DEF TypeOK, RunTypeOK, Lsns
    <3>2. e \in Commits
      BY <3>1 DEF Commits
    <3>3. applied \in [Parts -> [Commits -> Nat]] /\ lastLsn \in Int
      BY DEF TypeOK, StoreTypeOK, NoLsn
    <3>4. inflight \in Int /\ lastLsn < inflight
      BY <1>3, <3>1, <3>3 DEF AlreadyPersisted, Lsns
    <3> QED BY <3>2, <3>3, <3>4
  <2>3. \A p \in Parts, c \in Commits :
          applied'[p][c] = IF c = e THEN applied[p][e] + 1 ELSE applied[p][c]
    BY Zenon, <2>1, <2>2
  <2>4. e[2] = inflight
    OBVIOUS
  <2> HIDE DEF e
  <2>5. \A p \in Parts, c \in Commits : applied[p][c] # 0 => c[2] <= lastLsn
    BY Zenon, <1>1 DEF OnceInv, HeldBehind
  <2>6. \A p \in Parts : applied[p][e] = 0
    BY <2>2, <2>4, <2>5
  <2>7. AppliedAtMostOnce'
    <3>1. \A p \in Parts : applied[p][e] + 1 <= 1
      BY <2>6
    <3> QED BY Zenon, <2>3, <3>1 DEF OnceInv, AppliedAtMostOnce
  <2>8. HeldBehind'
    <3>1. \A c \in Commits : c[2] \in Int
      BY DEF Commits, Lsns
    <3>2. \A p \in Parts, c \in Commits : applied'[p][c] # 0 => c[2] <= inflight
      <4>1. \A c \in Commits : c[2] <= lastLsn => c[2] <= inflight
        BY <2>2, <3>1
      <4>2. e[2] <= inflight
        BY <2>2, <2>4
      <4> QED BY Zenon, <2>3, <2>5, <4>1, <4>2
    <3> QED BY Zenon, <2>1, <3>2 DEF HeldBehind
  <2> QED BY Zenon, <1>1, <2>7, <2>8 DEF OnceInv, ScanAhead
<1> QED BY <1>2, <1>3

\* A cleared store.
LEMMA OnceCleared ==
  ASSUME applied' = Nothing, ~complete'
  PROVE  OnceInv'
BY DEF OnceInv, AppliedAtMostOnce, HeldBehind, ScanAhead, Nothing

\* Steps that leave the store alone.
LEMMA OnceKept ==
  ASSUME OnceInv, UNCHANGED storeVars,
         \/ UNCHANGED <<pc, copied, snapLsn>>
         \/ pc' \in {"down", "idle"}
         \/ pc' \in {"drop", "reset"} /\ ~complete
         \/ pc' \in {"resume", "start", "streaming"} /\ (complete \/ pc \in {"resume", "start"})
  PROVE  OnceInv'
BY Zenon DEF storeVars, OnceInv, AppliedAtMostOnce, HeldBehind, ScanAhead

LEMMA OnceReplication ==
  ASSUME TypeOK, OnceInv, ReplicationStep
  PROVE  OnceInv'
<1>1. CASE SkipSnapshot
  BY <1>1, OnceKept DEF SkipSnapshot
<1>2. CASE InspectBootstrap
  BY Zenon, <1>2, OnceKept DEF InspectBootstrap
<1>3. CASE DropInterruptedSlot
  BY Zenon, <1>3, OnceKept DEF DropInterruptedSlot, OnceInv
<1>4. CASE ResetIncompleteSnapshot
  BY Zenon, <1>4, OnceCleared DEF ResetIncompleteSnapshot
<1>5. CASE CreateExportedSnapshot
  <2>1. /\ pc = "create" /\ pc' = "scan" /\ UNCHANGED <<applied, complete, lastLsn>>
    BY Zenon, <1>5 DEF CreateExportedSnapshot, storeVars
  <2>2. applied = Nothing /\ ~complete
    BY Zenon, <2>1 DEF OnceInv
  <2> QED BY Zenon, <2>1, <2>2, OnceCleared
<1>6. CASE PersistSnapshotBatch
  BY <1>6, OnceBatch
<1>7. CASE PersistSnapshotMarker
  BY Zenon, <1>7 DEF PersistSnapshotMarker, OnceInv, AppliedAtMostOnce, HeldBehind, ScanAhead
<1>8. CASE PersistBatch
  BY <1>8, OncePersist
<1>9. ASSUME NEW c \in Configs, Boot(c) PROVE OnceInv'
  <2>1. CASE LayoutCurrent(c)
    BY Zenon, <1>9, <2>1, OnceKept DEF Boot
  <2>2. CASE ~LayoutCurrent(c)
    BY Zenon, <1>9, <2>2, OnceCleared DEF Boot
  <2> QED BY <2>1, <2>2
<1>10. CASE ReceiveCommit
  BY Zenon, <1>10, OnceKept DEF ReceiveCommit
<1>11. ASSUME NEW s \in Sources,
              \/ Commit(s) \/ SlotReleased(s) \/ FeedbackArrives(s)
              \/ PostgresRestarts(s) \/ OperatorDropsSlot(s)
       PROVE  OnceInv'
  <2>1. UNCHANGED storeVars /\ UNCHANGED <<pc, copied, snapLsn>>
    BY <1>11 DEF Commit, SlotReleased, FeedbackArrives, PostgresRestarts, OperatorDropsSlot,
       runVars
  <2> QED BY <2>1, OnceKept
<1> QED BY Zenon, <1>1, <1>2, <1>3, <1>4, <1>5, <1>6, <1>7, <1>8, <1>9, <1>10, <1>11
        DEF ReplicationStep

\* The types and OnceInv under every step of the two processes.
DurableOK == durable \in {NoLsn} \cup (0..MaxLsn)

LEMMA SplitOnceStep ==
  ASSUME TypeOK, DurableOK, OnceInv, [SplitNext]_splitVars
  PROVE  TypeOK' /\ DurableOK' /\ OnceInv'
<1>1. CASE ReplicationStep /\ UNCHANGED <<api, durable, sole>>
  <2>1. Next
    BY Zenon, <1>1 DEF ReplicationStep, Next, Runner
  <2>2. TypeOK'
    BY <2>1, TypeStep DEF SharedNext
  <2> QED BY Zenon, <1>1, <2>2, OnceReplication DEF DurableOK
<1>2. CASE ReadDurable
  <2>1. Next /\ durable' = lastLsn
    BY Zenon, <1>2 DEF ReadDurable, Next, Runner
  <2>2. TypeOK'
    BY Zenon, <2>1, TypeStep DEF SharedNext
  <2>3. OnceInv'
    BY Zenon, <1>2, OnceKept DEF ReadDurable, ValidateExistingSlot
  <2> QED BY Zenon, <2>1, <2>2, <2>3 DEF DurableOK, TypeOK, StoreTypeOK
<1>3. CASE StartAtDurable
  <2>1. StartReplicationAt(durable) /\ durable' = NoLsn
    BY <1>3 DEF StartAtDurable
  <2>2. TypeOK'
    BY <2>1, StartTypes DEF DurableOK
  <2>3. OnceInv'
    BY <2>1, OnceKept DEF StartReplicationAt
  <2> QED BY Zenon, <2>1, <2>2, <2>3 DEF DurableOK
<1>4. CASE ProcessEnds
  <2>1. Next /\ durable' = NoLsn
    BY Zenon, <1>4 DEF ProcessEnds, Next
  <2>2. TypeOK'
    BY <2>1, TypeStep DEF SharedNext
  <2>3. OnceInv'
    BY <1>4, OnceKept DEF ProcessEnds, Crash
  <2> QED BY Zenon, <2>1, <2>2, <2>3 DEF DurableOK
<1>5. CASE OtherUsesSlot
  <2>1. SharedNext /\ durable' = durable
    BY Zenon, <1>5 DEF OtherUsesSlot, SharedNext
  <2>2. TypeOK'
    BY <2>1, TypeStep
  <2>3. UNCHANGED storeVars /\ UNCHANGED <<pc, copied, snapLsn>>
    BY <1>5 DEF OtherUsesSlot, OtherCreatesSlot, OtherAdvancesSlot, runVars
  <2> QED BY Zenon, <2>1, <2>2, <2>3, OnceKept DEF DurableOK
<1>6. ASSUME NEW c \in Contracts, ApiBoot(c)
      PROVE  TypeOK' /\ DurableOK' /\ OnceInv'
  <2>1. UNCHANGED <<pgVars, config, pc, runVars, ready, durable>>
    BY Zenon, <1>6 DEF ApiBoot
  <2>2. PgTypeOK' /\ RunTypeOK' /\ DurableOK'
    BY Zenon, <2>1 DEF TypeOK, PgTypeOK, RunTypeOK, DurableOK, pgVars, runVars
  <2>3. CASE layout = c
    <3>1. UNCHANGED storeVars
      BY Zenon, <1>6, <2>3 DEF ApiBoot, ensure_layout_version_for
    <3>2. StoreTypeOK'
      BY Zenon, <3>1 DEF TypeOK, StoreTypeOK, storeVars
    <3>3. OnceInv'
      BY Zenon, <2>1, <3>1, OnceKept DEF runVars
    <3> QED BY Zenon, <2>2, <3>2, <3>3 DEF TypeOK
  <2>4. CASE layout # c
    <3>1. /\ layout' = c /\ intent' = NoIdentity /\ complete' = FALSE
          /\ identity' = NoIdentity /\ lastLsn' = NoLsn /\ applied' = Nothing
      BY Zenon, <1>6, <2>4 DEF ApiBoot, ensure_layout_version_for
    <3>2. StoreTypeOK'
      BY Zenon, <3>1 DEF StoreTypeOK, Nothing
    <3>3. OnceInv'
      BY Zenon, <3>1, OnceCleared
    <3> QED BY <2>2, <3>2, <3>3 DEF TypeOK
  <2> QED BY <2>3, <2>4
<1>7. CASE ApiStops \/ UNCHANGED splitVars
  <2>1. UNCHANGED vars /\ durable' = durable
    BY <1>7 DEF ApiStops, splitVars
  <2>2. TypeOK'
    BY <2>1, TypeStep
  <2>3. OnceInv'
    BY Zenon, <2>1, OnceKept DEF vars, storeVars
  <2> QED BY <2>1, <2>2, <2>3 DEF DurableOK
<1> QED BY Zenon, <1>1, <1>2, <1>3, <1>4, <1>5, <1>6, <1>7 DEF SplitNext

\* No transaction is applied twice to any part when an API-only process shares the
\* store, even if it clears the store under a running replication process (the LSN
\* comparison of persist_batch_with_plan shares the transaction of the data, and
\* ensure_layout_version_for clears the LSN with the data).
THEOREM SplitAtMostOnce == SplitSpec => []AppliedAtMostOnce
<1>1. SplitInit => TypeOK /\ DurableOK /\ OnceInv
  <2> SUFFICES ASSUME SplitInit PROVE TypeOK /\ DurableOK /\ OnceInv
    OBVIOUS
  <2>1. TypeOK
    BY ControlInit DEF SplitInit, ControlInv
  <2>2. DurableOK /\ OnceInv
    BY DEF SplitInit, Init, DurableOK, OnceInv, AppliedAtMostOnce, HeldBehind, ScanAhead, Nothing
  <2> QED BY <2>1, <2>2
<1>2. OnceInv => AppliedAtMostOnce
  BY DEF OnceInv
<1> QED BY <1>1, <1>2, SplitOnceStep, PTL DEF SplitSpec
==============================================================================
