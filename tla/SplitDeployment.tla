--------------------------- MODULE SplitDeployment ---------------------------
(***************************************************************************)
(* The service split into two processes over one MDBX environment: a       *)
(* replication-only process, which is ReplicationIngest, and an API-only   *)
(* process, which opens the same store read-write and serves it.  Opening  *)
(* a store compares its layout with the contract of the opener's own rules *)
(* and clears it when they differ.  A process does that once: it remembers *)
(* the contract it verified (verified_layout_version) and looks no more,   *)
(* so a runner goes on writing whatever another process did to the store.  *)
(* MDBX serializes write transactions of different processes.              *)
(***************************************************************************)
EXTENDS ReplicationIngest

CONSTANT NoApi   \* the API process is down

ASSUME ApiAssumption == NoApi \notin Contracts

VARIABLES
  api,      \* contract of the rules the API process was started with
  durable,  \* the durable LSN the run read before it connected
  sole      \* history: no API process cleared the store under a running
            \* replication process, and nobody else used its slot

splitVars == <<vars, api, durable, sole>>

SplitTypeOK ==
  /\ TypeOK
  /\ api \in Contracts \cup {NoApi}
  /\ durable \in {NoLsn} \cup (0..MaxLsn)
  /\ sole \in BOOLEAN

SplitInit ==
  /\ Init
  /\ api = NoApi
  /\ durable = NoLsn
  /\ sole = TRUE

------------------------------------------------------------------------------

\* Mutant: opening the store clears it whatever its layout.
OpenAlwaysClears(c) ==
  /\ layout' = c
  /\ intent' = NoIdentity
  /\ complete' = FALSE
  /\ identity' = NoIdentity
  /\ lastLsn' = NoLsn
  /\ applied' = Nothing

\* ensure_layout_version_for, not yet verified by this process: one write
\* transaction.
ensure_layout_version_for(c) ==
  IF layout = c
  THEN UNCHANGED storeVars
  ELSE /\ layout' = c
       /\ intent' = NoIdentity
       /\ complete' = FALSE
       /\ identity' = NoIdentity
       /\ lastLsn' = NoLsn
       /\ applied' = Nothing

\* ServiceMode::ApiOnly: WireMdbxStorage::new_from_env opens the store before
\* the listener serves, while the replication process is anywhere in its run.
ApiBoot(c) ==
  /\ api = NoApi
  /\ api' = c
  /\ ensure_layout_version_for(c)
  /\ sole' = (sole /\ (layout = c \/ pc = "down"))
  /\ UNCHANGED <<pgVars, config, pc, runVars, ready, durable>>

ApiStops ==
  /\ api # NoApi
  /\ api' = NoApi
  /\ UNCHANGED <<vars, durable, sole>>

\* run_replication_ingest reads the durable LSN once, and connect_existing uses
\* that value for the check of the slot and for the start position.
ReadDurable ==
  /\ ValidateExistingSlot
  /\ durable' = lastLsn
  /\ UNCHANGED <<api, sole>>

StartAtDurable ==
  /\ StartReplicationAt(durable)
  /\ durable' = NoLsn
  /\ UNCHANGED <<api, sole>>

\* The steps of the replication process and of PostgreSQL that neither read nor
\* write the remembered LSN.
ReplicationStep ==
  \/ SkipSnapshot
  \/ InspectBootstrap
  \/ DropInterruptedSlot
  \/ ResetIncompleteSnapshot
  \/ CreateExportedSnapshot
  \/ PersistSnapshotBatch
  \/ PersistSnapshotMarker
  \/ ReceiveCommit
  \/ PersistBatch
  \/ \E c \in Configs : Boot(c)
  \/ \E s \in Sources : \/ Commit(s)
                        \/ SlotReleased(s)
                        \/ FeedbackArrives(s)
                        \/ PostgresRestarts(s)
                        \/ OperatorDropsSlot(s)

\* Another user of the slot: the tap, or a second service instance.
OtherUsesSlot ==
  /\ \E s \in Sources : OtherCreatesSlot(s) \/ OtherAdvancesSlot(s)
  /\ sole' = FALSE
  /\ UNCHANGED <<api, durable>>

\* main's ReplicationOnly arm runs the ingest once: a run that ends, for
\* whatever reason, ends the process, and a supervisor boots it again.
ProcessEnds ==
  /\ Crash
  /\ durable' = NoLsn
  /\ UNCHANGED <<api, sole>>

SplitNext ==
  \/ ReplicationStep /\ UNCHANGED <<api, durable, sole>>
  \/ ReadDurable
  \/ StartAtDurable
  \/ ProcessEnds
  \/ OtherUsesSlot
  \/ \E c \in Contracts : ApiBoot(c)
  \/ ApiStops

SplitSpec == SplitInit /\ [][SplitNext]_splitVars

------------------------------------------------------------------------------

\* An API-only process has no runtime readiness flag (is_none_or): it is ready
\* when is_initial_snapshot_complete finds the marker and the identity.
ApiReady == api # NoApi /\ complete /\ identity # NoIdentity

\* A ready API process serves a whole replica: a store that misses part of the
\* snapshot it is labelled with, or holds it twice, is never behind an open
\* readiness check, as long as no API process with other rules cleared the
\* store under a running replication process and the slot had no other user.
IncompleteHidden == (sole /\ ApiReady) => ReplicaExact
==============================================================================
