---------------------------- MODULE Publication ----------------------------
(***************************************************************************)
(* The publication behind the replication stream (replication/runtime.rs). *)
(*                                                                         *)
(* pgoutput sends only what the publication names, so an incomplete        *)
(* publication loses changes without any error.  Every start therefore     *)
(* creates the publication when it is missing and, in separate queries,    *)
(* reads what it covers and what it does to each required table; only then *)
(* is the source copied (first start) and the stream opened.  Whoever owns *)
(* the database may alter or drop the publication between any two of these *)
(* queries, and rows change all the while.                                 *)
(*                                                                         *)
(* Abstractions: a table is a set of <<key, value>> pairs; a row filter    *)
(* keeps the rows whose value is Visible; an omitted column leaves a       *)
(* Missing value, and so does an update that leaves an out-of-line (TOAST) *)
(* value as it is.  The queries of the tables select every column: one     *)
(* that names a column an update left out fails its batch (RowProjection), *)
(* and a lookup table keeps the value (LookupState).  The server is        *)
(* PostgreSQL 15 or newer.  The copy and the stream's durability are        *)
(* ReplicationIngest's business: here the copy is one step, and a batch is *)
(* applied once.                                                           *)
(***************************************************************************)
EXTENDS Naturals, Sequences, FiniteSets

CONSTANTS
  Tables,        \* source tables that hold rows, and partition parents
  ParentOf,      \* partition |-> its partitioned parent
  RequiredSets,  \* the tables a plan may require
  Keys, Visible, Hidden, Missing,
  Publications,  \* the states an operator puts the publication in
  MaxChanges,    \* bound on row changes
  MaxAlters,     \* bound on alterations
  MaxStarts      \* bound on service starts

OPS == {"insert", "update", "delete", "truncate"}
Vals == {Visible, Hidden}
Parents == {ParentOf[t] : t \in DOMAIN ParentOf}
Leaves == Tables \ Parents
Root(t) == IF t \in DOMAIN ParentOf THEN ParentOf[t] ELSE t

PublicationType ==
  [exists: BOOLEAN, all: BOOLEAN, ops: SUBSET OPS, viaroot: BOOLEAN,
   members: SUBSET Tables, omitting: SUBSET Tables, filtered: SUBSET Tables]

ASSUME PublicationAssumption ==
  /\ DOMAIN ParentOf \subseteq Tables /\ Parents \subseteq Tables
  /\ Parents \cap DOMAIN ParentOf = {}
  /\ \A R \in RequiredSets : R \subseteq Tables
  /\ Publications \subseteq PublicationType
  /\ {MaxChanges, MaxAlters, MaxStarts} \subseteq Nat

VARIABLES
  pub,       \* the publication in the source's catalog
  rows,      \* the rows of every table that is not a partition parent
  wal,       \* what the slot still has to send: the published changes
  slot,      \* whether the slot exists
  required,  \* required_source_tables of the active plan
  phase,     \* how far the service has come
  cov,       \* PublicationCoverage as read so far
  todo,      \* required tables whose semantics are still to be read
  store,     \* the replica of every required table
  complete,  \* the snapshot marker
  bare,      \* history: since the copy, <<table, key>> of rows whose last change
             \* was an update that did not carry the value
  altered,   \* history: since the coverage the copy rests on was read, altered
             \* outside a stream ("starting") or in one ("streaming")
  raced,     \* history: altered since the coverage of this start was read
  lost,      \* history: after an alteration while streaming, a required change
             \* went unpublished in "this" run or an "earlier" one
  bounds

vars == <<pub, rows, wal, slot, required, phase, cov, todo, store, complete,
          bare, altered, raced, lost, bounds>>

Service == <<phase, cov, todo, store, complete, slot>>

NoCoverage ==
  [all |-> FALSE, ops |-> {}, viaroot |-> FALSE, tables |-> {},
   omitting |-> {}, filtered |-> {}, parents |-> {}]

\* SELECT on a table reads its partitions too.
Rows(t) == UNION {rows[u] : u \in {l \in Leaves : l = t \/ Root(l) = t}}

(***************************************************************************)
(* PostgreSQL's side (external)                                            *)
(***************************************************************************)

\* pg_publication_tables: partitions stand for a member parent, or the
\* parent for its partitions under publish_via_partition_root.
Listed(p) ==
  IF p.viaroot
  THEN {t \in p.members : Root(t) = t \/ Root(t) \notin p.members}
  ELSE {t \in Leaves : t \in p.members \/ Root(t) \in p.members}

Covered(p, t) == p.all \/ t \in p.members \/ Root(t) \in p.members

\* The relation a change of leaf t is sent under.
PublishedAs(p, t) ==
  IF p.viaroot /\ (p.all \/ Root(t) \in p.members) THEN Root(t) ELSE t

\* Column lists leave a value out, and so does an update that does not touch a
\* value kept out of line.
Sent(p, name, row, untouched) ==
  IF untouched \/ name \in p.omitting THEN <<row[1], Missing>> ELSE row

Passes(p, name, row) == name \notin p.filtered \/ row[2] = Visible

\* The changes pgoutput sends for one change of leaf t; a filtered update
\* may become an insert or a delete.  Without the publication it fails.
Output(p, t, op, old, new, untouched) ==
  LET name == PublishedAs(p, t)
      before == {r \in old : Passes(p, name, r)}
      after == {Sent(p, name, r, untouched) : r \in {r \in new : Passes(p, name, r)}}
      msg == [table |-> name, op |-> op,
              old |-> {r[1] : r \in before}, new |-> after]
  IN IF ~p.exists THEN <<[msg EXCEPT !.op = "error"]>>
     ELSE IF ~Covered(p, t) \/ op \notin p.ops THEN <<>>
     ELSE IF op # "truncate" /\ before = {} /\ after = {} THEN <<>>
     ELSE <<msg>>

Change(t, op, old, new, untouched) ==
  LET out == Output(pub, t, op, old, new, untouched)
      needed == {t, Root(t)} \cap required # {}
      intact == \/ pub.exists /\ Len(out) = 1 /\ out[1].table \in required
                                /\ (untouched \/ op = "truncate" \/ out[1].new = new)
                \/ ~pub.exists
      touched == {<<t, r[1]>> : r \in old \cup new}
  IN /\ bounds.changes < MaxChanges
     /\ bounds' = [bounds EXCEPT !.changes = @ + 1]
     /\ rows' = [rows EXCEPT ![t] = (@ \ old) \cup new]
     /\ wal' = IF slot THEN wal \o out ELSE wal
     /\ bare' = IF untouched THEN bare \cup touched ELSE bare \ touched
     /\ lost' = IF altered = "streaming" /\ needed /\ ~intact THEN "this"
                ELSE lost
     /\ UNCHANGED <<pub, required, altered, raced, Service>>

Insert(t, k, v) ==
  /\ \A r \in rows[t] : r[1] # k
  /\ Change(t, "insert", {}, {<<k, v>>}, FALSE)

Update(t, r, v) == r[2] # v /\ Change(t, "update", {r}, {<<r[1], v>>}, FALSE)

\* An update of other columns of a row whose value is kept out of line.
UpdateOthers(t, r) == Change(t, "update", {r}, {r}, TRUE)

Delete(t, r) == Change(t, "delete", {r}, {}, FALSE)

Truncate(t) == rows[t] # {} /\ Change(t, "truncate", rows[t], {}, FALSE)

\* ALTER, DROP or CREATE PUBLICATION by whoever owns the database.
Alter(p) ==
  /\ p # pub /\ bounds.alters < MaxAlters
  /\ pub' = p /\ raced' = TRUE
  /\ altered' = IF phase = "streaming" THEN phase
                ELSE IF altered = "no" THEN "starting" ELSE altered
  /\ bounds' = [bounds EXCEPT !.alters = @ + 1]
  /\ UNCHANGED <<rows, wal, required, bare, lost, Service>>

(***************************************************************************)
(* The service                                                             *)
(***************************************************************************)

AllTables ==
  [exists |-> TRUE, all |-> TRUE, ops |-> OPS, viaroot |-> FALSE,
   members |-> {}, omitting |-> {}, filtered |-> {}]

\* A start reaches ensure_publication_covers with the plan's tables.
Start ==
  /\ phase = "down" /\ bounds.starts < MaxStarts
  /\ phase' = "ensure" /\ bounds' = [bounds EXCEPT !.starts = @ + 1]
  /\ lost' = IF lost = "this" THEN "earlier" ELSE lost
  /\ UNCHANGED <<pub, rows, wal, bare, required, cov, todo, store, complete, slot,
                 altered, raced>>

\* ensure_publication runs twice in a start: before the coverage checks and
\* again in prepare_existing.  `create` is the phase of its CREATE statement,
\* `next` the phase it returns to.
ensure_publication(here, create, next) ==
  /\ phase = here
  /\ phase' = IF pub.exists THEN next ELSE create
  /\ UNCHANGED <<pub, rows, wal, bare, slot, required, cov, todo, store, complete,
                 altered, raced, lost, bounds>>

\* CREATE PUBLICATION ... FOR ALL TABLES, an error when it has appeared
\* since.
create_publication(create, next) ==
  /\ phase = create
  /\ IF pub.exists THEN phase' = "down" /\ UNCHANGED pub
     ELSE phase' = next /\ pub' = AllTables
  /\ UNCHANGED <<rows, wal, bare, slot, required, cov, todo, store, complete,
                 altered, raced, lost, bounds>>

\* publication_coverage_query: the flags and the tables, in one query.
publication_coverage ==
  /\ phase = "coverage"
  /\ raced' = FALSE /\ altered' = IF complete THEN altered ELSE "no"
  /\ IF ~pub.exists THEN phase' = "down" /\ UNCHANGED <<cov, todo>>
     ELSE /\ phase' = "semantics"
          /\ cov' = [all |-> pub.all, ops |-> pub.ops, viaroot |-> pub.viaroot,
                     tables |-> IF pub.all THEN {} ELSE Listed(pub),
                     omitting |-> {}, filtered |-> {}, parents |-> {}]
          /\ todo' = IF pub.all THEN required ELSE required \cap Listed(pub)
  /\ UNCHANGED <<pub, rows, wal, bare, slot, required, store, complete, lost,
                 bounds>>

\* publication_table_semantics_query for one required table.  A table that
\* has no row in pg_publication_tables has neither columns nor filter.
publication_table_semantics(t) ==
  LET named == pub.all \/ t \in Listed(pub)
      With(S, cond) == IF cond /\ pub.exists THEN S \cup {t} ELSE S
  IN /\ phase = "semantics" /\ t \in todo
     /\ todo' = todo \ {t}
     /\ cov' = [all |-> cov.all, ops |-> cov.ops, viaroot |-> cov.viaroot,
                tables |-> cov.tables,
                omitting |-> With(cov.omitting, named /\ t \in pub.omitting),
                filtered |-> With(cov.filtered, named /\ t \in pub.filtered),
                parents |-> With(cov.parents, t \in Parents)]
     /\ UNCHANGED <<pub, rows, wal, bare, slot, required, phase, store, complete,
                    altered, raced, lost, bounds>>

\* Mutant: publish_via_partition_root is accepted.
description_with_root(c) ==
  /\ OPS \subseteq c.ops
  /\ c.all \/ required \subseteq c.tables
  /\ required \cap (c.omitting \cup c.filtered \cup c.parents) = {}

validate_publication_description(c) ==
  /\ OPS \subseteq c.ops
  /\ c.all \/ required \subseteq c.tables
  /\ required \cap (c.omitting \cup c.filtered \cup c.parents) = {}
  /\ ~c.viaroot

\* The end of validate_publication_coverage; a refused start is retried.
Validate ==
  /\ phase = "semantics" /\ todo = {}
  /\ phase' = IF ~validate_publication_description(cov) THEN "down"
              ELSE IF complete THEN "prepare" ELSE "copy"
  /\ cov' = NoCoverage
  /\ UNCHANGED <<pub, rows, wal, bare, slot, required, todo, store, complete,
                 altered, raced, lost, bounds>>

\* The exported snapshot: slot and copy share one point of the source.
Copy ==
  /\ phase = "copy"
  /\ slot' = TRUE /\ complete' = TRUE /\ phase' = "prepare"
  /\ wal' = <<>> /\ bare' = {}
  /\ store' = [t \in Tables |-> IF t \in required THEN Rows(t) ELSE {}]
  /\ UNCHANGED <<pub, rows, required, cov, todo, altered, raced, lost, bounds>>

\* Mutant: a TRUNCATE derives nothing instead of ending the run.
ReceiveSkipsTruncate ==
  LET m == Head(wal)
      kept == {r \in store[m.table] :
                 r[1] \notin m.old /\ \A n \in m.new : n[1] # r[1]}
      fails == m.op = "error"
  IN /\ phase = "streaming" /\ wal # <<>>
     /\ IF fails THEN phase' = "down" /\ UNCHANGED <<wal, store>>
        ELSE /\ wal' = Tail(wal) /\ UNCHANGED phase
             /\ store' = IF m.table \in required /\ m.op # "truncate"
                         THEN [store EXCEPT ![m.table] = kept \cup m.new]
                         ELSE store
     /\ UNCHANGED <<pub, rows, bare, slot, required, cov, todo, complete, altered,
                    raced, lost, bounds>>

\* A batch: changes of tables the plan does not name derive nothing, a
\* TRUNCATE of one it names and an error of the stream end the run.
Receive ==
  LET m == Head(wal)
      kept == {r \in store[m.table] :
                 r[1] \notin m.old /\ \A n \in m.new : n[1] # r[1]}
      fails == m.op = "error" \/ (m.op = "truncate" /\ m.table \in required)
  IN /\ phase = "streaming" /\ wal # <<>>
     /\ IF fails THEN phase' = "down" /\ UNCHANGED <<wal, store>>
        ELSE /\ wal' = Tail(wal) /\ UNCHANGED phase
             /\ store' = IF m.table \in required
                         THEN [store EXCEPT ![m.table] = kept \cup m.new]
                         ELSE store
     /\ UNCHANGED <<pub, rows, bare, slot, required, cov, todo, complete, altered,
                    raced, lost, bounds>>

\* The process ends, or any query or connection fails.
Crash ==
  /\ phase # "down"
  /\ phase' = "down" /\ cov' = NoCoverage /\ todo' = {}
  /\ UNCHANGED <<pub, rows, wal, bare, slot, required, store, complete, altered,
                 raced, lost, bounds>>

Init ==
  /\ pub \in Publications
  /\ rows = [t \in Leaves |-> {}]
  /\ wal = <<>> /\ slot = FALSE
  /\ required \in RequiredSets
  /\ phase = "down" /\ cov = NoCoverage /\ todo = {}
  /\ store = [t \in Tables |-> {}] /\ complete = FALSE
  /\ bare = {} /\ altered = "no" /\ raced = FALSE /\ lost = "no"
  /\ bounds = [changes |-> 0, alters |-> 0, starts |-> 0]

Source ==
  \/ \E t \in Leaves, k \in Keys, v \in Vals : Insert(t, k, v)
  \/ \E t \in Leaves : \E r \in rows[t], v \in Vals : Update(t, r, v)
  \/ \E t \in Leaves : \E r \in rows[t] : UpdateOthers(t, r)
  \/ \E t \in Leaves : \E r \in rows[t] : Delete(t, r)
  \/ \E t \in Leaves : Truncate(t)
  \/ \E p \in Publications : Alter(p)

Next ==
  \/ Source
  \/ Start
  \/ ensure_publication("ensure", "create", "coverage")
  \/ create_publication("create", "coverage")
  \/ publication_coverage
  \/ \E t \in Tables : publication_table_semantics(t)
  \/ Validate
  \/ Copy
  \/ ensure_publication("prepare", "recreate", "streaming")
  \/ create_publication("recreate", "streaming")
  \/ Receive
  \/ Crash

Spec == Init /\ [][Next]_vars

(***************************************************************************)
(* Properties                                                              *)
(***************************************************************************)

\* Types; and what the slot sends is bounded by what was changed.
TypeOK ==
  /\ pub \in PublicationType
  /\ \A t \in Leaves : rows[t] \subseteq Keys \X Vals
  /\ phase \in {"down", "ensure", "create", "coverage", "semantics", "copy",
                "prepare", "recreate", "streaming"}
  /\ \A t \in Tables : store[t] \subseteq Keys \X (Vals \cup {Missing})
  /\ todo \subseteq required /\ Len(wal) <= bounds.changes
  /\ complete = slot /\ altered \in {"no", "starting", "streaming"}
  /\ lost \in {"no", "this", "earlier"} /\ bare \subseteq Leaves \X Keys

\* What an accepted publication is for: every change of every required
\* table is sent, whole, under that table's name.
FullyPublished(p) ==
  /\ p.exists /\ p.ops = OPS
  /\ \A t \in required :
       \A l \in {l \in Leaves : l = t \/ Root(l) = t} :
         /\ Covered(p, l) /\ PublishedAs(p, l) = t
         /\ t \notin p.omitting \cup p.filtered

\* A stream opened by a start whose checks nobody interfered with runs on a
\* publication that sends every change of every required table whole and
\* under its own name: the four operations, the table list, column lists,
\* row filters, partition parents and publish_via_partition_root are all
\* that validate_publication_description has to look at.
AcceptedMeansPublished ==
  phase = "streaming" /\ ~raced => FullyPublished(pub)

\* The rows of a leaf as the last change of each carried them.
LastCarried(l, r) == IF <<l, r[1]>> \in bare THEN <<r[1], Missing>> ELSE r
Carried(l) == {LastCarried(l, r) : r \in rows[l]}

\* As long as the publication is left alone from the checks of the first
\* start on, a caught-up stream holds exactly the source's rows, whatever
\* state the publication was found in and however often the service was
\* restarted: the checks come before the copy, so no change falls between
\* them, and a TRUNCATE ends the stream instead of leaving rows behind.
\* Only a row last changed by an update that did not carry its out-of-line
\* value lacks this value, until a later change carries it
\* (derive_sync_tail_ops stores the new tuple as it came).
StoreFollowsSource ==
  phase = "streaming" /\ wal = <<>> /\ altered = "no"
    => \A t \in required :
         store[t] = UNION {Carried(l) : l \in {l \in Leaves : l = t \/ Root(l) = t}}

\* README.md: "a publication altered while the service is streaming is
\* rejected at the next restart".  A stream never runs on after a change of
\* a required table went unpublished in an earlier run.
AlteredRejected == phase = "streaming" => lost # "earlier"
=============================================================================
