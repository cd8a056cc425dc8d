------------------------------ MODULE TailWatch ------------------------------
(***************************************************************************)
(* How a /sync/stream connection that is held open learns of new commits.  *)
(* The replication task commits to MDBX and then sends the last op id on a *)
(* tokio watch channel; a connection compares cursors, compares the last   *)
(* op id, subscribes, and waits for the channel or for the poll interval.  *)
(* Each of these reads is a step of its own: the connections and the       *)
(* replication task run on different threads.                              *)
(***************************************************************************)
EXTENDS Integers, FiniteSets

CONSTANTS
  Conns,     \* connections
  MaxOp,     \* bound on the last op id
  MaxResets  \* rules are activated only while the channel has fewer values

ASSUME WatchAssumption == Conns # {} /\ MaxOp \in Nat /\ MaxResets \in Nat

VARIABLES
  lastOp,    \* META_SYNC_TAIL_LAST_OP_ID, as the last MDBX commit left it
  writer,    \* "idle", or "committed": between txn.commit and send
  watchVal,  \* value in the channel
  version,   \* number of values stored in the channel
  pc,        \* connection -> where it is
  cursor,    \* connection -> position up to which it has been served
  baseline,  \* connection -> last op id it wants to see advance
  seen       \* connection -> version its receiver has seen

storeVars == <<lastOp, writer, watchVal, version>>
vars == <<lastOp, writer, watchVal, version, pc, cursor, baseline, seen>>

Steps == {"closed", "compare", "baseline", "check", "subscribe", "borrow", "wait",
          "recheck", "read"}

\* Connections that have a live receiver.
Receivers == {c \in Conns : pc[c] \in {"borrow", "wait"}}

\* The receiver has a value its connection has not looked at.
WakeupPending(c) == version # seen[c]

Init ==
  /\ lastOp = 0 /\ writer = "idle" /\ watchVal = 0 /\ version = 0
  /\ pc = [c \in Conns |-> "closed"]
  /\ cursor = [c \in Conns |-> 0]
  /\ baseline = [c \in Conns |-> 0]
  /\ seen = [c \in Conns |-> 0]

\* persist_batch: the MDBX transaction.
Commit ==
  /\ writer = "idle"
  /\ lastOp < MaxOp
  /\ lastOp' = lastOp + 1
  /\ writer' = "committed"
  /\ UNCHANGED <<watchVal, version, pc, cursor, baseline, seen>>

\* persist_batch: task_tail_last_op_id and send.  A watch channel without
\* receivers refuses the value and keeps the old one; the error is ignored.
Send ==
  /\ writer = "committed"
  /\ writer' = "idle"
  /\ IF Receivers = {}
     THEN UNCHANGED <<watchVal, version>>
     ELSE watchVal' = lastOp /\ version' = version + 1
  /\ UNCHANGED <<lastOp, pc, cursor, baseline, seen>>

\* activate_pending_sync_rules, on a management request's thread: rules that keep
\* the layout leave the store alone, but reset_for_layout_version sends 0.
\* (Without receivers the value is refused and nothing happens.)
ActivateRules ==
  /\ version < MaxResets
  /\ Receivers # {}
  /\ watchVal' = 0 /\ version' = version + 1
  /\ UNCHANGED <<lastOp, writer, pc, cursor, baseline, seen>>

------------------------------------------------------------------------------

\* The first response of a request, up to the last op id of its transaction.
Open(c) ==
  /\ pc[c] = "closed"
  /\ cursor' = [cursor EXCEPT ![c] = lastOp]
  /\ pc' = [pc EXCEPT ![c] = "compare"]
  /\ UNCHANGED <<storeVars, baseline, seen>>

\* The client leaves, or the stream's lifetime ends.
Close(c) ==
  /\ pc[c] # "closed"
  /\ pc' = [pc EXCEPT ![c] = "closed"]
  /\ cursor' = [cursor EXCEPT ![c] = 0]
  /\ baseline' = [baseline EXCEPT ![c] = 0]
  /\ seen' = [seen EXCEPT ![c] = 0]
  /\ UNCHANGED storeVars

\* latest_sync_bucket_cursors_for_plan, before and after the wait.
CompareCursors(c) ==
  /\ pc[c] = "compare"
  /\ pc' = [pc EXCEPT ![c] = IF lastOp > cursor[c] THEN "read" ELSE "baseline"]
  /\ UNCHANGED <<storeVars, cursor, baseline, seen>>

RecheckCursors(c) ==
  /\ pc[c] = "recheck"
  /\ pc' = [pc EXCEPT ![c] = IF lastOp > cursor[c] THEN "read" ELSE "compare"]
  /\ UNCHANGED <<storeVars, cursor, baseline, seen>>

\* latest_sync_op_id.
ReadBaseline(c) ==
  /\ pc[c] = "baseline"
  /\ baseline' = [baseline EXCEPT ![c] = lastOp]
  /\ pc' = [pc EXCEPT ![c] = "check"]
  /\ UNCHANGED <<storeVars, cursor, seen>>

\* wait_for_task_tail_advance, the steps up to the wait.
CheckLastOp(c) ==
  /\ pc[c] = "check"
  /\ pc' = [pc EXCEPT ![c] = IF lastOp > baseline[c] THEN "recheck" ELSE "subscribe"]
  /\ UNCHANGED <<storeVars, cursor, baseline, seen>>

Subscribe(c) ==
  /\ pc[c] = "subscribe"
  /\ seen' = [seen EXCEPT ![c] = version]
  /\ pc' = [pc EXCEPT ![c] = "borrow"]
  /\ UNCHANGED <<storeVars, cursor, baseline>>

\* Mutant: the connection waits for a change without a look at the value its new
\* receiver counts as seen.
BorrowSkipped(c) ==
  /\ pc[c] = "borrow"
  /\ pc' = [pc EXCEPT ![c] = "wait"]
  /\ UNCHANGED <<storeVars, cursor, baseline, seen>>

Borrow(c) ==
  /\ pc[c] = "borrow"
  /\ pc' = [pc EXCEPT ![c] = IF watchVal > baseline[c] THEN "recheck" ELSE "wait"]
  /\ UNCHANGED <<storeVars, cursor, baseline, seen>>

\* receiver.changed and borrow_and_update.
Changed(c) ==
  /\ pc[c] = "wait"
  /\ WakeupPending(c)
  /\ seen' = [seen EXCEPT ![c] = version]
  /\ pc' = [pc EXCEPT ![c] = IF watchVal > baseline[c] THEN "recheck" ELSE "wait"]
  /\ UNCHANGED <<storeVars, cursor, baseline>>

\* Mutant: after the poll interval the connection waits again, without a look at
\* the store.
TimeoutResubscribes(c) ==
  /\ pc[c] = "wait"
  /\ pc' = [pc EXCEPT ![c] = "subscribe"]
  /\ UNCHANGED <<storeVars, cursor, baseline, seen>>

\* hold_open_poll_interval has passed.
Timeout(c) ==
  /\ pc[c] = "wait"
  /\ pc' = [pc EXCEPT ![c] = "recheck"]
  /\ UNCHANGED <<storeVars, cursor, baseline, seen>>

\* The follow-up checkpoint, read in one transaction: final_cursors are the last
\* op id of that transaction.
ReadCheckpoint(c) ==
  /\ pc[c] = "read"
  /\ cursor' = [cursor EXCEPT ![c] = lastOp]
  /\ pc' = [pc EXCEPT ![c] = "compare"]
  /\ UNCHANGED <<storeVars, baseline, seen>>

Stream(c) ==
  \/ CompareCursors(c)
  \/ ReadBaseline(c)
  \/ CheckLastOp(c)
  \/ Subscribe(c)
  \/ Borrow(c)
  \/ Changed(c)
  \/ Timeout(c)
  \/ RecheckCursors(c)
  \/ ReadCheckpoint(c)

Next ==
  \/ Commit
  \/ Send
  \/ ActivateRules
  \/ \E c \in Conns : Open(c) \/ Stream(c) \/ Close(c)

Spec == Init /\ [][Next]_vars

\* The tokio runtime polls every ready task and fires due timers, and the
\* replication task gets from a commit to its send.  hyper polls a body only
\* while its client reads it, so this is fairness for connections that are read.
Fairness == WF_vars(Send) /\ \A c \in Conns : WF_vars(Stream(c))

FairSpec == Spec /\ Fairness

------------------------------------------------------------------------------

\* Every variable has its type, and no id runs ahead of the store.
TypeOK ==
  /\ lastOp \in 0..MaxOp /\ watchVal \in 0..lastOp /\ version \in 0..(MaxOp + MaxResets)
  /\ writer \in {"idle", "committed"}
  /\ pc \in [Conns -> Steps]
  /\ cursor \in [Conns -> 0..lastOp]
  /\ baseline \in [Conns -> 0..lastOp]
  /\ seen \in [Conns -> 0..version]

\* No connection sleeps on news: while the channel holds an op id beyond the one a
\* waiting connection has, its receiver has a value it has not looked at, whichever
\* of the steps from the check of the store to the wait the commit and its send fell
\* between.  (subscribe counts the value of the channel as seen, so
\* wait_for_task_tail_advance has to borrow it once before the loop.)  It says nothing
\* of a commit whose send found no receiver, or whose value an activation's 0
\* replaced: the channel does not hold that id.
NewsWakes ==
  \A c \in Conns :
    (pc[c] = "wait" /\ watchVal > baseline[c]) => WakeupPending(c)

\* Every commit is streamed to every connection that stays open and is read, even
\* one that missed the notification: its send found no receiver, or a 0 replaced it.
\* (The re-check after the poll interval.)
EveryCommitStreamed ==
  \A c \in Conns : \A n \in 1..MaxOp :
    (pc[c] # "closed" /\ lastOp >= n) ~> (pc[c] = "closed" \/ cursor[c] >= n)

\* New commits wake held-open connections immediately: a connection that waits
\* behind the store has a wake-up coming (comment at hold_open_poll_interval).
NoMissedWakeup ==
  \A c \in Conns :
    (pc[c] = "wait" /\ lastOp > cursor[c])
      => writer = "committed" \/ (WakeupPending(c) /\ watchVal > baseline[c])
==============================================================================
