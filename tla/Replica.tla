------------------------------- MODULE Replica -------------------------------
(***************************************************************************)
(* What replication ingest promises to its readers: a view that is either  *)
(* absent or holds exactly a prefix of the transactions of one source.  It *)
(* appears as such a prefix, grows by one transaction at a time in commit  *)
(* order, and may be withdrawn.                                            *)
(***************************************************************************)
EXTENDS Integers

CONSTANTS Sources, Parts, MaxLsn

VARIABLES wal,   \* source -> number of transactions it has committed
          view   \* [up, rows]: whether there is a view, and its contents

Commits == Sources \X (1..MaxLsn)

Prefix(s, n) ==
  [p \in Parts |-> [c \in Commits |-> IF c[1] = s /\ c[2] <= n THEN 1 ELSE 0]]

NoView == [up |-> FALSE, rows |-> [p \in Parts |-> [c \in Commits |-> 0]]]

View(s, n) == [up |-> TRUE, rows |-> Prefix(s, n)]

Init == wal = [s \in Sources |-> 0] /\ view = NoView

Commit(s) ==
  /\ wal' = [wal EXCEPT ![s] = @ + 1]
  /\ UNCHANGED view

Appear(s) ==
  /\ view = NoView
  /\ \E n \in 0..wal[s] : view' = View(s, n)
  /\ UNCHANGED wal

Advance(s) ==
  /\ \E n \in 1..wal[s] : view = View(s, n - 1) /\ view' = View(s, n)
  /\ UNCHANGED wal

Withdraw ==
  /\ view' = NoView
  /\ UNCHANGED wal

Next == Withdraw \/ \E s \in Sources : Commit(s) \/ Appear(s) \/ Advance(s)

Spec == Init /\ [][Next]_<<wal, view>>
==============================================================================
