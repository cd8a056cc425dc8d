-------------------------- MODULE PublicationProofs --------------------------
(***************************************************************************)
(* What the checks of a start establish, for every set of tables, every    *)
(* partitioning, every set of required tables and every state an operator  *)
(* may put the publication in.                                             *)
(*                                                                         *)
(* As long as nobody alters an accepted publication, the store follows the *)
(* source: what the slot has still to send replays the rows of the store   *)
(* into the rows of the source as their last changes carried them.         *)
(***************************************************************************)
EXTENDS Publication, TLAPS

\* What the coverage read so far says of the publication, as long as nobody
\* altered it since: the flags and tables are its own, and every restriction
\* of a required table already looked at is noted.
CoverageTrue ==
  /\ pub.exists
  /\ cov.all = pub.all /\ cov.ops = pub.ops /\ cov.viaroot = pub.viaroot
  /\ cov.all \/ cov.tables = Listed(pub)
  /\ \A t \in required \ todo :
       pub.all \/ t \in Listed(pub) =>
         /\ t \in pub.omitting => t \in cov.omitting
         /\ t \in pub.filtered => t \in cov.filtered
         /\ t \in Parents => t \in cov.parents

\* What the checks of a start accept: every change of every required table is sent,
\* and no required table is a partitioned parent.
Accepted(p) == FullyPublished(p) /\ required \cap Parents = {}

\* The inductive strengthening of AcceptedMeansPublished.
CheckInv ==
  /\ pub \in PublicationType /\ required \in RequiredSets
  /\ phase = "semantics" /\ ~raced => CoverageTrue
  /\ phase \in {"copy", "prepare", "recreate", "streaming"} /\ ~raced
       => Accepted(pub)

\* validate_publication_description is sufficient: coverage that is true of a
\* publication and passes the checks describes one that sends every change of
\* every required table whole and under the name of that table.
LEMMA ChecksSuffice ==
  ASSUME pub \in PublicationType, required \in RequiredSets, CoverageTrue,
         todo = {}, validate_publication_description(cov)
  PROVE  Accepted(pub)
<1>1. pub.exists /\ pub.ops = OPS /\ ~pub.viaroot
  BY Zenon DEF CoverageTrue, validate_publication_description, PublicationType
<1>2. ASSUME NEW t \in required
      PROVE  /\ pub.all \/ t \in Listed(pub)
             /\ t \notin pub.omitting \cup pub.filtered
             /\ t \notin Parents
  BY DEF CoverageTrue, validate_publication_description
<1>3. ASSUME NEW t \in required, NEW l \in Leaves, l = t \/ Root(l) = t
      PROVE  l = t
  BY <1>2, <1>3 DEF Root, Parents
<1>4. ASSUME NEW t \in required, NEW l \in Leaves, l = t \/ Root(l) = t
      PROVE  /\ Covered(pub, l) /\ PublishedAs(pub, l) = t
             /\ t \notin pub.omitting \cup pub.filtered
  <2>1. l = t
    BY <1>3, <1>4
  <2>2. Covered(pub, t)
    BY <1>1, <1>2 DEF Covered, Listed
  <2>3. PublishedAs(pub, t) = t
    BY <1>1 DEF PublishedAs
  <2> QED BY <1>2, <2>1, <2>2, <2>3
<1> QED BY Zenon, <1>1, <1>2, <1>4 DEF Accepted, FullyPublished

\* Steps that leave the publication and the progress of the checks alone.
LEMMA Untouched ==
  ASSUME CheckInv, UNCHANGED <<pub, required, phase, cov, todo, raced>>
  PROVE  CheckInv'
BY DEF CheckInv, CoverageTrue, Accepted, FullyPublished, Covered, PublishedAs, Listed

\* Steps that end a run, or lead to the phases before the checks.
LEMMA BeforeChecks ==
  ASSUME CheckInv, pub' \in PublicationType, UNCHANGED required,
         phase' \in {"down", "ensure", "create", "coverage"}
  PROVE  CheckInv'
BY DEF CheckInv

\* Steps of an accepted start that leave the publication alone.
LEMMA AfterChecks ==
  ASSUME CheckInv, UNCHANGED <<pub, required, raced>>,
         phase \in {"copy", "prepare", "recreate", "streaming"},
         phase' \in {"copy", "prepare", "recreate", "streaming"}
  PROVE  CheckInv'
BY DEF CheckInv, Accepted, FullyPublished, Covered, PublishedAs

\* The publication the service creates is well formed.
LEMMA AllTablesType == AllTables \in PublicationType
BY DEF AllTables, PublicationType

\* publication_coverage records the publication as it is.
LEMMA CoverageStep ==
  ASSUME CheckInv, publication_coverage
  PROVE  CheckInv'
<1>1. CASE ~pub.exists
  <2>1. phase' = "down" /\ UNCHANGED <<pub, required>>
    BY <1>1 DEF publication_coverage
  <2> QED BY <2>1, BeforeChecks DEF CheckInv
<1>2. CASE pub.exists
  <2>1. /\ UNCHANGED <<pub, required>>
        /\ phase' = "semantics"
        /\ cov' = [all |-> pub.all, ops |-> pub.ops, viaroot |-> pub.viaroot,
                   tables |-> IF pub.all THEN {} ELSE Listed(pub),
                   omitting |-> {}, filtered |-> {}, parents |-> {}]
        /\ todo' = IF pub.all THEN required ELSE required \cap Listed(pub)
    BY <1>2 DEF publication_coverage
  <2>2. CoverageTrue'
    BY <1>2, <2>1 DEF CoverageTrue, Listed
  <2> QED BY <2>1, <2>2 DEF CheckInv
<1> QED BY <1>1, <1>2

\* publication_table_semantics adds what restricts one more table.
LEMMA SemanticsStep ==
  ASSUME CheckInv, NEW t \in Tables, publication_table_semantics(t)
  PROVE  CheckInv'
<1>1. /\ UNCHANGED <<pub, required, phase, raced>>
      /\ phase = "semantics"
      /\ todo' = todo \ {t}
      /\ cov'.all = cov.all /\ cov'.ops = cov.ops /\ cov'.viaroot = cov.viaroot
      /\ cov'.tables = cov.tables
  BY DEF publication_table_semantics
<1>2. ASSUME CoverageTrue
      PROVE  /\ cov.omitting \subseteq cov'.omitting
             /\ cov.filtered \subseteq cov'.filtered
             /\ cov.parents \subseteq cov'.parents
             /\ pub.all \/ t \in Listed(pub) =>
                  /\ t \in pub.omitting => t \in cov'.omitting
                  /\ t \in pub.filtered => t \in cov'.filtered
             /\ t \in Parents => t \in cov'.parents
  BY <1>2 DEF publication_table_semantics, CoverageTrue
<1>3. CoverageTrue => CoverageTrue'
  BY <1>1, <1>2 DEF CoverageTrue, Listed
<1> QED BY <1>1, <1>3 DEF CheckInv

\* validate_publication_coverage ends the run or vouches for the publication.
LEMMA ValidateStep ==
  ASSUME CheckInv, Validate
  PROVE  CheckInv'
<1>1. CASE phase' = "down"
  <2>1. UNCHANGED <<pub, required>>
    BY DEF Validate
  <2> QED BY <1>1, <2>1, BeforeChecks DEF CheckInv
<1>2. CASE phase' # "down"
  <2>1. /\ UNCHANGED <<pub, required, raced>>
        /\ phase = "semantics" /\ todo = {}
        /\ validate_publication_description(cov)
        /\ phase' \in {"prepare", "copy"}
    BY <1>2 DEF Validate
  <2>2. ~raced => Accepted(pub)
    BY <2>1, ChecksSuffice DEF CheckInv
  <2>3. ~raced' => Accepted(pub)'
    BY <2>1, <2>2 DEF Accepted, FullyPublished, Covered, PublishedAs
  <2> QED BY <2>1, <2>3 DEF CheckInv
<1> QED BY <1>1, <1>2

\* ensure_publication before the checks, and again in prepare_existing: there a
\* publication that is missing was dropped after the checks.
LEMMA EnsureStep ==
  ASSUME CheckInv,
         \/ ensure_publication("ensure", "create", "coverage")
         \/ create_publication("create", "coverage")
         \/ ensure_publication("prepare", "recreate", "streaming")
         \/ create_publication("recreate", "streaming")
  PROVE  CheckInv'
<1>1. CASE ensure_publication("ensure", "create", "coverage")
  BY <1>1, BeforeChecks DEF ensure_publication, CheckInv
<1>2. CASE create_publication("create", "coverage")
  BY <1>2, BeforeChecks, AllTablesType DEF create_publication, CheckInv
<1>3. CASE ensure_publication("prepare", "recreate", "streaming")
  BY <1>3, AfterChecks DEF ensure_publication
<1>4. CASE create_publication("recreate", "streaming")
  <2>1. CASE pub.exists
    BY <1>4, <2>1, BeforeChecks DEF create_publication, CheckInv
  <2>2. CASE ~pub.exists
    <3>1. raced
      BY <1>4, <2>2 DEF create_publication, CheckInv, Accepted, FullyPublished
    <3>2. /\ raced' /\ pub' = AllTables
          /\ UNCHANGED required
      BY <1>4, <2>2, <3>1 DEF create_publication
    <3> QED BY <3>2, AllTablesType DEF CheckInv
  <2> QED BY <2>1, <2>2
<1> QED BY <1>1, <1>2, <1>3, <1>4

\* Row changes and alterations of the publication.
LEMMA SourceStep ==
  ASSUME CheckInv, Source
  PROVE  CheckInv'
<1>1. CASE \E p \in Publications : Alter(p)
  <2>1. raced' /\ pub' \in PublicationType /\ UNCHANGED required
    BY <1>1, PublicationAssumption DEF Alter
  <2> QED BY <2>1 DEF CheckInv
<1>2. ASSUME NEW t, NEW op, NEW old, NEW new, NEW untouched, Change(t, op, old, new, untouched)
      PROVE  UNCHANGED <<pub, required, phase, cov, todo, raced>>
  BY <1>2 DEF Change, Service
<1>3. CASE ~\E p \in Publications : Alter(p)
  <2>1. UNCHANGED <<pub, required, phase, cov, todo, raced>>
    BY Zenon, <1>2, <1>3 DEF Source, Insert, Update, UpdateOthers, Delete, Truncate
  <2> QED BY <2>1, Untouched
<1> QED BY <1>1, <1>3

\* CheckInv is inductive.
LEMMA CheckInvariant == Spec => []CheckInv
<1>1. Init => CheckInv
  BY PublicationAssumption DEF Init, CheckInv
<1>2. CheckInv /\ [Next]_vars => CheckInv'
  <2> SUFFICES ASSUME CheckInv, [Next]_vars
               PROVE  CheckInv'
    OBVIOUS
  <2>1. CASE Source
    BY <2>1, SourceStep
  <2>2. CASE Start
    BY <2>2, BeforeChecks DEF Start, CheckInv
  <2>3. CASE publication_coverage
    BY <2>3, CoverageStep
  <2>4. CASE \E t \in Tables : publication_table_semantics(t)
    BY <2>4, SemanticsStep
  <2>5. CASE Validate
    BY <2>5, ValidateStep
  <2>6. CASE Copy
    BY <2>6, AfterChecks DEF Copy
  <2>7. CASE Receive
    <3>1. /\ UNCHANGED <<pub, required, raced>>
          /\ phase = "streaming" /\ phase' \in {"down", "streaming"}
      BY <2>7 DEF Receive
    <3> QED BY <3>1, AfterChecks, BeforeChecks DEF CheckInv
  <2>8. CASE Crash
    BY <2>8, BeforeChecks DEF Crash, CheckInv
  <2>9. CASE UNCHANGED vars
    BY <2>9, Untouched DEF vars
  <2> QED BY <2>1, <2>2, <2>3, <2>4, <2>5, <2>6, <2>7, <2>8, <2>9, EnsureStep DEF Next
<1> QED BY <1>1, <1>2, PTL DEF Spec

\* A stream opened by a start whose checks nobody interfered with runs on a
\* publication that sends every change of every required table, whole and under
\* its own name (ensure_publication_covers, validate_publication_description),
\* for all tables, partitionings and publications.
THEOREM AcceptedPublication == Spec => []AcceptedMeansPublished
<1>1. CheckInv => AcceptedMeansPublished
  BY DEF CheckInv, Accepted, AcceptedMeansPublished
<1> QED BY <1>1, CheckInvariant, PTL
------------------------------------------------------------------------------
\* The store and what is still to be received.

Messages == [table : Tables, op : OPS \cup {"error"}, old : SUBSET Keys,
             new : SUBSET (Keys \X (Vals \cup {Missing}))]

\* What a message makes of the rows S of table t.
After(t, m, S) ==
  IF m.table # t THEN S
  ELSE IF m.op = "truncate" THEN {}
  ELSE {r \in S : r[1] \notin m.old /\ \A n \in m.new : n[1] # r[1]} \cup m.new

\* The messages w turn the rows s of table t into r.
Replays(t, w, s, r) ==
  \E T : /\ T[0] = s /\ T[Len(w)] = r
         /\ \A i \in 1..Len(w) : T[i] = After(t, w[i], T[i - 1])

\* Without messages the rows are what they were.
LEMMA ReplaysNothing ==
  ASSUME NEW t, NEW s, NEW r
  PROVE  Replays(t, <<>>, s, r) <=> s = r
<1>1. Replays(t, <<>>, s, r) => s = r
  BY DEF Replays
<1>2. ASSUME s = r PROVE Replays(t, <<>>, s, r)
  <2> DEFINE T == [i \in {0} |-> s]
  <2>1. T[0] = s /\ Len(<<>>) = 0
    OBVIOUS
  <2> HIDE DEF T
  <2>2. T[Len(<<>>)] = r /\ \A i \in 1..Len(<<>>) : T[i] = After(t, <<>>[i], T[i - 1])
    BY <1>2, <2>1
  <2> QED BY Zenon, <2>1, <2>2 DEF Replays
<1> QED BY <1>1, <1>2

\* One more message.
LEMMA ReplaysAppend ==
  ASSUME NEW t, NEW w \in Seq(Messages), NEW s, NEW r, NEW m \in Messages,
         Replays(t, w, s, r)
  PROVE  Replays(t, Append(w, m), s, After(t, m, r))
<1>1. PICK T : /\ T[0] = s /\ T[Len(w)] = r
               /\ \A i \in 1..Len(w) : T[i] = After(t, w[i], T[i - 1])
  BY DEF Replays
<1> DEFINE n == Len(w)
           v == Append(w, m)
           U == [i \in 0..(n + 1) |-> IF i = n + 1 THEN After(t, m, r) ELSE T[i]]
<1>2. /\ n \in Nat /\ Len(v) = n + 1 /\ v[n + 1] = m
      /\ \A i \in 1..n : v[i] = w[i]
  OBVIOUS
<1>3. U[0] = s /\ U[n + 1] = After(t, m, r) /\ \A i \in 0..n : U[i] = T[i]
  BY <1>1, <1>2
<1> HIDE DEF n, v, U
<1>4. ASSUME NEW i \in 1..(n + 1)
      PROVE  U[i] = After(t, v[i], U[i - 1])
  <2>1. CASE i \in 1..n
    <3>1. U[i] = T[i] /\ U[i - 1] = T[i - 1] /\ v[i] = w[i]
      BY <1>2, <1>3, <2>1
    <3> QED BY <1>1, <2>1, <3>1 DEF n
  <2>2. CASE i = n + 1
    <3>1. U[i - 1] = r
      BY <1>1, <1>2, <1>3, <2>2 DEF n
    <3> QED BY <1>2, <1>3, <2>2, <3>1
  <2> QED BY <1>2, <2>1, <2>2
<1>5. Replays(t, v, s, After(t, m, r))
  BY <1>2, <1>3, <1>4 DEF Replays
<1> QED BY <1>5 DEF v

\* The first message is applied.
LEMMA ReplaysTail ==
  ASSUME NEW t, NEW w \in Seq(Messages), w # <<>>, NEW s, NEW r, Replays(t, w, s, r)
  PROVE  Replays(t, Tail(w), After(t, Head(w), s), r)
<1>1. PICK T : /\ T[0] = s /\ T[Len(w)] = r
               /\ \A i \in 1..Len(w) : T[i] = After(t, w[i], T[i - 1])
  BY DEF Replays
<1> DEFINE n == Len(w)
           v == Tail(w)
           U == [i \in 0..(n - 1) |-> T[i + 1]]
<1>2. /\ n \in Nat \ {0} /\ Len(v) = n - 1 /\ Head(w) = w[1]
      /\ \A i \in 1..(n - 1) : v[i] = w[i + 1]
  OBVIOUS
<1>3. \A i \in 0..(n - 1) : U[i] = T[i + 1]
  OBVIOUS
<1> HIDE DEF n, v, U
<1>4. U[0] = After(t, Head(w), s)
  BY <1>1, <1>2, <1>3 DEF n
<1>5. U[n - 1] = r
  BY <1>1, <1>2, <1>3 DEF n
<1>6. ASSUME NEW i \in 1..(n - 1)
      PROVE  U[i] = After(t, v[i], U[i - 1])
  <2>1. i + 1 \in 1..n /\ U[i] = T[i + 1] /\ U[i - 1] = T[i] /\ v[i] = w[i + 1]
    BY <1>2, <1>3
  <2>2. T[i + 1] = After(t, w[i + 1], T[(i + 1) - 1])
    BY <1>1, <2>1 DEF n
  <2> QED BY <2>1, <2>2
<1>7. Replays(t, v, After(t, Head(w), s), r)
  BY <1>2, <1>4, <1>5, <1>6 DEF Replays
<1> QED BY <1>7 DEF v

\* A table never has two rows with one key.
KeyUnique(S) == \A r, q \in S : r[1] = q[1] => r = q

RowsInv ==
  /\ rows \in [Leaves -> SUBSET (Keys \X Vals)]
  /\ \A t \in Leaves : KeyUnique(rows[t])

StoreShape ==
  /\ store = [t \in Tables |-> store[t]]
  /\ wal \in Seq(Messages)
  /\ slot = complete
  /\ phase \in {"prepare", "recreate", "streaming"} => complete

\* As long as the publication is left alone since the copy, it sends everything, and
\* what is still to be received turns the store into the source as it was carried.
FollowInv ==
  /\ RowsInv /\ StoreShape
  /\ raced => altered # "no"
  /\ complete /\ altered = "no" =>
       /\ Accepted(pub)
       /\ \A t \in required : Replays(t, wal, store[t], Carried(t))

\* A required table of an accepted publication is no partitioned parent.
LEMMA AcceptedLeaf ==
  ASSUME CheckInv, Accepted(pub), NEW t \in required
  PROVE  /\ t \in Leaves /\ {l \in Leaves : l = t \/ Root(l) = t} = {t}
         /\ Rows(t) = rows[t]
<1>1. t \in Leaves
  BY PublicationAssumption DEF CheckInv, Accepted, Leaves
<1>2. \A l \in Leaves : l = t \/ Root(l) = t => l = t
  BY DEF Accepted, Root, Parents
<1>3. {l \in Leaves : l = t \/ Root(l) = t} = {t}
  BY <1>1, <1>2
<1> QED BY <1>1, <1>3 DEF Rows

------------------------------------------------------------------------------
\* Row changes.

\* The message of a change, if one is sent.
LEMMA OutputType ==
  ASSUME pub \in PublicationType, NEW t \in Leaves, NEW op \in OPS,
         NEW old \in SUBSET (Keys \X Vals), NEW new \in SUBSET (Keys \X Vals),
         NEW untouched
  PROVE  \/ Output(pub, t, op, old, new, untouched) = <<>>
         \/ \E m \in Messages : /\ Output(pub, t, op, old, new, untouched) = <<m>>
                                /\ m.table = PublishedAs(pub, t)
<1> DEFINE name == PublishedAs(pub, t)
           before == {r \in old : Passes(pub, name, r)}
           after == {Sent(pub, name, r, untouched) : r \in {r \in new : Passes(pub, name, r)}}
           msg == [table |-> name, op |-> op, old |-> {r[1] : r \in before}, new |-> after]
<1>1. name \in Tables
  BY PublicationAssumption DEF PublishedAs, Root, Leaves, Parents
<1>2. {r[1] : r \in before} \subseteq Keys
  OBVIOUS
<1>3. after \subseteq Keys \X (Vals \cup {Missing})
  BY DEF Sent
<1>4. msg \in Messages /\ [msg EXCEPT !.op = "error"] \in Messages
  <2> HIDE DEF name, before, after
  <2> QED BY Zenon, <1>1, <1>2, <1>3 DEF Messages
<1>5. msg.table = name /\ [msg EXCEPT !.op = "error"].table = name
  OBVIOUS
<1>6. Output(pub, t, op, old, new, untouched) \in {<<>>, <<msg>>, <<[msg EXCEPT !.op = "error"]>>}
  BY Zenon DEF Output
<1> HIDE DEF msg, name
<1> QED BY Zenon, <1>4, <1>5, <1>6 DEF name

\* The new rows of a change as they are sent when no publication restricts them.
AsSent(new, untouched) == {IF untouched THEN <<r[1], Missing>> ELSE r : r \in new}

MessageOf(t, op, old, new, untouched) ==
  [table |-> t, op |-> op, old |-> {r[1] : r \in old}, new |-> AsSent(new, untouched)]

\* A change has an effect, or is a TRUNCATE.
Effective(op, old, new) == op = "truncate" \/ old # {} \/ new # {}

\* The change of a required table is sent whole, but for an out-of-line value that an
\* update left alone.
LEMMA OutputWhole ==
  ASSUME CheckInv, Accepted(pub), NEW t \in required, NEW op \in OPS,
         NEW old \in SUBSET (Keys \X Vals), NEW new \in SUBSET (Keys \X Vals),
         NEW untouched, Change(t, op, old, new, untouched),
         Effective(op, old, new)
  PROVE  Output(pub, t, op, old, new, untouched) = <<MessageOf(t, op, old, new, untouched)>>
<1>1. t \in Leaves
  BY AcceptedLeaf
<1>2. /\ pub.exists /\ pub.ops = OPS /\ Covered(pub, t) /\ PublishedAs(pub, t) = t
      /\ t \notin pub.omitting /\ t \notin pub.filtered
  BY <1>1 DEF Accepted, FullyPublished
<1> DEFINE sent == AsSent(new, untouched)
<1>3. \A r : /\ Passes(pub, t, r)
            /\ Sent(pub, t, r, untouched) = IF untouched THEN <<r[1], Missing>> ELSE r
  BY <1>2 DEF Passes, Sent
<1> DEFINE name == PublishedAs(pub, t)
           before == {r \in old : Passes(pub, name, r)}
           after == {Sent(pub, name, r, untouched) : r \in {r \in new : Passes(pub, name, r)}}
           msg == [table |-> name, op |-> op, old |-> {r[1] : r \in before}, new |-> after]
<1>4. before = old /\ after = sent
  BY <1>2, <1>3 DEF AsSent
<1>5. ~(op # "truncate" /\ before = {} /\ after = {}) /\ op \in pub.ops
  <2>1. new # {} => sent # {}
    BY Zenon DEF AsSent
  <2> HIDE DEF before, after, sent
  <2> QED BY Zenon, <1>2, <1>4, <2>1 DEF Effective
<1>6. Output(pub, t, op, old, new, untouched) = <<msg>>
  BY Zenon, <1>2, <1>5 DEF Output
<1>7. msg = MessageOf(t, op, old, new, untouched)
  <2> HIDE DEF before, after
  <2> QED BY <1>2, <1>4 DEF MessageOf
<1> QED BY Zenon, <1>6, <1>7

\* The keys a change touches are those of the rows it replaces.
Replaces(u, op, old, new) ==
  IF op = "truncate" THEN old = rows[u] /\ new = {}
  ELSE \A r \in rows[u] :
         r \in old <=> r[1] \in {q[1] : q \in old} \/ \E n \in new : n[1] = r[1]

\* The history of carried rows after a change.
Marked(u, old, new, untouched) ==
  IF untouched THEN bare \cup {<<u, r[1]>> : r \in old \cup new}
  ELSE bare \ {<<u, r[1]>> : r \in old \cup new}

\* The message of a change makes of the rows as carried before the rows as carried after.
LEMMA CarriedAfter ==
  ASSUME RowsInv, NEW u \in Leaves, NEW op \in OPS,
         NEW old \in SUBSET rows[u], NEW new \in SUBSET (Keys \X Vals),
         NEW untouched, Change(u, op, old, new, untouched), Replaces(u, op, old, new),
         rows'[u] = (rows[u] \ old) \cup new,
         bare' = Marked(u, old, new, untouched),
         NEW m, m = MessageOf(u, op, old, new, untouched)
  PROVE  After(u, m, Carried(u)) = Carried(u)'
<1>0. /\ m.table = u /\ m.op = op /\ m.old = {r[1] : r \in old}
      /\ m.new = AsSent(new, untouched)
  BY Zenon DEF MessageOf
<1> DEFINE S(r) == LastCarried(u, r)
           P(r) == LastCarried(u, r)'
<1>1. rows[u] \subseteq Keys \X Vals
  BY DEF RowsInv
<1>2. Carried(u) = {S(r) : r \in rows[u]} /\ Carried(u)' = {P(r) : r \in (rows[u] \ old) \cup new}
  BY Zenon DEF Carried
<1>3. CASE op = "truncate"
  BY Zenon, <1>0, <1>2, <1>3 DEF After, Replaces
<1>4. CASE op # "truncate"
  <2>1. \A r \in Keys \X Vals : S(r)[1] = r[1]
    BY DEF LastCarried
  <2>2. ASSUME NEW r \in rows[u] \ old
        PROVE  P(r) = S(r)
    <3>1. \A q \in old \cup new : q[1] # r[1]
      BY Zenon, <1>4 DEF Replaces
    <3>2. <<u, r[1]>> \notin {<<u, q[1]>> : q \in old \cup new}
      BY Zenon, <3>1
    <3> QED BY <3>2 DEF LastCarried, Marked
  <2>3. ASSUME NEW r \in new
        PROVE  P(r) = IF untouched THEN <<r[1], Missing>> ELSE r
    <3>1. <<u, r[1]>> \in {<<u, q[1]>> : q \in old \cup new}
      BY Zenon
    <3> QED BY <3>1 DEF LastCarried, Marked
  <2>4. m.new = {P(r) : r \in new}
    BY Zenon, <1>0, <2>3 DEF AsSent
  <2>5. \A k : (\E n \in m.new : n[1] = k) <=> \E n \in new : n[1] = k
    <3>1. \A r \in new : (IF untouched THEN <<r[1], Missing>> ELSE r)[1] = r[1]
      OBVIOUS
    <3> QED BY Zenon, <1>0, <3>1 DEF AsSent
  <2> HIDE DEF S, P
  <2>6. {x \in Carried(u) : x[1] \notin m.old /\ \A n \in m.new : n[1] # x[1]}
          = {S(r) : r \in rows[u] \ old}
    <3>1. ASSUME NEW r \in rows[u]
          PROVE  S(r)[1] \notin m.old /\ (\A n \in m.new : n[1] # S(r)[1]) <=> r \notin old
      <4>1. S(r)[1] = r[1]
        BY <1>1, <2>1
      <4>2. r \in old <=> r[1] \in m.old \/ \E n \in new : n[1] = r[1]
        BY Zenon, <1>0, <1>4 DEF Replaces
      <4> QED BY Zenon, <2>5, <4>1, <4>2
    <3>2. Carried(u) = {S(r) : r \in rows[u]}
      BY <1>2
    <3> QED BY <3>1, <3>2
  <2>7. {S(r) : r \in rows[u] \ old} = {P(r) : r \in rows[u] \ old}
    BY Zenon, <2>2
  <2>8. {P(r) : r \in (rows[u] \ old) \cup new}
          = {P(r) : r \in rows[u] \ old} \cup {P(r) : r \in new}
    BY Zenon
  <2> QED BY Zenon, <1>0, <1>2, <1>4, <2>4, <2>6, <2>7, <2>8 DEF After
<1> QED BY <1>3, <1>4

\* A change of the rows of one table, with the keys it may touch.
LEMMA ChangeStep ==
  ASSUME CheckInv, FollowInv, NEW u \in Leaves, NEW op \in OPS,
         NEW old \in SUBSET rows[u], NEW new \in SUBSET (Keys \X Vals),
         NEW untouched, Change(u, op, old, new, untouched),
         Effective(op, old, new),
         KeyUnique((rows[u] \ old) \cup new), Replaces(u, op, old, new)
  PROVE  FollowInv'
<1> DEFINE out == Output(pub, u, op, old, new, untouched)
<1>1. /\ rows' = [rows EXCEPT ![u] = (rows[u] \ old) \cup new]
      /\ wal' = IF slot THEN wal \o out ELSE wal
      /\ bare' = Marked(u, old, new, untouched)
      /\ UNCHANGED <<pub, required, altered, raced, phase, store, complete, slot>>
  BY DEF Change, Service, Marked
<1>2. old \in SUBSET (Keys \X Vals) /\ pub \in PublicationType
  BY DEF FollowInv, RowsInv, CheckInv
<1>3. \/ out = <<>>
      \/ \E m \in Messages : out = <<m>> /\ m.table = PublishedAs(pub, u)
  BY <1>2, OutputType
<1> HIDE DEF out
<1>4. /\ rows'[u] = (rows[u] \ old) \cup new
      /\ \A t \in Leaves \ {u} : rows'[t] = rows[t]
  BY <1>1 DEF FollowInv, RowsInv
<1>5. RowsInv'
  <2>1. rows' \in [Leaves -> SUBSET (Keys \X Vals)]
    BY <1>1, <1>2 DEF FollowInv, RowsInv
  <2> QED BY Zenon, <1>4, <2>1 DEF FollowInv, RowsInv
<1>6. ASSUME NEW m \in Messages, out = <<m>>, slot
      PROVE  wal' = Append(wal, m)
  BY <1>1, <1>6 DEF FollowInv, StoreShape
<1>7. ASSUME out = <<>> \/ ~slot
      PROVE  wal' = wal
  BY <1>1, <1>7 DEF FollowInv, StoreShape
<1>8. wal' \in Seq(Messages)
  <2>1. wal \in Seq(Messages)
    BY DEF FollowInv, StoreShape
  <2>2. CASE out = <<>> \/ ~slot
    BY Zenon, <1>7, <2>1, <2>2
  <2>3. ASSUME NEW m \in Messages, out = <<m>>, slot
        PROVE  wal' \in Seq(Messages)
    <3>1. wal' = Append(wal, m)
      BY Zenon, <1>6, <2>3
    <3> HIDE <1>1
    <3> QED BY <2>1, <3>1
  <2> QED BY Zenon, <1>3, <2>2, <2>3
<1>9. StoreShape'
  BY <1>1, <1>8 DEF FollowInv, StoreShape
<1>10. ASSUME complete, altered = "no", NEW t \in required
       PROVE  Replays(t, wal', store[t], Carried(t)')
  <2>1. /\ slot /\ Accepted(pub) /\ wal \in Seq(Messages)
        /\ Replays(t, wal, store[t], Carried(t))
    BY Zenon, <1>10 DEF FollowInv, StoreShape
  <2>2. t \in Leaves
    BY <2>1, AcceptedLeaf
  <2>3. CASE t = u
    <3> DEFINE m == MessageOf(t, op, old, new, untouched)
    <3>1. out = <<m>>
      <4>1. u \in required /\ Accepted(pub)
        BY Zenon, <2>1, <2>3
      <4>3. old \in SUBSET (Keys \X Vals)
        BY Zenon, <1>2
      <4>2. Output(pub, u, op, old, new, untouched) = <<MessageOf(u, op, old, new, untouched)>>
        BY <4>1, <4>3, OutputWhole
      <4> QED BY Zenon, <2>3, <4>2 DEF out
    <3>2. /\ m.table = t /\ m.op = op /\ m.old = {r[1] : r \in old}
          /\ m.new = AsSent(new, untouched)
      BY Zenon DEF MessageOf
    <3>3. m \in Messages
      BY <1>2, <2>2, <2>3 DEF Messages, Leaves, AsSent, MessageOf
    <3> HIDE DEF m
    <3>4. After(t, m, Carried(t)) = Carried(t)'
      <4>1. RowsInv
        BY Zenon DEF FollowInv
      <4>2. m = MessageOf(u, op, old, new, untouched)
        BY Zenon, <2>3 DEF m
      <4>3. bare' = Marked(u, old, new, untouched) /\ rows'[u] = (rows[u] \ old) \cup new
        BY Zenon, <1>1, <1>4
      <4>4. After(u, m, Carried(u)) = Carried(u)'
        BY Zenon, <4>1, <4>2, <4>3, CarriedAfter
      <4> QED BY Zenon, <2>3, <4>4
    <3> QED BY Zenon, <1>6, <2>1, <3>1, <3>3, <3>4, ReplaysAppend
  <2>4. CASE t # u
    <3>1. Carried(t)' = Carried(t)
      <4>1. rows'[t] = rows[t]
        BY Zenon, <1>4, <2>2, <2>4
      <4>2. \A k : <<t, k>> \in bare' <=> <<t, k>> \in bare
        BY <1>1, <2>4 DEF Marked
      <4>3. \A r : LastCarried(t, r)' = LastCarried(t, r)
        BY Zenon, <4>2 DEF LastCarried
      <4> QED BY Zenon, <4>1, <4>3 DEF Carried
    <3>2. PublishedAs(pub, u) # t
      BY <2>1, <2>4 DEF PublishedAs, Root, Parents, Accepted
    <3>3. ASSUME NEW m \in Messages, out = <<m>>, m.table = PublishedAs(pub, u)
          PROVE  Replays(t, wal', store[t], Carried(t)')
      <4>1. After(t, m, Carried(t)) = Carried(t)
        BY Zenon, <3>2, <3>3 DEF After
      <4>2. Replays(t, Append(wal, m), store[t], After(t, m, Carried(t)))
        BY Zenon, <2>1, ReplaysAppend
      <4> QED BY Zenon, <1>6, <2>1, <3>1, <3>3, <4>1, <4>2
    <3> QED BY Zenon, <1>3, <1>7, <2>1, <3>1, <3>3
  <2> QED BY <2>3, <2>4
<1>11. Accepted(pub)' <=> Accepted(pub)
  BY <1>1 DEF Accepted, FullyPublished, Covered, PublishedAs
<1> QED BY Zenon, <1>1, <1>5, <1>9, <1>10, <1>11 DEF FollowInv
\* Changes of the source's rows.
LEMMA RowsStep ==
  ASSUME CheckInv, FollowInv, Source, ~\E p \in Publications : Alter(p)
  PROVE  FollowInv'
<1> USE DEF KeyUnique, Replaces, Effective
<1>0. /\ \A t \in Leaves : rows[t] \subseteq Keys \X Vals
      /\ \A t \in Leaves : \A r, q \in rows[t] : r[1] = q[1] => r = q
  BY DEF FollowInv, RowsInv
<1>1. ASSUME NEW t \in Leaves, NEW k \in Keys, NEW v \in Vals, Insert(t, k, v)
      PROVE  FollowInv'
  <2> DEFINE new == {<<k, v>>}
  <2>1. Change(t, "insert", {}, new, FALSE) /\ \A r \in rows[t] : r[1] # k
    BY Zenon, <1>1 DEF Insert
  <2>2. new \in SUBSET (Keys \X Vals) /\ {} \in SUBSET rows[t] /\ "insert" \in OPS
    BY DEF OPS
  <2>3. /\ \A r, q \in (rows[t] \ {}) \cup new : r[1] = q[1] => r = q
        /\ \A r \in rows[t] :
             r \in {} <=> r[1] \in {q[1] : q \in {}} \/ \E n \in new : n[1] = r[1]
    BY <1>0, <2>1
  <2>4. new # {}
    BY Zenon
  <2> HIDE DEF new
  <2> QED BY Zenon, <2>1, <2>2, <2>3, <2>4, ChangeStep
<1>2. ASSUME NEW t \in Leaves, NEW r \in rows[t], NEW v \in Vals, Update(t, r, v)
      PROVE  FollowInv'
  <2> DEFINE new == {<<r[1], v>>}
  <2>1. Change(t, "update", {r}, new, FALSE)
    BY Zenon, <1>2 DEF Update
  <2>2. new \in SUBSET (Keys \X Vals) /\ {r} \in SUBSET rows[t] /\ "update" \in OPS
    BY <1>0 DEF OPS
  <2>3. /\ \A p, q \in (rows[t] \ {r}) \cup new : p[1] = q[1] => p = q
        /\ \A p \in rows[t] :
             p \in {r} <=> p[1] \in {q[1] : q \in {r}} \/ \E n \in new : n[1] = p[1]
    BY <1>0
  <2>4. new # {}
    BY Zenon
  <2> HIDE DEF new
  <2> QED BY Zenon, <2>1, <2>2, <2>3, <2>4, ChangeStep
<1>3. ASSUME NEW t \in Leaves, NEW r \in rows[t], Delete(t, r)
      PROVE  FollowInv'
  <2>1. Change(t, "delete", {r}, {}, FALSE)
    BY Zenon, <1>3 DEF Delete
  <2>2. /\ {} \in SUBSET (Keys \X Vals) /\ {r} \in SUBSET rows[t] /\ "delete" \in OPS
        /\ {r} # {}
    BY DEF OPS
  <2>3. /\ \A p, q \in (rows[t] \ {r}) \cup {} : p[1] = q[1] => p = q
        /\ \A p \in rows[t] :
             p \in {r} <=> p[1] \in {q[1] : q \in {r}} \/ \E n \in {} : n[1] = p[1]
    BY Zenon, <1>0
  <2> QED BY Zenon, <2>1, <2>2, <2>3, ChangeStep
<1>4. ASSUME NEW t \in Leaves, Truncate(t)
      PROVE  FollowInv'
  <2>1. Change(t, "truncate", rows[t], {}, FALSE)
    BY Zenon, <1>4 DEF Truncate
  <2>2. {} \in SUBSET (Keys \X Vals) /\ rows[t] \in SUBSET rows[t] /\ "truncate" \in OPS
    BY Zenon DEF OPS
  <2>3. \A p, q \in (rows[t] \ rows[t]) \cup {} : p[1] = q[1] => p = q
    OBVIOUS
  <2> QED BY Zenon, <2>1, <2>2, <2>3, ChangeStep
<1>5. ASSUME NEW t \in Leaves, NEW r \in rows[t], UpdateOthers(t, r)
      PROVE  FollowInv'
  <2>1. Change(t, "update", {r}, {r}, TRUE)
    BY Zenon, <1>5 DEF UpdateOthers
  <2>2. {r} \in SUBSET (Keys \X Vals) /\ {r} \in SUBSET rows[t] /\ "update" \in OPS /\ {r} # {}
    BY <1>0 DEF OPS
  <2>3. /\ \A p, q \in (rows[t] \ {r}) \cup {r} : p[1] = q[1] => p = q
        /\ \A p \in rows[t] :
             p \in {r} <=> p[1] \in {q[1] : q \in {r}} \/ \E n \in {r} : n[1] = p[1]
    BY <1>0
  <2> QED BY Zenon, <2>1, <2>2, <2>3, ChangeStep
<1> QED BY Zenon, <1>1, <1>2, <1>3, <1>4, <1>5 DEF Source

------------------------------------------------------------------------------
\* The service.

\* Steps that leave rows, log, store and publication alone.
LEMMA FollowKept ==
  ASSUME FollowInv, UNCHANGED <<pub, rows, wal, bare, slot, required, store, complete>>,
         raced' \in {raced, FALSE}, altered' = altered,
         phase' \in {"prepare", "recreate", "streaming"} => complete
  PROVE  FollowInv'
<1>1. Accepted(pub)' <=> Accepted(pub)
  BY DEF Accepted, FullyPublished, Covered, PublishedAs
<1>2. RowsInv' /\ StoreShape' /\ \A t : Carried(t)' = Carried(t)
  BY DEF FollowInv, RowsInv, StoreShape, Carried, LastCarried
<1>3. raced' => altered' # "no"
  BY Zenon DEF FollowInv
<1> QED BY <1>1, <1>2, <1>3 DEF FollowInv

\* The publication is created only when there is none, which an accepted one is not.
LEMMA CreatedMissing ==
  ASSUME FollowInv, UNCHANGED <<rows, wal, bare, slot, required, store, complete, altered, raced>>,
         ~pub.exists, phase' \in {"prepare", "recreate", "streaming"} => complete
  PROVE  FollowInv'
<1>1. ~(complete /\ altered = "no")
  BY Zenon DEF FollowInv, Accepted, FullyPublished
<1> QED BY Zenon, <1>1 DEF FollowInv, RowsInv, StoreShape

\* The coverage query: before the copy, alterations are forgotten.
LEMMA FollowCoverage ==
  ASSUME FollowInv, publication_coverage
  PROVE  FollowInv'
<1>1. /\ UNCHANGED <<pub, rows, wal, bare, slot, required, store, complete>>
      /\ raced' = FALSE /\ altered' = (IF complete THEN altered ELSE "no")
      /\ phase' \in {"down", "semantics"}
  BY Zenon DEF publication_coverage
<1>2. CASE complete
  BY Zenon, <1>1, <1>2, FollowKept
<1>3. CASE ~complete
  BY <1>1, <1>3 DEF FollowInv, RowsInv, StoreShape
<1> QED BY <1>2, <1>3

\* The copy is of the source as it is when the slot is created.
LEMMA FollowCopy ==
  ASSUME CheckInv, FollowInv, Copy
  PROVE  FollowInv'
<1>1. /\ slot' = TRUE /\ complete' = TRUE /\ wal' = <<>>
      /\ store' = [t \in Tables |-> IF t \in required THEN Rows(t) ELSE {}]
      /\ bare' = {} /\ UNCHANGED <<pub, rows, required, altered, raced>>
      /\ phase = "copy"
  BY DEF Copy
<1>2. required \subseteq Tables
  BY PublicationAssumption DEF CheckInv
<1>3. ASSUME altered = "no"
      PROVE  /\ Accepted(pub)
             /\ \A t \in required : Replays(t, <<>>, store'[t], Carried(t)')
  <2>1. Accepted(pub)
    BY <1>1, <1>3 DEF FollowInv, CheckInv
  <2>2. \A t \in required : store'[t] = rows[t]
    BY <1>1, <1>2, <2>1, AcceptedLeaf
  <2>4. \A t : Carried(t)' = rows[t]
    BY <1>1 DEF Carried, LastCarried
  <2> QED BY Zenon, <2>1, <2>2, <2>4, ReplaysNothing
<1>4. Accepted(pub)' <=> Accepted(pub)
  BY <1>1 DEF Accepted, FullyPublished, Covered, PublishedAs
<1>5. RowsInv' /\ StoreShape'
  <2>1. store' = [t \in Tables |-> store'[t]] /\ wal' \in Seq(Messages)
    BY <1>1
  <2> QED BY <1>1, <2>1 DEF FollowInv, RowsInv, StoreShape
<1> QED BY Zenon, <1>1, <1>3, <1>4, <1>5 DEF FollowInv

\* A batch is applied, or ends the run.
LEMMA FollowReceive ==
  ASSUME CheckInv, FollowInv, Receive
  PROVE  FollowInv'
<1> DEFINE m == Head(wal)
<1>1. /\ UNCHANGED <<pub, rows, bare, slot, required, complete, altered, raced>>
      /\ phase = "streaming" /\ wal # <<>>
  BY Zenon DEF Receive
<1>2. complete /\ wal \in Seq(Messages) /\ m \in Messages
  BY <1>1 DEF FollowInv, StoreShape
<1>3. CASE phase' = "down" /\ UNCHANGED <<wal, store>>
  BY <1>1, <1>3, FollowKept
<1>4. CASE ~(phase' = "down" /\ UNCHANGED <<wal, store>>)
  <2> DEFINE kept == {r \in store[m.table] :
                        r[1] \notin m.old /\ \A n \in m.new : n[1] # r[1]}
  <2>1. /\ wal' = Tail(wal) /\ phase' = phase
        /\ store' = IF m.table \in required
                    THEN [store EXCEPT ![m.table] = kept \cup m.new] ELSE store
        /\ ~(m.op = "truncate" /\ m.table \in required)
    BY Zenon, <1>4 DEF Receive
  <2>2. wal' \in Seq(Messages)
    BY <1>1, <1>2, <2>1
  <2>3. store' = [t \in Tables |-> store'[t]]
    BY Zenon, <2>1 DEF FollowInv, StoreShape
  <2>4. required \subseteq Tables
    BY PublicationAssumption DEF CheckInv
  <2>5. ASSUME NEW t \in required
        PROVE  store'[t] = After(t, m, store[t])
    <3> HIDE DEF m
    <3>1. CASE m.table = t
      BY Zenon, <2>1, <2>4, <3>1 DEF FollowInv, StoreShape, After
    <3>2. CASE m.table # t
      BY <2>1, <2>4, <3>2 DEF FollowInv, StoreShape, After
    <3> QED BY <3>1, <3>2
  <2>6. ASSUME altered = "no", NEW t \in required
        PROVE  Replays(t, wal', store'[t], Carried(t)')
    <3>1. Replays(t, wal, store[t], Carried(t))
      BY Zenon, <1>2, <2>6 DEF FollowInv
    <3>2. Replays(t, Tail(wal), After(t, m, store[t]), Carried(t))
      BY Zenon, <1>1, <1>2, <3>1, ReplaysTail
    <3>3. Carried(t)' = Carried(t)
      BY <1>1 DEF Carried, LastCarried
    <3> QED BY Zenon, <2>1, <2>5, <3>2, <3>3
  <2>7. Accepted(pub)' <=> Accepted(pub)
    BY <1>1 DEF Accepted, FullyPublished, Covered, PublishedAs
  <2>8. RowsInv' /\ StoreShape'
    BY <1>1, <1>2, <2>2, <2>3 DEF FollowInv, RowsInv, StoreShape
  <2> QED BY <1>1, <2>6, <2>7, <2>8 DEF FollowInv
<1> QED BY <1>3, <1>4

\* FollowInv is inductive.
LEMMA FollowInvariant == Spec => []FollowInv
<1>1. Init => FollowInv
  <2> SUFFICES ASSUME Init PROVE FollowInv
    OBVIOUS
  <2>1. RowsInv
    BY Zenon DEF Init, RowsInv, KeyUnique
  <2>2. store = [t \in Tables |-> store[t]] /\ wal \in Seq(Messages)
    BY DEF Init
  <2>3. StoreShape
    BY Zenon, <2>2 DEF Init, StoreShape
  <2> QED BY Zenon, <2>1, <2>3 DEF Init, FollowInv
<1>2. CheckInv /\ FollowInv /\ [Next]_vars => FollowInv'
  <2> SUFFICES ASSUME CheckInv, FollowInv, [Next]_vars
               PROVE  FollowInv'
    OBVIOUS
  <2>1. CASE Source
    <3>1. CASE \E p \in Publications : Alter(p)
      <4>1. /\ altered' # "no" /\ UNCHANGED <<rows, wal, bare, slot, store, complete, phase>>
        BY <3>1 DEF Alter, Service
      <4> QED BY <4>1 DEF FollowInv, RowsInv, StoreShape
    <3> QED BY <2>1, <3>1, RowsStep
  <2>2. CASE Start \/ Validate \/ Crash \/ \E t \in Tables : publication_table_semantics(t)
    <3>1. /\ UNCHANGED <<pub, rows, wal, bare, slot, required, store, complete, raced, altered>>
          /\ phase' \in {"prepare", "recreate", "streaming"} => complete
      BY <2>2 DEF Start, Validate, Crash, publication_table_semantics
    <3> QED BY <3>1, FollowKept
  <2>3. CASE \/ ensure_publication("ensure", "create", "coverage")
             \/ ensure_publication("prepare", "recreate", "streaming")
    <3>1. /\ UNCHANGED <<pub, rows, wal, bare, slot, required, store, complete, raced, altered>>
          /\ phase' \in {"prepare", "recreate", "streaming"} => complete
      BY Zenon, <2>3 DEF ensure_publication, FollowInv, StoreShape
    <3> QED BY <3>1, FollowKept
  <2>4. CASE \/ create_publication("create", "coverage")
             \/ create_publication("recreate", "streaming")
    <3>1. /\ UNCHANGED <<rows, wal, bare, slot, required, store, complete, raced, altered>>
          /\ phase' \in {"prepare", "recreate", "streaming"} => complete
          /\ pub.exists => UNCHANGED pub
      BY Zenon, <2>4 DEF create_publication, FollowInv, StoreShape
    <3> QED BY <3>1, FollowKept, CreatedMissing
  <2>5. CASE UNCHANGED vars
    <3>1. UNCHANGED <<pub, rows, wal, bare, slot, required, store, complete, raced, altered, phase>>
      BY <2>5 DEF vars
    <3>2. phase' \in {"prepare", "recreate", "streaming"} => complete
      BY <3>1 DEF FollowInv, StoreShape
    <3> QED BY <3>1, <3>2, FollowKept
  <2> QED BY <2>1, <2>2, <2>3, <2>4, <2>5, FollowCoverage, FollowCopy, FollowReceive DEF Next
<1> QED BY <1>1, <1>2, CheckInvariant, PTL DEF Spec

\* As long as the publication is left alone from the checks of the first start on, a
\* caught-up stream holds exactly the source's rows, each as its last change carried it
\* (an update leaves out an unchanged TOAST value, and so does the store then), for all
\* tables, partitionings, plans and publications: the checks come before the copy
\* (ensure_publication_covers before run_initial_snapshot_if_enabled), every change
\* of a required table is then sent under its name, and a TRUNCATE ends the stream.
THEOREM StoreFollows == Spec => []StoreFollowsSource
<1>1. CheckInv /\ FollowInv => StoreFollowsSource
  <2> SUFFICES ASSUME CheckInv, FollowInv, phase = "streaming", wal = <<>>, altered = "no",
                      NEW t \in required
               PROVE  store[t] = UNION {Carried(l) : l \in {l \in Leaves : l = t \/ Root(l) = t}}
    BY Zenon DEF StoreFollowsSource
  <2>1. Accepted(pub) /\ Replays(t, <<>>, store[t], Carried(t))
    BY Zenon DEF FollowInv, StoreShape
  <2>2. store[t] = Carried(t) /\ {l \in Leaves : l = t \/ Root(l) = t} = {t}
    BY Zenon, <2>1, ReplaysNothing, AcceptedLeaf
  <2>3. UNION {Carried(l) : l \in {t}} = Carried(t)
    BY Zenon
  <2> QED BY Zenon, <2>2, <2>3
<1> QED BY <1>1, CheckInvariant, FollowInvariant, PTL
==============================================================================
