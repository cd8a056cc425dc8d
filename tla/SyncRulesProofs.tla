--------------------------- MODULE SyncRulesProofs ---------------------------
(***************************************************************************)
(* Deploys of sync rules, for every number of concurrent requests, every   *)
(* set of rule texts and tokens, and any number of failed writes, crashes  *)
(* and restarts.                                                           *)
(*                                                                         *)
(* The argument rests on version numbers.  A request carries the version   *)
(* it staged across its five critical sections while other requests drop   *)
(* candidates and stage new ones.  Versions only grow, so a candidate that *)
(* still has the request's version is the one whose plan the request read, *)
(* and the contract it compared is the contract that is promoted.          *)
(***************************************************************************)
EXTENDS SyncRules, TLAPS

\* Equal versions have equal texts.
Agree(S, T) == \A e \in S, f \in T : e.version = f.version => e.content = f.content

\* What holds of the rule state, in memory and in the file.
StateOK(s, layout) ==
    /\ s \in PersistedState
    /\ Len(s.history) <= HistoryLimit
    /\ Contract(s.current.content) = layout
    /\ s.next # None => /\ s.next.version > s.current.version
                        /\ s.next.base = s.current.version
    /\ \A e \in Entries(s) : e.version <= s.revision
    /\ Agree(Entries(s), Entries(s))

\* The plans in memory are those of the entries beside them.
MemOK(m, layout) ==
    /\ m \in RuntimeState
    /\ StateOK(m.persisted, layout)
    /\ m.current_plan = m.persisted.current.content
    /\ m.persisted.next # None => m.next_plan = m.persisted.next.content

\* The file is an earlier state of the memory it is compared with.
Behind(f, s) ==
    f # None => f.revision <= s.revision /\ Agree(Entries(f), Entries(s))

FileOK ==
    /\ file # None => StateOK(file, booted) /\ acked <= file.current.version
    /\ file = None => acked = 0

MemoryOK ==
    Up => MemOK(mem, booted) /\ Behind(file, mem.persisted) /\ acked <= mem.persisted.current.version

\* A request that has read a plan and still holds its candidate has read the plan
\* of this candidate, and past the check of the contract it is one for the store.
RequestOK(r) ==
    /\ pc[r] \in {"idle", "read_plan"} <=> req[r].plan = None
    /\ (pc[r] = "mark_activating" /\ ~req[r].layout_change) \/ pc[r] \in {"reset", "activate"}
         => Contract(req[r].plan) = booted
    /\ ~Up => pc[r] = "idle" /\ req[r] = NoRequest
    /\ Up => /\ req[r].version <= mem.persisted.revision
             /\ Holds(r) /\ req[r].plan # None => req[r].plan = mem.persisted.next.content

\* The store has the layout of the active rules, if the configured ones have it.
StoreOK == Up /\ Contract(configured) = booted => store = booted

RulesInv ==
    /\ StoreOK
    /\ acked \in Nat
    /\ mem \in RuntimeState \cup {None} /\ file \in PersistedState \cup {None}
    /\ pc \in [Requests -> Sections] /\ req \in [Requests -> RequestState]
    /\ answer \in {None, "accepted", "refused"}
    /\ FileOK /\ MemoryOK
    /\ \A r \in Requests : RequestOK(r)

----------------------------------------------------------------------------
\* The operators on rule states.

\* push_history adds at most its entry and keeps the limit.
LEMMA PushHistory ==
    ASSUME NEW h \in Seq(Entry), NEW e \in Entry, Len(h) <= HistoryLimit
    PROVE  /\ push_history(h, e) \in Seq(Entry)
           /\ Len(push_history(h, e)) <= HistoryLimit
           /\ Range(push_history(h, e)) \subseteq Range(h) \cup {e}
<1> DEFINE longer == Append(h, e)
<1>1. longer \in Seq(Entry) /\ Len(longer) = Len(h) + 1
  OBVIOUS
<1>2. Range(longer) \subseteq Range(h) \cup {e}
  BY DEF Range
<1>3. HistoryLimit \in Nat /\ Len(h) \in Nat
  BY RulesAssumption
<1>4. CASE Len(longer) > HistoryLimit
  <2>1. push_history(h, e) = Tail(longer)
    BY <1>4, Zenon DEF push_history
  <2>2. /\ Tail(longer) \in Seq(Entry) /\ Len(Tail(longer)) = Len(h)
        /\ \A i \in 1..Len(Tail(longer)) : Tail(longer)[i] = longer[i + 1]
    BY <1>1, <1>3
  <2>3. Range(Tail(longer)) \subseteq Range(longer)
    BY <1>1, <1>3, <2>2 DEF Range
  <2> QED BY <1>2, <2>1, <2>2, <2>3, Zenon
<1>5. CASE ~(Len(longer) > HistoryLimit)
  <2>1. push_history(h, e) = longer
    BY <1>5, Zenon DEF push_history
  <2> QED BY <1>1, <1>2, <1>3, <1>5, <2>1
<1> QED BY <1>4, <1>5, Zenon

\* The parts of a well-formed state.
LEMMA StateParts ==
    ASSUME NEW s \in PersistedState
    PROVE  /\ s # None
           /\ s.current \in Entry /\ s.current.version \in Nat
           /\ s.next # None => s.next \in Entry /\ s.next.version \in Nat
           /\ s.history \in Seq(Entry) /\ s.revision \in Nat
           /\ Entries(s) = Range(s.history) \cup {s.current}
                             \cup (IF s.next = None THEN {} ELSE {s.next})
           /\ Entries(s) \subseteq Entry
           /\ \A e \in Entries(s) : e.version \in Nat
<1>1. s # None
  BY RulesAssumption, Zenon
<1>2. /\ s.current \in Entry /\ s.next \in Entry \cup {None}
      /\ s.history \in Seq(Entry) /\ s.revision \in Versions
  BY Zenon DEF PersistedState
<1>3. Versions \subseteq Nat
  BY RulesAssumption DEF Versions
<1>4. \A e \in Entry : e.version \in Nat
  BY <1>3, Zenon DEF Entry
<1>5. Range(s.history) \subseteq Entry
  BY <1>2 DEF Range
<1>6. Entries(s) = Range(s.history) \cup {s.current}
                     \cup (IF s.next = None THEN {} ELSE {s.next})
  BY <1>1 DEF Entries
<1> QED BY <1>1, <1>2, <1>3, <1>4, <1>5, <1>6, Zenon

\* An entry changes its status and nothing else.
LEMMA StatusOnly ==
    ASSUME NEW e \in Entry,
           NEW status \in {"pending", "activating", "active", "failed", "retired"}
    PROVE  /\ WithStatus(e, status) \in Entry
           /\ WithStatus(e, status).version = e.version
           /\ WithStatus(e, status).content = e.content
           /\ WithStatus(e, status).base = e.base
BY DEF WithStatus, RulesEntry, Entry

\* An entry of s with the version and text of f.
Twin(f, s) == \E e \in Entries(s) : e.version = f.version /\ e.content = f.content

\* t follows s in memory: versions grow, and an entry of t is one of s under a
\* possibly new status, or has a version that s has not handed out.  The active
\* rules change only to rules based on them.
Descends(s, t) ==
    /\ s.revision <= t.revision
    /\ s.current.version <= t.current.version
    /\ t.current = s.current \/ t.current.base = s.current.version
    /\ \A f \in Entries(t) : Twin(f, s) \/ f.version > s.revision
    /\ t.next # None =>
         \/ /\ s.next # None
            /\ t.next.version = s.next.version /\ t.next.content = s.next.content
         \/ t.next.version > s.revision

\* The entries of t beyond those of s have the text c.
OneNewText(s, t, c) ==
    \A f \in Entries(t) :
        \/ Twin(f, s)
        \/ f.version > s.revision /\ f.version <= t.revision /\ f.content = c

\* Then versions of t name one text as those of s do.
LEMMA VersionsKept ==
    ASSUME NEW s, StateOK(s, booted), NEW t \in PersistedState, NEW c,
           s.revision <= t.revision, OneNewText(s, t, c)
    PROVE  /\ \A f \in Entries(t) : f.version <= t.revision
           /\ Agree(Entries(t), Entries(t))
<1>1. /\ s \in PersistedState /\ Agree(Entries(s), Entries(s))
      /\ \A e \in Entries(s) : e.version <= s.revision
  BY Zenon DEF StateOK
<1>2. /\ s.revision \in Nat /\ t.revision \in Nat
      /\ \A e \in Entries(s) : e.version \in Nat
      /\ \A f \in Entries(t) : f.version \in Nat
  BY <1>1, StateParts, Zenon
<1>3. ASSUME NEW f \in Entries(t), Twin(f, s)
      PROVE  f.version <= s.revision
  BY <1>1, <1>3, Zenon DEF Twin
<1>4. ASSUME NEW f \in Entries(t), ~Twin(f, s)
      PROVE  f.version > s.revision /\ f.version <= t.revision /\ f.content = c
  BY <1>4, Zenon DEF OneNewText
<1>5. ASSUME NEW f \in Entries(t)
      PROVE  f.version <= t.revision
  <2>1. CASE Twin(f, s)
    <3>1. f.version <= s.revision
      BY <1>3, <2>1, Zenon
    <3> QED BY <1>2, <3>1
  <2>2. CASE ~Twin(f, s)
    BY <1>4, <2>2, Zenon
  <2> QED BY <2>1, <2>2, Zenon
<1>6. ASSUME NEW f \in Entries(t), NEW g \in Entries(t), f.version = g.version
      PROVE  f.content = g.content
  <2>1. CASE Twin(f, s) /\ Twin(g, s)
    BY <1>1, <1>6, <2>1 DEF Twin, Agree
  <2>2. CASE Twin(f, s) /\ ~Twin(g, s)
    <3>1. f.version <= s.revision /\ g.version > s.revision
      BY <1>3, <1>4, <2>2, Zenon
    <3> QED BY <1>2, <1>6, <3>1
  <2>3. CASE ~Twin(f, s) /\ Twin(g, s)
    <3>1. g.version <= s.revision /\ f.version > s.revision
      BY <1>3, <1>4, <2>3, Zenon
    <3> QED BY <1>2, <1>6, <3>1
  <2>4. CASE ~Twin(f, s) /\ ~Twin(g, s)
    BY <1>4, <2>4, Zenon
  <2> QED BY <2>1, <2>2, <2>3, <2>4, Zenon
<1> QED BY <1>5, <1>6, Zenon DEF Agree

\* A file behind s is behind what follows s.
LEMMA StillBehind ==
    ASSUME NEW f, f # None => StateOK(f, booted), NEW s \in PersistedState, NEW t \in PersistedState,
           Behind(f, s), Descends(s, t)
    PROVE  Behind(f, t)
<1> SUFFICES ASSUME f # None
             PROVE  f.revision <= t.revision /\ Agree(Entries(f), Entries(t))
  BY Zenon DEF Behind
<1>1. /\ f \in PersistedState /\ \A e \in Entries(f) : e.version <= f.revision
      /\ f.revision <= s.revision /\ Agree(Entries(f), Entries(s))
      /\ s.revision <= t.revision
  BY Zenon DEF StateOK, Behind, Descends
<1>2. /\ f.revision \in Nat /\ s.revision \in Nat /\ t.revision \in Nat
      /\ \A e \in Entries(f) : e.version \in Nat
      /\ \A e \in Entries(t) : e.version \in Nat
  BY <1>1, StateParts, Zenon
<1>3. ASSUME NEW e \in Entries(f), NEW g \in Entries(t), e.version = g.version
      PROVE  e.content = g.content
  <2>1. ~(g.version > s.revision)
    BY <1>1, <1>2, <1>3
  <2>2. Twin(g, s)
    BY <2>1, Zenon DEF Descends
  <2> QED BY <1>1, <1>3, <2>2, Zenon DEF Twin, Agree
<1> QED BY <1>1, <1>2, <1>3 DEF Agree

\* Entries of a state that was built from s and the entries X.
LEMMA BuiltFrom ==
    ASSUME NEW s \in PersistedState, NEW t \in PersistedState, NEW X,
           Range(t.history) \subseteq Range(s.history) \cup X,
           t.current \in X \cup {s.current},
           t.next \in X \cup {None}
    PROVE  Entries(t) \subseteq Entries(s) \cup X
<1>1. Entries(s) = Range(s.history) \cup {s.current}
                     \cup (IF s.next = None THEN {} ELSE {s.next})
  BY StateParts, Zenon
<1>2. Entries(t) = Range(t.history) \cup {t.current}
                     \cup (IF t.next = None THEN {} ELSE {t.next})
  BY StateParts, Zenon
<1> QED BY <1>1, <1>2

\* Entries of s under another status, and nothing else, make t descend from s.
LEMMA TwinsDescend ==
    ASSUME NEW s, StateOK(s, booted), NEW t \in PersistedState, NEW X,
           Entries(t) \subseteq Entries(s) \cup X,
           \A f \in X : Twin(f, s),
           t.revision = s.revision
    PROVE  /\ \A f \in Entries(t) : Twin(f, s)
           /\ \A f \in Entries(t) : f.version <= t.revision
           /\ Agree(Entries(t), Entries(t))
<1>1. ASSUME NEW f \in Entries(t)
      PROVE  Twin(f, s)
  BY Zenon DEF Twin
<1>2. OneNewText(s, t, None)
  BY <1>1, Zenon DEF OneNewText
<1>3. s.revision <= t.revision
  BY StateParts DEF StateOK
<1> QED BY <1>1, <1>2, <1>3, VersionsKept

\* The next and the current entry of s, under another status, are among them.
LEMMA StatusTwin ==
    ASSUME NEW s \in PersistedState,
           NEW status \in {"pending", "activating", "active", "failed", "retired"}
    PROVE  /\ Twin(WithStatus(s.current, status), s)
           /\ s.next # None => Twin(WithStatus(s.next, status), s)
BY StateParts, StatusOnly DEF Twin

\* What every operation on the memory establishes.
StepOK(n) == MemOK(n, booted) /\ Descends(mem.persisted, n.persisted)

\* stage_candidate: the candidate gets a version nobody has seen.
LEMMA CandidateStep ==
    ASSUME MemOK(mem, booted), mem.persisted.next = None, NEW e \in Entry,
           e.version = mem.persisted.revision + 1,
           e.base = mem.persisted.current.version
    PROVE  StepOK(WithCandidate(e))
<1> DEFINE s == mem.persisted
           n == WithCandidate(e)
           t == n.persisted
<1>1. /\ s \in PersistedState /\ Len(s.history) <= HistoryLimit /\ StateOK(s, booted)
      /\ mem.current_plan \in Contents /\ mem.current_plan = s.current.content
      /\ Contract(s.current.content) = booted
  BY Zenon DEF MemOK, StateOK, RuntimeState
<1>2. /\ s.current \in Entry /\ s.current.version \in Nat /\ s.revision \in Nat
      /\ s.history \in Seq(Entry) /\ s.current \in Entries(s)
      /\ e # None /\ e.content \in Contents /\ e.version \in Versions
      /\ s.current.version <= s.revision
  <2>1. /\ s.current \in Entry /\ s.current.version \in Nat /\ s.revision \in Nat
        /\ s.history \in Seq(Entry) /\ s.current \in Entries(s)
    BY <1>1, StateParts, Zenon
  <2>2. e # None
    BY RulesAssumption, Zenon
  <2>3. e.content \in Contents /\ e.version \in Versions
    BY DEF Entry
  <2>4. s.current.version <= s.revision
    BY <1>1, <2>1, Zenon DEF StateOK
  <2> QED BY <2>1, <2>2, <2>3, <2>4, Zenon
<1>3. /\ n = [persisted |-> t, current_plan |-> mem.current_plan, next_plan |-> e.content]
      /\ t = [current |-> s.current, next |-> e,
              history |-> push_history(s.history, e), revision |-> e.version]
  BY Zenon DEF WithCandidate, RuntimeRules, PersistedRules
<1> HIDE DEF s, n, t
<1>4. /\ push_history(s.history, e) \in Seq(Entry)
      /\ Len(push_history(s.history, e)) <= HistoryLimit
      /\ Range(push_history(s.history, e)) \subseteq Range(s.history) \cup {e}
  BY <1>1, <1>2, PushHistory, Zenon
<1>5. t \in PersistedState
  BY <1>2, <1>3, <1>4, Zenon DEF PersistedState
<1>6. n \in RuntimeState
  BY <1>1, <1>2, <1>3, <1>5, Zenon DEF RuntimeState
<1>7. Entries(t) \subseteq Entries(s) \cup {e}
  BY <1>1, <1>3, <1>4, <1>5, BuiltFrom, Zenon
<1>8. /\ e.version > s.revision /\ e.version <= t.revision /\ s.revision <= t.revision
      /\ e.version > s.current.version
  BY <1>2, <1>3 DEF s
<1>9. OneNewText(s, t, e.content)
  BY <1>7, <1>8, Zenon DEF OneNewText, Twin
<1>10. /\ \A f \in Entries(t) : f.version <= t.revision
       /\ Agree(Entries(t), Entries(t))
  BY <1>1, <1>5, <1>8, <1>9, VersionsKept, Zenon
<1>11. StateOK(t, booted)
  BY <1>1, <1>3, <1>4, <1>5, <1>8, <1>10, Zenon DEF StateOK, s
<1>12. MemOK(n, booted)
  BY <1>1, <1>3, <1>6, <1>11 DEF MemOK, t
<1>13. Descends(s, t)
  <2>1. \A f \in Entries(t) : Twin(f, s) \/ f.version > s.revision
    BY <1>9, Zenon DEF OneNewText
  <2> QED BY <1>2, <1>3, <1>8, <2>1 DEF Descends
<1> QED BY <1>12, <1>13, Zenon DEF StepOK, s, t, n

\* n is made from the memory and the entries X without a new candidate.
Keeps(n, X) ==
    /\ n.persisted.revision = mem.persisted.revision
    /\ Len(n.persisted.history) <= HistoryLimit
    /\ Range(n.persisted.history) \subseteq Range(mem.persisted.history) \cup X
    /\ n.persisted.current \in X \cup {mem.persisted.current}
    /\ n.persisted.next \in X \cup {None}
    /\ \A f \in X : Twin(f, mem.persisted)
    /\ Contract(n.persisted.current.content) = booted
    /\ n.current_plan = n.persisted.current.content
    /\ mem.persisted.current.version <= n.persisted.current.version
    /\ \/ n.persisted.current = mem.persisted.current
       \/ n.persisted.current.base = mem.persisted.current.version
    /\ n.persisted.next # None =>
         /\ mem.persisted.next # None
         /\ n.persisted.current = mem.persisted.current
         /\ n.persisted.next.version = mem.persisted.next.version
         /\ n.persisted.next.content = mem.persisted.next.content
         /\ n.persisted.next.base = mem.persisted.next.base
         /\ n.next_plan = mem.next_plan

\* Such an operation keeps the memory in order.
LEMMA NoCandidateStep ==
    ASSUME MemOK(mem, booted), NEW n \in RuntimeState, NEW X, Keeps(n, X)
    PROVE  StepOK(n)
<1> DEFINE s == mem.persisted
           t == n.persisted
<1>1. s \in PersistedState /\ StateOK(s, booted) /\ t \in PersistedState
  BY Zenon DEF MemOK, StateOK, RuntimeState
<1>2. Entries(t) \subseteq Entries(s) \cup X
  BY <1>1, BuiltFrom, Zenon DEF Keeps
<1>3. /\ \A f \in Entries(t) : Twin(f, s)
      /\ \A f \in Entries(t) : f.version <= t.revision
      /\ Agree(Entries(t), Entries(t))
  BY <1>1, <1>2, TwinsDescend, Zenon DEF Keeps
<1>4. StateOK(t, booted)
  BY <1>1, <1>3, Zenon DEF StateOK, Keeps
<1>5. MemOK(n, booted)
  BY <1>4, Zenon DEF MemOK, Keeps
<1>6. s.revision <= t.revision
  BY <1>1, StateParts DEF Keeps
<1>7. Descends(s, t)
  BY <1>3, <1>6, Zenon DEF Descends, Keeps
<1> QED BY <1>5, <1>7, Zenon DEF StepOK

\* mark_activating.
LEMMA MarkedStep ==
    ASSUME MemOK(mem, booted), mem.persisted.next # None
    PROVE  StepOK(Marked(WithStatus(mem.persisted.next, "activating")))
<1> DEFINE s == mem.persisted
           e == WithStatus(s.next, "activating")
           n == Marked(e)
<1>1. /\ s \in PersistedState /\ Len(s.history) <= HistoryLimit
      /\ mem.current_plan \in Contents /\ mem.next_plan \in Contents \cup {None}
      /\ mem.current_plan = s.current.content /\ Contract(s.current.content) = booted
  BY Zenon DEF MemOK, StateOK, RuntimeState
<1>2. /\ s.current \in Entry /\ s.current.version \in Nat /\ s.revision \in Versions
      /\ s.history \in Seq(Entry) /\ s.next \in Entry
  BY <1>1, StateParts, Zenon DEF PersistedState
<1>3. /\ e \in Entry /\ e.version = s.next.version /\ e.content = s.next.content
      /\ e.base = s.next.base /\ Twin(e, s) /\ e # None
  BY <1>1, <1>2, StatusOnly, StatusTwin, RulesAssumption, Zenon
<1>4. n = [persisted |-> [current |-> s.current, next |-> e,
                          history |-> push_history(s.history, e), revision |-> s.revision],
           current_plan |-> mem.current_plan, next_plan |-> mem.next_plan]
  BY Zenon DEF Marked, RuntimeRules, PersistedRules
<1> HIDE DEF n, e
<1>5. /\ push_history(s.history, e) \in Seq(Entry)
      /\ Len(push_history(s.history, e)) <= HistoryLimit
      /\ Range(push_history(s.history, e)) \subseteq Range(s.history) \cup {e}
  BY <1>1, <1>2, <1>3, PushHistory, Zenon
<1>6. n \in RuntimeState
  <2>1. n.persisted \in PersistedState
    BY <1>2, <1>3, <1>4, <1>5, Zenon DEF PersistedState
  <2> QED BY <1>1, <1>4, <2>1, Zenon DEF RuntimeState
<1>7. Keeps(n, {e})
  BY <1>1, <1>2, <1>3, <1>4, <1>5 DEF Keeps
<1>8. StepOK(n)
  BY <1>6, <1>7, NoCandidateStep, Zenon
<1> QED BY <1>8, Zenon DEF n, e

\* The take() that drops another request's candidate.
LEMMA TakeNextStep ==
    ASSUME MemOK(mem, booted)
    PROVE  StepOK(TakeNext)
<1> DEFINE s == mem.persisted
           n == TakeNext
<1>1. /\ s \in PersistedState /\ Len(s.history) <= HistoryLimit
      /\ mem.current_plan \in Contents /\ mem.next_plan \in Contents \cup {None}
      /\ mem.current_plan = s.current.content /\ Contract(s.current.content) = booted
  BY Zenon DEF MemOK, StateOK, RuntimeState
<1>2. /\ s.current \in Entry /\ s.current.version \in Nat /\ s.revision \in Versions
      /\ s.history \in Seq(Entry)
  BY <1>1, StateParts, Zenon DEF PersistedState
<1>3. n = [persisted |-> [current |-> s.current, next |-> None, history |-> s.history,
                          revision |-> s.revision],
           current_plan |-> mem.current_plan, next_plan |-> mem.next_plan]
  BY Zenon DEF TakeNext, RuntimeRules, PersistedRules
<1> HIDE DEF n
<1>4. n \in RuntimeState
  <2>1. n.persisted \in PersistedState
    BY <1>2, <1>3, Zenon DEF PersistedState
  <2> QED BY <1>1, <1>3, <2>1, Zenon DEF RuntimeState
<1>5. Keeps(n, {})
  BY <1>1, <1>2, <1>3 DEF Keeps
<1>6. StepOK(n)
  BY <1>4, <1>5, NoCandidateStep, Zenon
<1> QED BY <1>6, Zenon DEF n

\* mark_failed.
LEMMA FailedStep ==
    ASSUME MemOK(mem, booted), mem.persisted.next # None
    PROVE  StepOK(Failed)
<1> DEFINE s == mem.persisted
           e == WithStatus(s.next, "failed")
           n == Failed
<1>1. /\ s \in PersistedState /\ Len(s.history) <= HistoryLimit
      /\ mem.current_plan \in Contents
      /\ mem.current_plan = s.current.content /\ Contract(s.current.content) = booted
  BY Zenon DEF MemOK, StateOK, RuntimeState
<1>2. /\ s.current \in Entry /\ s.current.version \in Nat /\ s.revision \in Versions
      /\ s.history \in Seq(Entry) /\ s.next \in Entry
  BY <1>1, StateParts DEF PersistedState
<1>3. e \in Entry /\ Twin(e, s)
  BY <1>1, <1>2, StatusOnly, StatusTwin, Zenon
<1>4. n = [persisted |-> [current |-> s.current, next |-> None,
                          history |-> push_history(s.history, e), revision |-> s.revision],
           current_plan |-> mem.current_plan, next_plan |-> None]
  BY Zenon DEF Failed, RuntimeRules, PersistedRules
<1> HIDE DEF n, e
<1>5. /\ push_history(s.history, e) \in Seq(Entry)
      /\ Len(push_history(s.history, e)) <= HistoryLimit
      /\ Range(push_history(s.history, e)) \subseteq Range(s.history) \cup {e}
  BY <1>1, <1>2, <1>3, PushHistory, Zenon
<1>6. n \in RuntimeState
  <2>1. n.persisted \in PersistedState
    BY <1>2, <1>4, <1>5, Zenon DEF PersistedState
  <2> QED BY <1>1, <1>4, <2>1, Zenon DEF RuntimeState
<1>7. Keeps(n, {e})
  BY <1>1, <1>2, <1>3, <1>4, <1>5 DEF Keeps
<1>8. StepOK(n)
  BY <1>6, <1>7, NoCandidateStep, Zenon
<1> QED BY <1>8, Zenon DEF n, e

\* activate_pending, for a candidate that has the layout of the store.
LEMMA ActivatedStep ==
    ASSUME MemOK(mem, booted), mem.persisted.next # None,
           Contract(mem.persisted.next.content) = booted
    PROVE  StepOK(Activated)
<1> DEFINE s == mem.persisted
           e == WithStatus(s.next, "active")
           o == WithStatus(s.current, "retired")
           h == push_history(s.history, o)
           n == Activated
<1>1. /\ s \in PersistedState /\ Len(s.history) <= HistoryLimit
      /\ mem.next_plan = s.next.content /\ s.next.version > s.current.version
      /\ s.next.base = s.current.version
  BY Zenon DEF MemOK, StateOK, RuntimeState
<1>2. /\ s.current \in Entry /\ s.current.version \in Nat /\ s.revision \in Versions
      /\ s.history \in Seq(Entry) /\ s.next \in Entry /\ s.next.version \in Nat
      /\ s.next.content \in Contents
  BY <1>1, StateParts, Zenon DEF PersistedState, Entry
<1>3. /\ e \in Entry /\ e.version = s.next.version /\ e.content = s.next.content
      /\ e.base = s.next.base
      /\ o \in Entry /\ Twin(e, s) /\ Twin(o, s)
  BY <1>1, <1>2, StatusOnly, StatusTwin, Zenon
<1>4. n = [persisted |-> [current |-> e, next |-> None,
                          history |-> push_history(h, e), revision |-> s.revision],
           current_plan |-> mem.next_plan, next_plan |-> None]
  BY Zenon DEF Activated, RuntimeRules, PersistedRules
<1> HIDE DEF n, e, o
<1>5. /\ h \in Seq(Entry) /\ Len(h) <= HistoryLimit
      /\ Range(h) \subseteq Range(s.history) \cup {o}
  BY <1>1, <1>2, <1>3, PushHistory, Zenon
<1> HIDE DEF h
<1>6. /\ push_history(h, e) \in Seq(Entry)
      /\ Len(push_history(h, e)) <= HistoryLimit
      /\ Range(push_history(h, e)) \subseteq Range(s.history) \cup {e, o}
  BY <1>3, <1>5, PushHistory, Zenon
<1>7. n \in RuntimeState
  <2>1. n.persisted \in PersistedState
    BY <1>2, <1>3, <1>4, <1>6, Zenon DEF PersistedState
  <2> QED BY <1>1, <1>2, <1>4, <2>1, Zenon DEF RuntimeState
<1>8. Keeps(n, {e, o})
  BY <1>1, <1>2, <1>3, <1>4, <1>6 DEF Keeps
<1>9. StepOK(n)
  BY <1>7, <1>8, NoCandidateStep, Zenon
<1> QED BY <1>9, Zenon DEF n

\* The rule state read from the file, or made from the configured rules.
LEMMA LoadOK ==
    ASSUME NEW content \in Contents, file # None => StateOK(file, booted),
           NEW layout, layout = IF file = None THEN Contract(content) ELSE booted
    PROVE  /\ MemOK(load(file, content), layout)
           /\ Behind(file, load(file, content).persisted)
           /\ load(file, content).persisted.current.version =
                IF file = None THEN 0 ELSE file.current.version
<1>1. CASE file = None
  <2> DEFINE e == [version |-> 0, content |-> content, status |-> "active",
                   base |-> None, intent |-> None]
             t == [current |-> e, next |-> None, history |-> <<>>, revision |-> 0]
             n == [persisted |-> t, current_plan |-> content, next_plan |-> None]
  <2>1. load(file, content) = n
    BY <1>1, Zenon DEF load, from_persisted, normalize_persisted_state, initial_sync_rules_entry,
                PersistedRules, RuntimeRules, RulesEntry, WithStatus
  <2>2. e \in Entry
    BY RulesAssumption DEF Entry, Versions
  <2>3. t \in PersistedState
    <3>1. 0 \in Versions /\ <<>> \in Seq(Entry)
      BY RulesAssumption DEF Versions
    <3> QED BY <2>2, <3>1, Zenon DEF PersistedState
  <2>4. n \in RuntimeState
    BY <2>3, RulesAssumption, Zenon DEF RuntimeState
  <2>5. Entries(t) = {e}
    <3>1. Range(t.history) = {}
      BY DEF Range
    <3> QED BY <2>3, <3>1, StateParts
  <2>6. StateOK(t, layout)
    BY <1>1, <2>3, <2>5, RulesAssumption DEF StateOK, Agree
  <2>7. MemOK(n, layout)
    BY <2>4, <2>6, Zenon DEF MemOK
  <2> QED BY <1>1, <2>1, <2>7 DEF Behind
<1>2. CASE file # None
  <2> DEFINE s == file
             c == WithStatus(s.current, "active")
             x == [version |-> s.next.version, content |-> s.next.content,
                   status |-> IF s.next.status = "active" THEN "pending" ELSE s.next.status,
                   base |-> s.next.base, intent |-> s.next.intent]
             t == [current |-> c, next |-> IF s.next = None THEN None ELSE x,
                   history |-> s.history, revision |-> s.revision]
             n == [persisted |-> t, current_plan |-> c.content,
                   next_plan |-> IF t.next = None THEN None ELSE t.next.content]
  <2>1. /\ StateOK(s, booted) /\ s \in PersistedState /\ Len(s.history) <= HistoryLimit
        /\ s.next # None => s.next.version > s.current.version
                            /\ s.next.base = s.current.version
        /\ Contract(s.current.content) = booted
    BY <1>2, Zenon DEF StateOK
  <2>2. /\ s.current \in Entry /\ s.current.version \in Nat /\ s.revision \in Versions
        /\ s.history \in Seq(Entry)
        /\ s.next # None => s.next \in Entry /\ s.next.version \in Nat
    BY <2>1, StateParts, Zenon DEF PersistedState
  <2>3. /\ c \in Entry /\ c.version = s.current.version /\ c.content = s.current.content
        /\ Twin(c, s)
    BY <2>1, <2>2, StatusOnly, StatusTwin, Zenon
  <2>4. s.next # None => /\ x \in Entry /\ x # None /\ Twin(x, s)
                         /\ s.next.version # 0
    <3> SUFFICES ASSUME s.next # None
                 PROVE  /\ x \in Entry /\ x # None /\ Twin(x, s)
                        /\ s.next.version # 0
      BY Zenon
    <3>1. x \in Entry
      BY <2>2, Zenon DEF Entry
    <3>2. s.next \in Entries(s)
      BY <2>1, StateParts, Zenon
    <3>3. x.version = s.next.version /\ x.content = s.next.content
      BY Zenon
    <3>4. s.next.version # 0
      BY <2>1, <2>2
    <3> QED BY <3>1, <3>2, <3>3, <3>4, RulesAssumption, Zenon DEF Twin
  <2>5. load(file, content) = n
    <3>1. normalize_persisted_state(s) = t
      BY <2>4, Zenon DEF normalize_persisted_state, PersistedRules, RulesEntry
    <3> QED BY <1>2, <3>1 DEF load, from_persisted, RuntimeRules
  <2> HIDE DEF c, x
  <2>6. t \in PersistedState
    BY <2>2, <2>3, <2>4, Zenon DEF PersistedState
  <2>7. n \in RuntimeState
    <3>1. \A e \in Entry : e.content \in Contents
      BY Zenon DEF Entry
    <3> QED BY <2>3, <2>4, <2>6, <3>1, Zenon DEF RuntimeState
  <2> DEFINE X == {c} \cup (IF s.next = None THEN {} ELSE {x})
  <2>8. Entries(t) \subseteq Entries(s) \cup X
    <3>1. /\ Range(t.history) \subseteq Range(s.history) \cup X
          /\ t.current \in X \cup {s.current} /\ t.next \in X \cup {None}
      BY Zenon
    <3> HIDE DEF t, X
    <3> QED BY <2>1, <2>6, <3>1, BuiltFrom, Zenon
  <2>9. /\ \A f \in Entries(t) : Twin(f, s)
        /\ \A f \in Entries(t) : f.version <= t.revision
        /\ Agree(Entries(t), Entries(t))
    <3>1. \A f \in X : Twin(f, s)
      BY <2>3, <2>4, Zenon
    <3> HIDE DEF X, t
    <3>2. t.revision = s.revision
      BY DEF t
    <3> QED BY <2>1, <2>6, <2>8, <3>1, <3>2, TwinsDescend, Zenon
  <2>10. t.next # None => t.next.version > t.current.version
                          /\ t.next.base = t.current.version
    BY <2>1, <2>3, Zenon DEF x
  <2>11. StateOK(t, booted)
    BY <2>1, <2>3, <2>6, <2>9, <2>10, Zenon DEF StateOK
  <2>12. MemOK(n, booted)
    BY <2>7, <2>11, Zenon DEF MemOK
  <2>13. Agree(Entries(s), Entries(t))
    <3>1. Agree(Entries(s), Entries(s)) /\ \A f \in Entries(t) : Twin(f, s)
      BY Zenon, <2>1, <2>9 DEF StateOK
    <3> QED BY <3>1 DEF Agree, Twin
  <2>14. Behind(file, t)
    <3>1. s.revision \in Nat
      BY <2>1, StateParts, Zenon
    <3> QED BY <2>13, <3>1 DEF Behind
  <2>15. layout = booted
    BY <1>2, Zenon
  <2> QED BY <1>2, <2>3, <2>5, <2>12, <2>14, <2>15
<1> QED BY <1>1, <1>2, Zenon

----------------------------------------------------------------------------
\* Steps of the service.

\* A memory that is left alone.
LEMMA SameStep ==
    ASSUME MemOK(mem, booted)
    PROVE  StepOK(mem)
<1>1. mem.persisted \in PersistedState
  BY Zenon DEF MemOK, RuntimeState
<1>2. mem.persisted.revision \in Nat /\ mem.persisted.current.version \in Nat
  BY <1>1, StateParts, Zenon
<1>3. \A f \in Entries(mem.persisted) : Twin(f, mem.persisted)
  BY DEF Twin
<1> QED BY <1>2, <1>3 DEF StepOK, Descends

\* How memory, file and the acknowledged version move together in a step of a
\* request: the file is left alone or becomes the persisted part of the memory,
\* and an activation is acknowledged once it is in the file.
Moves(n) ==
    /\ mem' = n
    /\ file' = file \/ file' = n.persisted
    /\ \/ acked' = acked
       \/ acked' \in Nat /\ file' = n.persisted /\ acked' <= n.persisted.current.version
    /\ configured' = configured /\ booted' = booted
    /\ store' = store \/ store' = booted

\* What every step establishes: the invariant, that versions in the file name the
\* texts they named before, and that active rules were based on those they replace.
RulesKept ==
    /\ RulesInv'
    /\ Agree(Entries(file), Entries(file'))
    /\ Up /\ mem' # None /\ mem.persisted.current # mem'.persisted.current
         => mem'.persisted.current.base = mem.persisted.current.version

LEMMA MemoryStep ==
    ASSUME RulesInv, Up, NEW n, StepOK(n), Moves(n)
    PROVE  /\ FileOK' /\ MemoryOK' /\ acked' \in Nat /\ StoreOK'
           /\ mem' \in RuntimeState /\ Up' /\ file' \in PersistedState \cup {None}
           /\ Agree(Entries(file), Entries(file'))
           /\ \/ mem'.persisted.current = mem.persisted.current
              \/ mem'.persisted.current.base = mem.persisted.current.version
<1> DEFINE s == mem.persisted
           t == n.persisted
<1>1. /\ MemOK(mem, booted) /\ Behind(file, s) /\ acked <= s.current.version
      /\ acked \in Nat /\ file \in PersistedState \cup {None}
      /\ file # None => StateOK(file, booted) /\ acked <= file.current.version
      /\ file = None => acked = 0
  BY Zenon DEF RulesInv, MemoryOK, FileOK
<1>2. /\ s \in PersistedState /\ t \in PersistedState /\ n \in RuntimeState
      /\ StateOK(t, booted) /\ MemOK(n, booted) /\ Descends(s, t)
  BY <1>1, Zenon DEF MemOK, StepOK, RuntimeState
<1>3. /\ s.current.version \in Nat /\ t.current.version \in Nat /\ t # None
      /\ s.current.version <= t.current.version /\ t.revision \in Nat
  BY <1>2, StateParts, Zenon DEF Descends
<1>4. n # None
  BY <1>2, RulesAssumption, Zenon
<1>0. booted' = booted
  BY Zenon DEF Moves
<1>5. acked' \in Nat /\ acked' <= t.current.version
  <2>1. CASE acked' = acked
    BY <1>1, <1>3, <2>1
  <2>2. CASE acked' # acked
    BY <2>2, Zenon DEF Moves
  <2> QED BY <2>1, <2>2
<1>6. Behind(file, t)
  BY <1>1, <1>2, StillBehind, Zenon
<1>7. Agree(Entries(t), Entries(t))
  BY <1>2, Zenon DEF StateOK
<1>8. Behind(file', t)
  <2>1. CASE file' = file
    BY <1>6, <2>1, Zenon
  <2>2. CASE file' = t
    BY <1>3, <1>7, <2>2 DEF Behind
  <2> QED BY <2>1, <2>2 DEF Moves
<1>9. MemoryOK'
  BY <1>2, <1>5, <1>8, Zenon DEF MemoryOK, Moves
<1>10. FileOK'
  <2>1. CASE file' = t
    BY <1>0, <1>2, <1>3, <1>5, <2>1, Zenon DEF FileOK
  <2>2. CASE file' # t
    <3>1. file' = file /\ acked' = acked
      BY <2>2, Zenon DEF Moves
    <3> QED BY <1>0, <1>1, <3>1, Zenon DEF FileOK
  <2> QED BY <2>1, <2>2, Zenon
<1>11. file' \in PersistedState \cup {None}
  BY <1>1, <1>2, Zenon DEF Moves
<1>12. Agree(Entries(file), Entries(file'))
  <2>1. CASE file = None
    BY <2>1, Zenon DEF Agree, Entries
  <2>2. CASE file # None /\ file' = file
    BY <1>1, <2>2, Zenon DEF StateOK
  <2>3. CASE file # None /\ file' = t
    BY <1>6, <2>3, Zenon DEF Behind
  <2> QED BY <2>1, <2>2, <2>3 DEF Moves
<1>13. mem' = n /\ (t.current = s.current \/ t.current.base = s.current.version)
  BY <1>2, Zenon DEF Moves, Descends
<1>14. StoreOK'
  BY <1>4, Zenon DEF RulesInv, StoreOK, Moves, Up
<1> QED BY <1>2, <1>4, <1>5, <1>9, <1>10, <1>11, <1>12, <1>13, <1>14, Zenon DEF Moves, Up

\* A request that does not move.
LEMMA OtherRequest ==
    ASSUME RulesInv, Up, NEW n, StepOK(n), mem' = n, booted' = booted, Up',
           NEW q \in Requests, pc'[q] = pc[q], req'[q] = req[q]
    PROVE  RequestOK(q)'
<1> DEFINE s == mem.persisted
           t == n.persisted
<1>1. /\ s \in PersistedState /\ t \in PersistedState /\ Descends(s, t)
      /\ req[q] \in RequestState
  BY Zenon DEF MemOK, StepOK, RuntimeState, RulesInv, MemoryOK
<1>2. /\ s.revision \in Nat /\ t.revision \in Nat /\ s.revision <= t.revision
      /\ t.next # None => t.next.version \in Nat
      /\ req[q].version \in Nat
  <2>1. s.revision <= t.revision
    BY Zenon, <1>1 DEF Descends
  <2>2. req[q].version \in Nat
    BY <1>1, RulesAssumption DEF RequestState, Versions
  <2> QED BY Zenon, <1>1, <2>1, <2>2, StateParts
<1>3. RequestOK(q)
  BY Zenon DEF RulesInv
<1>4. req[q].version <= s.revision
  BY <1>3, Zenon DEF RequestOK
<1>5. req[q].version <= t.revision
  BY <1>2, <1>4
<1>6. ASSUME t.next # None, t.next.version = req[q].version, req[q].plan # None
      PROVE  req[q].plan = t.next.content
  <2>1. ~(t.next.version > s.revision)
    BY <1>2, <1>4, <1>6
  <2>2. s.next # None /\ t.next.version = s.next.version /\ t.next.content = s.next.content
    BY <1>1, <1>6, <2>1, Zenon DEF Descends
  <2> QED BY <1>3, <1>6, <2>2, Zenon DEF RequestOK, Holds
<1> QED BY <1>3, <1>5, <1>6, Zenon DEF RequestOK, Holds, Up

\* A step of request r that leaves it at another section with another load.
LEMMA RequestStep ==
    ASSUME RulesInv, Up, NEW r \in Requests, NEW n, StepOK(n), Moves(n),
           NEW section \in Sections, NEW k \in RequestState,
           pc' = [pc EXCEPT ![r] = section], req' = [req EXCEPT ![r] = k],
           answer' \in {None, "accepted", "refused"},
           RequestOK(r)'
    PROVE  RulesKept
<1>1. /\ FileOK' /\ MemoryOK' /\ acked' \in Nat /\ StoreOK'
      /\ mem' \in RuntimeState /\ Up' /\ file' \in PersistedState \cup {None}
      /\ Agree(Entries(file), Entries(file'))
      /\ \/ mem'.persisted.current = mem.persisted.current
         \/ mem'.persisted.current.base = mem.persisted.current.version
  BY MemoryStep, Zenon
<1>2. pc \in [Requests -> Sections] /\ req \in [Requests -> RequestState]
  BY Zenon DEF RulesInv
<1>3. ASSUME NEW q \in Requests
      PROVE  RequestOK(q)'
  <2>1. CASE q = r
    BY <2>1, Zenon
  <2>2. CASE q # r
    <3>1. pc'[q] = pc[q] /\ req'[q] = req[q]
      BY <1>2, <2>2, Zenon
    <3>2. mem' = n /\ booted' = booted
      BY Zenon DEF Moves
    <3> QED BY <1>1, <3>1, <3>2, OtherRequest, Zenon
  <2> QED BY <2>1, <2>2, Zenon
<1>4. pc' \in [Requests -> Sections] /\ req' \in [Requests -> RequestState]
  BY <1>2, Zenon
<1>5. RulesInv'
  BY <1>1, <1>3, <1>4, Zenon DEF RulesInv
<1> QED BY <1>1, <1>5, Zenon DEF RulesKept

\* A request that is answered.
LEMMA ReplyStep ==
    ASSUME RulesInv, Up, NEW r \in Requests, NEW n, StepOK(n), Moves(n),
           NEW status, Reply(r, status)
    PROVE  RulesKept
<1>1. /\ pc' = [pc EXCEPT ![r] = "idle"] /\ req' = [req EXCEPT ![r] = NoRequest]
      /\ answer' \in {None, "accepted", "refused"}
  BY DEF Reply
<1>2. NoRequest \in RequestState /\ NoRequest.version = 0 /\ NoRequest.plan = None
  BY RulesAssumption DEF NoRequest, Carried, RequestState, Versions
<1>3. pc'[r] = "idle" /\ req'[r] = NoRequest
  BY <1>1, Zenon DEF RulesInv
<1>4. mem' \in RuntimeState /\ Up'
  BY MemoryStep, Zenon
<1>5. mem'.persisted.revision \in Nat
  BY <1>4, StateParts, Zenon DEF RuntimeState
<1>6. RequestOK(r)'
  BY <1>2, <1>3, <1>4, <1>5 DEF RequestOK
<1> QED BY <1>1, <1>2, <1>6, RequestStep, Zenon DEF Sections

\* The facts about the memory that the steps below start from.
LEMMA Serving ==
    ASSUME RulesInv, Up, NEW r \in Requests
    PROVE  /\ MemOK(mem, booted) /\ StepOK(mem)
           /\ mem.persisted \in PersistedState
           /\ mem.next_plan \in Contents \cup {None}
           /\ mem.persisted.revision \in Nat
           /\ req[r] \in RequestState /\ pc[r] \in Sections
           /\ req[r].version \in Nat /\ RequestOK(r)
<1>1. MemOK(mem, booted)
  BY Zenon DEF RulesInv, MemoryOK
<1>2. mem \in RuntimeState
  BY <1>1, Zenon DEF MemOK
<1>3. req[r] \in RequestState /\ pc[r] \in Sections /\ RequestOK(r)
  BY Zenon DEF RulesInv
<1>4. req[r].version \in Nat
  BY <1>3, RulesAssumption DEF RequestState, Versions
<1>5. mem.persisted \in PersistedState /\ mem.next_plan \in Contents \cup {None}
  BY <1>2 DEF RuntimeState
<1> QED BY <1>1, <1>3, <1>4, <1>5, SameStep, StateParts, Zenon

\* Requests that are answered at once.
LEMMA RefuseStep ==
    ASSUME RulesInv, NEW r \in Requests, NEW status, Refuse(r, status)
    PROVE  RulesKept
<1>1. Up /\ Reply(r, status) /\ Moves(mem)
  BY DEF Refuse, Untouched, Moves, process
<1> QED BY <1>1, ReplyStep, Serving, Zenon

\* A request that holds a candidate goes on to read its plan.
LEMMA PendingStep ==
    ASSUME RulesInv, Up, NEW r \in Requests, pc[r] = "idle", NEW n, StepOK(n), Moves(n),
           NEW v \in Versions, Pending(r, v), v <= n.persisted.revision
    PROVE  RulesKept
<1>1. req[r] \in RequestState /\ RequestOK(r)
  BY Serving, Zenon
<1>2. req[r].plan = None /\ req[r].layout_change \in BOOLEAN
  BY <1>1, Zenon DEF RequestOK, RequestState
<1> DEFINE k == [version |-> v, plan |-> None, layout_change |-> req[r].layout_change]
<1>3. /\ pc' = [pc EXCEPT ![r] = "read_plan"] /\ answer' = None
      /\ req' = [req EXCEPT ![r] = k]
  BY <1>2, Zenon DEF Pending, Continue, Carried
<1>4. k \in RequestState /\ k.plan = None /\ k.version = v
  BY <1>2, Zenon DEF RequestState
<1> HIDE DEF k
<1>5. pc'[r] = "read_plan" /\ req'[r] = k
  BY <1>3, Zenon DEF RulesInv
<1>6. mem' = n /\ Up'
  BY MemoryStep, Zenon DEF Moves
<1>7. RequestOK(r)'
  BY <1>4, <1>5, <1>6, Zenon DEF RequestOK
<1>8. "read_plan" \in Sections
  BY DEF Sections
<1> QED BY <1>3, <1>4, <1>7, <1>8, RequestStep, Zenon

\* The candidate made on the active version.
LEMMA CandidateEntry ==
    ASSUME MemOK(mem, booted), NEW content \in Contents, NEW token \in Tokens,
           NEW base, base = mem.persisted.current.version,
           mem.persisted.revision < RevisionLimit,
           NEW e, e = Candidate(content, compute_intent_hash(base, content, token), base)
    PROVE  e \in Entry /\ e.version = mem.persisted.revision + 1 /\ e.base = base
<1>1. mem.persisted \in PersistedState
  BY Zenon DEF MemOK, RuntimeState
<1>2. mem.persisted.current \in Entry /\ mem.persisted.revision \in Nat
  BY <1>1, StateParts, Zenon
<1>3. base \in Versions
  BY <1>2, Zenon DEF Entry
<1>4. mem.persisted.revision + 1 \in Versions
  BY <1>2, RulesAssumption DEF RevisionLimit, Versions
<1>5. e = [version |-> mem.persisted.revision + 1, content |-> content,
           status |-> "pending", base |-> base, intent |-> <<base, token, content>>]
  BY Zenon DEF Candidate, RulesEntry, NextVersion, compute_intent_hash
<1> QED BY <1>3, <1>4, <1>5 DEF Entry

\* e is staged: it is written, or the write fails.
Stages(r, e) ==
    /\ mem.persisted.next = None /\ mem.persisted.revision < RevisionLimit
    /\ \/ Persisted(WithCandidate(e)) /\ Pending(r, e.version)
       \/ PersistFailed(WithCandidate(e)) /\ Reply(r, 500)

\* A candidate is staged on the active version and written, or the write fails.
LEMMA StageStep ==
    ASSUME RulesInv, Up, NEW r \in Requests, pc[r] = "idle", NEW e \in Entry,
           e.version = mem.persisted.revision + 1,
           e.base = mem.persisted.current.version,
           UNCHANGED <<store, process, acked>>, Stages(r, e)
    PROVE  RulesKept
<1>1. StepOK(WithCandidate(e))
  <2>1. mem.persisted.next = None
    BY Zenon DEF Stages
  <2> QED BY <2>1, CandidateStep, Serving, Zenon
<1>2. Moves(WithCandidate(e))
  BY DEF Stages, Moves, Persisted, PersistFailed, process
<1>3. CASE Pending(r, e.version)
  <2>1. e.version \in Versions /\ e.version \in Nat
    BY RulesAssumption DEF Entry, Versions
  <2>2. WithCandidate(e).persisted.revision = e.version
    BY Zenon DEF WithCandidate, RuntimeRules, PersistedRules
  <2>3. e.version <= WithCandidate(e).persisted.revision
    BY <2>1, <2>2
  <2> QED BY <1>1, <1>2, <1>3, <2>1, <2>3, PendingStep, Zenon
<1>4. CASE Reply(r, 500)
  BY <1>1, <1>2, <1>4, ReplyStep
<1> QED BY <1>3, <1>4 DEF Stages

\* stage_candidate joins the pending candidate, answers, or stages a new one.
LEMMA StageCases ==
    ASSUME NEW r, NEW content, NEW options, stage_candidate(r, content, options),
           NEW base, base = Base(options),
           NEW e, e = Candidate(content, compute_intent_hash(base, content, options.token), base)
    PROVE  \/ Untouched /\ \E status : Reply(r, status)
           \/ /\ mem.persisted.next # None /\ Pending(r, mem.persisted.next.version)
              /\ Untouched
           \/ ~StaleBase(base) /\ Stages(r, e)
<1> DEFINE b == Base(options)
           c == Candidate(content, compute_intent_hash(b, content, options.token), b)
<1>1. \/ Untouched /\ (Reply(r, 200) \/ Reply(r, 409))
      \/ /\ mem.persisted.next # None /\ Pending(r, mem.persisted.next.version)
         /\ Untouched
      \/ ~StaleBase(b) /\ Stages(r, c)
  BY Zenon DEF stage_candidate, Stages
<1>2. b = base /\ c = e
  BY Zenon
<1> HIDE DEF b, c
<1> QED BY Zenon, <1>1, <1>2

\* A deploy, from the parsed request to the staged candidate or the answer.
LEMMA DeployStep ==
    ASSUME RulesInv, NEW r \in Requests, NEW content \in Contents,
           NEW options \in DeployOptions, deploy_sync_rules(r, content, options)
    PROVE  RulesKept
<1>1. PICK json \in BOOLEAN, b \in (0..MaxRevision) \cup {None}, token \in Tokens :
          options = parse_sync_rules_deploy_request(json, b, token)
  BY DEF DeployOptions
<1>2. options.token \in Tokens
  BY <1>1, RulesAssumption, Zenon DEF parse_sync_rules_deploy_request
<1>3. /\ Up /\ pc[r] = "idle" /\ stage_candidate(r, content, options)
      /\ UNCHANGED <<store, process, acked>>
  BY Zenon DEF deploy_sync_rules
<1>4. PICK base : base = Base(options)
  BY Zenon
<1>5. PICK e : e = Candidate(content, compute_intent_hash(base, content, options.token), base)
  BY Zenon
<1>6. \/ Untouched /\ \E status : Reply(r, status)
      \/ /\ mem.persisted.next # None /\ Pending(r, mem.persisted.next.version)
         /\ Untouched
      \/ ~StaleBase(base) /\ Stages(r, e)
  BY <1>3, <1>4, <1>5, StageCases, Zenon
<1>7. MemOK(mem, booted) /\ StepOK(mem) /\ mem.persisted \in PersistedState
  BY <1>3, Serving, Zenon
<1>8. ASSUME Untouched
      PROVE  Moves(mem)
  BY <1>3, <1>8, Zenon DEF Untouched, Moves, process
<1>9. CASE Untouched /\ \E status : Reply(r, status)
  BY <1>3, <1>7, <1>8, <1>9, ReplyStep, Zenon
<1>10. CASE /\ mem.persisted.next # None /\ Pending(r, mem.persisted.next.version)
            /\ Untouched
  <2>1. mem.persisted.next \in Entries(mem.persisted) /\ mem.persisted.next \in Entry
    BY <1>7, <1>10, StateParts, Zenon
  <2>2. /\ mem.persisted.next.version \in Versions
        /\ mem.persisted.next.version <= mem.persisted.revision
    BY <1>7, <2>1, Zenon DEF MemOK, StateOK, Entry
  <2> QED BY <1>3, <1>7, <1>8, <1>10, <2>2, PendingStep, Zenon
<1>11. CASE ~StaleBase(base) /\ Stages(r, e)
  <2>1. base = mem.persisted.current.version
    BY <1>11, Zenon DEF StaleBase
  <2>2. mem.persisted.revision < RevisionLimit
    BY <1>11, Zenon DEF Stages
  <2>3. e \in Entry /\ e.version = mem.persisted.revision + 1 /\ e.base = base
    <3>1. PICK t \in Tokens : e = Candidate(content, compute_intent_hash(base, content, t), base)
      BY Zenon, <1>2, <1>5
    <3> QED BY <1>7, <2>1, <2>2, <3>1, CandidateEntry
  <2> QED BY <1>3, <1>11, <2>1, <2>3, StageStep, Zenon
<1> QED BY <1>6, <1>9, <1>10, <1>11, Zenon

\* What request r must carry into a section: the load k, beside the memory n.
Loaded(n, section, k) ==
    /\ section \in Sections \ {"idle", "read_plan"}
    /\ k \in RequestState /\ k.plan # None /\ k.version <= n.persisted.revision
    /\ (section = "mark_activating" /\ ~k.layout_change) \/ section \in {"reset", "activate"}
         => Contract(k.plan) = booted
    /\ n.persisted.next # None /\ n.persisted.next.version = k.version
         => k.plan = n.persisted.next.content

\* A request that goes on to section with the load k.
LEMMA ContinueStep ==
    ASSUME RulesInv, Up, NEW r \in Requests, NEW n, StepOK(n), Moves(n),
           NEW section, Continue(r, section),
           NEW k, req' = [req EXCEPT ![r] = k], Loaded(n, section, k)
    PROVE  RulesKept
<1>1. pc' = [pc EXCEPT ![r] = section] /\ answer' = None
  BY Zenon DEF Continue
<1>2. pc'[r] = section /\ req'[r] = k
  BY <1>1, Zenon DEF RulesInv
<1>3. mem' = n /\ booted' = booted /\ Up'
  BY MemoryStep, Zenon DEF Moves
<1>4. RequestOK(r)'
  BY <1>2, <1>3, Zenon DEF RequestOK, Holds, Loaded
<1>5. section \in Sections /\ k \in RequestState
  BY Zenon DEF Loaded
<1> QED BY <1>1, <1>4, <1>5, RequestStep, Zenon

\* The same with the load it had: a candidate of its version is still the one
\* whose plan it read.
LEMMA GoOnStep ==
    ASSUME RulesInv, Up, NEW r \in Requests, NEW n, StepOK(n), Moves(n),
           NEW section \in {"refuse_layout", "reset", "activate", "give_up"},
           Continue(r, section), UNCHANGED req, req[r].plan # None,
           section \in {"reset", "activate"} => Contract(req[r].plan) = booted
    PROVE  RulesKept
<1> DEFINE s == mem.persisted
           t == n.persisted
<1>1. /\ s \in PersistedState /\ s.revision \in Nat /\ req[r] \in RequestState
      /\ req[r].version \in Nat /\ RequestOK(r)
  BY Serving, Zenon
<1>2. t \in PersistedState /\ Descends(s, t)
  BY Zenon DEF StepOK, MemOK, RuntimeState
<1>3. req[r].version <= s.revision
  BY Zenon, <1>1 DEF RequestOK
<1>4. t.revision \in Nat /\ (t.next # None => t.next.version \in Nat)
  BY <1>2, StateParts, Zenon
<1>5. req[r].version <= t.revision
  BY <1>1, <1>2, <1>3, <1>4 DEF Descends
<1>6. ASSUME t.next # None, t.next.version = req[r].version
      PROVE  req[r].plan = t.next.content
  <2>1. ~(t.next.version > s.revision)
    BY <1>1, <1>3, <1>6
  <2>2. /\ s.next # None
        /\ t.next.version = s.next.version /\ t.next.content = s.next.content
    BY <1>2, <1>6, <2>1, Zenon DEF Descends
  <2> QED BY <1>1, <1>6, <2>2, Zenon DEF RequestOK, Holds
<1>7. req' = [req EXCEPT ![r] = req[r]]
  BY Zenon DEF RulesInv
<1>8. section \in Sections \ {"idle", "read_plan"} /\ section # "mark_activating"
  BY DEF Sections
<1>9. Loaded(n, section, req[r])
  BY <1>1, <1>5, <1>6, <1>8, Zenon DEF Loaded
<1> QED BY <1>7, <1>9, ContinueStep, Zenon

\* A request past its first section carries a plan.
LEMMA CarriesPlan ==
    ASSUME RulesInv, Up, NEW r \in Requests, pc[r] \notin {"idle", "read_plan"}
    PROVE  req[r].plan \in Contents /\ req[r].plan # None
BY Serving, Zenon DEF RequestOK, RequestState

LEMMA PendingPlanStep ==
    ASSUME RulesInv, NEW r \in Requests, pending_plan(r)
    PROVE  RulesKept
<1>1. Up /\ pc[r] = "read_plan" /\ Moves(mem)
  BY Zenon DEF pending_plan, Untouched, Moves, process
<1>2. /\ MemOK(mem, booted) /\ StepOK(mem) /\ mem.next_plan \in Contents \cup {None}
      /\ req[r] \in RequestState /\ RequestOK(r)
  BY <1>1, Serving, Zenon
<1>3. CASE mem.next_plan = None
  <2>1. Reply(r, 409)
    BY <1>3 DEF pending_plan
  <2> QED BY <1>1, <1>2, <2>1, ReplyStep
<1>4. CASE mem.next_plan # None
  <2> DEFINE k == [version |-> req[r].version, plan |-> mem.next_plan,
                   layout_change |-> req[r].layout_change]
  <2>1. Continue(r, "read_contract") /\ req' = [req EXCEPT ![r] = k]
    BY <1>4 DEF pending_plan, Carried
  <2>2. k \in RequestState
    BY <1>2, Zenon DEF RequestState
  <2>3. k.version <= mem.persisted.revision
    BY <1>1, <1>2, Zenon DEF RequestOK
  <2>4. mem.persisted.next # None => k.plan = mem.persisted.next.content
    BY <1>2, Zenon DEF MemOK
  <2>5. k.plan # None /\ "read_contract" \in Sections \ {"idle", "read_plan"}
    BY <1>4, Zenon DEF Sections
  <2>6. Loaded(mem, "read_contract", k)
    BY Zenon, <2>2, <2>3, <2>4, <2>5 DEF Loaded
  <2> HIDE DEF k
  <2> QED BY <1>1, <1>2, <2>1, <2>6, ContinueStep, Zenon
<1> QED BY <1>3, <1>4, Zenon

\* The contract the request compares with is that of the store.
LEMMA StorageContractStep ==
    ASSUME RulesInv, NEW r \in Requests, storage_contract_id(r)
    PROVE  RulesKept
<1> DEFINE k == [version |-> req[r].version, plan |-> req[r].plan,
                 layout_change |-> Contract(req[r].plan) # Contract(mem.current_plan)]
<1>1. /\ Up /\ pc[r] = "read_contract" /\ Moves(mem)
      /\ Continue(r, "mark_activating") /\ req' = [req EXCEPT ![r] = k]
  BY Zenon DEF storage_contract_id, Untouched, Moves, Carried, process
<1>2. MemOK(mem, booted) /\ StepOK(mem) /\ req[r] \in RequestState /\ RequestOK(r)
  BY <1>1, Serving, Zenon
<1>3. req[r].plan # None
  BY <1>1, CarriesPlan, Zenon
<1>4. k \in RequestState
  BY Zenon, <1>2 DEF RequestState
<1>5. k.version <= mem.persisted.revision
  BY <1>1, <1>2, Zenon DEF RequestOK
<1>6. mem.persisted.next # None /\ mem.persisted.next.version = k.version
        => k.plan = mem.persisted.next.content
  BY <1>1, <1>2, <1>3, Zenon DEF RequestOK, Holds
<1>7. ~k.layout_change => Contract(k.plan) = booted
  <2>1. Contract(mem.current_plan) = booted
    BY <1>2 DEF MemOK, StateOK
  <2> QED BY <2>1, Zenon
<1>8. k.plan # None /\ "mark_activating" \in Sections \ {"idle", "read_plan"}
  BY <1>3, Zenon DEF Sections
<1> HIDE DEF k
<1>9. Loaded(mem, "mark_activating", k)
  BY <1>4, <1>5, <1>6, <1>7, <1>8 DEF Loaded
<1> QED BY <1>1, <1>2, <1>9, ContinueStep, Zenon

LEMMA MarkActivatingStep ==
    ASSUME RulesInv, NEW r \in Requests, mark_activating(r)
    PROVE  RulesKept
<1> DEFINE m == Marked(WithStatus(mem.persisted.next, "activating"))
<1>1. /\ Up /\ pc[r] = "mark_activating"
      /\ UNCHANGED <<store, process, acked, crashes>>
      /\ \/ ~Holds(r) /\ Reply(r, 409) /\ Untouched
         \/ /\ Holds(r)
            /\ \/ /\ Persisted(m)
                  /\ Continue(r, IF req[r].layout_change THEN "refuse_layout" ELSE "reset")
                  /\ UNCHANGED req
               \/ PersistFailed(m) /\ Reply(r, 500)
  BY DEF mark_activating
<1>2. MemOK(mem, booted) /\ StepOK(mem) /\ RequestOK(r)
  BY <1>1, Serving
<1>3. CASE ~Holds(r) /\ Reply(r, 409) /\ Untouched
  <2>1. Moves(mem)
    BY Zenon, <1>1, <1>3 DEF Untouched, Moves, process
  <2> QED BY <1>1, <1>2, <1>3, <2>1, ReplyStep
<1>4. ASSUME Holds(r)
      PROVE  StepOK(m)
  BY <1>2, <1>4, MarkedStep, Zenon DEF Holds
<1> HIDE DEF m
<1>5. CASE /\ Holds(r) /\ Persisted(m) /\ UNCHANGED req
           /\ Continue(r, IF req[r].layout_change THEN "refuse_layout" ELSE "reset")
  <2> DEFINE section == IF req[r].layout_change THEN "refuse_layout" ELSE "reset"
  <2>1. Moves(m)
    BY Zenon, <1>1, <1>5 DEF Persisted, Moves, process
  <2>2. req[r].plan # None
    BY <1>1, CarriesPlan
  <2>3. /\ section \in {"refuse_layout", "reset", "activate", "give_up"}
        /\ section \in {"reset", "activate"} => Contract(req[r].plan) = booted
    BY <1>1, <1>2 DEF RequestOK
  <2>4. Continue(r, section)
    BY <1>5, Zenon
  <2> HIDE DEF section
  <2> QED BY <1>1, <1>4, <1>5, <2>1, <2>2, <2>3, <2>4, GoOnStep
<1>6. CASE Holds(r) /\ PersistFailed(m) /\ Reply(r, 500)
  <2>1. Moves(m)
    BY <1>1, <1>6 DEF PersistFailed, Moves, process
  <2>2. StepOK(m)
    BY Zenon, <1>4, <1>6
  <2>3. Up /\ Reply(r, 500)
    BY Zenon, <1>1, <1>6
  <2> HIDE <1>6
  <2> QED BY Zenon, <2>1, <2>2, <2>3, ReplyStep
<1> QED BY <1>1, <1>3, <1>5, <1>6

\* refuse_layout_change and give_up: the candidate is failed or taken.
LEMMA MarkFailedStep ==
    ASSUME RulesInv, Up, NEW r \in Requests, NEW status, NEW otherwise,
           mark_failed(r, status, otherwise), UNCHANGED <<store, process, acked, crashes>>
    PROVE  RulesKept
<1>1. MemOK(mem, booted)
  BY Serving, Zenon
<1>2. CASE mem' = TakeNext /\ UNCHANGED <<file, faults>> /\ Reply(r, otherwise)
  <2>1. StepOK(TakeNext) /\ Moves(TakeNext)
    BY <1>1, <1>2, TakeNextStep, Zenon DEF Moves, process
  <2> QED BY <1>2, <2>1, ReplyStep, Zenon
<1>3. CASE Holds(r) /\ Persisted(Failed) /\ Reply(r, status)
  <2>1. StepOK(Failed) /\ Moves(Failed)
    BY <1>1, <1>3, FailedStep, Zenon DEF Moves, Persisted, Holds, process
  <2> QED BY <1>3, <2>1, ReplyStep, Zenon
<1>4. CASE Holds(r) /\ PersistFailed(Failed) /\ Reply(r, otherwise)
  <2>1. StepOK(Failed) /\ Moves(Failed)
    BY <1>1, <1>4, FailedStep, Zenon DEF Moves, PersistFailed, Holds, process
  <2> QED BY <1>4, <2>1, ReplyStep, Zenon
<1> QED BY <1>2, <1>3, <1>4, Zenon DEF mark_failed

\* The store is reset for the contract of a plan that was compared with it.
LEMMA ResetStep ==
    ASSUME RulesInv, NEW r \in Requests, reset_for_layout_version(r)
    PROVE  RulesKept
<1>1. Up /\ pc[r] = "reset" /\ UNCHANGED <<mem, file, process, acked, crashes>>
  BY Zenon DEF reset_for_layout_version
<1>2. StepOK(mem) /\ RequestOK(r) /\ req[r].plan # None
  BY <1>1, Serving, CarriesPlan
<1>3. Contract(req[r].plan) = booted
  BY <1>1, <1>2, Zenon DEF RequestOK
<1>4. store' = store \/ store' = booted
  BY <1>3, Zenon DEF reset_for_layout_version
<1>5. Moves(mem)
  BY <1>1, <1>4, Zenon DEF Moves, process
<1>6. CASE Reply(r, 500)
  BY <1>1, <1>2, <1>5, <1>6, ReplyStep
<1>7. CASE Continue(r, "activate") /\ UNCHANGED req
  BY <1>1, <1>2, <1>3, <1>5, <1>7, GoOnStep, Zenon
<1>8. CASE Continue(r, "give_up") /\ UNCHANGED req
  BY <1>1, <1>2, <1>5, <1>8, GoOnStep, Zenon
<1> QED BY <1>6, <1>7, <1>8 DEF reset_for_layout_version

\* The candidate promoted is the one whose contract was compared.
LEMMA ActivateStep ==
    ASSUME RulesInv, NEW r \in Requests, activate_pending(r)
    PROVE  RulesKept
<1>1. Up /\ pc[r] = "activate" /\ UNCHANGED <<store, process, crashes>>
  BY Zenon DEF activate_pending
<1>2. /\ MemOK(mem, booted) /\ RequestOK(r) /\ req[r].plan # None
      /\ req[r].version \in Nat /\ mem.persisted \in PersistedState
  BY <1>1, Serving, CarriesPlan, Zenon
<1>3. CASE /\ mem' = TakeNext /\ Continue(r, "give_up")
           /\ UNCHANGED <<file, req, faults, acked>>
  <2>1. StepOK(TakeNext) /\ Moves(TakeNext)
    BY <1>1, <1>2, <1>3, TakeNextStep, Zenon DEF Moves, process
  <2> QED BY <1>1, <1>2, <1>3, <2>1, GoOnStep, Zenon
<1>4. ASSUME Holds(r)
      PROVE  /\ StepOK(Activated) /\ Activated.persisted.current.version = req[r].version
             /\ mem.persisted.current.version <= req[r].version
  <2>1. mem.persisted.next # None /\ mem.persisted.next.version = req[r].version
    BY <1>4, Zenon DEF Holds
  <2>2. Contract(mem.persisted.next.content) = booted
    BY <1>1, <1>2, <1>4, Zenon DEF RequestOK
  <2>3. StepOK(Activated)
    BY <1>2, <2>1, <2>2, ActivatedStep
  <2>4. Activated.persisted.current.version = req[r].version
    BY <2>1, Zenon DEF Activated, RuntimeRules, PersistedRules, WithStatus, RulesEntry
  <2>5. mem.persisted.next.version > mem.persisted.current.version
    BY <1>2, <2>1, Zenon DEF MemOK, StateOK
  <2>6. mem.persisted.current.version \in Nat
    BY <1>2, StateParts, Zenon
  <2> QED BY <1>2, <2>1, <2>3, <2>4, <2>5, <2>6
<1>5. CASE /\ Holds(r) /\ Persisted(Activated) /\ Reply(r, 200)
           /\ acked' = Larger(acked, req[r].version)
  <2>1. acked \in Nat /\ acked <= mem.persisted.current.version
    BY <1>1 DEF RulesInv, MemoryOK
  <2>2. mem.persisted.current.version \in Nat
    BY <1>2, StateParts, Zenon
  <2>3. acked' \in Nat /\ acked' <= req[r].version
    BY <1>2, <1>4, <1>5, <2>1, <2>2 DEF Larger
  <2>4. Moves(Activated)
    BY <1>1, <1>4, <1>5, <2>3 DEF Moves, Persisted, process
  <2> QED BY <1>1, <1>4, <1>5, <2>4, ReplyStep
<1>6. CASE /\ Holds(r) /\ PersistFailed(Activated) /\ Continue(r, "give_up")
           /\ UNCHANGED <<req, acked>>
  <2>1. Moves(Activated)
    BY <1>1, <1>6 DEF Moves, PersistFailed, process
  <2> QED BY <1>1, <1>2, <1>4, <1>6, <2>1, GoOnStep, Zenon
<1> QED BY Zenon, <1>3, <1>5, <1>6 DEF activate_pending

LEMMA StepStep ==
    ASSUME RulesInv, NEW r \in Requests, Step(r)
    PROVE  RulesKept
<1>1. CASE pending_plan(r)
  BY <1>1, PendingPlanStep, Zenon
<1>2. CASE storage_contract_id(r)
  BY <1>2, StorageContractStep, Zenon
<1>3. CASE mark_activating(r)
  BY <1>3, MarkActivatingStep, Zenon
<1>4. CASE refuse_layout_change(r)
  BY <1>4, MarkFailedStep DEF refuse_layout_change
<1>5. CASE reset_for_layout_version(r)
  BY <1>5, ResetStep, Zenon
<1>6. CASE activate_pending(r)
  BY <1>6, ActivateStep, Zenon
<1>7. CASE give_up(r)
  BY <1>7, MarkFailedStep DEF give_up
<1> QED BY <1>1, <1>2, <1>3, <1>4, <1>5, <1>6, <1>7, Zenon DEF Step

\* A crash keeps the file.
LEMMA CrashStep ==
    ASSUME RulesInv, Crash
    PROVE  RulesKept
<1>1. /\ mem' = None /\ file' = file /\ booted' = booted /\ acked' = acked /\ answer' = None
      /\ pc' = [r \in Requests |-> "idle"] /\ req' = [r \in Requests |-> NoRequest]
  BY Zenon DEF Crash, process
<1>2. NoRequest \in RequestState /\ NoRequest.plan = None
  BY RulesAssumption DEF NoRequest, Carried, RequestState, Versions
<1>3. pc' \in [Requests -> Sections] /\ req' \in [Requests -> RequestState]
  BY <1>1, <1>2 DEF Sections
<1>4. FileOK' /\ MemoryOK' /\ StoreOK'
  BY <1>1, Zenon DEF RulesInv, FileOK, MemoryOK, StoreOK, Up
<1>5. ASSUME NEW r \in Requests
      PROVE  RequestOK(r)'
  BY <1>1, <1>2, Zenon DEF RequestOK, Up
<1>6. RulesInv'
  BY <1>1, <1>3, <1>4, <1>5, Zenon DEF RulesInv
<1>7. Agree(Entries(file), Entries(file'))
  <2>1. CASE file = None
    BY <2>1, Zenon DEF Agree, Entries
  <2>2. CASE file # None
    BY <1>1, <2>2, Zenon DEF RulesInv, FileOK, StateOK
  <2> QED BY <2>1, <2>2, Zenon
<1> QED BY <1>1, <1>6, <1>7, Zenon DEF RulesKept

\* A restart reads back what the file holds.
LEMMA BootStep ==
    ASSUME RulesInv, NEW c \in Configurable, Boot(c)
    PROVE  RulesKept
<1>1. /\ ~Up /\ mem' = load(file, c) /\ file' = file /\ store' = Contract(c) /\ acked' = acked
      /\ answer' = None /\ pc' = pc /\ req' = req
      /\ configured' = c /\ booted' = Contract(mem'.current_plan)
  BY Zenon DEF Boot
<1>2. file # None => StateOK(file, booted)
  BY Zenon DEF RulesInv, FileOK
<1>3. /\ MemOK(load(file, c), booted') /\ Behind(file, load(file, c).persisted)
      /\ load(file, c).persisted.current.version =
           IF file = None THEN 0 ELSE file.current.version
      /\ file # None => booted' = booted
  <2>1. c \in Contents
    BY RulesAssumption, Zenon
  <2>2. PICK layout : layout = IF file = None THEN Contract(c) ELSE booted
    BY Zenon
  <2>3. /\ MemOK(load(file, c), layout) /\ Behind(file, load(file, c).persisted)
        /\ load(file, c).persisted.current.version =
             IF file = None THEN 0 ELSE file.current.version
    BY <1>2, <2>1, <2>2, LoadOK, Zenon
  <2>4. booted' = layout
    BY <1>1, <2>3, Zenon DEF MemOK, StateOK
  <2> QED BY <2>2, <2>3, <2>4, Zenon
<1>4. load(file, c) \in RuntimeState /\ load(file, c).persisted \in PersistedState
  BY <1>3, Zenon DEF MemOK, RuntimeState
<1>5. load(file, c).persisted.revision \in Nat
  BY <1>4, StateParts, Zenon
<1> HIDE DEF load
<1>6. FileOK' /\ MemoryOK'
  <2>1. FileOK /\ acked \in Nat
    BY Zenon DEF RulesInv
  <2>2. acked <= load(file, c).persisted.current.version
    BY <1>3, <2>1 DEF FileOK
  <2>3. FileOK'
    BY <1>1, <1>3, <2>1, Zenon DEF FileOK
  <2> QED BY <1>1, <1>3, <2>2, <2>3, Zenon DEF MemoryOK
<1>7. ASSUME NEW r \in Requests
      PROVE  RequestOK(r)'
  <2>0. pc[r] = "idle" /\ req[r] = NoRequest
    BY <1>1, Zenon DEF RulesInv, RequestOK
  <2>1. pc[r] = "idle" /\ req[r].version = 0 /\ req[r].plan = None
    BY <2>0 DEF NoRequest, Carried
  <2>2. Up'
    BY <1>1, <1>4, RulesAssumption, Zenon DEF Up
  <2> QED BY <1>1, <1>5, <2>1, <2>2 DEF RequestOK
<1>8. StoreOK'
  BY <1>1, Zenon DEF StoreOK
<1>9. RulesInv'
  BY <1>1, <1>4, <1>6, <1>7, <1>8, Zenon DEF RulesInv
<1>10. Agree(Entries(file), Entries(file'))
  <2>1. CASE file = None
    BY <2>1, Zenon DEF Agree, Entries
  <2>2. CASE file # None
    BY <1>1, <1>2, <2>2, Zenon DEF StateOK
  <2> QED BY <2>1, <2>2, Zenon
<1> QED BY <1>1, <1>9, <1>10, Zenon DEF RulesKept

\* A batch lays the store out for the active rules.
LEMMA BatchStep ==
    ASSUME RulesInv, persist_batch_with_plan
    PROVE  RulesKept
<1>1. Up /\ Moves(mem) /\ pc' = pc /\ req' = req /\ answer' = answer
  <2>1. Contract(mem.current_plan) = booted
    BY Zenon DEF persist_batch_with_plan, RulesInv, MemoryOK, MemOK, StateOK
  <2> QED BY <2>1, Zenon DEF persist_batch_with_plan, Moves, process
<1>2. StepOK(mem)
  BY <1>1, SameStep, Zenon DEF RulesInv, MemoryOK
<1>3. /\ FileOK' /\ MemoryOK' /\ acked' \in Nat /\ StoreOK'
      /\ mem' \in RuntimeState /\ Up' /\ file' \in PersistedState \cup {None}
      /\ Agree(Entries(file), Entries(file'))
  BY <1>1, <1>2, MemoryStep, Zenon
<1>4. mem' = mem /\ booted' = booted
  BY <1>1, Zenon DEF Moves
<1>5. ASSUME NEW q \in Requests
      PROVE  RequestOK(q)'
  BY <1>1, <1>2, <1>3, <1>4, OtherRequest, Zenon
<1>6. RulesInv'
  BY <1>1, <1>3, <1>5, Zenon DEF RulesInv
<1> QED BY <1>3, <1>4, <1>6, Zenon DEF RulesKept

LEMMA NextStep ==
    ASSUME RulesInv, Next
    PROVE  RulesKept
<1>1. ASSUME NEW r \in Requests,
             \/ Unauthorized(r) \/ BadRequest(r) \/ reprocess_sync_rules(r)
             \/ \E c \in Contents : DeployInvalid(r, c)
      PROVE  RulesKept
  BY <1>1, RefuseStep DEF Unauthorized, BadRequest, reprocess_sync_rules, DeployInvalid
<1>2. ASSUME NEW r \in Requests, NEW c \in Contents, NEW options \in DeployOptions,
             deploy_sync_rules(r, c, options)
      PROVE  RulesKept
  BY <1>2, DeployStep, Zenon
<1>3. ASSUME NEW r \in Requests, Step(r)
      PROVE  RulesKept
  BY <1>3, StepStep, Zenon
<1>4. CASE Crash
  BY <1>4, CrashStep, Zenon
<1>5. ASSUME NEW c \in Configurable, Boot(c)
      PROVE  RulesKept
  BY <1>5, BootStep, Zenon
<1>6. CASE persist_batch_with_plan
  BY <1>6, BatchStep, Zenon
<1> QED BY <1>1, <1>2, <1>3, <1>4, <1>5, <1>6, Zenon DEF Next

LEMMA Stutter ==
    ASSUME RulesInv, UNCHANGED vars
    PROVE  RulesInv'
BY Zenon DEF vars, RulesInv, FileOK, MemoryOK, StoreOK, RequestOK, Holds, Up

LEMMA InitOK == Init => RulesInv
<1> SUFFICES ASSUME Init
             PROVE  RulesInv
  BY Zenon
<1>1. /\ mem = load(None, InitialContent) /\ file = None /\ acked = 0 /\ answer = None
      /\ booted = Contract(InitialContent) /\ store = booted
      /\ pc = [r \in Requests |-> "idle"] /\ req = [r \in Requests |-> NoRequest]
  BY Zenon DEF Init
<1>2. MemOK(mem, booted) /\ mem.persisted.current.version = 0
  <2>1. InitialContent \in Contents
    BY RulesAssumption, Zenon
  <2>2. booted = IF file = None THEN Contract(InitialContent) ELSE booted
    BY <1>1, Zenon
  <2> QED BY <1>1, <2>1, <2>2, LoadOK, Zenon
<1>3. mem \in RuntimeState /\ mem.persisted \in PersistedState
  BY <1>2, Zenon DEF MemOK, RuntimeState
<1>4. mem.persisted.revision \in Nat
  BY <1>3, StateParts, Zenon
<1>5. NoRequest \in RequestState /\ NoRequest.plan = None /\ NoRequest.version = 0
  BY RulesAssumption DEF NoRequest, Carried, RequestState, Versions
<1> HIDE DEF load
<1>6. FileOK /\ MemoryOK
  BY <1>1, <1>2 DEF FileOK, MemoryOK, Behind
<1>7. ASSUME NEW r \in Requests
      PROVE  RequestOK(r)
  <2>1. Up
    BY <1>3, RulesAssumption, Zenon DEF Up
  <2> QED BY <1>1, <1>4, <1>5, <2>1 DEF RequestOK
<1>8. pc \in [Requests -> Sections] /\ req \in [Requests -> RequestState]
  BY <1>1, <1>5, Zenon DEF Sections
<1>9. StoreOK
  BY <1>1, Zenon DEF StoreOK
<1> QED BY <1>1, <1>3, <1>6, <1>7, <1>8, <1>9, Zenon DEF RulesInv

----------------------------------------------------------------------------
\* The theorems.

\* RulesInv is inductive.
LEMMA RulesInvariant == Spec => []RulesInv
<1>1. RulesInv /\ [Next]_vars => RulesInv'
  BY Zenon, NextStep, Stutter DEF RulesKept
<1> QED BY <1>1, InitOK, PTL DEF Spec

\* The rule state in memory and in the file keeps its shape and its history stays
\* within SYNC_RULES_HISTORY_LIMIT.
THEOREM RulesTypeCorrect == Spec => []TypeOK
<1>1. RulesInv => TypeOK
  BY Zenon DEF RulesInv, TypeOK, FileOK, MemoryOK, MemOK, StateOK
<1> QED BY <1>1, RulesInvariant, PTL

\* However many requests are between their critical sections, and whatever writes
\* fail, a process serves rules of one storage contract and never has the store laid
\* out for another: activate_pending_sync_rules promotes no rules whose contract was
\* not compared with that of the active ones.
THEOREM ActivePlanServed == Spec => []ActivePlanMatchesStore
<1>1. RulesInv => ActivePlanMatchesStore
  BY Zenon DEF RulesInv, ActivePlanMatchesStore, StoreOK, MemoryOK, MemOK, StateOK
<1> QED BY <1>1, RulesInvariant, PTL

\* A candidate has its own compiled plan beside it, also when take() dropped an
\* earlier candidate without its plan, writes failed, or the process restarted.
THEOREM CandidatePlanned == Spec => []CandidateHasItsPlan
<1>1. RulesInv => CandidateHasItsPlan
  BY Zenon DEF RulesInv, CandidateHasItsPlan, MemoryOK, MemOK, StateOK
<1> QED BY <1>1, RulesInvariant, PTL

\* A deploy that was answered as activated is in the file and stays there.
THEOREM ActivationDurable == Spec => []ActivationAnswerIsDurable
<1>1. RulesInv => ActivationAnswerIsDurable
  <2> SUFFICES ASSUME RulesInv, acked > 0
               PROVE  file # None /\ file.current.version >= acked
    BY Zenon DEF ActivationAnswerIsDurable
  <2>1. acked \in Nat /\ FileOK /\ file \in PersistedState \cup {None}
    BY Zenon DEF RulesInv
  <2>2. file # None /\ acked <= file.current.version
    BY <2>1 DEF FileOK
  <2>3. file.current.version \in Nat
    BY Zenon, <2>1, <2>2, StateParts
  <2> QED BY <2>1, <2>2, <2>3
<1> QED BY <1>1, RulesInvariant, PTL

\* stage_candidate's base version check loses no update: rules are only activated
\* on top of the version their request was based on, between any two requests.
THEOREM UpdatesKept == Spec => NoLostUpdate
<1> DEFINE A == Up /\ mem' # None /\ mem.persisted.current # mem'.persisted.current
                  => mem'.persisted.current.base = mem.persisted.current.version
<1>1. RulesInv /\ [Next]_vars => [A]_vars
  BY Zenon, NextStep DEF RulesKept
<1> QED BY <1>1, RulesInvariant, PTL DEF Spec, NoLostUpdate

\* A version that has reached the state file names one rule text from then on.
THEOREM VersionsStable == Spec => VersionsNameOneContent
<1> DEFINE A == \A e \in Entries(file), f \in Entries(file') :
                    e.version = f.version => e.content = f.content
<1>1. RulesInv /\ [Next]_vars => [A]_vars
  BY NextStep DEF RulesKept, Agree
<1> QED BY <1>1, RulesInvariant, PTL DEF Spec, VersionsNameOneContent

==============================================================================
