----------------------------- MODULE SyncRules -----------------------------
(***************************************************************************)
(* Deploying sync rules at run time (control_plane/mod.rs and the         *)
(* management routes of http/management.rs).                               *)
(*                                                                         *)
(* The rule state is held twice: in memory behind one mutex, and in a JSON *)
(* state file replaced by an atomic rename.  A deploy request takes and    *)
(* releases the mutex five times (stage, read the pending plan, read the   *)
(* active contract, mark activating, activate or fail), so requests served *)
(* by different threads interleave between those critical sections, the    *)
(* process can stop between any two of them, and every write of the file   *)
(* can fail after memory has already been changed.                         *)
(***************************************************************************)
EXTENDS Naturals, FiniteSets, Sequences, Functions

CONSTANTS
    Requests,       \* threads that can be serving a deploy at the same time
    Contents,       \* rule texts a client can send
    Invalid,        \* the texts compile_execution_plan refuses
    Contract(_),    \* canonical_storage_contract_id of a text's plan
    InitialContent, \* the text the first process is configured with
    Configurable,   \* the texts a later process can be configured with
    Tokens,         \* intent tokens
    NoToken,        \* the empty token of a request that carries none
    None,           \* Option::None
    HistoryLimit,   \* SYNC_RULES_HISTORY_LIMIT
    MaxRevision,    \* bound: candidates staged
    MaxCrashes,     \* bound: process stops
    MaxFaults       \* bound: file or storage errors

VARIABLES
    mem,      \* the mutex-guarded RuntimeSyncRulesState, None while down
    file,     \* the state file, None until the first persist
    store,    \* layout version recorded in the MDBX store
    configured, \* the text this process was configured with (execution_plan)
    booted,   \* ghost: the contract of the rules active when it started
    pc,       \* pc[r]: the next critical section of request r
    req,      \* req[r]: the candidate, plan and flag r carries between them
    answer,   \* what the last step answered, if it did
    acked,    \* ghost: the highest version answered as activated
    crashes, faults

vars == <<mem, file, store, configured, booted, pc, req, answer, acked, crashes, faults>>

\* What a process keeps from its start to its end.
process == <<configured, booted>>

Carried(version, plan, layout_change) ==
    [version |-> version, plan |-> plan, layout_change |-> layout_change]

NoRequest == Carried(0, None, FALSE)

Compiles(content) == content \notin Invalid

----------------------------------------------------------------------------
\* The persisted state.

RuntimeRules(persisted, current_plan, next_plan) ==
    [persisted |-> persisted, current_plan |-> current_plan, next_plan |-> next_plan]

PersistedRules(current, next, history, revision) ==
    [current |-> current, next |-> next, history |-> history, revision |-> revision]

RulesEntry(version, content, status, base, intent) ==
    [version |-> version, content |-> content, status |-> status, base |-> base,
     intent |-> intent]

WithStatus(e, status) == RulesEntry(e.version, e.content, status, e.base, e.intent)

initial_sync_rules_entry(content) == RulesEntry(0, content, "active", None, None)

push_history(history, entry) ==
    LET longer == Append(history, entry)
    IN  IF Len(longer) > HistoryLimit THEN Tail(longer) ELSE longer

compute_intent_hash(base, content, token) == <<base, token, content>>

Larger(a, b) == IF a > b THEN a ELSE b

normalize_persisted_state(s) ==
    PersistedRules(
        WithStatus(s.current, "active"),
        IF s.next = None THEN None
        ELSE RulesEntry(IF s.next.version = 0
                        THEN Larger(s.revision, s.current.version + 1) ELSE s.next.version,
                        s.next.content,
                        IF s.next.status = "active" THEN "pending" ELSE s.next.status,
                        s.next.base, s.next.intent),
        s.history, s.revision)

\* A plan stands for the text it was compiled from.
from_persisted(s) ==
    LET normal == normalize_persisted_state(s)
    IN  RuntimeRules(normal, normal.current.content,
                     IF normal.next = None THEN None ELSE normal.next.content)

\* The configured text is read only while there is no state file.
load(f, content) ==
    from_persisted(IF f # None THEN f
                   ELSE PersistedRules(initial_sync_rules_entry(content), None, <<>>, 0))

Init ==
    /\ configured = InitialContent
    /\ mem = load(None, InitialContent)
    /\ file = None
    /\ store = Contract(InitialContent)
    /\ booted = Contract(InitialContent)
    /\ pc = [r \in Requests |-> "idle"]
    /\ req = [r \in Requests |-> NoRequest]
    /\ answer = None
    /\ acked = 0
    /\ crashes = 0
    /\ faults = 0

----------------------------------------------------------------------------
\* Steps of a request.

Up == mem # None

\* A response: the HTTP status matters as a success or a refusal.
Reply(r, status) ==
    /\ pc' = [pc EXCEPT ![r] = "idle"]
    /\ req' = [req EXCEPT ![r] = NoRequest]
    /\ answer' = IF status = 200 THEN "accepted" ELSE "refused"

Continue(r, section) ==
    /\ pc' = [pc EXCEPT ![r] = section]
    /\ answer' = None

\* Mutant: only staged candidates are written
FilePersistSkipped(m) ==
    /\ mem' = m
    /\ file' = IF m.persisted.next = None THEN file ELSE m.persisted
    /\ UNCHANGED faults

\* persist writes a temporary file, syncs it and renames it: the file is
\* the new state or still the old one, and memory keeps the new state in
\* either case.
Persisted(m) ==
    /\ mem' = m
    /\ file' = m.persisted
    /\ UNCHANGED faults

PersistFailed(m) ==
    /\ faults < MaxFaults
    /\ faults' = faults + 1
    /\ mem' = m
    /\ UNCHANGED file

Untouched == UNCHANGED <<mem, file, faults>>

\* authorize_api and the body parsers: a plain-text body carries no base
\* version and no intent token.
parse_sync_rules_deploy_request(json, base, token) ==
    IF json THEN [base |-> base, token |-> token]
            ELSE [base |-> None, token |-> NoToken]

DeployOptions ==
    {parse_sync_rules_deploy_request(json, base, token) :
        json \in BOOLEAN, base \in (0..MaxRevision) \cup {None}, token \in Tokens}

Refuse(r, status) ==
    /\ Up /\ pc[r] = "idle"
    /\ Reply(r, status)
    /\ Untouched
    /\ UNCHANGED <<store, process, acked, crashes>>

Unauthorized(r) == Refuse(r, 401)
BadRequest(r) == Refuse(r, 400)

DeployInvalid(r, content) ==
    /\ ~Compiles(content)
    /\ Refuse(r, 422)

\* Both reprocess routes.
reprocess_sync_rules(r) == Refuse(r, 409)

\* stage_candidate, one critical section.
Base(options) ==
    IF options.base # None THEN options.base ELSE mem.persisted.current.version

SameIntent(entry, intent, base) == entry.intent = intent /\ entry.base = base

\* Mutant: numbers from the active version, not the revision
VersionAfterCurrent == mem.persisted.current.version + 1

NextVersion == mem.persisted.revision + 1

Candidate(content, intent, base) ==
    RulesEntry(NextVersion, content, "pending", base, intent)

\* Mutant: a plan left behind is taken for the new candidate's
CandidateWithoutPlan(entry) ==
    RuntimeRules(
        PersistedRules(mem.persisted.current, entry,
                       push_history(mem.persisted.history, entry), entry.version),
        mem.current_plan, IF mem.next_plan = None THEN entry.content ELSE mem.next_plan)

WithCandidate(entry) ==
    RuntimeRules(
        PersistedRules(mem.persisted.current, entry,
                       push_history(mem.persisted.history, entry), entry.version),
        mem.current_plan, entry.content)

Pending(r, version) ==
    /\ Continue(r, "read_plan")
    /\ req' = [req EXCEPT ![r] = Carried(version, @.plan, @.layout_change)]

\* Neither a write of the state file nor the process has failed so far.
Undisturbed == crashes = 0 /\ faults = 0

\* Bound: one revision less once a write or the process has failed.
RevisionLimit == IF Undisturbed THEN MaxRevision ELSE MaxRevision - 1

\* Mutant: no optimistic check
StaleBaseIgnored(base) == FALSE

StaleBase(base) == mem.persisted.current.version # base

stage_candidate(r, content, options) ==
    LET base == Base(options)
        intent == compute_intent_hash(base, content, options.token)
        s == mem.persisted
    IN  \/ /\ s.next # None
           /\ SameIntent(s.next, intent, base)
           /\ Pending(r, s.next.version)
           /\ Untouched
        \/ /\ s.next # None
           /\ ~SameIntent(s.next, intent, base)
           /\ Reply(r, 409)
           /\ Untouched
        \/ /\ s.next = None
           /\ SameIntent(s.current, intent, base)
           /\ Reply(r, 200)
           /\ Untouched
        \/ /\ s.next = None
           /\ ~SameIntent(s.current, intent, base)
           /\ StaleBase(base)
           /\ Reply(r, 409)
           /\ Untouched
        \/ LET entry == Candidate(content, intent, base)
           IN  /\ s.next = None
               /\ ~SameIntent(s.current, intent, base)
               /\ ~StaleBase(base)
               /\ s.revision < RevisionLimit
               /\ \/ Persisted(WithCandidate(entry)) /\ Pending(r, entry.version)
                  \/ PersistFailed(WithCandidate(entry)) /\ Reply(r, 500)

deploy_sync_rules(r, content, options) ==
    /\ Up /\ pc[r] = "idle"
    /\ Compiles(content)
    /\ stage_candidate(r, content, options)
    /\ UNCHANGED <<store, process, acked, crashes>>

\* activate_pending_sync_rules, from here on.
pending_plan(r) ==
    /\ Up /\ pc[r] = "read_plan"
    /\ IF mem.next_plan = None
       THEN Reply(r, 409)
       ELSE /\ Continue(r, "read_contract")
            /\ req' = [req EXCEPT ![r] = Carried(@.version, mem.next_plan, @.layout_change)]
    /\ Untouched
    /\ UNCHANGED <<store, process, acked, crashes>>

\* Mutant: the contracts are never compared
StorageContractIgnored(r) ==
    /\ Up /\ pc[r] = "read_contract"
    /\ Continue(r, "mark_activating")
    /\ Untouched
    /\ UNCHANGED <<store, process, req, acked, crashes>>

storage_contract_id(r) ==
    /\ Up /\ pc[r] = "read_contract"
    /\ req' = [req EXCEPT ![r] =
                   Carried(@.version, @.plan, Contract(@.plan) # Contract(mem.current_plan))]
    /\ Continue(r, "mark_activating")
    /\ Untouched
    /\ UNCHANGED <<store, process, acked, crashes>>

Holds(r) == mem.persisted.next # None /\ mem.persisted.next.version = req[r].version

Marked(entry) ==
    RuntimeRules(
        PersistedRules(mem.persisted.current, entry,
                       push_history(mem.persisted.history, entry), mem.persisted.revision),
        mem.current_plan, mem.next_plan)

mark_activating(r) ==
    /\ Up /\ pc[r] = "mark_activating"
    /\ \/ ~Holds(r) /\ Reply(r, 409) /\ Untouched
       \/ LET m == Marked(WithStatus(mem.persisted.next, "activating"))
          IN  /\ Holds(r)
              /\ \/ /\ Persisted(m)
                    /\ Continue(r, IF req[r].layout_change THEN "refuse_layout" ELSE "reset")
                    /\ UNCHANGED req
                 \/ PersistFailed(m) /\ Reply(r, 500)
    /\ UNCHANGED <<store, process, acked, crashes>>

\* take() happens before the version is compared: the wrong candidate is
\* dropped from memory, its compiled plan and the file are left alone.
TakeNext ==
    RuntimeRules(
        PersistedRules(mem.persisted.current, None, mem.persisted.history,
                       mem.persisted.revision),
        mem.current_plan, mem.next_plan)

Failed ==
    RuntimeRules(
        PersistedRules(mem.persisted.current, None,
                       push_history(mem.persisted.history,
                                    WithStatus(mem.persisted.next, "failed")),
                       mem.persisted.revision),
        mem.current_plan, None)

\* mark_failed answers `status` when it succeeds and `otherwise` when its
\* own error is what the handler returns.
mark_failed(r, status, otherwise) ==
    \/ /\ ~Holds(r)
       /\ mem' = TakeNext
       /\ UNCHANGED <<file, faults>>
       /\ Reply(r, otherwise)
    \/ Holds(r) /\ Persisted(Failed) /\ Reply(r, status)
    \/ Holds(r) /\ PersistFailed(Failed) /\ Reply(r, otherwise)

\* Mutant: the refusal leaves the candidate in place
RefusalKeepsCandidate(r) ==
    /\ Up /\ pc[r] = "refuse_layout"
    /\ Reply(r, 409)
    /\ Untouched
    /\ UNCHANGED <<store, process, acked, crashes>>

refuse_layout_change(r) ==
    /\ Up /\ pc[r] = "refuse_layout"
    /\ mark_failed(r, 409, 500)
    /\ UNCHANGED <<store, process, acked, crashes>>

\* reset_for_layout_version; opening the store can fail, which returns
\* without marking the candidate, and so can the reset itself.
reset_for_layout_version(r) ==
    /\ Up /\ pc[r] = "reset"
    /\ \/ /\ store' = Contract(req[r].plan)
          /\ Continue(r, "activate")
          /\ UNCHANGED <<req, faults>>
       \/ /\ faults < MaxFaults
          /\ faults' = faults + 1
          /\ \/ Reply(r, 500)
             \/ Continue(r, "give_up") /\ UNCHANGED req
          /\ UNCHANGED store
    /\ UNCHANGED <<mem, file, process, acked, crashes>>

Activated ==
    LET s == mem.persisted
        current == WithStatus(s.next, "active")
    IN  RuntimeRules(
            PersistedRules(current, None,
                           push_history(
                               push_history(s.history, WithStatus(s.current, "retired")),
                               current),
                           s.revision),
            mem.next_plan, None)

activate_pending(r) ==
    /\ Up /\ pc[r] = "activate"
    /\ \/ /\ ~Holds(r)
          /\ mem' = TakeNext
          /\ Continue(r, "give_up")
          /\ UNCHANGED <<file, req, faults, acked>>
       \/ /\ Holds(r)
          /\ Persisted(Activated)
          /\ Reply(r, 200)
          /\ acked' = Larger(acked, req[r].version)
       \/ /\ Holds(r)
          /\ PersistFailed(Activated)
          /\ Continue(r, "give_up")
          /\ UNCHANGED <<req, acked>>
    /\ UNCHANGED <<store, process, crashes>>

\* The error path after a failed reset or activation: mark_failed's own
\* result is ignored and the first error is returned.
give_up(r) ==
    /\ Up /\ pc[r] = "give_up"
    /\ mark_failed(r, 500, 500)
    /\ UNCHANGED <<store, process, acked, crashes>>

----------------------------------------------------------------------------
Crash ==
    /\ Up
    /\ crashes < MaxCrashes
    /\ crashes' = crashes + 1
    /\ mem' = None
    /\ pc' = [r \in Requests |-> "idle"]
    /\ req' = [r \in Requests |-> NoRequest]
    /\ answer' = None
    /\ UNCHANGED <<file, store, process, acked, faults>>

\* ServiceContext::from_env loads the state file; opening the store lays it out
\* for the rules the process is configured with now, which may be others than
\* those of the process before and than the active ones of the file.
Boot(content) ==
    /\ ~Up
    /\ configured' = content
    /\ mem' = load(file, content)
    /\ store' = Contract(content)
    /\ booted' = Contract(mem'.current_plan)
    /\ answer' = None
    /\ UNCHANGED <<file, pc, req, acked, crashes, faults>>

\* The replication runner hands the active plan to every batch it writes, and
\* ensure_layout_version_for lays the store out for that plan first.
persist_batch_with_plan ==
    /\ Up
    /\ store' = Contract(mem.current_plan)
    /\ UNCHANGED <<mem, file, process, pc, req, answer, acked, crashes, faults>>

Step(r) ==
    \/ pending_plan(r)
    \/ storage_contract_id(r)
    \/ mark_activating(r)
    \/ refuse_layout_change(r)
    \/ reset_for_layout_version(r)
    \/ activate_pending(r)
    \/ give_up(r)

Next ==
    \/ \E r \in Requests :
          \/ Unauthorized(r)
          \/ BadRequest(r)
          \/ \E c \in Contents : DeployInvalid(r, c)
          \/ reprocess_sync_rules(r)
          \/ \E c \in Contents, options \in DeployOptions : deploy_sync_rules(r, c, options)
          \/ Step(r)
    \/ persist_batch_with_plan
    \/ Crash
    \/ \E c \in Configurable : Boot(c)

Spec == Init /\ [][Next]_vars

\* A handler is one synchronous function: once it has staged a candidate
\* its thread runs it to the end.
LiveSpec == Spec /\ \A r \in Requests : WF_vars(Step(r))

----------------------------------------------------------------------------
\* Properties.

Versions == 0..MaxRevision

Entry ==
    [version : Versions, content : Contents,
     status : {"pending", "activating", "active", "failed", "retired"},
     base : Versions \cup {None},
     intent : (Versions \X Tokens \X Contents) \cup {None}]

PersistedState ==
    [current : Entry, next : Entry \cup {None}, history : Seq(Entry), revision : Versions]

RuntimeState ==
    [persisted : PersistedState, current_plan : Contents, next_plan : Contents \cup {None}]

RequestState == [version : Versions, plan : Contents \cup {None}, layout_change : BOOLEAN]

Sections == {"idle", "read_plan", "read_contract", "mark_activating", "refuse_layout",
             "reset", "activate", "give_up"}

\* A plain-text body carries the empty token; None is no value of any other kind.
ASSUME RulesAssumption ==
    /\ InitialContent \in Contents /\ Configurable \subseteq Contents /\ NoToken \in Tokens
    /\ HistoryLimit \in Nat /\ MaxRevision \in Nat
    /\ MaxCrashes \in Nat /\ MaxFaults \in Nat
    /\ None \notin Nat /\ None \notin Contents
    /\ None \notin Entry /\ None \notin PersistedState /\ None \notin RuntimeState

\* The shape of the rule state in memory and in the file, and of requests; the
\* history stays within its limit.
TypeOK ==
    /\ mem \in RuntimeState \cup {None} /\ file \in PersistedState \cup {None}
    /\ Up => Len(mem.persisted.history) <= HistoryLimit
    /\ file # None => Len(file.history) <= HistoryLimit
    /\ pc \in [Requests -> Sections] /\ req \in [Requests -> RequestState]
    /\ answer \in {None, "accepted", "refused"}

\* A process serves rules of one storage contract from its start to its end,
\* the one of the rules that were active when it started: whatever the
\* interleaving of deploys, failed writes and restarts, activate_pending
\* promotes no rules of another contract (the pending plan and the active
\* contract are read in separate critical sections).  And the store keeps the
\* layout of those rules, neither a deploy nor a batch lays it out anew, unless
\* the process was started with configured rules of another contract than the
\* active ones of its state file.
ActivePlanMatchesStore ==
    Up => /\ mem.current_plan = mem.persisted.current.content
          /\ Contract(mem.current_plan) = booted
          /\ Contract(configured) = booted => store = booted

\* A candidate in memory is always the one whose compiled plan is kept
\* beside it, also after another request's activate_pending or mark_failed
\* took and dropped a candidate without its plan, writes of the state file
\* failed, and the process was restarted.
CandidateHasItsPlan ==
    Up /\ mem.persisted.next # None =>
        /\ mem.next_plan = mem.persisted.next.content
        /\ mem.persisted.next.version > mem.persisted.current.version

\* Lost-update freedom of base_version: rules are only ever activated on
\* top of the version their request was based on.
NoLostUpdate ==
    [][Up /\ mem' # None /\ mem.persisted.current # mem'.persisted.current
          => mem'.persisted.current.base = mem.persisted.current.version]_vars

Entries(f) ==
    IF f = None THEN {}
    ELSE Range(f.history) \cup {f.current}
         \cup (IF f.next = None THEN {} ELSE {f.next})

\* A version number that has reached the state file names one rule text
\* from then on: no later candidate reuses it, even after failed
\* candidates, failed writes and restarts.
VersionsNameOneContent ==
    [][\A e \in Entries(file), f \in Entries(file') :
          e.version = f.version => e.content = f.content]_vars

\* A deploy answered as activated survives every later crash: the answer
\* follows the durable write.
ActivationAnswerIsDurable ==
    acked > 0 => file # None /\ file.current.version >= acked

\* A candidate never blocks later deploys for ever: unless a write fails or
\* the process stops, the thread of its request activates it or fails it.
CandidateResolved ==
    (Undisturbed /\ Up /\ mem.persisted.next # None)
        ~> (~Undisturbed \/ (Up /\ mem.persisted.next = None))

=============================================================================
