--------------------------- MODULE StreamAdmission ---------------------------
(***************************************************************************)
(* A /sync/stream request from arrival to the end of its response: the     *)
(* sync_stream handler, the read permits of AppState, the admission        *)
(* timeout, and the lifetime of the response body.  What the body carries  *)
(* is modelled in BucketSync and when it wakes up in TailWatch; here a     *)
(* body is only open or closed.                                            *)
(*                                                                         *)
(* Time is a Tick that counts every timer down.  A timer that has reached  *)
(* zero fires before the next Tick: tokio's timers are prompt compared     *)
(* with the seconds they measure.  The steps that do not wait for a timer  *)
(* take no time.                                                           *)
(***************************************************************************)
EXTENDS Integers, Sequences, FiniteSets

CONSTANTS
  Clients,            \* connections
  MaxReads,           \* POWERSYNC_RUST_MAX_CONCURRENT_SYNC_READS
  AdmissionTimeout,   \* POWERSYNC_RUST_SYNC_READ_ADMISSION_TIMEOUT_MS, in ticks
  MaxLifetime,        \* MAX_STREAM_LIFETIME, in ticks
  MaxToken,           \* bound: longest remaining lifetime of a token
  AllowAnonymous,     \* POWERSYNC_RUST_ALLOW_ANONYMOUS_SYNC without JWT keys
  NoToken,            \* the request is anonymous
  Plans               \* sync-rule plans of the store's contract

ASSUME AdmissionAssumption ==
  /\ MaxReads \in Nat \ {0} /\ AdmissionTimeout \in Nat \ {0}
  /\ MaxLifetime \in Nat \ {0} /\ MaxToken \in Nat \ {0}
  /\ AllowAnonymous \in BOOLEAN /\ NoToken \notin Int
  /\ IsFiniteSet(Clients)

VARIABLES
  ready,     \* runtime_readiness and the snapshot marker
  active,    \* the active plan
  free,      \* permits left in the semaphore
  queue,     \* requests waiting for a permit, first come first served
  conn,      \* client -> its request
  stalled    \* clients that have stopped reading: hyper's write buffer is full

vars == <<ready, active, free, queue, conn, stalled>>

\* A connection: its place in the handler, whether the response is held open,
\* the ticks left before the token expires (negative afterwards), the lifetime
\* computed for the body, the timer that runs, and the captured plan.  The age of a
\* token no longer matters to a buffered body.
NoConn ==
  [pc |-> "closed", hold |-> FALSE, token |-> NoToken, lifetime |-> 0,
   timer |-> 0, plan |-> CHOOSE p \in Plans : TRUE]

\* The request at another place of the handler, with another timer.
Moved(k, pc, timer) ==
  [pc |-> pc, hold |-> k.hold, token |-> k.token, lifetime |-> k.lifetime,
   timer |-> timer, plan |-> k.plan]

Min2(a, b) == IF a < b THEN a ELSE b

Waiting(c) == conn[c].pc = "admit"
HasPermit(c) == conn[c].pc \in {"respond", "hold"}
Open(c) == conn[c].pc \in {"drain", "hold", "pend"}

Init ==
  /\ ready \in BOOLEAN
  /\ active \in Plans
  /\ free = MaxReads
  /\ queue = <<>>
  /\ conn = [c \in Clients |-> NoConn]
  /\ stalled = {}

------------------------------------------------------------------------------
\* The handler, up to its first await.

Close(c) ==
  /\ conn' = [conn EXCEPT ![c] = NoConn]
  /\ stalled' = stalled \ {c}

Refused(c) ==
  /\ conn[c].pc = "closed"
  /\ Close(c)
  /\ UNCHANGED <<ready, active, free, queue>>

\* is_ready (503), authorize_user (401) and the JSON body (400) are checked in this
\* order.
RefuseNotReady(c) == ~ready /\ Refused(c)
RefuseUnauthorized(c) == ready /\ Refused(c)
RefuseBadJson(c) == ready /\ Refused(c)

\* Mutant: only the cap of the service is applied.
LifetimeIgnoringToken(token) == MaxLifetime

\* The body lives as long as the token, at most MAX_STREAM_LIFETIME.
StreamLifetime(token) ==
  IF token = NoToken THEN MaxLifetime ELSE Min2(token, MaxLifetime)

\* An accepted request: a verified token has not expired.  The plan is captured
\* before the buckets are resolved.
Arrive(c, token, hold) ==
  /\ conn[c].pc = "closed"
  /\ ready
  /\ token = NoToken => AllowAnonymous
  /\ conn' = [conn EXCEPT ![c] =
                [pc |-> "resolve", hold |-> hold, token |-> token,
                 lifetime |-> StreamLifetime(token), timer |-> 0, plan |-> active]]
  /\ UNCHANGED <<ready, active, free, queue, stalled>>

\* bucket_cursors fails, or resolves more than MAX_SYNC_BUCKETS buckets (400).
RejectBuckets(c) ==
  /\ conn[c].pc = "resolve"
  /\ Close(c)
  /\ UNCHANGED <<ready, active, free, queue>>

\* The request queues for a permit.
Enqueue(c) ==
  /\ conn[c].pc = "resolve"
  /\ conn' = [conn EXCEPT ![c] = Moved(@, "admit", AdmissionTimeout)]
  /\ queue' = Append(queue, c)
  /\ UNCHANGED <<ready, active, free, stalled>>

------------------------------------------------------------------------------
\* Permits.

\* The queue without c, which is in it once at most.
Without(q, c) ==
  IF \E i \in 1..Len(q) : q[i] = c
  THEN LET at == CHOOSE i \in 1..Len(q) : q[i] = c
       IN  [i \in 1..(Len(q) - 1) |-> IF i < at THEN q[i] ELSE q[i + 1]]
  ELSE q

\* acquire_sync_read: permits go to the request that has waited longest.
Acquire(c) ==
  /\ queue # <<>> /\ Head(queue) = c
  /\ free > 0
  /\ free' = free - 1
  /\ queue' = Tail(queue)
  /\ conn' = [conn EXCEPT ![c] = Moved(@, "respond", 0)]
  /\ UNCHANGED <<ready, active, stalled>>

\* Mutant: the timeout of the admission is never armed.
TimeoutDisabled(c) ==
  /\ FALSE
  /\ UNCHANGED vars

\* The admission timeout: 503 with Retry-After.
TimeoutWaiting(c) ==
  /\ Waiting(c)
  /\ conn[c].timer = 0
  /\ queue' = Without(queue, c)
  /\ Close(c)
  /\ UNCHANGED <<ready, active, free>>

\* The permit is dropped when its owner is, whatever ends the response.
Release(c) == free' = free + (IF HasPermit(c) THEN 1 ELSE 0)

\* Mutant: an answer without a body keeps the permit.
RespondErrorLeaks(c) ==
  /\ conn[c].pc = "respond"
  /\ Close(c)
  /\ UNCHANGED <<ready, active, free, queue>>

\* negotiate_content_type refuses the Accept header (406), or the first read of the
\* store fails (400 or 500).
RespondError(c) ==
  /\ conn[c].pc = "respond"
  /\ Release(c)
  /\ Close(c)
  /\ UNCHANGED <<ready, active, queue>>

\* sync_response, held open: the chunks are read under the permit, and the body
\* takes the permit along.  The lifetime starts here.
RespondHeldOpen(c) ==
  /\ conn[c].pc = "respond" /\ conn[c].hold
  /\ conn' = [conn EXCEPT ![c] = Moved(@, "hold", conn[c].lifetime)]
  /\ UNCHANGED <<ready, active, free, queue, stalled>>

\* The prepared body of an edge store is followed by silence; nothing is read
\* after it and the permit is dropped.
RespondPrepared(c) ==
  /\ conn[c].pc = "respond" /\ conn[c].hold
  /\ conn' = [conn EXCEPT ![c] = Moved(@, "pend", conn[c].lifetime)]
  /\ Release(c)
  /\ UNCHANGED <<ready, active, queue, stalled>>

\* A one-shot request whose chunks are all in memory: the body is a single
\* buffer, sent without a lifetime.
RespondBuffered(c) ==
  /\ conn[c].pc = "respond" /\ ~conn[c].hold
  /\ conn' = [conn EXCEPT ![c] = Moved(@, "send", 0)]
  /\ Release(c)
  /\ UNCHANGED <<ready, active, queue, stalled>>

\* A one-shot request whose pages are read lazily: the body reads on without the
\* permit, until its lifetime ends.
RespondLazily(c) ==
  /\ conn[c].pc = "respond" /\ ~conn[c].hold
  /\ conn' = [conn EXCEPT ![c] = Moved(@, "drain", conn[c].lifetime)]
  /\ Release(c)
  /\ UNCHANGED <<ready, active, queue, stalled>>

------------------------------------------------------------------------------
\* The body.

EndBody(c) ==
  /\ Release(c)
  /\ Close(c)
  /\ UNCHANGED <<ready, active, queue>>

\* hyper polls a body for as long as there is room in its write buffer.
Polled(c) == c \notin stalled

\* A one-shot body has sent its last page.
Drained(c) == conn[c].pc \in {"drain", "send"} /\ Polled(c) /\ EndBody(c)

\* Waiting for new cursors or the follow-up read fails: the stream ends.
StorageFails(c) == conn[c].pc = "hold" /\ Polled(c) /\ EndBody(c)

\* Mutant: only one-shot bodies are cut.
LifetimeEndsDrained(c) ==
  conn[c].pc = "drain" /\ conn[c].timer = 0 /\ Polled(c) /\ EndBody(c)

\* take_until(sleep(lifetime)): the timer is looked at when the body is polled.
LifetimeEnds(c) == Open(c) /\ conn[c].timer = 0 /\ Polled(c) /\ EndBody(c)

\* The client stops reading, and later reads on: the poll that follows ends a body
\* whose lifetime is over.
StopReading(c) ==
  /\ Open(c) /\ Polled(c)
  /\ stalled' = stalled \cup {c}
  /\ UNCHANGED <<ready, active, free, queue, conn>>

ReadOn(c) ==
  /\ c \in stalled
  /\ conn[c].timer > 0
  /\ stalled' = stalled \ {c}
  /\ UNCHANGED <<ready, active, free, queue, conn>>

ReadOnTooLate(c) == Open(c) /\ c \in stalled /\ conn[c].timer = 0 /\ EndBody(c)

\* The client goes away: the handler's future or the body is dropped.
Disconnect(c) ==
  /\ conn[c].pc # "closed"
  /\ Release(c)
  /\ queue' = Without(queue, c)
  /\ Close(c)
  /\ UNCHANGED <<ready, active>>

------------------------------------------------------------------------------
\* The environment.

CountDown(n) == IF n > 0 THEN n - 1 ELSE 0

\* Bound: a token that expired this long ago grows no older.
TokenFloor == -(AdmissionTimeout + 1)

Older(token) == IF token \in {NoToken, TokenFloor} THEN token ELSE token - 1

Ticked(k) ==
  IF k.pc = "closed" THEN k
  ELSE [pc |-> k.pc, hold |-> k.hold, lifetime |-> k.lifetime, plan |-> k.plan,
        timer |-> CountDown(k.timer),
        token |-> IF k.pc = "send" THEN k.token ELSE Older(k.token)]

\* No request is between two steps of its handler, which take no time here.
AtRest == \A c \in Clients : conn[c].pc \notin {"resolve", "respond"}

Tick ==
  /\ AtRest
  /\ \A c \in Clients : Waiting(c) \/ (Open(c) /\ Polled(c)) => conn[c].timer > 0
  /\ \E c \in Clients : conn[c].pc # "closed"
  /\ conn' = [c \in Clients |-> Ticked(conn[c])]
  /\ UNCHANGED <<ready, active, free, queue, stalled>>

\* The runner loses or regains its stream.
ReadinessChanges ==
  /\ ready' = ~ready
  /\ UNCHANGED <<active, free, queue, conn, stalled>>

\* activate_pending: a plan of the same contract takes over (module SyncRules).
Activate(p) ==
  /\ p # active
  /\ active' = p
  /\ UNCHANGED <<ready, free, queue, conn, stalled>>

Tokens == 1..MaxToken \cup {NoToken}

Handler(c) ==
  \/ RejectBuckets(c)
  \/ Enqueue(c)
  \/ Acquire(c)
  \/ TimeoutWaiting(c)
  \/ RespondError(c)
  \/ RespondHeldOpen(c)
  \/ RespondPrepared(c)
  \/ RespondBuffered(c)
  \/ RespondLazily(c)

Next ==
  \/ \E c \in Clients :
       \/ RefuseNotReady(c)
       \/ RefuseUnauthorized(c)
       \/ RefuseBadJson(c)
       \/ \E t \in Tokens, h \in BOOLEAN : Arrive(c, t, h)
       \/ Handler(c)
       \/ Drained(c)
       \/ StorageFails(c)
       \/ LifetimeEnds(c)
       \/ StopReading(c)
       \/ ReadOn(c)
       \/ ReadOnTooLate(c)
       \/ Disconnect(c)
  \/ Tick
  \/ ReadinessChanges
  \/ \E p \in Plans : Activate(p)

Spec == Init /\ [][Next]_vars

\* Handlers are polled until they answer, timers fire, and time passes however
\* many requests come and go: only finitely many of them arrive at one instant,
\* and Tick, which a handler between two steps suspends, is strongly fair.
\* Nothing is assumed of clients: one may keep its stream open for ever, and one may
\* stop reading for ever, in which case its body is not polled.
LiveSpec ==
  /\ Spec
  /\ []<>AtRest
  /\ SF_vars(Tick)
  /\ \A c \in Clients : WF_vars(Handler(c)) /\ WF_vars(LifetimeEnds(c))

------------------------------------------------------------------------------
Pcs == {"closed", "resolve", "admit", "respond", "drain", "send", "hold", "pend"}

TypeOK ==
  /\ ready \in BOOLEAN /\ active \in Plans
  /\ free \in 0..MaxReads
  /\ queue \in Seq(Clients)
  /\ \A c \in Clients :
       /\ conn[c].pc \in Pcs
       /\ conn[c].hold \in BOOLEAN
       /\ conn[c].token \in (TokenFloor..MaxToken) \cup {NoToken}
       /\ conn[c].lifetime \in 0..MaxLifetime
       /\ conn[c].timer \in 0..(AdmissionTimeout + MaxLifetime)
       /\ conn[c].plan \in Plans
  /\ stalled \subseteq {c \in Clients : Open(c)}

\* No path through the handler leaks or duplicates a permit, and exactly the
\* waiting requests are queued, once each: the semaphore and the connections
\* that own its permits always add up.
PermitsConserved ==
  /\ free + Cardinality({c \in Clients : HasPermit(c)}) = MaxReads
  /\ {queue[i] : i \in 1..Len(queue)} = {c \in Clients : Waiting(c)}
  /\ Len(queue) = Cardinality({c \in Clients : Waiting(c)})

\* A body that is read never outlives the token it was opened with by more than the
\* time its request may wait for a permit: the remaining lifetime is read before the
\* wait and the timer is started after it.  A client that stopped reading may keep its
\* body longer, but gets nothing of it: when it reads on, the body ends.
BodyEndsWithToken ==
  \A c \in Clients :
    Open(c) /\ Polled(c) /\ conn[c].token # NoToken =>
      /\ conn[c].token >= -AdmissionTimeout
      /\ conn[c].timer <= conn[c].token + AdmissionTimeout

\* Permits are handed out in the order of arrival: a request is never overtaken
\* by one that queued after it.
NoOvertaking ==
  [][\A i, j \in 1..Len(queue) :
       i < j /\ conn'[queue[j]].pc = "respond" => conn'[queue[i]].pc # "admit"]_vars

\* Every request that waits for a permit is answered, also when all permits are
\* held by streams that stay open.
WaitingAnswered == \A c \in Clients : Waiting(c) ~> ~Waiting(c)

\* Every body ends whose client does not stop reading for ever, also one that stops
\* and reads on again and again, and however many others come: a held-open stream
\* gives its permit back, and a plan that was captured before another one was
\* activated is not served for ever.  (take_until ends a body only when it is polled:
\* nothing ends the body, or frees the permit, of a client that stays connected and
\* reads no more.)
BodyEnds ==
  \A c \in Clients : []<>Polled(c) => (Open(c) ~> ~Open(c))
==============================================================================
