------------------------ MODULE StreamAdmissionProofs ------------------------
(***************************************************************************)
(* The read permits of /sync/stream for every number of clients, permits   *)
(* and every timeout: no path through the handler leaks or duplicates a    *)
(* permit, and permits are handed out in the order of arrival.             *)
(*                                                                         *)
(* A body outlives its token by the admission timeout at most: the         *)
(* lifetime is taken from the token on arrival, and only the wait for a    *)
(* permit delays its start.                                                *)
(***************************************************************************)
EXTENDS StreamAdmission, FiniteSetTheorems, TLAPS

Holders == {c \in Clients : HasPermit(c)}
Waiters == {c \in Clients : Waiting(c)}
Owns(k) == IF k.pc \in {"respond", "hold"} THEN 1 ELSE 0

\* Every client has a connection, and the permits add up.
PermitInv ==
  /\ conn = [c \in Clients |-> conn[c]]
  /\ free \in Int
  /\ free + Cardinality(Holders) = MaxReads

\* The queue holds the waiting requests and nothing else, each of them once.
\* It is what makes PermitInv inductive: the request that acquires a permit is
\* waiting, so it has none yet.
QueueInv ==
  /\ conn = [c \in Clients |-> conn[c]]
  /\ queue \in Seq(Clients)
  /\ \A i, j \in 1..Len(queue) : queue[i] = queue[j] => i = j
  /\ \A c \in Clients : Waiting(c) <=> \E i \in 1..Len(queue) : queue[i] = c

------------------------------------------------------------------------------
\* Steps of one connection.

\* A step of one connection that moves as many permits as it should.
LEMMA OneConnection ==
  ASSUME PermitInv, NEW c \in Clients, NEW k,
         conn' = [conn EXCEPT ![c] = k],
         free' = free + Owns(conn[c]) - Owns(k)
  PROVE  PermitInv'
<1>1. IsFiniteSet(Holders) /\ Cardinality(Holders) \in Nat
  BY AdmissionAssumption, FS_Subset, FS_CardinalityType DEF Holders
<1>2. conn' = [d \in Clients |-> conn'[d]]
  BY DEF PermitInv
<1>3. conn'[c] = k /\ \A d \in Clients \ {c} : conn'[d] = conn[d]
  BY DEF PermitInv
<1>4. free' \in Int
  BY DEF PermitInv, Owns
<1>5. CASE k.pc \in {"respond", "hold"}
  <2>1. Holders' = Holders \cup {c}
    BY <1>3, <1>5 DEF Holders, HasPermit
  <2>2. c \in Holders <=> Owns(conn[c]) = 1
    BY DEF Holders, HasPermit, Owns
  <2>3. Cardinality(Holders') =
          IF c \in Holders THEN Cardinality(Holders) ELSE Cardinality(Holders) + 1
    BY <1>1, <2>1, FS_AddElement
  <2>4. free' + Cardinality(Holders') = MaxReads
    BY <1>1, <1>5, <2>2, <2>3, AdmissionAssumption DEF PermitInv, Owns
  <2> QED BY <1>2, <1>4, <2>4 DEF PermitInv
<1>6. CASE k.pc \notin {"respond", "hold"}
  <2>1. Holders' = Holders \ {c}
    BY <1>3, <1>6 DEF Holders, HasPermit
  <2>2. c \in Holders <=> Owns(conn[c]) = 1
    BY DEF Holders, HasPermit, Owns
  <2>3. Cardinality(Holders') =
          IF c \in Holders THEN Cardinality(Holders) - 1 ELSE Cardinality(Holders)
    BY Zenon, <1>1, <2>1, FS_RemoveElement
  <2>4. free' + Cardinality(Holders') = MaxReads
    BY <1>1, <1>6, <2>2, <2>3, AdmissionAssumption DEF PermitInv, Owns
  <2> QED BY <1>2, <1>4, <2>4 DEF PermitInv
<1> QED BY Zenon, <1>5, <1>6

\* A step of one connection that does not wait for a permit, before or after.
LEMMA NotQueued ==
  ASSUME QueueInv, NEW c \in Clients, NEW k, ~Waiting(c), k.pc # "admit",
         conn' = [conn EXCEPT ![c] = k], queue' = queue
  PROVE  QueueInv'
<1>1. conn' = [d \in Clients |-> conn'[d]]
  BY Zenon DEF QueueInv
<1>2. conn'[c] = k /\ \A d \in Clients \ {c} : conn'[d] = conn[d]
  BY DEF QueueInv
<1>3. \A d \in Clients : Waiting(d)' <=> Waiting(d)
  BY <1>2 DEF Waiting
<1> QED BY <1>1, <1>3 DEF QueueInv

\* A request at the end of the queue.
LEMMA Queued ==
  ASSUME QueueInv, NEW c \in Clients, NEW k, ~Waiting(c), k.pc = "admit",
         conn' = [conn EXCEPT ![c] = k], queue' = Append(queue, c)
  PROVE  QueueInv'
<1>1. conn' = [d \in Clients |-> conn'[d]]
  BY Zenon DEF QueueInv
<1>2. conn'[c] = k /\ \A d \in Clients \ {c} : conn'[d] = conn[d]
  BY DEF QueueInv
<1>3. \A d \in Clients : Waiting(d)' <=> Waiting(d) \/ d = c
  BY <1>2 DEF Waiting
<1>4. /\ queue' \in Seq(Clients) /\ Len(queue') = Len(queue) + 1
      /\ Len(queue) \in Nat
      /\ \A i \in 1..Len(queue) : queue'[i] = queue[i]
      /\ queue'[Len(queue) + 1] = c
  BY DEF QueueInv
<1>5. \A i \in 1..Len(queue) : queue[i] # c
  BY DEF QueueInv
<1>6. \A i, j \in 1..Len(queue') : queue'[i] = queue'[j] => i = j
  BY <1>4, <1>5 DEF QueueInv
<1>7. ASSUME NEW d \in Clients
      PROVE  Waiting(d)' <=> \E i \in 1..Len(queue') : queue'[i] = d
  BY <1>3, <1>4 DEF QueueInv
<1> QED BY <1>1, <1>4, <1>6, <1>7 DEF QueueInv

\* The queue without one of its requests, in terms of positions.
LEMMA Removal ==
  ASSUME QueueInv, NEW at \in 1..Len(queue), NEW k, k.pc # "admit",
         conn' = [conn EXCEPT ![queue[at]] = k],
         queue' \in Seq(Clients), Len(queue') = Len(queue) - 1,
         \A i \in 1..(Len(queue) - 1) :
           queue'[i] = IF i < at THEN queue[i] ELSE queue[i + 1]
  PROVE  QueueInv'
<1> DEFINE c == queue[at]
<1>0. Len(queue) \in Nat /\ c \in Clients
  BY DEF QueueInv
<1>1. conn' = [d \in Clients |-> conn'[d]]
  BY Zenon DEF QueueInv
<1>2. conn'[c] = k /\ \A d \in Clients \ {c} : conn'[d] = conn[d]
  BY <1>0 DEF QueueInv
<1>3. \A d \in Clients : Waiting(d)' <=> Waiting(d) /\ d # c
  BY <1>2 DEF Waiting
<1>4. ASSUME NEW i \in 1..Len(queue'), NEW j \in 1..Len(queue'),
             queue'[i] = queue'[j]
      PROVE  i = j
  <2>1. CASE i < at /\ j < at
    BY <1>0, <1>4, <2>1 DEF QueueInv
  <2>2. CASE i < at /\ j >= at
    <3>1. queue[i] = queue[j + 1] /\ j + 1 \in 1..Len(queue)
      BY <1>0, <1>4, <2>2
    <3> QED BY <1>0, <2>2, <3>1 DEF QueueInv
  <2>3. CASE i >= at /\ j < at
    <3>1. queue[i + 1] = queue[j] /\ i + 1 \in 1..Len(queue)
      BY <1>0, <1>4, <2>3
    <3> QED BY <1>0, <2>3, <3>1 DEF QueueInv
  <2>4. CASE i >= at /\ j >= at
    <3>1. /\ queue[i + 1] = queue[j + 1]
          /\ i + 1 \in 1..Len(queue) /\ j + 1 \in 1..Len(queue)
      BY <1>0, <1>4, <2>4
    <3>2. i + 1 = j + 1
      BY <3>1 DEF QueueInv
    <3> QED BY <1>0, <3>2
  <2> QED BY <1>0, <2>1, <2>2, <2>3, <2>4
<1>5. ASSUME NEW d \in Clients, NEW i \in 1..Len(queue'), queue'[i] = d
      PROVE  Waiting(d)'
  <2>1. PICK j \in 1..Len(queue) : queue[j] = d /\ j # at
    BY <1>0, <1>5
  <2>2. Waiting(d) /\ d # c
    BY <2>1 DEF QueueInv
  <2> QED BY <1>3, <2>2
<1>6. ASSUME NEW d \in Clients, Waiting(d)'
      PROVE  \E i \in 1..Len(queue') : queue'[i] = d
  <2>1. Waiting(d) /\ d # c
    BY <1>3, <1>6
  <2>2. PICK j \in 1..Len(queue) : queue[j] = d
    BY <2>1 DEF QueueInv
  <2>3. j # at
    BY <2>1, <2>2
  <2>4. CASE j < at
    BY <1>0, <2>2, <2>4
  <2>5. CASE j > at
    <3>1. j - 1 \in 1..Len(queue') /\ queue'[j - 1] = queue[j]
      BY <1>0, <2>5
    <3> QED BY <2>2, <3>1
  <2> QED BY <1>0, <2>3, <2>4, <2>5
<1> QED BY <1>1, <1>4, <1>5, <1>6 DEF QueueInv

\* A waiting request leaves the queue, wherever it stands in it.
LEMMA Left ==
  ASSUME QueueInv, NEW c \in Clients, NEW k, Waiting(c), k.pc # "admit",
         conn' = [conn EXCEPT ![c] = k], queue' = Without(queue, c)
  PROVE  QueueInv'
<1> DEFINE at == CHOOSE i \in 1..Len(queue) : queue[i] = c
<1>1. at \in 1..Len(queue) /\ queue[at] = c
  BY DEF QueueInv
<1>2. queue' = [i \in 1..(Len(queue) - 1) |->
                  IF i < at THEN queue[i] ELSE queue[i + 1]]
  BY <1>1 DEF Without
<1> HIDE DEF at
<1>3. Len(queue) \in Nat \ {0} /\ \A i \in 1..Len(queue) : queue[i] \in Clients
  BY <1>1 DEF QueueInv
<1>4. \A i \in 1..(Len(queue) - 1) :
        (IF i < at THEN queue[i] ELSE queue[i + 1]) \in Clients
  BY <1>1, <1>3
<1>5. queue' \in Seq(Clients) /\ Len(queue') = Len(queue) - 1
  BY <1>2, <1>3, <1>4
<1> QED BY Zenon, <1>1, <1>2, <1>3, <1>5, Removal

\* Nobody else is affected when a request that does not wait is dropped.
LEMMA WithoutNothing ==
  ASSUME QueueInv, NEW c \in Clients, ~Waiting(c)
  PROVE  Without(queue, c) = queue
BY DEF QueueInv, Without

------------------------------------------------------------------------------
\* The actions.

AdmissionInv == PermitInv /\ QueueInv

\* A connection that is closed, at any place of the handler where it does not
\* wait: its permit, if it has one, goes back.
LEMMA ClosesConnection ==
  ASSUME AdmissionInv, NEW c \in Clients, ~Waiting(c),
         Close(c), Release(c), queue' = queue
  PROVE  AdmissionInv'
<1>1. conn' = [conn EXCEPT ![c] = NoConn] /\ NoConn.pc = "closed"
  BY DEF Close, NoConn
<1>2. free' = free + Owns(conn[c]) - Owns(NoConn)
  BY <1>1 DEF Release, HasPermit, Owns, AdmissionInv, PermitInv
<1>3. PermitInv'
  BY Zenon, <1>1, <1>2, OneConnection DEF AdmissionInv
<1>4. QueueInv'
  BY Zenon, <1>1, NotQueued DEF AdmissionInv
<1> QED BY <1>3, <1>4 DEF AdmissionInv

\* A waiting request is closed: it has no permit and leaves the queue.
LEMMA ClosesWaiting ==
  ASSUME AdmissionInv, NEW c \in Clients, Waiting(c),
         Close(c), free' = free, queue' = Without(queue, c)
  PROVE  AdmissionInv'
<1>1. conn' = [conn EXCEPT ![c] = NoConn] /\ NoConn.pc = "closed"
  BY DEF Close, NoConn
<1>2. free' = free + Owns(conn[c]) - Owns(NoConn)
  BY <1>1 DEF Waiting, Owns, AdmissionInv, PermitInv
<1>3. PermitInv'
  BY Zenon, <1>1, <1>2, OneConnection DEF AdmissionInv
<1>4. QueueInv'
  BY Zenon, <1>1, Left DEF AdmissionInv
<1> QED BY <1>3, <1>4 DEF AdmissionInv

\* A connection that moves on to a place where it does not wait.
LEMMA Moves ==
  ASSUME AdmissionInv, NEW c \in Clients, NEW k, ~Waiting(c), k.pc # "admit",
         conn' = [conn EXCEPT ![c] = k], queue' = queue,
         free' = free + Owns(conn[c]) - Owns(k)
  PROVE  AdmissionInv'
BY Zenon, OneConnection, NotQueued DEF AdmissionInv

\* Handler steps before and while a request waits.
LEMMA AdmissionSteps ==
  ASSUME AdmissionInv, NEW c \in Clients,
         RejectBuckets(c) \/ Enqueue(c) \/ Acquire(c) \/ TimeoutWaiting(c)
  PROVE  AdmissionInv'
<1>1. CASE RejectBuckets(c)
  <2>1. ~Waiting(c) /\ Close(c) /\ queue' = queue /\ Release(c)
    BY <1>1 DEF RejectBuckets, Waiting, Release, HasPermit, AdmissionInv, PermitInv
  <2> QED BY <2>1, ClosesConnection
<1>2. CASE Enqueue(c)
  <2> DEFINE k == Moved(conn[c], "admit", AdmissionTimeout)
  <2>1. /\ k.pc = "admit" /\ ~Waiting(c)
        /\ conn' = [conn EXCEPT ![c] = k]
        /\ queue' = Append(queue, c)
    BY <1>2 DEF Enqueue, Moved, Waiting
  <2>2. free' = free + Owns(conn[c]) - Owns(k)
    BY <1>2, <2>1 DEF Enqueue, Owns, AdmissionInv, PermitInv
  <2> HIDE DEF k
  <2> QED BY Zenon, <2>1, <2>2, OneConnection, Queued DEF AdmissionInv
<1>3. CASE Acquire(c)
  <2> DEFINE k == Moved(conn[c], "respond", 0)
  <2>1. /\ k.pc = "respond"
        /\ conn' = [conn EXCEPT ![c] = k]
        /\ queue # <<>> /\ Head(queue) = c /\ queue' = Tail(queue)
        /\ free' = free - 1
    BY <1>3 DEF Acquire, Moved
  <2> HIDE DEF k
  <2>2. /\ 1 \in 1..Len(queue) /\ queue[1] = c
        /\ Tail(queue) \in Seq(Clients) /\ Len(Tail(queue)) = Len(queue) - 1
        /\ \A i \in 1..(Len(queue) - 1) : Tail(queue)[i] = queue[i + 1]
    BY <2>1 DEF AdmissionInv, QueueInv
  <2>3. Waiting(c)
    BY <2>2 DEF AdmissionInv, QueueInv
  <2>4. free' = free + Owns(conn[c]) - Owns(k)
    BY <2>1, <2>3 DEF Waiting, Owns, AdmissionInv, PermitInv
  <2>5. \A i \in 1..(Len(queue) - 1) :
          queue'[i] = IF i < 1 THEN queue[i] ELSE queue[i + 1]
    BY <2>1, <2>2 DEF AdmissionInv, QueueInv
  <2>6. QueueInv'
    BY Zenon, <2>1, <2>2, <2>5, Removal DEF AdmissionInv
  <2> QED BY Zenon, <2>1, <2>4, <2>6, OneConnection DEF AdmissionInv
<1>4. CASE TimeoutWaiting(c)
  BY <1>4, ClosesWaiting DEF TimeoutWaiting
<1> QED BY <1>1, <1>2, <1>3, <1>4

\* Handler steps that answer the request.
LEMMA ResponseSteps ==
  ASSUME AdmissionInv, NEW c \in Clients,
         \/ RespondError(c) \/ RespondHeldOpen(c) \/ RespondPrepared(c)
         \/ RespondBuffered(c) \/ RespondLazily(c)
  PROVE  AdmissionInv'
<1>1. ~Waiting(c) /\ conn[c].pc = "respond" /\ queue' = queue
  BY DEF RespondError, RespondHeldOpen, RespondPrepared, RespondBuffered,
         RespondLazily, Waiting
<1>2. CASE RespondError(c)
  BY <1>1, <1>2, ClosesConnection DEF RespondError
<1>3. free \in Int
  BY Zenon DEF AdmissionInv, PermitInv
<1>4. Release(c) => free' = free + 1
  BY <1>1 DEF Release, HasPermit
<1>5. CASE RespondHeldOpen(c)
  <2> DEFINE k == Moved(conn[c], "hold", conn[c].lifetime)
  <2>1. k.pc = "hold"
    BY DEF Moved
  <2>2. conn' = [conn EXCEPT ![c] = k] /\ free' = free
    BY <1>5 DEF RespondHeldOpen
  <2> HIDE DEF k
  <2>3. k.pc # "admit" /\ free' = free + Owns(conn[c]) - Owns(k)
    BY <1>1, <1>3, <2>1, <2>2 DEF Owns
  <2> QED BY Zenon, <1>1, <2>2, <2>3, Moves
<1>6. CASE RespondPrepared(c)
  <2> DEFINE k == Moved(conn[c], "pend", conn[c].lifetime)
  <2>1. k.pc = "pend"
    BY DEF Moved
  <2>2. conn' = [conn EXCEPT ![c] = k] /\ free' = free + 1
    BY <1>4, <1>6 DEF RespondPrepared
  <2> HIDE DEF k
  <2>3. k.pc # "admit" /\ free' = free + Owns(conn[c]) - Owns(k)
    BY <1>1, <1>3, <2>1, <2>2 DEF Owns
  <2> QED BY Zenon, <1>1, <2>2, <2>3, Moves
<1>7. CASE RespondBuffered(c)
  <2> DEFINE k == Moved(conn[c], "send", 0)
  <2>1. k.pc = "send"
    BY DEF Moved
  <2>2. conn' = [conn EXCEPT ![c] = k] /\ free' = free + 1
    BY <1>4, <1>7 DEF RespondBuffered
  <2> HIDE DEF k
  <2>3. k.pc # "admit" /\ free' = free + Owns(conn[c]) - Owns(k)
    BY <1>1, <1>3, <2>1, <2>2 DEF Owns
  <2> QED BY Zenon, <1>1, <2>2, <2>3, Moves
<1>8. CASE RespondLazily(c)
  <2> DEFINE k == Moved(conn[c], "drain", conn[c].lifetime)
  <2>1. k.pc = "drain"
    BY DEF Moved
  <2>2. conn' = [conn EXCEPT ![c] = k] /\ free' = free + 1
    BY <1>4, <1>8 DEF RespondLazily
  <2> HIDE DEF k
  <2>3. k.pc # "admit" /\ free' = free + Owns(conn[c]) - Owns(k)
    BY <1>1, <1>3, <2>1, <2>2 DEF Owns
  <2> QED BY Zenon, <1>1, <2>2, <2>3, Moves
<1> QED BY <1>2, <1>5, <1>6, <1>7, <1>8

\* Requests that are refused or accepted on arrival.
LEMMA ArrivalSteps ==
  ASSUME AdmissionInv, NEW c \in Clients,
         \/ RefuseNotReady(c) \/ RefuseUnauthorized(c) \/ RefuseBadJson(c)
         \/ \E t \in Tokens, h \in BOOLEAN : Arrive(c, t, h)
  PROVE  AdmissionInv'
<1>1. ~Waiting(c) /\ conn[c].pc = "closed" /\ queue' = queue /\ free' = free
  BY DEF RefuseNotReady, RefuseUnauthorized, RefuseBadJson, Refused, Arrive, Waiting
<1>2. ASSUME Close(c)
      PROVE  AdmissionInv'
  <2>1. Release(c)
    BY <1>1 DEF Release, HasPermit, AdmissionInv, PermitInv
  <2> QED BY <1>1, <1>2, <2>1, ClosesConnection
<1>3. ASSUME NEW t \in Tokens, NEW h \in BOOLEAN, Arrive(c, t, h)
      PROVE  AdmissionInv'
  <2> DEFINE k == [pc |-> "resolve", hold |-> h, token |-> t,
                   lifetime |-> StreamLifetime(t), timer |-> 0, plan |-> active]
  <2>1. k.pc = "resolve" /\ conn' = [conn EXCEPT ![c] = k]
    BY <1>3 DEF Arrive
  <2> HIDE DEF k
  <2>2. free' = free + Owns(conn[c]) - Owns(k)
    BY <1>1, <2>1 DEF Owns, AdmissionInv, PermitInv
  <2> QED BY Zenon, <1>1, <2>1, <2>2, Moves
<1> QED BY <1>2, <1>3 DEF RefuseNotReady, RefuseUnauthorized, RefuseBadJson, Refused

\* The ways a response ends.
LEMMA EndingSteps ==
  ASSUME AdmissionInv, NEW c \in Clients,
         \/ Drained(c) \/ StorageFails(c) \/ LifetimeEnds(c)
         \/ ReadOnTooLate(c) \/ Disconnect(c)
  PROVE  AdmissionInv'
<1>1. ASSUME EndBody(c), ~Waiting(c)
      PROVE  AdmissionInv'
  BY <1>1, ClosesConnection DEF EndBody
<1>2. CASE Drained(c) \/ StorageFails(c) \/ LifetimeEnds(c)
           \/ ReadOnTooLate(c)
  BY <1>1, <1>2 DEF Drained, StorageFails, LifetimeEnds, ReadOnTooLate, Open, Waiting
<1>3. CASE Disconnect(c) /\ ~Waiting(c)
  <2>1. queue' = queue
    BY <1>3, WithoutNothing DEF Disconnect, AdmissionInv
  <2> QED BY <1>3, <2>1, ClosesConnection DEF Disconnect
<1>4. CASE Disconnect(c) /\ Waiting(c)
  <2>1. free' = free
    BY <1>4 DEF Disconnect, Release, HasPermit, Waiting, AdmissionInv, PermitInv
  <2> QED BY <1>4, <2>1, ClosesWaiting DEF Disconnect
<1> QED BY <1>2, <1>3, <1>4

\* Steps after which every connection is where it was.
LEMMA PlacesKept ==
  ASSUME AdmissionInv, free' = free, queue' = queue,
         conn' = [c \in Clients |-> conn'[c]],
         \A c \in Clients : conn'[c].pc = conn[c].pc
  PROVE  AdmissionInv'
<1>1. Holders' = Holders /\ \A c \in Clients : Waiting(c)' <=> Waiting(c)
  BY DEF Holders, HasPermit, Waiting
<1>2. PermitInv'
  BY <1>1 DEF AdmissionInv, PermitInv
<1>3. QueueInv'
  BY <1>1 DEF AdmissionInv, QueueInv
<1> QED BY <1>2, <1>3 DEF AdmissionInv

\* AdmissionInv is inductive.
LEMMA AdmissionInvariant == Spec => []AdmissionInv
<1>1. Init => AdmissionInv
  <2> SUFFICES ASSUME Init PROVE AdmissionInv
    OBVIOUS
  <2>1. /\ conn = [c \in Clients |-> conn[c]]
        /\ \A c \in Clients : conn[c].pc = "closed"
    BY DEF Init, NoConn
  <2>2. Holders = {}
    BY <2>1 DEF Holders, HasPermit
  <2>3. Cardinality(Holders) = 0
    BY <2>2, FS_EmptySet
  <2>4. PermitInv
    BY <2>1, <2>3, AdmissionAssumption DEF Init, PermitInv
  <2>5. QueueInv
    BY <2>1 DEF Init, QueueInv, Waiting
  <2> QED BY <2>4, <2>5 DEF AdmissionInv
<1>2. AdmissionInv /\ [Next]_vars => AdmissionInv'
  <2> SUFFICES ASSUME AdmissionInv, [Next]_vars
               PROVE  AdmissionInv'
    OBVIOUS
  <2>1. CASE Tick
    <3>1. \A c \in Clients : Ticked(conn[c]).pc = conn[c].pc
      BY DEF Ticked
    <3>2. conn' = [c \in Clients |-> Ticked(conn[c])] /\ free' = free /\ queue' = queue
      BY <2>1 DEF Tick
    <3> QED BY <3>1, <3>2, PlacesKept
  <2>2. CASE \/ ReadinessChanges \/ (\E p \in Plans : Activate(p)) \/ UNCHANGED vars
           \/ \E c \in Clients : StopReading(c) \/ ReadOn(c)
    <3>1. conn' = conn /\ free' = free /\ queue' = queue
      BY <2>2 DEF ReadinessChanges, Activate, StopReading, ReadOn, vars
    <3>2. conn = [c \in Clients |-> conn[c]]
      BY DEF AdmissionInv, PermitInv
    <3> QED BY <3>1, <3>2, PlacesKept
  <2> QED BY <2>1, <2>2, AdmissionSteps, ResponseSteps, ArrivalSteps, EndingSteps
          DEF Next, Handler
<1> QED BY <1>1, <1>2, PTL DEF Spec

------------------------------------------------------------------------------
\* The queue is as long as there are waiting requests.
LEMMA QueueCounts ==
  ASSUME QueueInv
  PROVE  Len(queue) = Cardinality(Waiters)
<1>1. Len(queue) \in Nat /\ queue \in [1..Len(queue) -> Waiters]
  BY DEF QueueInv, Waiters
<1>2. queue \in Bijection(1..Len(queue), Waiters)
  BY <1>1 DEF QueueInv, Waiters, Bijection, Injection, Surjection, IsInjective
<1> QED BY <1>1, <1>2, FS_CountingElements DEF ExistsBijection

\* No path through the handler leaks or duplicates a permit, and exactly the
\* waiting requests are queued, once each (acquire_sync_read and the permit the
\* body takes along), for every number of clients and permits.
THEOREM PermitsCorrect == Spec => []PermitsConserved
<1>1. AdmissionInv => PermitsConserved
  <2> SUFFICES ASSUME AdmissionInv PROVE PermitsConserved
    OBVIOUS
  <2>1. {queue[i] : i \in 1..Len(queue)} = Waiters
    BY DEF AdmissionInv, QueueInv, Waiters
  <2> QED BY <2>1, QueueCounts DEF AdmissionInv, PermitInv, PermitsConserved, Holders, Waiters
<1> QED BY <1>1, AdmissionInvariant, PTL

\* Permits are handed out in the order of arrival: only the first request of the
\* queue acquires one (acquire_sync_read, a fair semaphore).
THEOREM ArrivalOrder == Spec => NoOvertaking
<1> DEFINE Step == \A i, j \in 1..Len(queue) :
              i < j /\ conn'[queue[j]].pc = "respond" => conn'[queue[i]].pc # "admit"
<1>1. AdmissionInv /\ [Next]_vars => [Step]_vars
  <2> SUFFICES ASSUME AdmissionInv, Next, NEW i \in 1..Len(queue),
                      NEW j \in 1..Len(queue), i < j,
                      conn'[queue[j]].pc = "respond", conn'[queue[i]].pc = "admit"
               PROVE  FALSE
    OBVIOUS
  <2>1. /\ queue[j] \in Clients /\ conn[queue[j]].pc = "admit"
        /\ conn = [c \in Clients |-> conn[c]]
    BY DEF AdmissionInv, QueueInv, Waiting
  <2>2. ASSUME NEW c \in Clients, Acquire(c)
        PROVE  FALSE
    <3>1. queue[1] = c /\ 1 \in 1..Len(queue) /\ j # 1
      BY <2>2 DEF Acquire, AdmissionInv, QueueInv
    <3>2. queue[j] # c
      BY <3>1 DEF AdmissionInv, QueueInv
    <3>3. conn'[queue[j]] = conn[queue[j]]
      BY <2>1, <2>2, <3>2 DEF Acquire
    <3> QED BY <2>1, <3>3
  <2>3. ASSUME NEW c \in Clients, NEW k, k.pc # "respond",
               conn' = [conn EXCEPT ![c] = k]
        PROVE  FALSE
    BY Zenon, <2>1, <2>3
  <2>4. ASSUME NEW c \in Clients, Close(c)
        PROVE  FALSE
    BY Zenon, <2>3, <2>4 DEF Close, NoConn
  <2>5. CASE Tick
    <3>1. conn'[queue[j]].pc = conn[queue[j]].pc
      BY Zenon, <2>1, <2>5 DEF Tick, Ticked
    <3> QED BY <2>1, <3>1
  <2>6. CASE \/ ReadinessChanges \/ (\E p \in Plans : Activate(p))
           \/ \E c \in Clients : StopReading(c) \/ ReadOn(c)
    BY <2>1, <2>6 DEF ReadinessChanges, Activate, StopReading, ReadOn
  <2>7. ASSUME NEW c \in Clients,
               \/ Enqueue(c) \/ RespondHeldOpen(c) \/ RespondPrepared(c)
               \/ RespondBuffered(c) \/ RespondLazily(c)
        PROVE  FALSE
    <3>1. CASE Enqueue(c)
      <4> DEFINE k == Moved(conn[c], "admit", AdmissionTimeout)
      <4>1. k.pc # "respond"
        BY DEF Moved
      <4>2. conn' = [conn EXCEPT ![c] = k]
        BY Zenon, <3>1 DEF Enqueue
      <4> HIDE DEF k
      <4> QED BY Zenon, <2>3, <4>1, <4>2
    <3>2. CASE RespondHeldOpen(c)
      <4> DEFINE k == Moved(conn[c], "hold", conn[c].lifetime)
      <4>1. k.pc # "respond"
        BY DEF Moved
      <4>2. conn' = [conn EXCEPT ![c] = k]
        BY Zenon, <3>2 DEF RespondHeldOpen
      <4> HIDE DEF k
      <4> QED BY Zenon, <2>3, <4>1, <4>2
    <3>3. CASE RespondPrepared(c)
      <4> DEFINE k == Moved(conn[c], "pend", conn[c].lifetime)
      <4>1. k.pc # "respond"
        BY DEF Moved
      <4>2. conn' = [conn EXCEPT ![c] = k]
        BY Zenon, <3>3 DEF RespondPrepared
      <4> HIDE DEF k
      <4> QED BY Zenon, <2>3, <4>1, <4>2
    <3>4. CASE RespondBuffered(c)
      <4> DEFINE k == Moved(conn[c], "send", 0)
      <4>1. k.pc # "respond"
        BY DEF Moved
      <4>2. conn' = [conn EXCEPT ![c] = k]
        BY Zenon, <3>4 DEF RespondBuffered
      <4> HIDE DEF k
      <4> QED BY Zenon, <2>3, <4>1, <4>2
    <3>5. CASE RespondLazily(c)
      <4> DEFINE k == Moved(conn[c], "drain", conn[c].lifetime)
      <4>1. k.pc # "respond"
        BY DEF Moved
      <4>2. conn' = [conn EXCEPT ![c] = k]
        BY Zenon, <3>5 DEF RespondLazily
      <4> HIDE DEF k
      <4> QED BY Zenon, <2>3, <4>1, <4>2
    <3> QED BY <2>7, <3>1, <3>2, <3>3, <3>4, <3>5
  <2>8. ASSUME NEW c \in Clients, NEW t \in Tokens, NEW h \in BOOLEAN, Arrive(c, t, h)
        PROVE  FALSE
    BY Zenon, <2>3, <2>8 DEF Arrive
  <2>9. ASSUME NEW c \in Clients,
                \/ RefuseNotReady(c) \/ RefuseUnauthorized(c) \/ RefuseBadJson(c)
                \/ RejectBuckets(c) \/ TimeoutWaiting(c) \/ RespondError(c)
                \/ Drained(c) \/ StorageFails(c) \/ LifetimeEnds(c)
                \/ ReadOnTooLate(c) \/ Disconnect(c)
         PROVE  FALSE
    <3>1. Close(c)
      BY <2>9 DEF RefuseNotReady, RefuseUnauthorized, RefuseBadJson, Refused,
         RejectBuckets, TimeoutWaiting, RespondError, Drained, StorageFails,
         LifetimeEnds, ReadOnTooLate, EndBody, Disconnect
    <3> QED BY Zenon, <2>4, <3>1
  <2> QED BY Zenon, <2>2, <2>5, <2>6, <2>7, <2>8, <2>9 DEF Next, Handler
<1> QED BY <1>1, AdmissionInvariant, PTL DEF Spec, NoOvertaking
------------------------------------------------------------------------------
\* Timers and tokens.

\* How far behind its token a request may be at each place of the handler: on
\* time when it arrives, late by the time it has waited while it waits, and by
\* AdmissionTimeout at most from then on.
Timely(k) ==
  /\ k.timer \in Nat /\ k.lifetime \in Nat /\ k.token \in Int \cup {NoToken}
  /\ k.token # NoToken =>
       /\ k.pc = "resolve" => k.lifetime <= k.token
       /\ k.pc = "admit" => k.lifetime + k.timer <= k.token + AdmissionTimeout
       /\ k.pc = "respond" => k.lifetime <= k.token + AdmissionTimeout
       /\ k.pc \in {"drain", "hold", "pend"} => k.timer <= k.token + AdmissionTimeout

\* A body whose lifetime is over and whose client has stopped reading.
Late(k) ==
  /\ k.pc \in {"drain", "hold", "pend"}
  /\ k.timer = 0 /\ k.lifetime \in Nat /\ k.token \in Int \cup {NoToken}

TimingInv ==
  /\ conn = [c \in Clients |-> conn[c]]
  /\ \A c \in Clients : Timely(conn[c]) \/ (c \in stalled /\ Late(conn[c]))

\* A step of one connection to a place where it is timely.
LEMMA OneTimely ==
  ASSUME TimingInv, NEW c \in Clients, NEW k, Timely(k),
         conn' = [conn EXCEPT ![c] = k], stalled \ {c} \subseteq stalled'
  PROVE  TimingInv'
<1>1. conn' = [d \in Clients |-> conn'[d]]
  BY Zenon DEF TimingInv
<1>2. \A d \in Clients : conn'[d] = IF d = c THEN k ELSE conn[d]
  BY DEF TimingInv
<1>3. \A d \in Clients : Timely(conn'[d]) \/ (d \in stalled' /\ Late(conn'[d]))
  BY <1>2 DEF TimingInv
<1> QED BY <1>1, <1>3, Zenon DEF TimingInv

\* A closed connection has no timer.
LEMMA ClosedTimely == Timely(NoConn)
BY AdmissionAssumption DEF NoConn, Timely

\* A connection that closes.
LEMMA ClosesTimely ==
  ASSUME TimingInv, NEW c \in Clients, Close(c)
  PROVE  TimingInv'
<1>1. conn' = [conn EXCEPT ![c] = NoConn] /\ stalled \ {c} \subseteq stalled'
  BY DEF Close
<1> QED BY <1>1, OneTimely, ClosedTimely, Zenon

\* The lifetime of an accepted request is a time, and no longer than its token's.
LEMMA LifetimeOnTime ==
  ASSUME NEW t \in Tokens
  PROVE  /\ StreamLifetime(t) \in Nat
         /\ t \in Int \cup {NoToken}
         /\ t # NoToken => StreamLifetime(t) <= t
BY AdmissionAssumption DEF Tokens, StreamLifetime, Min2

\* Requests that arrive.
LEMMA ArrivesTimely ==
  ASSUME TimingInv, NEW c \in Clients,
         \/ RefuseNotReady(c) \/ RefuseUnauthorized(c) \/ RefuseBadJson(c)
         \/ \E t \in Tokens, h \in BOOLEAN : Arrive(c, t, h)
  PROVE  TimingInv'
<1>1. ASSUME NEW t \in Tokens, NEW h \in BOOLEAN, Arrive(c, t, h)
      PROVE  TimingInv'
  <2> DEFINE k == [pc |-> "resolve", hold |-> h, token |-> t,
                   lifetime |-> StreamLifetime(t), timer |-> 0, plan |-> active]
  <2>1. conn' = [conn EXCEPT ![c] = k] /\ stalled \ {c} \subseteq stalled'
    BY <1>1 DEF Arrive
  <2>2. /\ k.pc = "resolve" /\ k.token = t /\ k.timer = 0
        /\ k.lifetime = StreamLifetime(t)
    BY Zenon
  <2> HIDE DEF k
  <2>3. Timely(k)
    BY <2>2, LifetimeOnTime DEF Timely
  <2> QED BY Zenon, <2>1, <2>3, OneTimely
<1> QED BY <1>1, ClosesTimely DEF RefuseNotReady, RefuseUnauthorized, RefuseBadJson, Refused

\* Handler steps: the wait starts with the whole timeout before it, and the timer
\* of the body with the lifetime read before the wait.
LEMMA HandlesTimely ==
  ASSUME TimingInv, AdmissionInv, NEW c \in Clients, Handler(c)
  PROVE  TimingInv'
<1> DEFINE k == conn[c]
<1>1. Timely(k)
  <2>1. k.pc \in {"resolve", "admit", "respond"}
    <3>1. CASE Acquire(c)
      <4>1. 1 \in 1..Len(queue) /\ queue[1] = c
        BY <3>1 DEF Acquire, AdmissionInv, QueueInv
      <4> QED BY <4>1 DEF AdmissionInv, QueueInv, Waiting
    <3>2. CASE ~Acquire(c)
      BY <3>2 DEF Handler, RejectBuckets, Enqueue, TimeoutWaiting, RespondError,
         RespondHeldOpen, RespondPrepared, RespondBuffered, RespondLazily, Waiting
    <3> QED BY <3>1, <3>2, Zenon
  <2>2. Timely(k) \/ Late(k)
    BY Zenon DEF TimingInv
  <2> QED BY <2>1, <2>2 DEF Late
<1> HIDE DEF k
<1>2. CASE Enqueue(c)
  <2>1. /\ conn' = [conn EXCEPT ![c] = Moved(k, "admit", AdmissionTimeout)]
        /\ k.pc = "resolve" /\ stalled \ {c} \subseteq stalled'
    BY <1>2 DEF Enqueue, k
  <2> DEFINE m == Moved(k, "admit", AdmissionTimeout)
  <2>2. m.pc = "admit" /\ m.timer = AdmissionTimeout /\ m.lifetime = k.lifetime /\ m.token = k.token
    BY Zenon DEF Moved
  <2>3. conn' = [conn EXCEPT ![c] = m]
    BY Zenon, <2>1
  <2> HIDE DEF m
  <2>4. Timely(m)
    BY <1>1, <2>1, <2>2, AdmissionAssumption DEF Timely
  <2> QED BY Zenon, <2>1, <2>3, <2>4, OneTimely
<1>3. CASE Acquire(c)
  <2>1. /\ conn' = [conn EXCEPT ![c] = Moved(k, "respond", 0)]
        /\ 1 \in 1..Len(queue) /\ queue[1] = c /\ stalled \ {c} \subseteq stalled'
    BY <1>3 DEF Acquire, k, AdmissionInv, QueueInv
  <2>2. k.pc = "admit"
    BY <2>1 DEF AdmissionInv, QueueInv, Waiting, k
  <2> DEFINE m == Moved(k, "respond", 0)
  <2>3. m.pc = "respond" /\ m.timer = 0 /\ m.lifetime = k.lifetime /\ m.token = k.token
    BY Zenon DEF Moved
  <2>4. conn' = [conn EXCEPT ![c] = m]
    BY Zenon, <2>1
  <2> HIDE DEF m
  <2>5. Timely(m)
    BY <1>1, <2>2, <2>3, AdmissionAssumption DEF Timely
  <2> QED BY Zenon, <2>1, <2>4, <2>5, OneTimely
<1>4. ASSUME NEW pc \in {"hold", "pend", "drain"}, k.pc = "respond",
             conn' = [conn EXCEPT ![c] = Moved(k, pc, k.lifetime)],
             stalled \ {c} \subseteq stalled'
      PROVE  TimingInv'
  <2> DEFINE m == Moved(k, pc, k.lifetime)
  <2>1. m.pc = pc /\ m.timer = k.lifetime /\ m.lifetime = k.lifetime /\ m.token = k.token
    BY Zenon DEF Moved
  <2>2. conn' = [conn EXCEPT ![c] = m]
    BY Zenon, <1>4
  <2> HIDE DEF m
  <2>3. Timely(m)
    BY <1>1, <1>4, <2>1, AdmissionAssumption DEF Timely
  <2> QED BY Zenon, <1>4, <2>2, <2>3, OneTimely
<1>5. CASE RespondBuffered(c)
  <2> DEFINE m == Moved(k, "send", 0)
  <2>1. m.pc = "send" /\ m.timer = 0 /\ m.lifetime = k.lifetime /\ m.token = k.token
    BY Zenon DEF Moved
  <2>2. conn' = [conn EXCEPT ![c] = m] /\ stalled \ {c} \subseteq stalled'
    BY <1>5 DEF RespondBuffered, k
  <2> HIDE DEF m
  <2>3. Timely(m)
    BY <1>1, <2>1 DEF Timely
  <2> QED BY Zenon, <2>2, <2>3, OneTimely
<1>6. CASE RespondHeldOpen(c) \/ RespondPrepared(c) \/ RespondLazily(c)
  BY <1>4, <1>6 DEF RespondHeldOpen, RespondPrepared, RespondLazily, k
<1>7. CASE RejectBuckets(c) \/ TimeoutWaiting(c) \/ RespondError(c)
  BY <1>7, ClosesTimely DEF RejectBuckets, TimeoutWaiting, RespondError
<1> QED BY <1>2, <1>3, <1>5, <1>6, <1>7 DEF Handler

\* A tick takes as much from the timer as from the token: it finds every timer
\* that runs above zero and no request between two steps of its handler.
LEMMA TicksTimely ==
  ASSUME TimingInv, Tick
  PROVE  TimingInv'
<1>1. conn' = [c \in Clients |-> Ticked(conn[c])] /\ stalled' = stalled
  BY DEF Tick
<1>2. ASSUME NEW k, Timely(k), k.pc \notin {"resolve", "respond"},
             k.pc \in {"admit", "drain", "hold", "pend"} => k.timer > 0
      PROVE  Timely(Ticked(k))
  <2>1. CASE k.pc = "closed"
    BY <1>2, <2>1 DEF Ticked
  <2>2. CASE k.pc # "closed"
    <3> DEFINE m == Ticked(k)
    <3>1. /\ m.pc = k.pc /\ m.lifetime = k.lifetime /\ m.timer = CountDown(k.timer)
          /\ m.token = IF k.pc = "send" THEN k.token ELSE Older(k.token)
      BY Zenon, <2>2 DEF Ticked
    <3> HIDE DEF m
    <3>2. /\ m.timer \in Nat /\ m.token \in Int \cup {NoToken}
          /\ k.timer > 0 => m.timer = k.timer - 1
          /\ m.token # NoToken => k.token # NoToken
      BY <1>2, <3>1, AdmissionAssumption DEF Timely, CountDown, Older, TokenFloor
    <3>3. m.token # NoToken /\ k.pc \in {"admit", "drain", "hold", "pend"}
            => m.token = k.token - 1
      <4> SUFFICES ASSUME m.token # NoToken, k.pc \in {"admit", "drain", "hold", "pend"}
                   PROVE  m.token = k.token - 1
        BY Zenon
      <4>1. k.token \in Int /\ k.token > TokenFloor
        BY <1>2, <3>2, AdmissionAssumption DEF Timely, TokenFloor
      <4> QED BY <3>1, <3>2, <4>1 DEF Older
    <3>4. Timely(m)
      BY <1>2, <3>1, <3>2, <3>3, AdmissionAssumption DEF Timely
    <3> QED BY <3>4 DEF m
  <2> QED BY <2>1, <2>2
<1>3. ASSUME NEW k, Late(k)
      PROVE  Late(Ticked(k))
  <2> DEFINE m == Ticked(k)
  <2>1. /\ m.pc = k.pc /\ m.lifetime = k.lifetime /\ m.timer = CountDown(k.timer)
        /\ m.token = Older(k.token)
    BY <1>3 DEF Ticked, Late
  <2> HIDE DEF m
  <2>2. Late(m)
    BY <1>3, <2>1, AdmissionAssumption DEF Late, CountDown, Older
  <2> QED BY <2>2 DEF m
<1>4. ASSUME NEW c \in Clients
      PROVE  Timely(Ticked(conn[c])) \/ (c \in stalled /\ Late(Ticked(conn[c])))
  <2> DEFINE k == conn[c]
  <2>1. /\ Timely(k) \/ (c \in stalled /\ Late(k))
        /\ k.pc \notin {"resolve", "respond"} /\ (k.pc = "admit" => k.timer > 0)
        /\ k.pc \in {"drain", "hold", "pend"} /\ c \notin stalled => k.timer > 0
    BY DEF TimingInv, Tick, AtRest, Waiting, Open, Polled
  <2> HIDE DEF k
  <2>2. CASE c \in stalled /\ Late(k)
    BY <1>3, <2>2 DEF k
  <2>3. CASE Timely(k) /\ (k.pc \in {"drain", "hold", "pend"} => k.timer > 0)
    BY <1>2, <2>1, <2>3 DEF k
  <2>4. CASE Timely(k) /\ k.pc \in {"drain", "hold", "pend"} /\ ~(k.timer > 0)
    <3>1. c \in stalled /\ Late(k)
      BY <2>1, <2>4 DEF Timely, Late
    <3> QED BY <2>2, <3>1, Zenon
  <2> QED BY <2>1, <2>2, <2>3, <2>4, Zenon
<1> QED BY <1>1, <1>4 DEF TimingInv

\* A client that stops reading, or reads on while the lifetime lasts.
LEMMA ReadsTimely ==
  ASSUME TimingInv, NEW c \in Clients, StopReading(c) \/ ReadOn(c)
  PROVE  TimingInv'
<1>1. conn' = conn /\ \A d \in Clients \ {c} : d \in stalled => d \in stalled'
  BY DEF StopReading, ReadOn
<1>2. Timely(conn[c]) \/ (c \in stalled' /\ Late(conn[c]))
  BY DEF StopReading, ReadOn, TimingInv, Late
<1> QED BY <1>1, <1>2 DEF TimingInv

\* A response body that is read never outlives its token by more than the time a
\* request may wait for a permit (sync_stream reads the remaining lifetime before
\* acquire_sync_read and starts the timer after it), for all timeouts and tokens.
THEOREM BodiesEndWithToken == Spec => []BodyEndsWithToken
<1>1. Init => TimingInv
  BY ClosedTimely DEF Init, TimingInv
<1>2. TimingInv /\ AdmissionInv /\ [Next]_vars => TimingInv'
  <2> SUFFICES ASSUME TimingInv, AdmissionInv, [Next]_vars
               PROVE  TimingInv'
    OBVIOUS
  <2>1. CASE ReadinessChanges \/ (\E p \in Plans : Activate(p)) \/ UNCHANGED vars
    BY <2>1 DEF ReadinessChanges, Activate, vars, TimingInv
  <2>2. ASSUME NEW c \in Clients,
               \/ Drained(c) \/ StorageFails(c) \/ LifetimeEnds(c)
               \/ ReadOnTooLate(c) \/ Disconnect(c)
        PROVE  TimingInv'
    BY Zenon, <2>2, ClosesTimely DEF Drained, StorageFails, LifetimeEnds, ReadOnTooLate,
                                     Disconnect, EndBody
  <2> QED BY <2>1, <2>2, ReadsTimely, ArrivesTimely, HandlesTimely, TicksTimely DEF Next
<1>3. TimingInv => BodyEndsWithToken
  BY AdmissionAssumption DEF TimingInv, Timely, BodyEndsWithToken, Open, Polled
<1> QED BY <1>1, <1>2, <1>3, AdmissionInvariant, PTL DEF Spec
==============================================================================
