--------------------------- MODULE PluginPoolProofs ---------------------------
(***************************************************************************)
(* Proofs about PluginPool, for any number of requests, queue workers,     *)
(* permits and failures: its types with its resource limits, and what      *)
(* restart_lock and the process mutex protect.                             *)
(***************************************************************************)
EXTENDS PluginPool, FiniteSetTheorems, TLAPS

PCs ==
    {"idle", "start", "startlock", "startprocess", "starting", "health", "check", "exists",
     "restartlock", "kill", "cleanup", "uninitialize", "relock", "restarting", "permit",
     "executing", "waiting", "sending", "answered", "broken"}

\* Between StartLock or RestartLock and the release of restart_lock.
LockedPCs ==
    {"startprocess", "starting", "kill", "cleanup", "uninitialize", "relock", "restarting"}

\* Where a request relies on there being no server.
NoServerPCs == {"cleanup", "uninitialize", "relock", "restarting", "starting"}

Breakers ==
    [state : {"Closed", "HalfOpen", "Open"}, elapsed : BOOLEAN, idle : BOOLEAN,
     successes : 0 .. Successes - 1, results : Seq(BOOLEAN)]

\* The types of every variable.
PoolTypes ==
    /\ proc \in {None, "live", "hung", "dead"}
    /\ socket \in {"none", "own", "orphan", "stale"} /\ orphans \in Nat
    /\ initialized \in BOOLEAN /\ flag \in BOOLEAN
    /\ rlock \in Calls \cup {None} /\ plock \in Calls \cup {None}
    /\ breaker \in Breakers /\ Len(breaker.results) <= Ring
    /\ pc \in [Calls -> PCs]
    /\ ex \in [Runners -> {"none", "acquiring", "connecting", "running", "adrift", "lost"}]
    /\ serves \in [Workers -> Calls \cup {None}]
    /\ queue \in Seq(Calls \cup {None}) /\ Len(queue) <= QueueSize

\* Executions that hold a connection have a permit.
PermitsKept == Cardinality(Holders) <= Permits

\* Who is between the locking and the release of restart_lock holds it.
LockHeld == \A c \in Calls : pc[c] \in LockedPCs => rlock = c

\* Who is about to remove the socket file or to spawn has no server to lose.
NoServer == \A c \in Calls : pc[c] \in NoServerPCs => proc = None

ServerInv == LockHeld /\ NoServer /\ LiveHasSocket
-----------------------------------------------------------------------------
\* The steps of Next, one by one.
LEMMA NextCases ==
    ASSUME Next
    PROVE  \/ \E c \in Calls :
                \/ Request(c) \/ EnsureStarted(c) \/ StartLock(c) \/ StartProcess(c) \/ Spawned(c)
                \/ Health(c) \/ CheckProcess(c) \/ CheckSocket(c) \/ RestartLock(c)
                \/ Kill(c) \/ Cleanup(c) \/ Uninitialize(c) \/ Relock(c)
                \/ Permit(c) \/ Send(c) \/ Record(c) \/ CheckFails(c) \/ SpawnFails(c)
                \/ Timeout(c) \/ Abort(c)
           \/ \E r \in Runners : Connect(r) \/ Broken(r) \/ Respond(r)
           \/ \E w \in Workers : Dequeue(w) \/ Acquire(w) \/ Backstop(w)
           \/ ServerExits \/ ServerHangs \/ SocketRemoved \/ OrphanBinds \/ OrphansExit
           \/ HealthTick \/ BackoffEnds \/ IdlePasses
BY DEF Next, Start, Restart, Execution, Step, Work, Runners

\* A request that moves leaves the others where they are.
LEMMA GotoEffect ==
    ASSUME PoolTypes, NEW c \in Calls, NEW l \in PCs, Goto(c, l)
    PROVE  /\ pc' \in [Calls -> PCs] /\ pc'[c] = l
           /\ \A d \in Calls \ {c} : pc'[d] = pc[d]
BY DEF PoolTypes, Goto

-----------------------------------------------------------------------------
(* The breaker.                                                            *)

BreakerOK(b) == b \in Breakers /\ Len(b.results) <= Ring

\* The bounds of the ring buffer and of the successes.
LEMMA BoundFacts ==
    /\ Ring \in Nat /\ Ring > 0 /\ Successes \in Nat /\ Successes > 0 /\ 0 \in 0 .. Successes - 1
    /\ QueueSize \in Nat /\ QueueSize > 0 /\ Permits \in Nat /\ Permits > 0
BY PoolAssumption

\* The ring buffer holds a result more, and no more than it may.
LEMMA RecordedOK ==
    ASSUME NEW b, BreakerOK(b), NEW ok \in BOOLEAN
    PROVE  /\ BreakerOK(recorded(b, ok))
           /\ recorded(b, ok).successes = b.successes /\ recorded(b, ok).state = b.state
<1> DEFINE all == Append(b.results, ok)
           kept == IF Len(all) > Ring THEN Tail(all) ELSE all
<1>1. b.results \in Seq(BOOLEAN) /\ Len(b.results) <= Ring /\ Len(b.results) \in Nat
  BY DEF BreakerOK, Breakers
<1>2. all \in Seq(BOOLEAN) /\ Len(all) = Len(b.results) + 1 /\ all # << >>
  BY <1>1
<1>3. Tail(all) \in Seq(BOOLEAN) /\ Len(Tail(all)) = Len(b.results)
  BY <1>1, <1>2
<1>4. kept \in Seq(BOOLEAN) /\ Len(kept) <= Ring
  <2> HIDE DEF all
  <2>1. CASE Len(all) > Ring
    <3>1. kept = Tail(all)
      BY <2>1
    <3> HIDE DEF kept
    <3> QED
      BY <1>1, <1>3, <3>1
  <2>2. CASE ~(Len(all) > Ring)
    <3>1. kept = all
      BY <2>2
    <3>2. Len(all) <= Ring
      BY <1>1, <1>2, <2>2, BoundFacts
    <3> HIDE DEF kept
    <3> QED
      BY <1>2, <3>1, <3>2
  <2> QED
    BY <2>1, <2>2
<1>5. recorded(b, ok) = [b EXCEPT !.idle = FALSE, !.results = kept]
  BY DEF recorded
<1> HIDE DEF kept
<1> QED
  BY <1>4, <1>5 DEF BreakerOK, Breakers

\* open_circuit, maybe_transition_to_half_open and force_close keep the types.
LEMMA TransitionsOK ==
    ASSUME NEW b, BreakerOK(b)
    PROVE  /\ BreakerOK(open_circuit(b))
           /\ BreakerOK(maybe_transition_to_half_open(b))
           /\ BreakerOK(force_close(b))
           /\ BreakerOK([b EXCEPT !.successes = 0])
           /\ BreakerOK([b EXCEPT !.elapsed = TRUE]) /\ BreakerOK([b EXCEPT !.idle = TRUE])
           /\ b.successes + 1 < Successes => BreakerOK([b EXCEPT !.successes = @ + 1])
<1>1. BreakerOK(open_circuit(b))
  BY BoundFacts DEF BreakerOK, Breakers, open_circuit
<1>2. BreakerOK(maybe_transition_to_half_open(b))
  BY DEF BreakerOK, Breakers, maybe_transition_to_half_open
<1>3. BreakerOK(force_close(b))
  BY BoundFacts DEF BreakerOK, Breakers, force_close, Closed
<1>4. BreakerOK([b EXCEPT !.successes = 0])
  BY BoundFacts DEF BreakerOK, Breakers
<1>5. BreakerOK([b EXCEPT !.elapsed = TRUE]) /\ BreakerOK([b EXCEPT !.idle = TRUE])
  BY DEF BreakerOK, Breakers
<1>6. b.successes + 1 < Successes => BreakerOK([b EXCEPT !.successes = @ + 1])
  BY BoundFacts DEF BreakerOK, Breakers
<1> QED
  BY <1>1, <1>2, <1>3, <1>4, <1>5, <1>6

\* So do the reports of a request.
LEMMA ReportsOK ==
    ASSUME NEW b, BreakerOK(b)
    PROVE  BreakerOK(record_success(b)) /\ BreakerOK(record_failure(b))
<1>0. b.state \in {"Closed", "HalfOpen", "Open"}
  BY DEF BreakerOK, Breakers
<1>1. BreakerOK(record_success(b))
  <2> DEFINE r == recorded(b, TRUE)
  <2>1. BreakerOK(r)
    BY RecordedOK
  <2> HIDE DEF r
  <2>2. r.successes \in Int
    <3>1. r.successes \in 0 .. Successes - 1
      BY <2>1 DEF BreakerOK, Breakers
    <3> QED
      BY <3>1, BoundFacts
  <2>3. CASE b.state = "Closed"
    BY <2>1, <2>3 DEF record_success, r
  <2>4. CASE b.state = "Open"
    BY <2>1, <2>4, TransitionsOK DEF record_success, r
  <2>5. CASE b.state = "HalfOpen"
    <3>1. record_success(b) = IF r.successes + 1 >= Successes THEN force_close(r)
                              ELSE [r EXCEPT !.successes = @ + 1]
      BY <2>5 DEF record_success, r
    <3>2. CASE r.successes + 1 >= Successes
      BY <2>1, <3>1, <3>2, TransitionsOK
    <3>3. CASE r.successes + 1 < Successes
      <4>1. record_success(b) = [r EXCEPT !.successes = @ + 1]
        BY <2>2, <3>1, <3>3, BoundFacts
      <4>2. BreakerOK([r EXCEPT !.successes = @ + 1])
        BY <2>1, <3>3, TransitionsOK
      <4> QED
        BY <4>1, <4>2
    <3> QED
      BY <2>2, <3>2, <3>3, BoundFacts
  <2> QED
    BY <1>0, <2>3, <2>4, <2>5
<1>2. BreakerOK(record_failure(b))
  <2> DEFINE r == [recorded(b, FALSE) EXCEPT !.successes = 0]
  <2>1. BreakerOK(r)
    BY RecordedOK, TransitionsOK
  <2>2. BreakerOK(open_circuit(r)) /\ BreakerOK(maybe_transition_to_half_open(r))
    BY <2>1, TransitionsOK
  <2> HIDE DEF r
  <2>3. record_failure(b) \in {r, open_circuit(r), maybe_transition_to_half_open(r)}
    BY <1>0 DEF record_failure, r
  <2> QED
    BY <2>1, <2>2, <2>3
<1> QED
  BY <1>1, <1>2
-----------------------------------------------------------------------------
(* Types and limits.                                                       *)

\* A queue in which some callers are gone is as long as before.
LEMMA DropQueue ==
    ASSUME NEW q \in Seq(Calls \cup {None}), NEW c
    PROVE  LET r == [i \in DOMAIN q |-> IF q[i] = c THEN None ELSE q[i]]
           IN r \in Seq(Calls \cup {None}) /\ Len(r) = Len(q)
<1> DEFINE r == [i \in DOMAIN q |-> IF q[i] = c THEN None ELSE q[i]]
<1>1. DOMAIN q = 1 .. Len(q) /\ Len(q) \in Nat /\ \A i \in 1 .. Len(q) : q[i] \in Calls \cup {None}
  OBVIOUS
<1>2. r \in [1 .. Len(q) -> Calls \cup {None}]
  BY <1>1
<1> HIDE DEF r
<1> QED
  BY <1>1, <1>2 DEF r

\* A dropped future.
LEMMA DropTypes ==
    ASSUME PoolTypes, NEW c \in Calls, Drop(c)
    PROVE  PoolTypes'
<1> DEFINE q == [i \in DOMAIN queue |-> IF queue[i] = c THEN None ELSE queue[i]]
<1>1. /\ proc' = proc /\ socket' = socket /\ initialized' = initialized
      /\ flag' = flag /\ breaker' = breaker /\ queue' = q
      /\ rlock' = (IF rlock = c THEN None ELSE rlock)
      /\ plock' = (IF plock = c THEN None ELSE plock)
      /\ ex' = [ex EXCEPT ![c] = "none"]
      /\ serves' = [w \in Workers |-> IF serves[w] = c THEN None ELSE serves[w]]
      /\ Goto(c, "idle") /\ orphans' \in {orphans, orphans + 1}
  BY DEF Drop, LeftBehind
<1>2. q \in Seq(Calls \cup {None}) /\ Len(q) = Len(queue)
  BY DropQueue DEF PoolTypes
<1>3. pc' \in [Calls -> PCs]
  BY <1>1, GotoEffect DEF PCs
<1>4. ex' \in [Runners -> {"none", "acquiring", "connecting", "running", "adrift", "lost"}]
  BY <1>1 DEF PoolTypes, Runners
<1> HIDE DEF q
<1> QED
  BY <1>1, <1>2, <1>3, <1>4 DEF PoolTypes

\* The result of an execution.
LEMMA ResultTypes ==
    ASSUME PoolTypes, NEW r \in Runners, NEW l \in PCs, Result(r, l)
    PROVE  /\ ex' \in [Runners -> {"none", "acquiring", "connecting", "running", "adrift", "lost"}]
           /\ ex' = [ex EXCEPT ![r] = "none"]
           /\ serves' \in [Workers -> Calls \cup {None}]
           /\ pc' \in [Calls -> PCs]
           /\ \A d \in Calls : pc'[d] = pc[d] \/ pc'[d] = l
<1> DEFINE c == IF r \in Calls THEN r ELSE serves[r]
<1>1. c \in Calls \cup {None}
  BY DEF PoolTypes, Runners
<1>2. /\ ex' = [ex EXCEPT ![r] = "none"]
      /\ serves' = [w \in Workers |-> IF w = r THEN None ELSE serves[w]]
      /\ pc' = IF c = None THEN pc ELSE [pc EXCEPT ![c] = l]
  BY DEF Result
<1> HIDE DEF c
<1>3. pc' \in [Calls -> PCs] /\ \A d \in Calls : pc'[d] = pc[d] \/ pc'[d] = l
  BY <1>1, <1>2 DEF PoolTypes
<1> QED
  BY <1>2, <1>3 DEF PoolTypes

\* The connections of a server that goes away or is forgotten: the permits stay with their
\* holders.
LEMMA TurnedEffect ==
    ASSUME PoolTypes, NEW from \in {"running", "adrift"}, NEW to \in {"adrift", "lost"},
           ex' = Turned(from, to)
    PROVE  /\ ex' \in [Runners -> {"none", "acquiring", "connecting", "running", "adrift", "lost"}]
           /\ Holders' = Holders
<1>1. \A r \in Runners : ex'[r] = IF ex[r] = from THEN to ELSE ex[r]
  BY DEF Turned
<1>2. ex' \in [Runners -> {"none", "acquiring", "connecting", "running", "adrift", "lost"}]
  BY DEF Turned, PoolTypes
<1> QED
  BY <1>1, <1>2 DEF Holders

\* Each step of a request keeps the types.
LEMMA CallTypes ==
    ASSUME PoolTypes, NEW c \in Calls,
           \/ Request(c) \/ EnsureStarted(c) \/ StartLock(c) \/ StartProcess(c) \/ Spawned(c)
           \/ Health(c) \/ CheckProcess(c) \/ CheckSocket(c) \/ RestartLock(c)
           \/ Kill(c) \/ Cleanup(c) \/ Uninitialize(c) \/ Relock(c)
           \/ Permit(c) \/ Send(c) \/ Record(c) \/ CheckFails(c) \/ SpawnFails(c)
           \/ Timeout(c) \/ Abort(c)
    PROVE  PoolTypes'
<1>0. BreakerOK(breaker)
  BY DEF PoolTypes, BreakerOK
<1>a. ASSUME NEW l \in PCs, Goto(c, l)
      PROVE  pc' \in [Calls -> PCs]
  BY <1>a, GotoEffect
<1>b. PCs = {"idle", "start", "startlock", "startprocess", "starting", "health", "check", "exists",
             "restartlock", "kill", "cleanup", "uninitialize", "relock", "restarting", "permit",
             "executing", "waiting", "sending", "answered", "broken"}
  BY DEF PCs
<1> USE DEF server, locks, execution
<1>1. CASE Request(c)
  <2>1. breaker' \in {force_close(breaker), maybe_transition_to_half_open(breaker), breaker}
    BY <1>1 DEF Request
  <2>2. BreakerOK(breaker')
    BY <1>0, <2>1, TransitionsOK
  <2>3. Goto(c, "start") \/ UNCHANGED pc
    BY <1>1 DEF Request
  <2>4. pc' \in [Calls -> PCs]
    BY <1>a, <1>b, <2>3 DEF PoolTypes
  <2> QED
    BY <1>1, <2>2, <2>4 DEF Request, PoolTypes, BreakerOK
<1>2. CASE EnsureStarted(c)
  BY <1>2, <1>a, <1>b DEF EnsureStarted, PoolTypes
<1>3. CASE StartLock(c)
  BY <1>3, <1>a, <1>b DEF StartLock, PoolTypes
<1>4. CASE StartProcess(c)
  BY <1>4, <1>a, <1>b DEF StartProcess, PoolTypes
<1>5. CASE Spawned(c)
  <2>1. BreakerOK(breaker')
    BY <1>0, <1>5, TransitionsOK DEF Spawned
  <2> QED
    BY <1>5, <1>a, <1>b, <2>1 DEF Spawned, PoolTypes, BreakerOK
<1>6. CASE Health(c)
  BY <1>6, <1>a, <1>b DEF Health, PoolTypes
<1>7. CASE CheckProcess(c) \/ CheckSocket(c) \/ RestartLock(c)
  BY <1>7, <1>a, <1>b DEF CheckProcess, CheckSocket, RestartLock, PoolTypes
<1>8. CASE Kill(c)
  BY <1>8, <1>a, <1>b, TurnedEffect DEF Kill, PoolTypes
<1>9. CASE Cleanup(c) \/ Uninitialize(c)
  BY <1>9, <1>a, <1>b DEF Cleanup, Uninitialize, PoolTypes
<1>10. CASE Relock(c) \/ SpawnFails(c)
  BY <1>10, <1>a, <1>b DEF Relock, SpawnFails, LeftBehind, PoolTypes
<1>11. CASE Permit(c)
  <2>1. /\ UNCHANGED <<proc, socket, orphans, initialized, rlock, plock, flag, breaker, serves>>
        /\ Goto(c, "executing") \/ Goto(c, "waiting") \/ Goto(c, "sending")
        /\ ex' = [ex EXCEPT ![c] = "connecting"] \/ UNCHANGED ex
        /\ UNCHANGED queue \/ (Len(queue) < QueueSize /\ queue' = Append(queue, c))
    BY <1>11 DEF Permit
  <2>2. ex' \in [Runners -> {"none", "acquiring", "connecting", "running", "adrift", "lost"}]
    BY <2>1 DEF PoolTypes
  <2>3. queue' \in Seq(Calls \cup {None}) /\ Len(queue') <= QueueSize
    BY <2>1, BoundFacts DEF PoolTypes
  <2> QED
    BY <1>a, <1>b, <2>1, <2>2, <2>3 DEF PoolTypes
<1>12. CASE Send(c)
  <2>1. /\ UNCHANGED <<proc, socket, orphans, initialized, rlock, plock, flag, breaker, ex, serves>>
        /\ Goto(c, "waiting") \/ Goto(c, "answered")
        /\ UNCHANGED queue \/ (Len(queue) < QueueSize /\ queue' = Append(queue, c))
    BY <1>12 DEF Send
  <2>2. queue' \in Seq(Calls \cup {None}) /\ Len(queue') <= QueueSize
    BY <2>1, BoundFacts DEF PoolTypes
  <2> QED
    BY <1>a, <1>b, <2>1, <2>2 DEF PoolTypes
<1>13. CASE Record(c)
  <2>1. BreakerOK(breaker')
    BY <1>0, <1>13, ReportsOK DEF Record
  <2>2. flag' \in BOOLEAN
    BY <1>13 DEF Record
  <2> QED
    BY <1>13, <1>a, <1>b, <2>1, <2>2 DEF Record, PoolTypes, BreakerOK
<1>14. CASE Timeout(c) \/ Abort(c)
  BY <1>14, DropTypes DEF Timeout, Abort
<1>15. CASE CheckFails(c)
  <2>1. /\ UNCHANGED <<orphans, initialized, locks, flag, breaker, serves, queue>>
        /\ proc' = None /\ socket' \in {"orphan", socket}
        /\ ex' = Turned("running", "adrift") /\ Goto(c, "restartlock")
    BY <1>15 DEF CheckFails
  <2>2. pc' \in [Calls -> PCs]
    BY <1>a, <1>b, <2>1
  <2> QED
    BY <2>1, <2>2, TurnedEffect DEF PoolTypes
<1> QED
  BY <1>1, <1>2, <1>3, <1>4, <1>5, <1>6, <1>7, <1>8, <1>9, <1>10, <1>11, <1>12, <1>13, <1>14, <1>15

\* So does each step of an execution, of the server and of the clock.
LEMMA OtherTypes ==
    ASSUME PoolTypes,
           \/ \E r \in Runners : Connect(r) \/ Broken(r) \/ Respond(r)
           \/ \E w \in Workers : Dequeue(w) \/ Acquire(w) \/ Backstop(w)
           \/ ServerExits \/ ServerHangs \/ SocketRemoved \/ OrphanBinds \/ OrphansExit
           \/ HealthTick \/ BackoffEnds \/ IdlePasses
    PROVE  PoolTypes'
<1> USE DEF server, locks, execution
<1>0. BreakerOK(breaker) /\ Workers \subseteq Runners /\ {"broken", "answered"} \subseteq PCs
  BY DEF PoolTypes, BreakerOK, Runners, PCs
<1>1. ASSUME NEW r \in Runners, Connect(r)
      PROVE  PoolTypes'
  BY <1>1 DEF Connect, PoolTypes
<1>2. ASSUME NEW r \in Runners, NEW l \in {"broken", "answered"}, Result(r, l),
             UNCHANGED <<server, locks, flag, breaker, queue>>
      PROVE  PoolTypes'
  BY <1>0, <1>2, ResultTypes DEF PoolTypes
<1>3. ASSUME NEW w \in Workers, Dequeue(w)
      PROVE  PoolTypes'
  <2>1. /\ UNCHANGED <<proc, socket, orphans, initialized, rlock, plock, flag, breaker, pc>>
        /\ queue # << >> /\ queue' = Tail(queue)
        /\ serves' = [serves EXCEPT ![w] = Head(queue)]
        /\ ex' = [ex EXCEPT ![w] = "acquiring"]
    BY <1>3 DEF Dequeue
  <2>2. queue \in Seq(Calls \cup {None}) /\ Len(queue) <= QueueSize
    BY DEF PoolTypes
  <2>3. /\ Head(queue) \in Calls \cup {None}
        /\ queue' \in Seq(Calls \cup {None}) /\ Len(queue') <= QueueSize
    BY <2>1, <2>2, BoundFacts
  <2> QED
    BY <1>0, <2>1, <2>3 DEF PoolTypes
<1>4. ASSUME NEW w \in Workers, Acquire(w)
      PROVE  PoolTypes'
  BY <1>0, <1>4 DEF Acquire, PoolTypes
<1>5. CASE ServerExits
  BY <1>5, TurnedEffect DEF ServerExits, PoolTypes
<1>6. CASE ServerHangs \/ SocketRemoved \/ HealthTick
  BY <1>6 DEF ServerHangs, SocketRemoved, HealthTick, PoolTypes
<1>9. CASE OrphanBinds
  <2>1. orphans' \in Nat
    BY <1>9 DEF OrphanBinds, PoolTypes
  <2> QED
    BY <1>9, <2>1 DEF OrphanBinds, PoolTypes
<1>8. CASE OrphansExit
  <2>1. /\ UNCHANGED <<proc, orphans, initialized, locks, flag, breaker, pc, serves, queue>>
        /\ socket' \in {"stale", socket} /\ ex' = Turned("adrift", "lost")
    BY <1>8 DEF OrphansExit
  <2> QED
    BY <2>1, TurnedEffect DEF PoolTypes
<1>7. CASE BackoffEnds \/ IdlePasses
  <2>1. BreakerOK(breaker')
    BY <1>0, <1>7, TransitionsOK DEF BackoffEnds, IdlePasses
  <2> QED
    BY <1>7, <2>1 DEF BackoffEnds, IdlePasses, PoolTypes, BreakerOK
<1> QED
  BY <1>0, <1>1, <1>2, <1>3, <1>4, <1>5, <1>6, <1>7, <1>8, <1>9 DEF Broken, Respond, Backstop

\* The holders of permits are finitely many.
LEMMA HoldersFinite ==
    /\ IsFiniteSet(Runners)
    /\ IsFiniteSet(Holders) /\ Cardinality(Holders) \in Nat
    /\ IsFiniteSet(Holders)' /\ Cardinality(Holders)' \in Nat
<1>1. IsFiniteSet(Runners)
  BY PoolAssumption, FS_Union DEF Runners
<1>2. Holders \in SUBSET Runners /\ Holders' \in SUBSET Runners
  BY DEF Holders
<1> QED
  BY <1>1, <1>2, FS_Subset, FS_CardinalityType

\* A step after which no more executions hold a permit.
LEMMA PermitsFrame ==
    ASSUME PermitsKept, Holders' \subseteq Holders
    PROVE  PermitsKept'
<1>1. Cardinality(Holders') <= Cardinality(Holders)
  BY HoldersFinite, FS_Subset
<1>2. Cardinality(Holders') \in Nat /\ Cardinality(Holders) \in Nat
  BY HoldersFinite
<1> QED
  BY <1>1, <1>2, BoundFacts DEF PermitsKept

\* A permit that is taken was available.
LEMMA PermitsTaken ==
    ASSUME PoolTypes, PermitsKept, available, NEW r \in Runners, ex' = [ex EXCEPT ![r] = "connecting"]
    PROVE  PermitsKept'
<1>1. Holders' = Holders \cup {r}
  BY DEF Holders, PoolTypes
<1>2. Cardinality(Holders \cup {r}) <= Cardinality(Holders) + 1
  <2>1. CASE r \in Holders
    <3>1. Holders \cup {r} = Holders
      BY <2>1
    <3>2. Cardinality(Holders \cup {r}) = Cardinality(Holders)
      BY <3>1, Zenon
    <3> QED
      BY <3>2, HoldersFinite
  <2>2. CASE r \notin Holders
    <3>1. Cardinality(Holders \cup {r}) = Cardinality(Holders) + 1
      BY <2>2, HoldersFinite, FS_AddElement
    <3> QED
      BY <3>1, HoldersFinite
  <2> QED
    BY <2>1, <2>2
<1>3. Cardinality(Holders) < Permits
  BY DEF available
<1> QED
  BY <1>1, <1>2, <1>3, HoldersFinite, BoundFacts DEF PermitsKept

\* No step exceeds the permits.
LEMMA PermitsStep ==
    ASSUME PoolTypes, PermitsKept, Next
    PROVE  PermitsKept'
<1> USE DEF server, locks, execution
<1>0. Calls \subseteq Runners /\ Workers \subseteq Runners
  BY DEF Runners
<1>1. ASSUME UNCHANGED ex
      PROVE  PermitsKept'
  BY <1>1, PermitsFrame DEF Holders
<1>2. ASSUME NEW r \in Runners, NEW e \in {"none", "acquiring"}, ex' = [ex EXCEPT ![r] = e]
      PROVE  PermitsKept'
  <2>1. Holders' \subseteq Holders
    BY <1>2 DEF Holders, PoolTypes
  <2> QED
    BY <2>1, PermitsFrame
<1>3. ASSUME NEW c \in Calls,
             \/ Request(c) \/ EnsureStarted(c) \/ StartLock(c) \/ StartProcess(c) \/ Spawned(c)
             \/ Health(c) \/ CheckProcess(c) \/ CheckSocket(c) \/ RestartLock(c)
             \/ Cleanup(c) \/ Uninitialize(c) \/ Relock(c) \/ Send(c) \/ Record(c)
             \/ SpawnFails(c)
      PROVE  PermitsKept'
  BY <1>1, <1>3 DEF Request, EnsureStarted, StartLock, StartProcess, Spawned, Health, CheckProcess,
       CheckSocket, RestartLock, Cleanup, Uninitialize, Relock, Send, Record, SpawnFails, LeftBehind
<1>4. ASSUME NEW c \in Calls, Kill(c)
      PROVE  PermitsKept'
  BY <1>4, TurnedEffect, PermitsFrame DEF Kill
<1>5. ASSUME NEW c \in Calls, Permit(c)
      PROVE  PermitsKept'
  BY <1>0, <1>1, <1>5, PermitsTaken DEF Permit
<1>6. ASSUME NEW c \in Calls, Timeout(c) \/ Abort(c)
      PROVE  PermitsKept'
  BY <1>0, <1>2, <1>6 DEF Timeout, Abort, Drop, LeftBehind
<1>7. ASSUME NEW r \in Runners, Connect(r)
      PROVE  PermitsKept'
  <2>1. Holders' \subseteq Holders
    BY <1>7 DEF Connect, Holders, PoolTypes
  <2> QED
    BY <2>1, PermitsFrame
<1>8. ASSUME NEW r \in Runners, Broken(r) \/ Respond(r)
      PROVE  PermitsKept'
  BY <1>2, <1>8 DEF Broken, Respond, Result
<1>9. ASSUME NEW w \in Workers, Dequeue(w) \/ Backstop(w)
      PROVE  PermitsKept'
  BY <1>0, <1>2, <1>9 DEF Dequeue, Backstop, Result
<1>10. ASSUME NEW w \in Workers, Acquire(w)
       PROVE  PermitsKept'
  BY <1>0, <1>10, PermitsTaken DEF Acquire
<1>11. CASE ServerExits \/ OrphansExit
  BY <1>11, TurnedEffect, PermitsFrame DEF ServerExits, OrphansExit
<1>12. CASE ServerHangs \/ SocketRemoved \/ OrphanBinds \/ HealthTick \/ BackoffEnds \/ IdlePasses
  BY <1>1, <1>12 DEF ServerHangs, SocketRemoved, OrphanBinds, HealthTick, BackoffEnds, IdlePasses
<1>13. ASSUME NEW c \in Calls, CheckFails(c)
       PROVE  PermitsKept'
  BY <1>13, TurnedEffect, PermitsFrame DEF CheckFails
<1> QED
  BY NextCases, <1>3, <1>4, <1>5, <1>6, <1>7, <1>8, <1>9, <1>10, <1>11, <1>12, <1>13

\* The types and limits hold at the start.
LEMMA TypesInit == Init => PoolTypes /\ PermitsKept
<1> SUFFICES ASSUME Init PROVE PoolTypes /\ PermitsKept
  OBVIOUS
<1>1. Closed \in Breakers /\ Len(Closed.results) <= Ring
  BY BoundFacts DEF Closed, Breakers
<1>2. queue \in Seq(Calls \cup {None}) /\ Len(queue) <= QueueSize
  BY BoundFacts DEF Init
<1>3. PoolTypes
  <2> HIDE DEF Closed
  <2> QED
    BY <1>1, <1>2 DEF Init, PoolTypes, PCs
<1>4. Holders = {}
  BY DEF Init, Holders
<1>5. PermitsKept
  BY <1>4, FS_EmptySet, BoundFacts DEF PermitsKept
<1> QED
  BY <1>3, <1>5

\* Every step keeps them.
LEMMA TypesStep == PoolTypes /\ PermitsKept /\ [Next]_vars => PoolTypes' /\ PermitsKept'
<1> SUFFICES ASSUME PoolTypes, PermitsKept, [Next]_vars
             PROVE  PoolTypes' /\ PermitsKept'
  OBVIOUS
<1>1. CASE Next
  BY <1>1, NextCases, CallTypes, OtherTypes, PermitsStep
<1>2. CASE UNCHANGED vars
  BY <1>2 DEF vars, PoolTypes, PermitsKept, Holders
<1> QED
  BY <1>1, <1>2

\* The pool keeps its types; in particular there are never more executions with a connection
\* than pool_max_connections, although permits are taken by requests and by queue workers and
\* lost with requests that are dropped (pool_executor.rs).
THEOREM TypeCorrect == Spec => []TypeOK
<1>1. PoolTypes /\ PermitsKept => TypeOK
  BY DEF PoolTypes, PermitsKept, TypeOK, Breakers
<1> QED
  BY <1>1, TypesInit, TypesStep, PTL DEF Spec

-----------------------------------------------------------------------------
(* What restart_lock and the process mutex protect.                        *)



\* Each step of a request keeps the facts.
LEMMA ServerCall ==
    ASSUME PoolTypes, ServerInv, NEW c \in Calls,
           \/ Request(c) \/ EnsureStarted(c) \/ StartLock(c) \/ StartProcess(c) \/ Spawned(c)
           \/ Health(c) \/ CheckProcess(c) \/ CheckSocket(c) \/ RestartLock(c)
           \/ Kill(c) \/ Cleanup(c) \/ Uninitialize(c) \/ Relock(c)
           \/ Permit(c) \/ Send(c) \/ Record(c) \/ CheckFails(c) \/ SpawnFails(c)
           \/ Timeout(c) \/ Abort(c)
    PROVE  ServerInv'
<1> USE DEF server, locks, execution
<1>0. /\ NoServerPCs \subseteq LockedPCs /\ LockedPCs \subseteq PCs
      /\ None \notin Calls \cup {"live", "hung", "dead"}
  BY PoolAssumption DEF NoServerPCs, LockedPCs, PCs
<1>1. ASSUME NEW l \in PCs \ LockedPCs, Goto(c, l) \/ UNCHANGED pc,
             UNCHANGED <<proc, socket, rlock, faults>>
      PROVE  ServerInv'
  BY <1>0, <1>1, GotoEffect DEF ServerInv, LockHeld, NoServer, LiveHasSocket
<1>2. CASE Request(c) \/ EnsureStarted(c) \/ Health(c) \/ CheckSocket(c) \/ Permit(c) \/ Send(c)
           \/ Record(c)
  <2>1. UNCHANGED <<proc, socket, rlock, faults>>
    BY <1>2 DEF Request, EnsureStarted, Health, CheckSocket, Permit, Send, Record
  <2>2. \E l \in {"start", "health", "startlock", "check", "permit", "restartlock", "executing",
                  "waiting", "sending", "answered", "idle"} : Goto(c, l) \/ UNCHANGED pc
    BY <1>2 DEF Request, EnsureStarted, Health, CheckSocket, Permit, Send, Record
  <2> QED
    BY <1>1, <2>1, <2>2 DEF PCs, LockedPCs
<1>3. CASE StartLock(c) \/ RestartLock(c)
  <2>1. /\ rlock = None /\ UNCHANGED <<proc, socket, faults>>
        /\ \/ Goto(c, "health") /\ rlock' = rlock
           \/ Goto(c, "startprocess") /\ rlock' = c
           \/ Goto(c, "kill") /\ rlock' = c
    BY <1>3 DEF StartLock, RestartLock
  <2>2. PICK l \in {"health", "startprocess", "kill"} :
          Goto(c, l) /\ (l # "health" => rlock' = c)
    BY <2>1
  <2>3. pc'[c] = l /\ \A d \in Calls \ {c} : pc'[d] = pc[d]
    BY <2>2, GotoEffect DEF PCs
  <2>4. \A d \in Calls : pc[d] \notin LockedPCs
    BY <1>0, <2>1 DEF ServerInv, LockHeld
  <2>5. LockHeld'
    BY <2>2, <2>3, <2>4 DEF LockHeld, LockedPCs
  <2>6. NoServer'
    BY <1>0, <2>2, <2>3, <2>4 DEF NoServer, NoServerPCs
  <2> QED
    BY <2>1, <2>5, <2>6 DEF ServerInv, LiveHasSocket
<1>4. CASE StartProcess(c)
  <2>0. rlock = c
    BY <1>4 DEF StartProcess, At, ServerInv, LockHeld, LockedPCs
  <2>1. CASE proc # None
    BY <1>0, <1>4, <2>0, <2>1, GotoEffect DEF StartProcess, ServerInv, LockHeld, NoServer, LiveHasSocket,
         LockedPCs, NoServerPCs, PCs
  <2>2. CASE proc = None
    BY <1>0, <1>4, <2>0, <2>2, GotoEffect DEF StartProcess, ServerInv, LockHeld, NoServer, LiveHasSocket,
         LockedPCs, NoServerPCs, PCs
  <2> QED
    BY <2>1, <2>2
<1>5. CASE Spawned(c)
  <2>0. rlock = c
    BY <1>5 DEF Spawned, Spawning, ServerInv, LockHeld, LockedPCs
  <2>1. \A d \in Calls \ {c} : pc[d] \notin LockedPCs
    BY <2>0 DEF ServerInv, LockHeld
  <2>2. \E l \in {"permit", "health"} : Goto(c, l)
    BY <1>5 DEF Spawned
  <2>3. \A d \in Calls : pc'[d] \notin LockedPCs
    BY <2>1, <2>2, GotoEffect DEF PCs, LockedPCs
  <2> QED
    BY <1>0, <1>5, <2>3 DEF Spawned, ServerInv, LockHeld, NoServer, LiveHasSocket
<1>6. CASE CheckProcess(c)
  <2>1. /\ UNCHANGED <<socket, rlock, faults>> /\ proc' \in {None, proc}
        /\ \E l \in {"restartlock", "exists"} : Goto(c, l)
    BY <1>6 DEF CheckProcess
  <2> QED
    BY <1>0, <2>1, GotoEffect DEF ServerInv, LockHeld, NoServer, LiveHasSocket, PCs, LockedPCs,
         NoServerPCs
<1>12. CASE CheckFails(c)
  <2>1. /\ UNCHANGED rlock /\ proc' = None /\ Goto(c, "restartlock")
    BY <1>12 DEF CheckFails
  <2> QED
    BY <1>0, <2>1, GotoEffect DEF ServerInv, LockHeld, NoServer, LiveHasSocket, PCs, LockedPCs,
         NoServerPCs
<1>7. CASE Kill(c)
  <2>0. rlock = c
    BY <1>7 DEF Kill, At, ServerInv, LockHeld, LockedPCs
  <2> QED
    BY <1>0, <1>7, <2>0, GotoEffect DEF Kill, ServerInv, LockHeld, NoServer, LiveHasSocket, PCs,
         LockedPCs, NoServerPCs
<1>8. CASE Cleanup(c) \/ Uninitialize(c)
  <2>0. rlock = c /\ proc = None
    BY <1>8 DEF Cleanup, Uninitialize, At, ServerInv, LockHeld, NoServer, LockedPCs, NoServerPCs
  <2>1. /\ UNCHANGED <<proc, rlock, faults>>
        /\ \E l \in {"uninitialize", "relock"} : Goto(c, l)
    BY <1>8 DEF Cleanup, Uninitialize
  <2> QED
    BY <1>0, <2>0, <2>1, GotoEffect DEF ServerInv, LockHeld, NoServer, LiveHasSocket, PCs,
         LockedPCs, NoServerPCs
<1>9. CASE Relock(c)
  <2>0. rlock = c /\ proc = None
    BY <1>9 DEF Relock, At, ServerInv, LockHeld, NoServer, LockedPCs, NoServerPCs
  <2> QED
    BY <1>0, <1>9, <2>0, GotoEffect DEF Relock, ServerInv, LockHeld, NoServer, LiveHasSocket, PCs,
         LockedPCs, NoServerPCs
<1>10. CASE SpawnFails(c)
  <2>0. rlock = c
    BY <1>10 DEF SpawnFails, LeftBehind, Spawning, ServerInv, LockHeld, LockedPCs
  <2>1. Goto(c, "idle") /\ UNCHANGED <<proc, socket>> /\ faults \subseteq faults'
    BY <1>10 DEF SpawnFails, LeftBehind, Fault
  <2>2. \A d \in Calls : pc'[d] \notin LockedPCs
    BY <2>0, <2>1, GotoEffect DEF PCs, LockedPCs, ServerInv, LockHeld
  <2> QED
    BY <1>0, <2>1, <2>2 DEF ServerInv, LockHeld, NoServer, LiveHasSocket
<1>11. CASE Timeout(c) \/ Abort(c)
  <2>1. /\ Goto(c, "idle") /\ UNCHANGED <<proc, socket>> /\ faults \subseteq faults'
        /\ rlock' = IF rlock = c THEN None ELSE rlock
    BY <1>11 DEF Timeout, Abort, Drop, Fault
  <2>2. pc'[c] = "idle" /\ \A d \in Calls \ {c} : pc'[d] = pc[d]
    BY <2>1, GotoEffect DEF PCs
  <2> QED
    BY <1>0, <2>1, <2>2 DEF ServerInv, LockHeld, NoServer, LiveHasSocket, LockedPCs, NoServerPCs
<1> QED
  BY <1>2, <1>3, <1>4, <1>5, <1>6, <1>7, <1>8, <1>9, <1>10, <1>11, <1>12

\* So does every other step.
LEMMA ServerOther ==
    ASSUME PoolTypes, ServerInv,
           \/ \E r \in Runners : Connect(r) \/ Broken(r) \/ Respond(r)
           \/ \E w \in Workers : Dequeue(w) \/ Acquire(w) \/ Backstop(w)
           \/ ServerExits \/ ServerHangs \/ SocketRemoved \/ OrphanBinds \/ OrphansExit
           \/ HealthTick \/ BackoffEnds \/ IdlePasses
    PROVE  ServerInv'
<1> USE DEF server, locks, execution
<1>0. Workers \subseteq Runners /\ NoServerPCs \subseteq LockedPCs
      /\ None \notin {"live", "hung", "dead"}
  BY PoolAssumption DEF Runners, NoServerPCs, LockedPCs
<1>1. ASSUME NEW r \in Runners, NEW l \in {"broken", "answered"}, Result(r, l),
             UNCHANGED <<proc, socket, rlock, faults>>
      PROVE  ServerInv'
  <2>1. \A d \in Calls : pc'[d] = pc[d] \/ pc'[d] \notin LockedPCs
    BY <1>1, ResultTypes DEF PCs, LockedPCs
  <2> QED
    BY <1>0, <1>1, <2>1 DEF ServerInv, LockHeld, NoServer, LiveHasSocket
<1>2. CASE \/ \E r \in Runners : Broken(r) \/ Respond(r)
           \/ \E w \in Workers : Backstop(w)
  BY <1>0, <1>1, <1>2 DEF Broken, Respond, Backstop
<1>3. CASE \/ \E r \in Runners : Connect(r)
           \/ \E w \in Workers : Dequeue(w) \/ Acquire(w)
           \/ HealthTick \/ BackoffEnds \/ IdlePasses
  <2>1. UNCHANGED <<proc, socket, rlock, faults, pc>>
    BY <1>3 DEF Connect, Dequeue, Acquire, HealthTick, BackoffEnds, IdlePasses
  <2> QED
    BY <2>1 DEF ServerInv, LockHeld, NoServer, LiveHasSocket
<1>4. CASE ServerExits \/ ServerHangs
  <2>1. UNCHANGED <<rlock, pc>> /\ proc = "live" /\ proc' # "live"
    BY <1>4 DEF ServerExits, ServerHangs
  <2> QED
    BY <1>0, <2>1 DEF ServerInv, LockHeld, NoServer, LiveHasSocket
<1>5. CASE SocketRemoved
  <2>1. UNCHANGED <<proc, rlock, pc>> /\ "unlink" \in faults'
    BY <1>5 DEF SocketRemoved, Fault
  <2> QED
    BY <2>1 DEF ServerInv, LockHeld, NoServer, LiveHasSocket
<1>6. CASE OrphanBinds \/ OrphansExit
  <2>1. /\ UNCHANGED <<proc, rlock, pc>> /\ faults \subseteq faults'
        /\ socket' \in {"orphan", "stale", socket}
    BY <1>6 DEF OrphanBinds, OrphansExit, Fault
  <2> QED
    BY <2>1 DEF ServerInv, LockHeld, NoServer, LiveHasSocket
<1> QED
  BY <1>2, <1>3, <1>4, <1>5, <1>6

\* Whichever requests start and restart the server, are dropped in the middle or fail, none
\* removes the socket file of a server another one has started: beside a live server there is
\* one, its own or that of an orphan, unless something outside the pool removes it.
THEOREM SocketKept == Spec => []LiveHasSocket
<1>1. Init => ServerInv
  BY PoolAssumption DEF Init, ServerInv, LockHeld, NoServer, LiveHasSocket, LockedPCs, NoServerPCs
<1>2. PoolTypes /\ ServerInv /\ [Next]_vars => ServerInv'
  <2> SUFFICES ASSUME PoolTypes, ServerInv, [Next]_vars
               PROVE  ServerInv'
    OBVIOUS
  <2>1. CASE Next
    BY <2>1, NextCases, ServerCall, ServerOther
  <2>2. CASE UNCHANGED vars
    BY <2>2 DEF vars, ServerInv, LockHeld, NoServer, LiveHasSocket
  <2> QED
    BY <2>1, <2>2
<1>3. ServerInv => LiveHasSocket
  BY DEF ServerInv
<1> QED
  BY <1>1, <1>2, <1>3, TypesInit, TypesStep, PTL DEF Spec
=============================================================================
