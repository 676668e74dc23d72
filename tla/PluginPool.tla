----------------------------- MODULE PluginPool -----------------------------
(***************************************************************************)
(* The plugin pool: requests that share one Node.js server process behind  *)
(* a Unix socket, with a limit on connections, a queue for what exceeds    *)
(* it, a circuit breaker, and the start and restart of the server by the   *)
(* requests themselves.                                                    *)
(*                                                                         *)
(* A request is one future, split where it waits: the mutexes restart_lock *)
(* and process, the semaphore, the queue, the server.  The atomics of the  *)
(* breaker are taken together, one step per method.                        *)
(*                                                                         *)
(* No child is killed when its handle is dropped.  One whose start timed   *)
(* out or was dropped, or that a failing try_wait made the pool forget, is *)
(* an orphan: it runs on, replaces the socket file when it is ready, and   *)
(* answers, or exits.                                                      *)
(***************************************************************************)
EXTENDS Integers, Sequences, FiniteSets

CONSTANTS
    Calls,        \* callers of execute_plugin, each with one request at a time
    Workers,      \* queue workers
    None,
    Permits,      \* pool_max_connections
    QueueSize,    \* pool_max_queue_size
    Ring,         \* results the breaker remembers
    MinSamples,   \* results it needs before it opens
    Successes,    \* successes in a row that close it
    FaultSets     \* bound: the sets of failures that may meet, each failure once

ASSUME PoolAssumption ==
    /\ {Permits, QueueSize, Ring, MinSamples, Successes} \subseteq Nat \ {0}
    /\ IsFiniteSet(Calls) /\ IsFiniteSet(Workers)
    /\ Calls \cap Workers = {} /\ None \notin Calls \cup Workers \cup {"live", "hung", "dead"}

VARIABLES
    proc,         \* the child in process: None, live, hung, or dead and not reaped
    socket,       \* the socket file: none, bound by the child in process (own) or by an orphan,
                  \* or stale, left by an orphan
    orphans,      \* children nobody waits for that have yet to bind
    initialized,
    rlock, plock, \* holders of restart_lock and of the process mutex
    flag,         \* health_check_needed
    breaker,
    pc,           \* where a request is
    ex,           \* per request and worker: the execution it carries out
    serves,       \* per worker: the request that waits for its result, None if gone
    queue,        \* the requests in the channel, None where the caller is gone
    faults

vars == <<proc, socket, orphans, initialized, rlock, plock, flag, breaker, pc, ex, serves, queue, faults>>
server == <<proc, socket, orphans, initialized>>
locks == <<rlock, plock>>
execution == <<ex, serves, queue>>

Runners == Calls \cup Workers

\* elapsed: the backoff since it opened is over; idle: IDLE_AUTO_CLOSE_MS without a result;
\* results: the ring buffer, TRUE for success.
Closed == [state |-> "Closed", elapsed |-> FALSE, idle |-> FALSE, successes |-> 0,
           results |-> << >>]

Init ==
    /\ proc = None /\ socket = "none" /\ orphans = 0 /\ initialized = FALSE
    /\ rlock = None /\ plock = None
    /\ flag = FALSE /\ breaker = Closed
    /\ pc = [c \in Calls |-> "idle"]
    /\ ex = [r \in Runners |-> "none"]
    /\ serves = [w \in Workers |-> None]
    /\ queue = << >> /\ faults = {}

At(c, l) == pc[c] = l
Goto(c, l) == pc' = [pc EXCEPT ![c] = l]

Fault(f) ==
    /\ f \notin faults /\ \E F \in FaultSets : faults \cup {f} \subseteq F
    /\ faults' = faults \cup {f}

\* What becomes of connections: running on the child in process, adrift on an orphan, lost
\* with the one they were made to.
Turned(from, to) == [r \in Runners |-> IF ex[r] = from THEN to ELSE ex[r]]

\* A client can connect.
Reachable == socket = "orphan" \/ (socket = "own" /\ proc \in {"live", "hung"})

-----------------------------------------------------------------------------
(* CircuitBreaker.                                                         *)

recorded(b, ok) ==
    LET all == Append(b.results, ok)
    IN [b EXCEPT !.idle = FALSE, !.results = IF Len(all) > Ring THEN Tail(all) ELSE all]

\* failure_rate() > 0.5
failing(b) ==
    LET n == Cardinality({i \in DOMAIN b.results : ~b.results[i]})
    IN Len(b.results) >= MinSamples /\ 2 * n > Len(b.results)

open_circuit(b) == [b EXCEPT !.state = "Open", !.elapsed = FALSE, !.successes = 0]

maybe_transition_to_half_open(b) ==
    IF b.elapsed THEN [b EXCEPT !.state = "HalfOpen", !.elapsed = FALSE] ELSE b

\* The results in the ring buffer are kept.
force_close(b) == [Closed EXCEPT !.results = b.results]

record_success(b) ==
    LET r == recorded(b, TRUE)
    IN CASE b.state = "Closed" -> r
         [] b.state = "Open" -> maybe_transition_to_half_open(r)
         [] b.state = "HalfOpen" ->
              IF r.successes + 1 >= Successes THEN force_close(r)
              ELSE [r EXCEPT !.successes = @ + 1]

record_failure(b) ==
    LET r == [recorded(b, FALSE) EXCEPT !.successes = 0]
    IN CASE b.state = "Closed" -> IF failing(r) THEN open_circuit(r) ELSE r
         [] b.state = "Open" -> maybe_transition_to_half_open(r)
         [] b.state = "HalfOpen" -> open_circuit(r)

-----------------------------------------------------------------------------
(* execute_plugin: admission, then ensure_started.                         *)

Mut_Request(c) ==
    /\ At(c, "idle")
    /\ LET b == IF breaker.state = "Open" THEN maybe_transition_to_half_open(breaker) ELSE breaker
       IN /\ breaker' = [b EXCEPT !.idle = FALSE]
          /\ \/ b.state # "Open" /\ Goto(c, "start")
             \/ b.state # "Closed" /\ UNCHANGED pc
    /\ UNCHANGED <<server, locks, flag, execution, faults>>

\* should_allow_request: a breaker nobody reported to for long is closed; half-open, a part
\* of the requests is drawn at random; otherwise the request is rejected.
Request(c) ==
    /\ At(c, "idle")
    /\ IF breaker.state # "Closed" /\ breaker.idle
       THEN breaker' = force_close(breaker) /\ Goto(c, "start")
       ELSE LET b == IF breaker.state = "Open" THEN maybe_transition_to_half_open(breaker)
                     ELSE breaker
            IN /\ breaker' = b
               /\ \/ b.state # "Open" /\ Goto(c, "start")
                  \/ breaker.state = "HalfOpen" /\ UNCHANGED pc
    /\ UNCHANGED <<server, locks, flag, execution, faults>>

EnsureStarted(c) ==
    /\ At(c, "start")
    /\ Goto(c, IF initialized THEN "health" ELSE "startlock")
    /\ UNCHANGED <<server, locks, flag, breaker, execution, faults>>

\* Under restart_lock, unless another request has started the server meanwhile.
StartLock(c) ==
    /\ At(c, "startlock") /\ rlock = None
    /\ IF initialized THEN Goto(c, "health") /\ UNCHANGED rlock
       ELSE Goto(c, "startprocess") /\ rlock' = c
    /\ UNCHANGED <<server, plock, flag, breaker, execution, faults>>

\* start_pool_server: with the process mutex, remove the socket file and spawn.
StartProcess(c) ==
    /\ At(c, "startprocess") /\ plock = None
    /\ IF proc # None
       THEN /\ initialized' = TRUE /\ rlock' = None /\ Goto(c, "health")
            /\ UNCHANGED <<plock, socket>>
       ELSE /\ plock' = c /\ socket' = "none" /\ Goto(c, "starting")
            /\ UNCHANGED <<initialized, rlock>>
    /\ UNCHANGED <<proc, orphans, flag, breaker, execution, faults>>

-----------------------------------------------------------------------------
(* ensure_started_and_healthy, check_and_restart_if_needed.                *)

\* One request takes the flag, which the periodic task and dead connections set.
Health(c) ==
    /\ At(c, "health")
    /\ flag' = FALSE
    /\ Goto(c, IF flag THEN "check" ELSE "permit")
    /\ UNCHANGED <<server, locks, breaker, execution, faults>>

\* The process is looked at, without restart_lock; an exited one is forgotten,
CheckProcess(c) ==
    /\ At(c, "check") /\ plock = None
    /\ proc' = IF proc = "dead" THEN None ELSE proc
    /\ Goto(c, IF proc' = None THEN "restartlock" ELSE "exists")
    /\ UNCHANGED <<socket, orphans, initialized, locks, flag, breaker, execution, faults>>

\* and so is a live one when try_wait fails: it becomes an orphan with its connections.
CheckFails(c) ==
    /\ At(c, "check") /\ plock = None
    /\ proc = "live" /\ Fault("wait")
    /\ proc' = None
    /\ socket' = IF socket = "own" THEN "orphan" ELSE socket
    /\ ex' = Turned("running", "adrift")
    /\ Goto(c, "restartlock")
    /\ UNCHANGED <<orphans, initialized, locks, flag, breaker, serves, queue>>

Mut_CheckSocket(c) ==
    /\ At(c, "exists")
    /\ Goto(c, "permit")
    /\ UNCHANGED <<server, locks, flag, breaker, execution, faults>>

\* then the socket file of a running one.
CheckSocket(c) ==
    /\ At(c, "exists")
    /\ Goto(c, IF socket # "none" THEN "permit" ELSE "restartlock")
    /\ UNCHANGED <<server, locks, flag, breaker, execution, faults>>

Mut_RestartLock(c) ==
    /\ At(c, "restartlock")
    /\ Goto(c, "kill")
    /\ UNCHANGED <<server, locks, flag, breaker, execution, faults>>

\* The lock is taken after the decision, and the decision is not made again.
RestartLock(c) ==
    /\ At(c, "restartlock") /\ rlock = None
    /\ rlock' = c
    /\ Goto(c, "kill")
    /\ UNCHANGED <<server, plock, flag, breaker, execution, faults>>

\* restart_internal: kill the child if there is one,
Kill(c) ==
    /\ At(c, "kill") /\ plock = None
    /\ proc' = None
    /\ ex' = Turned("running", "lost")
    /\ Goto(c, "cleanup")
    /\ UNCHANGED <<socket, orphans, initialized, locks, flag, breaker, serves, queue, faults>>

\* remove the socket file,
Cleanup(c) ==
    /\ At(c, "cleanup")
    /\ socket' = "none"
    /\ Goto(c, "uninitialize")
    /\ UNCHANGED <<proc, orphans, initialized, locks, flag, breaker, execution, faults>>

Uninitialize(c) ==
    /\ At(c, "uninitialize")
    /\ initialized' = FALSE
    /\ Goto(c, "relock")
    /\ UNCHANGED <<proc, socket, orphans, locks, flag, breaker, execution, faults>>

\* and spawn, with the process mutex, unless there is a process again.
Relock(c) ==
    /\ At(c, "relock") /\ plock = None
    /\ IF proc # None THEN rlock' = None /\ Goto(c, "permit") /\ UNCHANGED plock
       ELSE plock' = c /\ Goto(c, "restarting") /\ UNCHANGED rlock
    /\ UNCHANGED <<server, flag, breaker, execution, faults>>

Spawning(c) == pc[c] \in {"starting", "restarting"}

\* The server said that it is ready; a restart closes the breaker.
Spawned(c) ==
    /\ Spawning(c)
    /\ proc' = "live" /\ socket' = "own" /\ initialized' = TRUE
    /\ rlock' = None /\ plock' = None
    /\ breaker' = IF At(c, "restarting") THEN force_close(breaker) ELSE breaker
    /\ Goto(c, IF At(c, "restarting") THEN "permit" ELSE "health")
    /\ UNCHANGED <<orphans, flag, execution, faults>>

\* The child of a start that ends otherwise may run on (fault "orphan", with its later exit).
LeftBehind(c) ==
    IF Spawning(c) /\ \E F \in FaultSets : faults' \cup {"orphan"} \subseteq F
    THEN {orphans, orphans + 1} ELSE {orphans}

\* It did not: the request ends with the error, and nothing is recorded.  There is no child,
\* it exited, or it was not ready within 10 seconds and runs on.
SpawnFails(c) ==
    /\ Spawning(c)
    /\ Fault("spawn")
    /\ orphans' \in LeftBehind(c)
    /\ rlock' = None /\ plock' = None
    /\ Goto(c, "idle")
    /\ UNCHANGED <<proc, socket, initialized, flag, breaker, execution>>

-----------------------------------------------------------------------------
(* Execution, by the request itself or by a queue worker.                  *)

Holders == {r \in Runners : ex[r] \in {"connecting", "running", "adrift", "lost"}}
available == Cardinality(Holders) < Permits

\* try_acquire_owned, else the queue, else wait for space in it.
Permit(c) ==
    /\ At(c, "permit")
    /\ IF available
       THEN ex' = [ex EXCEPT ![c] = "connecting"] /\ Goto(c, "executing") /\ UNCHANGED queue
       ELSE IF Len(queue) < QueueSize
       THEN queue' = Append(queue, c) /\ Goto(c, "waiting") /\ UNCHANGED ex
       ELSE Goto(c, "sending") /\ UNCHANGED <<ex, queue>>
    /\ UNCHANGED <<server, locks, flag, breaker, serves, faults>>

\* Space within pool_queue_send_timeout_ms, or an error that counts as a success.
Send(c) ==
    /\ At(c, "sending")
    /\ \/ /\ Len(queue) < QueueSize
          /\ queue' = Append(queue, c)
          /\ Goto(c, "waiting")
       \/ Goto(c, "answered") /\ UNCHANGED queue
    /\ UNCHANGED <<server, locks, flag, breaker, ex, serves, faults>>

Dequeue(w) ==
    /\ ex[w] = "none" /\ queue # << >>
    /\ queue' = Tail(queue)
    /\ serves' = [serves EXCEPT ![w] = Head(queue)]
    /\ ex' = [ex EXCEPT ![w] = "acquiring"]
    /\ UNCHANGED <<server, locks, flag, breaker, pc, faults>>

Mut_Acquire(w) ==
    /\ ex[w] = "acquiring"
    /\ ex' = [ex EXCEPT ![w] = "connecting"]
    /\ UNCHANGED <<server, locks, flag, breaker, pc, serves, queue, faults>>

Acquire(w) ==
    /\ ex[w] = "acquiring" /\ available
    /\ ex' = [ex EXCEPT ![w] = "connecting"]
    /\ UNCHANGED <<server, locks, flag, breaker, pc, serves, queue, faults>>

Connect(r) ==
    /\ ex[r] = "connecting" /\ Reachable
    /\ ex' = [ex EXCEPT ![r] = IF socket = "own" THEN "running" ELSE "adrift"]
    /\ UNCHANGED <<server, locks, flag, breaker, pc, serves, queue, faults>>

\* The result goes to the request, if it still waits.
Result(r, result) ==
    LET c == IF r \in Calls THEN r ELSE serves[r]
    IN /\ ex' = [ex EXCEPT ![r] = "none"]
       /\ serves' = [w \in Workers |-> IF w = r THEN None ELSE serves[w]]
       /\ pc' = IF c = None THEN pc ELSE [pc EXCEPT ![c] = result]

Mut_Broken(r) ==
    /\ \/ ex[r] = "connecting" /\ ~Reachable
       \/ ex[r] = "lost"
    /\ IF r \in Calls THEN Result(r, "broken")
       ELSE ex' = [ex EXCEPT ![r] = "exited"] /\ UNCHANGED <<serves, pc>>
    /\ UNCHANGED <<server, locks, flag, breaker, queue, faults>>

\* Every attempt to connect failed, or the connection was lost: a dead-server error.
Broken(r) ==
    /\ \/ ex[r] = "connecting" /\ ~Reachable
       \/ ex[r] = "lost"
    /\ Result(r, "broken")
    /\ UNCHANGED <<server, locks, flag, breaker, queue, faults>>

\* The plugin's result or error, the latter also when it exceeds its time.
Respond(r) ==
    /\ (ex[r] = "running" /\ proc = "live") \/ ex[r] = "adrift"
    /\ Result(r, "answered")
    /\ UNCHANGED <<server, locks, flag, breaker, queue, faults>>

\* The backstop of send_request_with_timeout: longer than what the runner grants the request,
\* so the request is gone.
Backstop(w) ==
    /\ ex[w] \in {"running", "adrift"} /\ serves[w] = None
    /\ Result(w, "broken")
    /\ UNCHANGED <<server, locks, flag, breaker, queue, faults>>

\* The request reports to the breaker; a dead server asks for a health check.
Record(c) ==
    /\ pc[c] \in {"answered", "broken"}
    /\ breaker' = IF At(c, "broken") THEN record_failure(breaker) ELSE record_success(breaker)
    /\ flag' = (flag \/ At(c, "broken"))
    /\ Goto(c, "idle")
    /\ UNCHANGED <<server, locks, execution, faults>>

-----------------------------------------------------------------------------
(* A future that is dropped releases its locks and its permit; what it had *)
(* queued stays in the queue, and a child it has spawned runs on.          *)

Drop(c) ==
    /\ Goto(c, "idle")
    /\ rlock' = IF rlock = c THEN None ELSE rlock
    /\ plock' = IF plock = c THEN None ELSE plock
    /\ ex' = [ex EXCEPT ![c] = "none"]
    /\ serves' = [w \in Workers |-> IF serves[w] = c THEN None ELSE serves[w]]
    /\ queue' = [i \in DOMAIN queue |-> IF queue[i] = c THEN None ELSE queue[i]]
    /\ orphans' \in LeftBehind(c)
    /\ UNCHANGED <<proc, socket, initialized, flag, breaker>>

\* The runner's timeout around execute_plugin.
Timeout(c) ==
    /\ pc[c] \in {"waiting", "executing"}
    /\ UNCHANGED faults
    /\ Drop(c)

\* It may strike in the middle of a start or restart, too, or the client goes away.
Abort(c) ==
    /\ pc[c] \notin {"idle", "waiting", "executing"}
    /\ Fault("abort")
    /\ Drop(c)

-----------------------------------------------------------------------------
(* The server and the clock.                                               *)

ServerExits ==
    /\ proc = "live" /\ Fault("exit")
    /\ proc' = "dead"
    /\ ex' = Turned("running", "lost")
    /\ UNCHANGED <<socket, orphans, initialized, locks, flag, breaker, pc, serves, queue>>

ServerHangs ==
    /\ proc = "live" /\ Fault("hang")
    /\ proc' = "hung"
    /\ UNCHANGED <<socket, orphans, initialized, locks, flag, breaker, pc, execution>>

SocketRemoved ==
    /\ proc = "live" /\ Fault("unlink")
    /\ socket' = "none"
    /\ UNCHANGED <<proc, orphans, initialized, locks, flag, breaker, pc, execution>>

\* An orphan is ready: it unlinks the path, whoever is bound to it, and listens there.
OrphanBinds ==
    /\ orphans > 0
    /\ orphans' = orphans - 1 /\ socket' = "orphan"
    /\ UNCHANGED <<proc, initialized, locks, flag, breaker, pc, execution, faults>>

\* The orphans exit; the file of the one that was bound stays.
OrphansExit ==
    /\ socket = "orphan" \/ \E r \in Runners : ex[r] = "adrift"
    /\ Fault("orphan")
    /\ socket' = IF socket = "orphan" THEN "stale" ELSE socket
    /\ ex' = Turned("adrift", "lost")
    /\ UNCHANGED <<proc, orphans, initialized, locks, flag, breaker, pc, serves, queue>>

HealthTick ==
    /\ flag' = TRUE
    /\ UNCHANGED <<server, locks, breaker, pc, execution, faults>>

BackoffEnds ==
    /\ breaker.state = "Open"
    /\ breaker' = [breaker EXCEPT !.elapsed = TRUE]
    /\ UNCHANGED <<server, locks, flag, pc, execution, faults>>

IdlePasses ==
    /\ breaker.state # "Closed"
    /\ breaker' = [breaker EXCEPT !.idle = TRUE]
    /\ UNCHANGED <<server, locks, flag, pc, execution, faults>>

-----------------------------------------------------------------------------
Start(c) == EnsureStarted(c) \/ StartLock(c) \/ StartProcess(c) \/ Spawned(c)
Restart(c) ==
    \/ Health(c) \/ CheckProcess(c) \/ CheckSocket(c) \/ RestartLock(c)
    \/ Kill(c) \/ Cleanup(c) \/ Uninitialize(c) \/ Relock(c)
Execution(r) == Connect(r) \/ Broken(r) \/ Respond(r)
Step(c) == Start(c) \/ Restart(c) \/ Permit(c) \/ Send(c) \/ Execution(c) \/ Record(c)
Work(w) == Dequeue(w) \/ Acquire(w) \/ Execution(w) \/ Backstop(w)

Next ==
    \/ \E c \in Calls : Request(c) \/ Step(c) \/ CheckFails(c) \/ SpawnFails(c) \/ Timeout(c) \/ Abort(c)
    \/ \E w \in Workers : Work(w)
    \/ ServerExits \/ ServerHangs \/ SocketRemoved \/ OrphanBinds \/ OrphansExit
    \/ HealthTick \/ BackoffEnds \/ IdlePasses

Spec == Init /\ [][Next]_vars

\* Mutexes, semaphore and channel are first come, first served; the server answers; time
\* passes, idle time unless results keep coming; clients keep calling.  Nothing is assumed
\* of the random draw of a half-open breaker, nor of the runner's timeout unless the server
\* hangs.
Fairness ==
    /\ \A c \in Calls : SF_vars(Step(c))
    /\ \A c \in Calls : WF_vars(Request(c) /\ (breaker.state = "HalfOpen" => breaker.idle))
    /\ \A c \in Calls : WF_vars(proc = "hung" /\ Timeout(c))
    /\ \A w \in Workers : SF_vars(Work(w))
    /\ WF_vars(HealthTick) /\ WF_vars(BackoffEnds)
    /\ WF_vars(IdlePasses) \/ []<><<\E c \in Calls : Record(c)>>_vars

FairSpec == Spec /\ Fairness

-----------------------------------------------------------------------------
\* Types; in particular no more executions hold a connection than there are permits.
TypeOK ==
    /\ proc \in {None, "live", "hung", "dead"}
    /\ socket \in {"none", "own", "orphan", "stale"} /\ orphans \in Nat
    /\ {initialized, flag} \subseteq BOOLEAN
    /\ {rlock, plock} \subseteq Calls \cup {None}
    /\ breaker.state \in {"Closed", "HalfOpen", "Open"}
    /\ breaker.successes \in 0 .. Successes - 1 /\ Len(breaker.results) <= Ring
    /\ \A w \in Workers : serves[w] \in Calls \cup {None}
    /\ Cardinality(Holders) <= Permits
    /\ Len(queue) <= QueueSize

\* restart_lock and the process mutex are there for this: no request that starts or
\* restarts the server removes the socket file of the one another request has started.  (An
\* orphan may put its own in its place.)
LiveHasSocket == proc = "live" /\ "unlink" \notin faults => socket # "none"

\* The pool is known to be started, and a server answers at its socket.
Serving == initialized /\ (socket = "orphan" \/ (socket = "own" /\ proc = "live"))

\* Nothing notices that the server hangs, as the runner drops a request before the backstop
\* could tell the breaker; nor that the file beside a live server is that of an orphan which
\* took the path over and exited.
Unnoticed == proc = "hung" \/ (proc = "live" /\ socket = "stale")

\* A server that exited, lost its socket, was forgotten or could not be spawned is replaced by
\* the requests that come, also when one of them is aborted or fails in the middle of a start
\* or of the restart, when the child of such a start shows up later, and when the breaker
\* rejects requests meanwhile.
Recovers == []<>(Serving \/ Unnoticed)

\* Every request ends, with the help of its timeout only if the server hangs: no lock, permit,
\* queue slot or worker is lost with a request that fails or is dropped.
CallEnds == \A c \in Calls : []<>(pc[c] = "idle")

\* Once the server stays up the breaker closes, although half-open it may reject all it likes.
BreakerCloses == <>[]Serving => []<>(breaker.state = "Closed")

\* What restart_lock is documented to prevent: a working server is not killed by a request
\* that decided before another one had restarted it.
NoNeedlessRestart == [][proc = "live" /\ proc' = None => socket = "none"]_vars
=============================================================================
