---------------------------- MODULE RpcSelector ----------------------------
(***************************************************************************)
(* Calls to RPC endpoints: selection of a provider, retries, failover to   *)
(* the next one, and the pause of providers that keep failing.  The health *)
(* store is shared by the whole process; a selector belongs to a provider  *)
(* object, whose concurrent calls (try_join! of three gas price queries)   *)
(* share its current index.                                                *)
(***************************************************************************)
EXTENDS Integers, Sequences, FiniteSets

CONSTANTS
    Calls,          \* concurrent callers of retry_rpc_call
    N,              \* providers are 0 .. N - 1, in the order of the configuration
    None,
    Settings,       \* the configurations, and whether the calls share one selector
    MaxRetries,     \* provider_max_retries
    MaxFailovers,   \* provider_max_failovers
    Threshold, PauseDuration, Expiration   \* of the health store, in ticks

Providers == 0 .. N - 1

ASSUME RpcAssumption ==
    /\ {N, MaxRetries, MaxFailovers, Threshold, PauseDuration, Expiration} \subseteq Nat
    /\ N > 0 /\ Threshold > 0 /\ PauseDuration > 0
    /\ Settings \subseteq [role : [Providers -> {"healthy", "sick", "broken", "disabled"}],
                            weighted : BOOLEAN, shared : BOOLEAN]
    /\ None \notin Nat

VARIABLES
    setting,    \* role: a sick provider may fail, for a broken one no client can be made, a
                \* disabled one has weight zero; weighted: other weights differ
    failures,   \* per URL: failure_timestamps as ages, oldest first
    pause,      \* per URL: ticks until paused_until
    next,       \* per selector: next_index, modulo N
    current,    \* per selector: current_index, None if not has_current
    calls

vars == <<setting, failures, pause, next, current, calls>>
role == setting.role
health == <<failures, pause>>

Fresh == [pc |-> "ended", url |-> None, tried |-> {}, failovers |-> 0, attempts |-> 0,
          result |-> "returned"]

Init ==
    /\ setting \in Settings
    /\ failures = [p \in Providers |-> << >>] /\ pause = [p \in Providers |-> 0]
    /\ next \in [Calls -> Providers]
    /\ current = [c \in Calls |-> None]
    /\ calls = [c \in Calls |-> Fresh]

At(c, pc) == calls[c].pc = pc
Selector(c) == IF setting.shared THEN CHOOSE x \in Calls : TRUE ELSE c
Exhausted(c) == [Fresh EXCEPT !.tried = calls[c].tried, !.result = "exhausted"]
max_failovers == IF MaxFailovers < N THEN MaxFailovers ELSE N - 1

-----------------------------------------------------------------------------
(* RpcHealthStore.                                                         *)

\* Stale failures are dropped as they age, which reads do before they count.
is_paused(p) == Len(failures[p]) >= Threshold /\ pause[p] > 0

Mut_Recorded(p) == Append(failures[p], 0)

\* mark_failed keeps the latest 2 * threshold failures.
Recorded(p) ==
    LET all == Append(failures[p], 0)
    IN IF Len(all) > 2 * Threshold THEN Tail(all) ELSE all

\* mark_current_as_failed: the provider the selector chose last, for whichever call.
MarkCurrent(c) ==
    LET s == Selector(c)
        p == current[s]
    IN IF p = None THEN UNCHANGED <<health, next, current>>
       ELSE /\ failures' = [failures EXCEPT ![p] = Recorded(p)]
            /\ pause' = [pause EXCEPT ![p] = IF Len(Recorded(p)) >= Threshold
                                              THEN PauseDuration ELSE @]
            /\ current' = [current EXCEPT ![s] = None]
            /\ next' = [next EXCEPT ![s] = (@ + 1) % N]

-----------------------------------------------------------------------------
(* RpcSelector: select_url_internal and get_provider.                      *)

Untried(c) == {p \in Providers : role[p] # "disabled" /\ p \notin calls[c].tried}
Unpaused(c) == {p \in Untried(c) : ~is_paused(p)}

Mut_Pool(c) == Unpaused(c)

\* Paused providers are the last resort.
Pool(c) == IF Unpaused(c) # {} THEN Unpaused(c) ELSE Untried(c)

\* The first of P from index i on.
RoundRobin(i, P) ==
    CHOOSE p \in P : \A q \in P : (p - i + N) % N <= (q - i + N) % N

Selected(c, p) ==
    IF role[p] = "broken" THEN [calls[c] EXCEPT !.pc = "unobtained"]
    ELSE [calls[c] EXCEPT !.pc = "call", !.url = p, !.tried = @ \cup {p}, !.attempts = 0]

Mut_Select(c) ==
    LET s == Selector(c)
    IN /\ At(c, "select") /\ Pool(c) # {}
       /\ LET p == RoundRobin(next[s], Pool(c))
          IN /\ next' = [next EXCEPT ![s] = (p + 1) % N]
             /\ current' = [current EXCEPT ![s] = IF @ = None THEN p ELSE @]
             /\ calls' = [calls EXCEPT ![c] = Selected(c, p)]
       /\ UNCHANGED <<setting, health>>

\* By weight, or by turns: the ten draws by weight may all miss.
Select(c) ==
    LET s == Selector(c)
    IN /\ At(c, "select") /\ Pool(c) # {}
       /\ \E p \in Pool(c) :
            /\ \/ setting.weighted /\ UNCHANGED next
               \/ p = RoundRobin(next[s], Pool(c)) /\ next' = [next EXCEPT ![s] = (p + 1) % N]
            /\ current' = [current EXCEPT ![s] = p]
            /\ calls' = [calls EXCEPT ![c] = Selected(c, p)]
       /\ UNCHANGED <<setting, health>>

NoneLeft(c) ==
    /\ At(c, "select") /\ Pool(c) = {}
    /\ calls' = [calls EXCEPT ![c].pc = "unobtained"]
    /\ UNCHANGED <<setting, health, next, current>>

Failover(c) == IF calls[c].failovers + 1 > max_failovers
               THEN Exhausted(c)
               ELSE [calls[c] EXCEPT !.pc = "select", !.failovers = @ + 1]

Mut_NoProvider(c) ==
    /\ At(c, "unobtained")
    /\ calls' = [calls EXCEPT ![c].pc = "select"]
    /\ MarkCurrent(c)
    /\ UNCHANGED setting

\* retry_rpc_call without a provider: a failover, and the current provider is marked.
NoProvider(c) ==
    /\ At(c, "unobtained")
    /\ calls' = [calls EXCEPT ![c] = Failover(c)]
    /\ IF calls'[c].pc = "ended" THEN UNCHANGED <<health, next, current>> ELSE MarkCurrent(c)
    /\ UNCHANGED setting

-----------------------------------------------------------------------------
(* try_with_retries, and what retry_rpc_call does with its result.         *)

Start(c) ==
    /\ At(c, "ended")
    /\ calls' = [calls EXCEPT ![c] = [Fresh EXCEPT !.pc = "select"]]
    /\ UNCHANGED <<setting, health, next, current>>

\* The operation returns a result, or an error that is about the request.
Answered(c) ==
    /\ At(c, "call")
    /\ calls' = [calls EXCEPT ![c] = Fresh]
    /\ UNCHANGED <<setting, health, next, current>>

\* It fails: a retriable error is tried again with the same provider as long as max_retries
\* allows; without retries, and for other errors, the call ends at once.
OperationFails(c) ==
    /\ At(c, "call") /\ role[calls[c].url] = "sick"
    /\ \/ /\ MaxRetries > 1
          /\ calls' = [calls EXCEPT ![c].attempts = @ + 1,
                         ![c].pc = IF calls[c].attempts + 1 >= MaxRetries THEN "failover" ELSE "call"]
       \/ calls' = [calls EXCEPT ![c].pc = "fatal"]
    /\ UNCHANGED <<setting, health, next, current>>

RetriesExhausted(c) ==
    /\ At(c, "failover")
    /\ calls' = [calls EXCEPT ![c] = Failover(c)]
    /\ MarkCurrent(c)
    /\ UNCHANGED setting

\* A non-retriable error, which may mark the provider.
NonRetriable(c) ==
    /\ At(c, "fatal")
    /\ calls' = [calls EXCEPT ![c] = Fresh]
    /\ MarkCurrent(c) \/ UNCHANGED <<health, next, current>>
    /\ UNCHANGED setting

\* The failures that reach Expiration with the next tick: the oldest, so they come first.
Expiring(p) == Cardinality({i \in 1 .. Len(failures[p]) : failures[p][i] = Expiration})

Tick ==
    /\ failures' = [p \in Providers |-> [i \in 1 .. Len(failures[p]) - Expiring(p) |->
                                           failures[p][Expiring(p) + i] + 1]]
    /\ pause' = [p \in Providers |-> IF pause[p] > 0 THEN pause[p] - 1 ELSE 0]
    /\ UNCHANGED <<setting, next, current, calls>>

-----------------------------------------------------------------------------
Step(c) ==
    \/ Select(c) \/ NoneLeft(c) \/ NoProvider(c)
    \/ Answered(c) \/ OperationFails(c) \/ RetriesExhausted(c) \/ NonRetriable(c)

Next == Tick \/ \E c \in Calls : Start(c) \/ Step(c)

\* A call that was started goes on: every operation returns, if only by its timeout.
FairSpec == Init /\ [][Next]_vars /\ \A c \in Calls : WF_vars(Step(c))

-----------------------------------------------------------------------------
\* Types; in particular mark_failed keeps no more failures per provider than it should.
TypeOK ==
    /\ \A p \in Providers : /\ Len(failures[p]) <= 2 * Threshold
                            /\ \A i \in 1 .. Len(failures[p]) : failures[p][i] \in 0 .. Expiration
                            /\ pause[p] \in 0 .. PauseDuration
    /\ \A c \in Calls : /\ next[c] \in Providers /\ current[c] \in Providers \cup {None}
                        /\ calls[c].pc \in {"select", "unobtained", "call", "failover", "fatal",
                                            "ended"}
                        /\ calls[c].tried \subseteq Providers
                        /\ calls[c].failovers \in 0 .. max_failovers
                        /\ calls[c].attempts \in 0 .. MaxRetries

Playing(r) == {p \in Providers : role[p] = r}
Usable == Playing("healthy") \cup Playing("sick")

\* Failover does what it is for: a call gives up only when every provider it tried has
\* failed, and it tried different ones, as many as max_failovers and the configuration
\* allow, whatever other calls paused meanwhile.  (A URL no client can be made for uses up
\* failovers.)
FailsOver ==
    \A c \in Calls :
        At(c, "ended") /\ calls[c].result = "exhausted" =>
            /\ calls[c].tried \cap Playing("healthy") = {}
            /\ Playing("broken") = {} =>
                 \/ calls[c].tried = Usable
                 \/ Cardinality(calls[c].tried) = max_failovers + 1

\* Callers that do not share a selector never record a failure of a provider that works,
\* although they share the health store and mark whatever is current.
HealthyNotBlamed ==
    ~setting.shared => \A p \in Playing("healthy") : failures[p] = << >>

\* Every call ends: a selection without result counts as a failover, too.
CallEnds == \A c \in Calls : []<>At(c, "ended")
=============================================================================
