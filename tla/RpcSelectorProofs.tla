-------------------------- MODULE RpcSelectorProofs --------------------------
(***************************************************************************)
(* Proofs about RpcSelector, for any number of providers and concurrent    *)
(* calls, any configuration and any limits: its types with the bound on    *)
(* the recorded failures, what a call that gives up has tried, and that a  *)
(* provider that works is not blamed for another one's failures.           *)
(***************************************************************************)
EXTENDS RpcSelector, FiniteSetTheorems, TLAPS

PCs == {"select", "unobtained", "call", "failover", "fatal", "ended"}

Configurations ==
    [role : [Providers -> {"healthy", "sick", "broken", "disabled"}],
     weighted : BOOLEAN, shared : BOOLEAN]

CallStates ==
    [pc : PCs, url : Providers \cup {None}, tried : SUBSET Providers,
     failovers : 0 .. max_failovers, attempts : 0 .. MaxRetries,
     result : {"returned", "exhausted"}]

Ages == 0 .. Expiration

\* The failures kept of a provider: ages within the expiry, oldest first, not too many.
Log(s) ==
    /\ s \in Seq(Ages) /\ Len(s) <= 2 * Threshold
    /\ \A i, j \in 1 .. Len(s) : i < j => s[j] <= s[i]

HealthTypes ==
    /\ DOMAIN failures = Providers /\ failures = [p \in Providers |-> failures[p]]
    /\ \A p \in Providers : Log(failures[p])
    /\ pause \in [Providers -> 0 .. PauseDuration]

SelectorTypes ==
    /\ next \in [Calls -> Providers]
    /\ current \in [Calls -> Providers \cup {None}]

\* A call in progress has a provider and an attempt left.
InProgress(k) == k.pc = "call" => k.url \in Providers /\ (MaxRetries > 1 => k.attempts < MaxRetries)

\* What a call knows of the providers it tried: it has got nothing from any of them but,
\* while it is calling it, the last.
Tried(k) ==
    /\ k.tried \subseteq Usable
    /\ k.tried \cap Playing("healthy") \subseteq (IF k.pc = "call" THEN {k.url} ELSE {})

\* Every failover is one more provider, until none is left.
Counted(k) ==
    \/ k.tried = Usable
    \/ k.pc = "select" /\ Cardinality(k.tried) = k.failovers
    \/ k.pc \in {"call", "failover", "fatal"} /\ Cardinality(k.tried) = k.failovers + 1
    \/ k.pc = "ended" /\ (k.result = "exhausted" => Cardinality(k.tried) = max_failovers + 1)

\* A working provider stays a selector's current one only through the call it serves, and
\* after it until the next selection.
Unblamed(k, p) ==
    p # None /\ role[p] = "healthy" =>
        \/ k.pc = "ended"
        \/ k.pc = "select" /\ k.tried = {}
        \/ k.pc = "call" /\ k.url = p

BlameInv ==
    ~setting.shared =>
        /\ \A c \in Calls : Unblamed(calls[c], current[c])
        /\ \A p \in Playing("healthy") : failures[p] = << >>
-----------------------------------------------------------------------------
\* The steps of Next, one by one.
LEMMA NextCases ==
    ASSUME Next
    PROVE  \/ Tick
           \/ \E c \in Calls :
                \/ Start(c) \/ Select(c) \/ NoneLeft(c) \/ NoProvider(c) \/ Answered(c)
                \/ OperationFails(c) \/ RetriesExhausted(c) \/ NonRetriable(c)
BY DEF Next, Step

\* Facts about the constants.
LEMMA Constants ==
    /\ N \in Nat /\ N > 0 /\ MaxRetries \in Nat /\ MaxFailovers \in Nat
    /\ Threshold \in Nat /\ Threshold > 0 /\ PauseDuration \in Nat /\ PauseDuration > 0
    /\ Expiration \in Nat
    /\ max_failovers \in Nat /\ max_failovers < N
    /\ None \notin Providers
    /\ Settings \subseteq Configurations
BY RpcAssumption DEF max_failovers, Providers, Configurations

\* The providers are finitely many, and so are those of any part of them.
LEMMA Finite == ASSUME NEW S \in SUBSET Providers PROVE IsFiniteSet(S) /\ Cardinality(S) \in Nat
<1>1. IsFiniteSet(Providers)
  BY Constants, FS_Interval DEF Providers
<1>2. IsFiniteSet(S)
  BY <1>1, FS_Subset
<1> QED BY <1>2, FS_CardinalityType

\* next_index after a selection is an index.
LEMMA Advance == ASSUME NEW p \in Providers PROVE (p + 1) % N \in Providers
<1>1. p + 1 \in Nat /\ N \in Nat /\ N > 0
  BY Constants DEF Providers
<1>2. (p + 1) % N \in 0 .. N - 1
  BY <1>1
<1> QED BY <1>2 DEF Providers

\* The selector of a call is one of the selectors, its own if they are not shared.
LEMMA SelectorOf ==
    ASSUME NEW c \in Calls
    PROVE  Selector(c) \in Calls /\ (~setting.shared => Selector(c) = c)
BY DEF Selector

-----------------------------------------------------------------------------
(* The health store. *)

\* Recording a failure keeps the log in order and within its limit.
LEMMA RecordedLog ==
    ASSUME NEW p \in Providers, HealthTypes
    PROVE  Log(Recorded(p))
<1> DEFINE s == failures[p]
           all == Append(s, 0)
<1>1. s \in Seq(Ages) /\ Len(s) <= 2 * Threshold
      /\ \A i, j \in 1 .. Len(s) : i < j => s[j] <= s[i]
  BY DEF HealthTypes, Log
<1>2. Recorded(p) = IF Len(all) > 2 * Threshold THEN Tail(all) ELSE all
  BY DEF Recorded
<1> HIDE DEF s
<1>0. Threshold \in Nat /\ Threshold > 0 /\ Expiration \in Nat /\ 0 \in Ages
  BY Constants DEF Ages
<1>3. all \in Seq(Ages) /\ Len(all) = Len(s) + 1 /\ Len(s) \in Nat
      /\ all[Len(s) + 1] = 0 /\ \A i \in 1 .. Len(s) : all[i] = s[i]
  BY <1>0, <1>1
<1>4. \A i \in 1 .. Len(s) : s[i] \in Ages
  BY <1>1
<1>5. \A i, j \in 1 .. Len(all) : i < j => all[j] <= all[i]
  <2> SUFFICES ASSUME NEW i \in 1 .. Len(all), NEW j \in 1 .. Len(all), i < j
               PROVE  all[j] <= all[i]
    OBVIOUS
  <2> HIDE DEF all
  <2>1. i \in 1 .. Len(s)
    BY <1>3
  <2>2. CASE j = Len(s) + 1
    <3>1. all[j] = 0 /\ all[i] = s[i] /\ s[i] \in Nat
      BY <2>1, <2>2, <1>3, <1>4, <1>0 DEF Ages
    <3> QED BY <3>1
  <2>3. CASE j # Len(s) + 1
    <3>1. j \in 1 .. Len(s)
      BY <1>3, <2>3
    <3> QED BY <3>1, <2>1, <1>1, <1>3
  <2> QED BY <2>2, <2>3
<1> HIDE DEF all
<1>6. CASE Len(all) > 2 * Threshold
  <2> DEFINE t == Tail(all)
  <2>1. all # << >> /\ Len(all) >= 1
    BY <1>3
  <2>2. t \in Seq(Ages) /\ Len(t) = Len(s) /\ \A i \in 1 .. Len(t) : t[i] = all[i + 1]
    BY <2>1, <1>3
  <2>3. Recorded(p) = t
    BY <1>2, <1>6
  <2> HIDE DEF t
  <2>4. \A i, j \in 1 .. Len(t) : i < j => t[j] <= t[i]
    BY <2>2, <1>5, <1>3
  <2> QED BY <2>2, <2>3, <2>4, <1>1 DEF Log
<1>7. CASE ~(Len(all) > 2 * Threshold)
  <2>1. Len(all) <= 2 * Threshold
    BY <1>7, <1>3, <1>0
  <2> QED BY <2>1, <1>2, <1>3, <1>5, <1>7 DEF Log
<1> QED BY <1>6, <1>7

\* mark_current_as_failed keeps the types.
LEMMA MarkTypes ==
    ASSUME NEW c \in Calls, HealthTypes, SelectorTypes, MarkCurrent(c)
    PROVE  HealthTypes' /\ SelectorTypes'
<1> DEFINE s == Selector(c)
           p == current[s]
<1>0. s \in Calls
  BY SelectorOf
<1>1. CASE p = None
  <2>1. UNCHANGED <<failures, pause, next, current>>
    BY <1>1 DEF MarkCurrent, health
  <2> QED BY <2>1 DEF HealthTypes, SelectorTypes
<1>2. CASE p # None
  <2>1. p \in Providers
    BY <1>0, <1>2 DEF SelectorTypes
  <2>2. /\ failures' = [failures EXCEPT ![p] = Recorded(p)]
        /\ pause' = [pause EXCEPT ![p] = IF Len(Recorded(p)) >= Threshold
                                          THEN PauseDuration ELSE @]
        /\ current' = [current EXCEPT ![s] = None]
        /\ next' = [next EXCEPT ![s] = (@ + 1) % N]
    BY <1>2 DEF MarkCurrent
  <2>3. Log(Recorded(p))
    BY <2>1, RecordedLog
  <2>4. next[s] \in Providers /\ (next[s] + 1) % N \in Providers
    BY <1>0, Advance DEF SelectorTypes
  <2> HIDE DEF s, p
  <2>5. DOMAIN failures' = Providers /\ failures' = [q \in Providers |-> failures'[q]]
        /\ \A q \in Providers : failures'[q] = IF q = p THEN Recorded(p) ELSE failures[q]
    BY <2>1, <2>2 DEF HealthTypes
  <2>6. pause' \in [Providers -> 0 .. PauseDuration]
    BY <2>1, <2>2, Constants DEF HealthTypes
  <2>7. HealthTypes'
    BY <2>3, <2>5, <2>6 DEF HealthTypes, Log
  <2>8. SelectorTypes'
    BY <2>2, <2>4, <1>0 DEF SelectorTypes
  <2> QED BY <2>7, <2>8
<1> QED BY <1>1, <1>2

\* The failures that expire are the first ones of the log.
LEMMA ExpiringFirst ==
    ASSUME NEW p \in Providers, HealthTypes
    PROVE  /\ Expiring(p) \in 0 .. Len(failures[p])
           /\ \A i \in 1 .. Len(failures[p]) : i > Expiring(p) => failures[p][i] < Expiration
<1> DEFINE s == failures[p]
           E == {i \in 1 .. Len(s) : s[i] = Expiration}
<1>1. s \in Seq(Ages) /\ Len(s) \in Nat
      /\ \A i, j \in 1 .. Len(s) : i < j => s[j] <= s[i]
  BY DEF HealthTypes, Log
<1>2. Expiring(p) = Cardinality(E)
  BY DEF Expiring
<1> HIDE DEF s
<1>3. IsFiniteSet(1 .. Len(s)) /\ Cardinality(1 .. Len(s)) = Len(s)
  <2>1. 1 \in Int /\ Len(s) \in Int
    BY <1>1
  <2>2. IsFiniteSet(1 .. Len(s)) /\ Cardinality(1 .. Len(s)) = IF 1 > Len(s) THEN 0 ELSE Len(s) - 1 + 1
    BY <2>1, FS_Interval
  <2> QED BY <2>2, <1>1
<1>4. IsFiniteSet(E) /\ Cardinality(E) <= Len(s)
  BY <1>3, FS_Subset
<1>5. Cardinality(E) \in Nat
  BY <1>4, FS_CardinalityType
<1>6. ASSUME NEW i \in 1 .. Len(s), i > Cardinality(E), ~(s[i] < Expiration)
      PROVE  FALSE
  <2>1. Expiration \in Nat /\ \A j \in 1 .. Len(s) : s[j] \in Ages
    BY <1>1, Constants
  <2>2. s[i] = Expiration
    BY <2>1, <1>6 DEF Ages
  <2>3. \A j \in 1 .. i : j \in 1 .. Len(s) /\ s[j] >= Expiration
    BY <1>1, <2>1, <2>2 DEF Ages
  <2>4. 1 .. i \subseteq E
    BY <2>1, <2>3 DEF Ages
  <2>5. Cardinality(1 .. i) = i
    BY FS_Interval
  <2>6. Cardinality(1 .. i) <= Cardinality(E)
    BY <2>4, <1>4, FS_Subset
  <2> QED BY <2>5, <2>6, <1>6, <1>5
<1> HIDE DEF E
<1>7. Expiring(p) \in 0 .. Len(s)
  BY <1>1, <1>2, <1>4, <1>5
<1>8. \A i \in 1 .. Len(s) : i > Expiring(p) => s[i] < Expiration
  BY <1>2, <1>6
<1> QED BY <1>7, <1>8 DEF s

\* Time passes: the log stays one.
LEMMA AgedLog ==
    ASSUME NEW p \in Providers, HealthTypes
    PROVE  Log([i \in 1 .. Len(failures[p]) - Expiring(p) |-> failures[p][Expiring(p) + i] + 1])
<1> DEFINE s == failures[p]
           k == Expiring(p)
           t == [i \in 1 .. Len(s) - k |-> s[k + i] + 1]
<1>1. s \in Seq(Ages) /\ Len(s) \in Nat /\ Len(s) <= 2 * Threshold
      /\ \A i, j \in 1 .. Len(s) : i < j => s[j] <= s[i]
  BY DEF HealthTypes, Log
<1>2. k \in 0 .. Len(s) /\ \A i \in 1 .. Len(s) : i > k => s[i] < Expiration
  BY ExpiringFirst
<1> HIDE DEF s, k
<1>3. \A i \in 1 .. Len(s) : s[i] \in Ages
  BY <1>1
<1>4. Len(s) - k \in Nat /\ \A i \in 1 .. Len(s) - k : k + i \in 1 .. Len(s) /\ k + i > k
  BY <1>1, <1>2
<1>5. \A i \in 1 .. Len(s) - k : s[k + i] + 1 \in Ages
  <2> SUFFICES ASSUME NEW i \in 1 .. Len(s) - k PROVE s[k + i] + 1 \in Ages
    OBVIOUS
  <2>1. s[k + i] \in Ages /\ s[k + i] < Expiration
    BY <1>2, <1>3, <1>4
  <2> QED BY <2>1, Constants DEF Ages
<1>6. t \in Seq(Ages) /\ Len(t) = Len(s) - k
  BY <1>4, <1>5
<1>7. \A i, j \in 1 .. Len(t) : i < j => t[j] <= t[i]
  <2> SUFFICES ASSUME NEW i \in 1 .. Len(t), NEW j \in 1 .. Len(t), i < j
               PROVE  t[j] <= t[i]
    OBVIOUS
  <2>1. i \in 1 .. Len(s) - k /\ j \in 1 .. Len(s) - k
    BY <1>6
  <2>2. k + i \in 1 .. Len(s) /\ k + j \in 1 .. Len(s) /\ k + i < k + j
    BY <2>1, <1>4, <1>2
  <2>3. s[k + j] <= s[k + i] /\ s[k + j] \in Int /\ s[k + i] \in Int
    BY <2>2, <1>1, <1>3 DEF Ages
  <2>4. t[i] = s[k + i] + 1 /\ t[j] = s[k + j] + 1
    BY <2>1
  <2> QED BY <2>3, <2>4
<1>8. Len(t) <= 2 * Threshold
  BY <1>6, <1>1, <1>2, Constants
<1>9. Log(t)
  BY <1>6, <1>7, <1>8 DEF Log
<1> QED BY <1>9 DEF s, k

\* Tick keeps the types of the health store.
LEMMA TickTypes ==
    ASSUME HealthTypes, Tick
    PROVE  HealthTypes'
<1> DEFINE aged(p) == [i \in 1 .. Len(failures[p]) - Expiring(p) |->
                         failures[p][Expiring(p) + i] + 1]
<1>1. failures' = [p \in Providers |-> aged(p)]
  BY DEF Tick
<1>2. \A p \in Providers : Log(aged(p))
  BY AgedLog
<1> HIDE DEF aged
<1>3. DOMAIN failures' = Providers /\ failures' = [p \in Providers |-> failures'[p]]
      /\ \A p \in Providers : Log(failures'[p])
  BY <1>1, <1>2
<1>4. pause' \in [Providers -> 0 .. PauseDuration]
  BY Constants DEF Tick, HealthTypes
<1> QED BY <1>3, <1>4 DEF HealthTypes, Log
-----------------------------------------------------------------------------
(* What a call has tried. *)

\* Everything about one call, in one predicate.
CallOK(k) ==
    k \in CallStates /\ InProgress(k) /\ Tried(k) /\ (Playing("broken") = {} => Counted(k))

CallsOK == DOMAIN calls = Calls /\ calls = [c \in Calls |-> calls[c]]
           /\ \A c \in Calls : CallOK(calls[c])

\* Step that gives call c the state k.
Becomes(c, k) == calls' = [calls EXCEPT ![c] = k]

\* It is enough to look at the call that takes the step.
LEMMA BecomesOK ==
    ASSUME NEW c \in Calls, NEW k, CallsOK, Becomes(c, k), CallOK(k), UNCHANGED setting
    PROVE  CallsOK'
<1>1. DOMAIN calls' = Calls /\ calls' = [d \in Calls |-> calls'[d]]
      /\ \A d \in Calls : calls'[d] = IF d = c THEN k ELSE calls[d]
  BY DEF CallsOK, Becomes
<1>2. \A d \in Calls : CallOK(calls'[d])
  BY <1>1 DEF CallsOK
<1>3. \A d \in Calls : CallOK(calls[d])'
  BY <1>2, UNCHANGED setting
     DEF CallOK, Tried, Counted, Usable, Playing, role, CallStates, InProgress
<1> QED BY <1>1, <1>3 DEF CallsOK

\* A call that has not begun, and one that has answered.
LEMMA FreshOK == CallOK(Fresh) /\ CallOK([Fresh EXCEPT !.pc = "select"])
<1>1. Fresh = [pc |-> "ended", url |-> None, tried |-> {}, failovers |-> 0, attempts |-> 0,
               result |-> "returned"]
  BY DEF Fresh
<1> DEFINE k == [Fresh EXCEPT !.pc = "select"]
<1>2. k = [pc |-> "select", url |-> None, tried |-> {}, failovers |-> 0, attempts |-> 0,
           result |-> "returned"]
  BY <1>1
<1>3. 0 \in 0 .. max_failovers /\ 0 \in 0 .. MaxRetries /\ {} \in SUBSET Providers
  BY Constants
<1>4. Cardinality({}) = 0
  BY FS_EmptySet
<1>5. CallOK(Fresh)
  BY <1>1, <1>3, <1>4 DEF CallOK, CallStates, PCs, InProgress, Tried, Counted
<1> HIDE DEF k
<1>6. k \in CallStates
  BY <1>2, <1>3 DEF CallStates, PCs
<1>7. k.pc = "select" /\ k.tried = {} /\ k.failovers = 0
  BY <1>2
<1>8. CallOK(k)
  BY <1>6, <1>7, <1>4 DEF CallOK, InProgress, Tried, Counted
<1> QED BY <1>5, <1>8 DEF k

\* A change of pc alone.
LEMMA PcOK ==
    ASSUME NEW k \in CallStates, NEW x \in PCs
    PROVE  LET m == [k EXCEPT !.pc = x]
           IN /\ m \in CallStates /\ m.pc = x /\ m.url = k.url /\ m.tried = k.tried
              /\ m.failovers = k.failovers /\ m.attempts = k.attempts /\ m.result = k.result
BY DEF CallStates

\* A failover after a provider failed, or without one: the call goes on with one more
\* failover counted, or it ends having tried what the limit allows.
LEMMA FailoverOK ==
    ASSUME NEW c \in Calls, CallOK(calls[c]), calls[c].pc \in {"unobtained", "failover"}
    PROVE  CallOK(Failover(c)) /\ Failover(c).pc \in {"ended", "select"}
<1> DEFINE k == calls[c]
<1>1. /\ k \in CallStates /\ k.tried \in SUBSET Providers /\ k.failovers \in 0 .. max_failovers
      /\ k.attempts \in 0 .. MaxRetries /\ k.url \in Providers \cup {None}
      /\ k.result \in {"returned", "exhausted"}
  BY DEF CallOK, CallStates
<1>2. /\ k.tried \subseteq Usable /\ k.tried \cap Playing("healthy") = {}
  BY DEF CallOK, Tried
<1>3. Playing("broken") = {} =>
        k.tried = Usable \/ (k.pc = "failover" /\ Cardinality(k.tried) = k.failovers + 1)
  BY DEF CallOK, Counted
<1>4. max_failovers \in Nat /\ 0 \in 0 .. max_failovers /\ 0 \in 0 .. MaxRetries
  BY Constants
<1>5. CASE k.failovers + 1 > max_failovers
  <2> DEFINE m == Exhausted(c)
  <2>1. Failover(c) = m
    BY <1>5 DEF Failover
  <2>2. m = [pc |-> "ended", url |-> None, tried |-> k.tried, failovers |-> 0, attempts |-> 0,
             result |-> "exhausted"]
    <3> DEFINE t == k.tried
    <3>1. m = [Fresh EXCEPT !.tried = t, !.result = "exhausted"]
      BY DEF Exhausted
    <3> HIDE DEF t, m
    <3>2. m = [pc |-> "ended", url |-> None, tried |-> t, failovers |-> 0, attempts |-> 0,
               result |-> "exhausted"]
      BY <3>1 DEF Fresh
    <3> QED BY <3>2 DEF t
  <2> HIDE DEF k, m
  <2>3. m \in CallStates
    BY <2>2, <1>1, <1>4 DEF CallStates, PCs
  <2>4. m.pc = "ended" /\ m.tried = k.tried /\ m.result = "exhausted"
    BY <2>2
  <2>5. k.failovers = max_failovers
    BY <1>1, <1>4, <1>5
  <2>6. Tried(m)
    BY <2>4, <1>2 DEF Tried
  <2>7. Playing("broken") = {} => Counted(m)
    BY <2>4, <2>5, <1>3 DEF Counted
  <2>8. CallOK(m)
    BY <2>3, <2>4, <2>6, <2>7 DEF CallOK, InProgress
  <2> QED BY <2>1, <2>4, <2>8
<1>6. CASE ~(k.failovers + 1 > max_failovers)
  <2> DEFINE m == [k EXCEPT !.pc = "select", !.failovers = @ + 1]
  <2>1. Failover(c) = m
    BY <1>6 DEF Failover
  <2>2. k.failovers + 1 \in 0 .. max_failovers
    BY <1>1, <1>4, <1>6
  <2> HIDE DEF k
  <2>3. m \in CallStates /\ m.pc = "select" /\ m.tried = k.tried /\ m.failovers = k.failovers + 1
    BY <1>1, <2>2 DEF CallStates, PCs
  <2> HIDE DEF m
  <2>4. Tried(m)
    BY <2>3, <1>2 DEF Tried
  <2>5. Playing("broken") = {} => Counted(m)
    BY <2>3, <1>3 DEF Counted
  <2>6. CallOK(m)
    BY <2>3, <2>4, <2>5 DEF CallOK, InProgress
  <2> QED BY <2>1, <2>3, <2>6
<1> QED BY <1>5, <1>6

\* A selection: the provider is a new one; a URL without client leaves the call without.
LEMMA SelectedOK ==
    ASSUME NEW c \in Calls, CallOK(calls[c]), At(c, "select"), NEW p \in Untried(c),
           setting \in Configurations
    PROVE  CallOK(Selected(c, p)) /\ p \in Providers
<1> DEFINE k == calls[c]
<1>1. /\ k \in CallStates /\ k.tried \in SUBSET Providers /\ k.failovers \in 0 .. max_failovers
      /\ k.attempts \in 0 .. MaxRetries /\ k.url \in Providers \cup {None}
      /\ k.pc = "select"
  BY DEF CallOK, CallStates, At
<1>2. /\ k.tried \subseteq Usable /\ k.tried \cap Playing("healthy") = {}
  BY <1>1 DEF CallOK, Tried
<1>3. Playing("broken") = {} => k.tried = Usable \/ Cardinality(k.tried) = k.failovers
  BY <1>1 DEF CallOK, Counted
<1>4. p \in Providers /\ role[p] # "disabled" /\ p \notin k.tried
      /\ role[p] \in {"healthy", "sick", "broken", "disabled"}
  BY DEF Untried, Configurations, role
<1>5. CASE role[p] = "broken"
  <2> DEFINE m == [k EXCEPT !.pc = "unobtained"]
  <2>1. Selected(c, p) = m
    BY <1>5 DEF Selected
  <2> HIDE DEF k
  <2>2. m \in CallStates /\ m.pc = "unobtained" /\ m.tried = k.tried
    BY <1>1 DEF CallStates, PCs
  <2> HIDE DEF m
  <2>3. Playing("broken") # {}
    BY <1>4, <1>5 DEF Playing
  <2>4. CallOK(m)
    BY <2>2, <2>3, <1>2 DEF CallOK, InProgress, Tried
  <2> QED BY <2>1, <2>4, <1>4
<1>6. CASE role[p] # "broken"
  <2> DEFINE m == [k EXCEPT !.pc = "call", !.url = p, !.tried = @ \cup {p}, !.attempts = 0]
  <2>1. Selected(c, p) = m
    BY <1>6 DEF Selected
  <2>0. 0 \in 0 .. MaxRetries
    BY Constants
  <2> HIDE DEF k
  <2>2. m \in CallStates /\ m.pc = "call" /\ m.tried = k.tried \cup {p} /\ m.url = p
        /\ m.attempts = 0 /\ m.failovers = k.failovers
    BY <1>1, <1>4, <2>0 DEF CallStates, PCs
  <2> HIDE DEF m
  <2>3. p \in Usable
    BY <1>4, <1>6 DEF Usable, Playing
  <2>4. Tried(m)
    BY <2>2, <2>3, <1>2 DEF Tried
  <2>5. k.tried # Usable
    BY <1>4, <2>3
  <2>6. Cardinality(m.tried) = Cardinality(k.tried) + 1
    BY <2>2, <1>1, <1>4, Finite, FS_AddElement
  <2>7. Playing("broken") = {} => Counted(m)
    BY <2>2, <2>5, <2>6, <1>3 DEF Counted
  <2>8. InProgress(m)
    BY <2>2, <1>4, Constants DEF InProgress
  <2>9. CallOK(m)
    BY <2>2, <2>4, <2>7, <2>8 DEF CallOK
  <2> QED BY <2>1, <2>9, <1>4
<1> QED BY <1>5, <1>6

\* No provider is left: without URLs that have no client, all that can be used were tried.
LEMMA NoneLeftOK ==
    ASSUME NEW c \in Calls, CallOK(calls[c]), At(c, "select"), Pool(c) = {},
           setting \in Configurations
    PROVE  CallOK([calls[c] EXCEPT !.pc = "unobtained"])
<1> DEFINE k == calls[c]
           m == [k EXCEPT !.pc = "unobtained"]
<1>1. k \in CallStates /\ k.pc = "select"
  BY DEF CallOK, At
<1>2. /\ k.tried \subseteq Usable /\ k.tried \cap Playing("healthy") = {}
  BY <1>1 DEF CallOK, Tried
<1>3. Untried(c) = {}
  BY DEF Pool
<1>4. \A p \in Providers : role[p] # "disabled" => p \in k.tried
  BY <1>3 DEF Untried
<1> HIDE DEF k
<1>5. m \in CallStates /\ m.pc = "unobtained" /\ m.tried = k.tried
  BY <1>1, PcOK DEF PCs
<1> HIDE DEF m
<1>6. Usable \subseteq k.tried
  BY <1>4 DEF Usable, Playing
<1>7. Counted(m)
  BY <1>2, <1>5, <1>6 DEF Counted
<1>8. CallOK(m)
  BY <1>5, <1>2, <1>7 DEF CallOK, InProgress, Tried
<1> QED BY <1>8 DEF m, k

\* A failed attempt of a provider that may fail.
LEMMA FailedOK ==
    ASSUME NEW c \in Calls, CallOK(calls[c]), At(c, "call"), role[calls[c].url] = "sick",
           setting \in Configurations
    PROVE  /\ CallOK([calls[c] EXCEPT !.pc = "fatal"])
           /\ MaxRetries > 1 =>
                CallOK([calls[c] EXCEPT !.attempts = @ + 1,
                          !.pc = IF calls[c].attempts + 1 >= MaxRetries THEN "failover" ELSE "call"])
<1> DEFINE k == calls[c]
<1>1. /\ k \in CallStates /\ k.tried \in SUBSET Providers /\ k.failovers \in 0 .. max_failovers
      /\ k.attempts \in 0 .. MaxRetries /\ k.pc = "call" /\ k.url \in Providers
      /\ (MaxRetries > 1 => k.attempts < MaxRetries)
  BY DEF CallOK, CallStates, At, InProgress
<1>2. k.tried \subseteq Usable /\ k.tried \cap Playing("healthy") \subseteq {k.url}
  BY <1>1 DEF CallOK, Tried
<1>3. k.tried \cap Playing("healthy") = {}
  BY <1>2 DEF Playing
<1>4. Playing("broken") = {} => k.tried = Usable \/ Cardinality(k.tried) = k.failovers + 1
  BY <1>1 DEF CallOK, Counted
<1> HIDE DEF k
<1>5. CallOK([k EXCEPT !.pc = "fatal"])
  <2> DEFINE m == [k EXCEPT !.pc = "fatal"]
  <2>1. m \in CallStates /\ m.pc = "fatal" /\ m.tried = k.tried /\ m.failovers = k.failovers
    BY <1>1, PcOK DEF PCs
  <2> HIDE DEF m
  <2>2. CallOK(m)
    BY <2>1, <1>2, <1>3, <1>4 DEF CallOK, InProgress, Tried, Counted
  <2> QED BY <2>2 DEF m
<1>6. ASSUME MaxRetries > 1, NEW x,
             x = IF k.attempts + 1 >= MaxRetries THEN "failover" ELSE "call"
      PROVE  CallOK([k EXCEPT !.attempts = @ + 1, !.pc = x])
  <2> DEFINE m == [k EXCEPT !.attempts = @ + 1, !.pc = x]
  <2>0. MaxRetries \in Nat
    BY Constants
  <2>1. k.attempts + 1 \in 0 .. MaxRetries /\ x \in {"failover", "call"}
        /\ (x = "call" => k.attempts + 1 < MaxRetries)
    BY <1>1, <1>6, <2>0
  <2>2. m \in CallStates /\ m.pc = x /\ m.tried = k.tried /\ m.failovers = k.failovers
        /\ m.url = k.url /\ m.attempts = k.attempts + 1
    BY <1>1, <2>1 DEF CallStates, PCs
  <2> HIDE DEF m
  <2>3. InProgress(m)
    BY <2>1, <2>2, <1>1 DEF InProgress
  <2>4. Tried(m)
    BY <2>2, <1>2, <1>3 DEF Tried
  <2>5. Playing("broken") = {} => Counted(m)
    BY <2>1, <2>2, <1>4 DEF Counted
  <2>6. CallOK(m)
    BY <2>2, <2>3, <2>4, <2>5 DEF CallOK
  <2> QED BY <2>6 DEF m
<1> QED BY <1>5, <1>6 DEF k

-----------------------------------------------------------------------------
(* The invariants. *)

CallInv == setting \in Configurations /\ HealthTypes /\ SelectorTypes /\ CallsOK

\* The selectors and the health store, in a step that leaves them alone.
LEMMA IdleTypes ==
    ASSUME UNCHANGED <<health, next, current>>, HealthTypes, SelectorTypes
    PROVE  HealthTypes' /\ SelectorTypes'
BY DEF health, HealthTypes, SelectorTypes

\* Initially.
LEMMA InitInv == Init => CallInv /\ BlameInv
<1> SUFFICES ASSUME Init PROVE CallInv /\ BlameInv
  OBVIOUS
<1>1. setting \in Configurations
  BY Constants DEF Init
<1>2. HealthTypes
  <2>1. \A p \in Providers : failures[p] = << >>
    BY DEF Init
  <2>2. Log(<< >>)
    BY Constants DEF Log
  <2>3. DOMAIN failures = Providers /\ failures = [p \in Providers |-> failures[p]]
    BY DEF Init
  <2>4. pause \in [Providers -> 0 .. PauseDuration]
    BY Constants DEF Init
  <2> QED BY <2>1, <2>2, <2>3, <2>4 DEF HealthTypes
<1>3. SelectorTypes
  BY DEF Init, SelectorTypes
<1>4. CallsOK
  <2>1. calls = [c \in Calls |-> Fresh]
    BY DEF Init
  <2> QED BY <2>1, FreshOK DEF CallsOK
<1>5. BlameInv
  <2>1. \A c \in Calls : current[c] = None
    BY DEF Init
  <2>2. \A p \in Providers : failures[p] = << >>
    BY DEF Init
  <2> QED BY <2>1, <2>2 DEF BlameInv, Unblamed, Playing
<1> QED BY <1>1, <1>2, <1>3, <1>4, <1>5 DEF CallInv

\* What every step of a call leaves of the call, the selector and the health store.
LEMMA CallStep ==
    ASSUME CallInv, NEW c \in Calls,
           \/ Start(c) \/ Select(c) \/ NoneLeft(c) \/ NoProvider(c) \/ Answered(c)
           \/ OperationFails(c) \/ RetriesExhausted(c) \/ NonRetriable(c)
    PROVE  CallInv'
<1>0. CallOK(calls[c]) /\ HealthTypes /\ SelectorTypes /\ setting \in Configurations /\ CallsOK
  BY DEF CallInv, CallsOK
<1>a. ASSUME NEW k, Becomes(c, k), CallOK(k), UNCHANGED setting, HealthTypes', SelectorTypes'
      PROVE  CallInv'
  <2>1. CallsOK'
    BY <1>a, <1>0, BecomesOK
  <2> QED BY <1>a, <1>0, <2>1 DEF CallInv, Configurations, Providers
<1>1. CASE Start(c)
  <2>1. Becomes(c, [Fresh EXCEPT !.pc = "select"])
        /\ UNCHANGED setting /\ UNCHANGED <<health, next, current>>
    BY <1>1 DEF Start, Becomes, health
  <2> QED BY <2>1, <1>0, <1>a, FreshOK, IdleTypes
<1>2. CASE Select(c)
  <2> DEFINE s == Selector(c)
  <2>1. PICK p \in Pool(c) :
          /\ \/ UNCHANGED next
             \/ next' = [next EXCEPT ![s] = (p + 1) % N]
          /\ current' = [current EXCEPT ![s] = p]
          /\ calls' = [calls EXCEPT ![c] = Selected(c, p)]
    BY <1>2 DEF Select
  <2>2. At(c, "select") /\ UNCHANGED setting /\ UNCHANGED <<failures, pause>>
    BY <1>2 DEF Select, health
  <2>3. p \in Untried(c)
    BY DEF Pool, Unpaused
  <2>4. CallOK(Selected(c, p)) /\ p \in Providers
    BY <2>2, <2>3, <1>0, SelectedOK
  <2>5. (p + 1) % N \in Providers /\ s \in Calls
    BY <2>4, Advance, SelectorOf
  <2> HIDE DEF s
  <2>6. SelectorTypes'
    BY <2>1, <2>4, <2>5, <1>0 DEF SelectorTypes
  <2>7. HealthTypes'
    BY <2>2, <1>0 DEF HealthTypes
  <2>8. Becomes(c, Selected(c, p))
    BY <2>1 DEF Becomes
  <2> QED BY <2>2, <2>4, <2>6, <2>7, <2>8, <1>a
<1>3. CASE NoneLeft(c)
  <2> DEFINE k == [calls[c] EXCEPT !.pc = "unobtained"]
  <2>1. Becomes(c, k) /\ At(c, "select") /\ Pool(c) = {}
        /\ UNCHANGED setting /\ UNCHANGED <<health, next, current>>
    BY <1>3 DEF NoneLeft, Becomes, health
  <2>2. CallOK(k)
    BY <2>1, <1>0, NoneLeftOK
  <2> HIDE DEF k
  <2> QED BY <2>1, <2>2, <1>0, <1>a, IdleTypes
<1>4. CASE NoProvider(c)
  <2>1. Becomes(c, Failover(c)) /\ At(c, "unobtained") /\ UNCHANGED setting
        /\ (UNCHANGED <<health, next, current>> \/ MarkCurrent(c))
    BY <1>4 DEF NoProvider, Becomes, health
  <2>2. HealthTypes' /\ SelectorTypes'
    BY <2>1, <1>0, IdleTypes, MarkTypes
  <2>3. CallOK(Failover(c))
    BY <2>1, <1>0, FailoverOK DEF At
  <2> QED BY <2>1, <2>2, <2>3, <1>a
<1>5. CASE Answered(c)
  <2>1. Becomes(c, Fresh) /\ UNCHANGED setting /\ UNCHANGED <<health, next, current>>
    BY <1>5 DEF Answered, Becomes, health
  <2> QED BY <2>1, <1>0, <1>a, FreshOK, IdleTypes
<1>6. CASE OperationFails(c)
  <2>1. At(c, "call") /\ role[calls[c].url] = "sick"
        /\ UNCHANGED setting /\ UNCHANGED <<health, next, current>>
    BY <1>6 DEF OperationFails, health
  <2> DEFINE k == [calls[c] EXCEPT !.pc = "fatal"]
             m == [calls[c] EXCEPT !.attempts = @ + 1,
                     !.pc = IF calls[c].attempts + 1 >= MaxRetries THEN "failover" ELSE "call"]
  <2>2. CallOK(k) /\ (MaxRetries > 1 => CallOK(m))
    BY <2>1, <1>0, FailedOK
  <2>3. Becomes(c, k) \/ (MaxRetries > 1 /\ Becomes(c, m))
    BY <1>6, <1>0 DEF OperationFails, Becomes, CallsOK
  <2> HIDE DEF k, m
  <2>4. HealthTypes' /\ SelectorTypes'
    BY <2>1, <1>0, IdleTypes
  <2> QED BY <2>1, <2>2, <2>3, <2>4, <1>a
<1>7. CASE RetriesExhausted(c)
  <2>1. Becomes(c, Failover(c)) /\ At(c, "failover") /\ UNCHANGED setting /\ MarkCurrent(c)
    BY <1>7 DEF RetriesExhausted, Becomes
  <2>2. HealthTypes' /\ SelectorTypes'
    BY <2>1, <1>0, MarkTypes
  <2>3. CallOK(Failover(c))
    BY <2>1, <1>0, FailoverOK DEF At
  <2> QED BY <2>1, <2>2, <2>3, <1>a
<1>8. CASE NonRetriable(c)
  <2>1. Becomes(c, Fresh) /\ UNCHANGED setting
        /\ (MarkCurrent(c) \/ UNCHANGED <<health, next, current>>)
    BY <1>8 DEF NonRetriable, Becomes, health
  <2>2. HealthTypes' /\ SelectorTypes'
    BY <2>1, <1>0, IdleTypes, MarkTypes
  <2> QED BY <2>1, <2>2, <1>a, FreshOK
<1> QED BY <1>1, <1>2, <1>3, <1>4, <1>5, <1>6, <1>7, <1>8

\* Every step keeps the types and what is known of the calls.
LEMMA StepInv == CallInv /\ [Next]_vars => CallInv'
<1> SUFFICES ASSUME CallInv, [Next]_vars PROVE CallInv'
  OBVIOUS
<1>1. CASE Tick
  <2>1. HealthTypes'
    BY <1>1, TickTypes DEF CallInv
  <2>2. UNCHANGED <<setting, next, current, calls>>
    BY <1>1 DEF Tick
  <2> QED BY <2>1, <2>2
          DEF CallInv, SelectorTypes, CallsOK, CallOK, Tried, Counted, Usable, Playing, role,
              CallStates, InProgress
<1>2. CASE UNCHANGED vars
  <2>1. UNCHANGED <<health, next, current>> /\ UNCHANGED <<setting, calls>>
    BY <1>2 DEF vars, health
  <2>2. HealthTypes' /\ SelectorTypes'
    BY <2>1, IdleTypes DEF CallInv
  <2> QED BY <2>1, <2>2
          DEF CallInv, CallsOK, CallOK, Tried, Counted, Usable, Playing, role, CallStates,
              InProgress
<1>3. CASE Next /\ ~Tick
  BY <1>3, NextCases, CallStep
<1> QED BY <1>1, <1>2, <1>3

\* The types of the model, with the bound on the failures mark_failed keeps, hold always.
THEOREM TypeCorrect == FairSpec => []TypeOK
<1>1. CallInv => TypeOK
  <2> SUFFICES ASSUME CallInv PROVE TypeOK
    OBVIOUS
  <2>1. \A p \in Providers : failures[p] \in Seq(Ages) /\ Len(failures[p]) <= 2 * Threshold
    BY DEF CallInv, HealthTypes, Log
  <2>2. \A p \in Providers : \A i \in 1 .. Len(failures[p]) : failures[p][i] \in Ages
    BY <2>1
  <2>3. \A p \in Providers : pause[p] \in 0 .. PauseDuration
    BY DEF CallInv, HealthTypes
  <2>4. \A c \in Calls : next[c] \in Providers /\ current[c] \in Providers \cup {None}
    BY DEF CallInv, SelectorTypes
  <2>5. \A c \in Calls : calls[c] \in CallStates
    BY DEF CallInv, CallsOK, CallOK
  <2>6. \A c \in Calls : /\ calls[c].pc \in PCs /\ calls[c].tried \subseteq Providers
                         /\ calls[c].failovers \in 0 .. max_failovers
                         /\ calls[c].attempts \in 0 .. MaxRetries
    BY <2>5 DEF CallStates
  <2> QED BY <2>1, <2>2, <2>3, <2>4, <2>6 DEF TypeOK, Ages, PCs
<1> QED BY <1>1, InitInv, StepInv, PTL DEF FairSpec

\* A call that gives up has tried only providers that failed, and as many as
\* max_failovers and the configuration allow: no provider is skipped because other calls
\* paused it, and none is tried twice.
THEOREM GivesUpLast == FairSpec => []FailsOver
<1>1. CallInv => FailsOver
  <2> SUFFICES ASSUME CallInv, NEW c \in Calls, At(c, "ended"), calls[c].result = "exhausted"
               PROVE  /\ calls[c].tried \cap Playing("healthy") = {}
                      /\ Playing("broken") = {} =>
                           \/ calls[c].tried = Usable
                           \/ Cardinality(calls[c].tried) = max_failovers + 1
    BY DEF FailsOver
  <2>1. CallOK(calls[c]) /\ calls[c].pc = "ended"
    BY DEF CallInv, CallsOK, At
  <2> QED BY <2>1 DEF CallOK, Tried, Counted
<1> QED BY <1>1, InitInv, StepInv, PTL DEF FairSpec

-----------------------------------------------------------------------------
(* Which provider is blamed. *)

\* Marking a selector's current provider: it is none that works, and it is forgotten.
LEMMA MarkBlames ==
    ASSUME CallInv, BlameInv, ~setting.shared, NEW c \in Calls, MarkCurrent(c),
           calls[c].pc \in {"unobtained", "failover", "fatal"}
    PROVE  /\ \A p \in Playing("healthy") : failures'[p] = << >>
           /\ current' = [current EXCEPT ![c] = None]
<1>0. Selector(c) = c
  BY SelectorOf
<1>1. \A p \in Playing("healthy") : failures[p] = << >>
  BY DEF BlameInv
<1>2. current \in [Calls -> Providers \cup {None}]
  BY DEF CallInv, SelectorTypes
<1>3. current[c] # None => role[current[c]] # "healthy" /\ current[c] \in Providers
  BY <1>2 DEF BlameInv, Unblamed
<1>4. CASE current[c] = None
  <2>1. UNCHANGED <<failures, current>>
    BY <1>4, <1>0 DEF MarkCurrent, health
  <2>2. current' = [current EXCEPT ![c] = None]
    BY <2>1, <1>2, <1>4
  <2> QED BY <1>1, <2>1, <2>2
<1>5. CASE current[c] # None
  <2>1. /\ failures' = [failures EXCEPT ![current[c]] = Recorded(current[c])]
        /\ current' = [current EXCEPT ![c] = None]
    BY <1>5, <1>0, Zenon DEF MarkCurrent
  <2>2. DOMAIN failures = Providers
    BY DEF CallInv, HealthTypes
  <2>3. current[c] \notin Playing("healthy") /\ Playing("healthy") \subseteq Providers
    BY <1>3, <1>5 DEF Playing
  <2> QED BY <2>1, <2>2, <2>3, <1>1
<1> QED BY <1>4, <1>5

\* The invariant after a step that gives call c the state k and its selector the provider p.
LEMMA BlameStep ==
    ASSUME CallInv, BlameInv, NEW c \in Calls, NEW k, NEW p, Becomes(c, k),
           UNCHANGED setting,
           ~setting.shared =>
               /\ current' = [current EXCEPT ![c] = p]
               /\ Unblamed(k, p)
               /\ \A q \in Playing("healthy") : failures'[q] = << >>
    PROVE  BlameInv'
<1> SUFFICES ASSUME ~setting.shared
             PROVE  /\ \A d \in Calls : Unblamed(calls[d], current[d])'
                    /\ \A q \in Playing("healthy") : failures'[q] = << >>
  BY DEF BlameInv, Playing, role
<1>1. \A d \in Calls : Unblamed(calls[d], current[d])
  BY DEF BlameInv
<1>2. \A d \in Calls : /\ calls'[d] = IF d = c THEN k ELSE calls[d]
                       /\ current'[d] = IF d = c THEN p ELSE current[d]
  BY DEF CallInv, CallsOK, SelectorTypes, Becomes
<1>3. \A d \in Calls : Unblamed(calls'[d], current'[d])
  BY <1>1, <1>2
<1>4. role' = role
  BY DEF role
<1> QED BY <1>3, <1>4 DEF Unblamed

\* The same when the selectors and the health store do not change.
LEMMA BlameIdle ==
    ASSUME CallInv, BlameInv, NEW c \in Calls, NEW k, Becomes(c, k),
           UNCHANGED setting, UNCHANGED <<health, next, current>>,
           ~setting.shared => Unblamed(k, current[c])
    PROVE  BlameInv'
<1>1. current' = [current EXCEPT ![c] = current[c]]
  BY DEF CallInv, SelectorTypes
<1>2. ~setting.shared => \A q \in Playing("healthy") : failures'[q] = << >>
  BY DEF BlameInv, health
<1> QED BY <1>1, <1>2, BlameStep

\* Every step keeps it.
LEMMA BlameNext == CallInv /\ BlameInv /\ [Next]_vars => BlameInv'
<1> SUFFICES ASSUME CallInv, BlameInv, [Next]_vars PROVE BlameInv'
  OBVIOUS
<1>1. CASE Tick
  <2>1. UNCHANGED <<setting, current, calls>>
    BY <1>1 DEF Tick
  <2>2. ASSUME ~setting.shared, NEW p \in Playing("healthy") PROVE failures'[p] = << >>
    <3>1. p \in Providers /\ failures[p] = << >>
      BY <2>2 DEF BlameInv, Playing
    <3>2. HealthTypes
      BY DEF CallInv
    <3>3. Expiring(p) \in 0 .. Len(failures[p])
      BY <3>1, <3>2, ExpiringFirst
    <3>4. Expiring(p) = 0 /\ Len(failures[p]) = 0
      BY <3>1, <3>3
    <3> DEFINE a == [i \in 1 .. Len(failures[p]) - Expiring(p) |->
                       failures[p][Expiring(p) + i] + 1]
    <3>5. failures'[p] = a
      BY <1>1, <3>1 DEF Tick
    <3>6. a \in Seq(Ages) /\ Len(a) = 0
      BY <3>1, <3>2, <3>4, AgedLog DEF Log
    <3> HIDE DEF a
    <3> QED BY <3>5, <3>6
  <2> QED BY <2>1, <2>2 DEF BlameInv, Unblamed, Playing, role
<1>2. CASE UNCHANGED vars
  BY <1>2 DEF vars, BlameInv, Unblamed, Playing, role
<1>3. CASE \E c \in Calls :
             \/ Start(c) \/ Select(c) \/ NoneLeft(c) \/ NoProvider(c) \/ Answered(c)
             \/ OperationFails(c) \/ RetriesExhausted(c) \/ NonRetriable(c)
  <2> PICK c \in Calls :
             \/ Start(c) \/ Select(c) \/ NoneLeft(c) \/ NoProvider(c) \/ Answered(c)
             \/ OperationFails(c) \/ RetriesExhausted(c) \/ NonRetriable(c)
    BY <1>3
  <2>0. CallOK(calls[c]) /\ calls[c] \in CallStates
    BY DEF CallInv, CallsOK, CallOK
  <2>a. ~setting.shared => Unblamed(calls[c], current[c])
    BY DEF BlameInv
  <2>b. ~setting.shared => \A q \in Playing("healthy") : failures[q] = << >>
    BY DEF BlameInv
  <2>c. \A p : Unblamed(Fresh, p) /\ Unblamed([Fresh EXCEPT !.pc = "select"], p)
    BY DEF Unblamed, Fresh
  <2>1. CASE Start(c)
    <3>1. Becomes(c, [Fresh EXCEPT !.pc = "select"])
          /\ UNCHANGED setting /\ UNCHANGED <<health, next, current>>
      BY <2>1 DEF Start, Becomes, health
    <3> QED BY <3>1, <2>c, BlameIdle
  <2>2. CASE Select(c)
    <3>1. PICK p \in Pool(c) :
            /\ current' = [current EXCEPT ![Selector(c)] = p]
            /\ calls' = [calls EXCEPT ![c] = Selected(c, p)]
      BY <2>2 DEF Select
    <3>2. Becomes(c, Selected(c, p)) /\ UNCHANGED setting /\ UNCHANGED <<failures, pause>>
      BY <2>2, <3>1 DEF Select, health, Becomes
    <3>3. Unblamed(Selected(c, p), p)
      <4>1. role[p] = "healthy" => Selected(c, p).pc = "call" /\ Selected(c, p).url = p
        BY <2>0 DEF Selected, CallStates
      <4> QED BY <4>1 DEF Unblamed
    <3>4. ~setting.shared => current' = [current EXCEPT ![c] = p]
      BY <3>1, SelectorOf
    <3> QED BY <3>2, <3>3, <3>4, <2>b, BlameStep
  <2>3. CASE NoneLeft(c)
    <3> DEFINE k == [calls[c] EXCEPT !.pc = "unobtained"]
    <3>1. Becomes(c, k) /\ At(c, "select") /\ Pool(c) = {}
          /\ UNCHANGED setting /\ UNCHANGED <<health, next, current>>
      BY <2>3 DEF NoneLeft, Becomes, health
    <3>2. ASSUME ~setting.shared PROVE Unblamed(k, current[c])
      <4> SUFFICES ASSUME current[c] # None, role[current[c]] = "healthy" PROVE FALSE
        BY DEF Unblamed
      <4>1. calls[c].tried = {} /\ current[c] \in Providers
        BY <2>a, <3>1, <3>2 DEF Unblamed, At, CallInv, SelectorTypes
      <4>2. current[c] \in Untried(c)
        BY <4>1 DEF Untried
      <4> QED BY <3>1, <4>2 DEF Pool
    <3> HIDE DEF k
    <3> QED BY <3>1, <3>2, BlameIdle
  <2>4. CASE NoProvider(c)
    <3>1. Becomes(c, Failover(c)) /\ calls[c].pc = "unobtained" /\ UNCHANGED setting
      BY <2>4 DEF NoProvider, Becomes, At
    <3>2. Failover(c).pc \in {"ended", "select"}
      BY <3>1, <2>0, FailoverOK
    <3>3. calls'[c] = Failover(c)
      BY <3>1 DEF Becomes, CallInv, CallsOK
    <3>4. CASE Failover(c).pc = "ended"
      <4>1. UNCHANGED <<health, next, current>>
        BY <2>4, <3>3, <3>4 DEF NoProvider, health
      <4>2. Unblamed(Failover(c), current[c])
        BY <3>4 DEF Unblamed
      <4> QED BY <3>1, <4>1, <4>2, BlameIdle
    <3>5. CASE Failover(c).pc # "ended"
      <4>1. MarkCurrent(c)
        BY <2>4, <3>3, <3>5 DEF NoProvider
      <4>2. Unblamed(Failover(c), None)
        BY DEF Unblamed
      <4>3. ~setting.shared => /\ \A p \in Playing("healthy") : failures'[p] = << >>
                               /\ current' = [current EXCEPT ![c] = None]
        BY <4>1, <3>1, MarkBlames
      <4> QED BY <3>1, <4>2, <4>3, BlameStep
    <3> QED BY <3>4, <3>5
  <2>5. CASE Answered(c)
    <3>1. Becomes(c, Fresh) /\ UNCHANGED setting /\ UNCHANGED <<health, next, current>>
      BY <2>5 DEF Answered, Becomes, health
    <3> QED BY <3>1, <2>c, BlameIdle
  <2>6. CASE OperationFails(c)
    <3>1. calls[c].pc = "call" /\ role[calls[c].url] = "sick"
          /\ UNCHANGED setting /\ UNCHANGED <<health, next, current>>
      BY <2>6 DEF OperationFails, health, At
    <3> DEFINE k == [calls[c] EXCEPT !.pc = "fatal"]
               m == [calls[c] EXCEPT !.attempts = @ + 1,
                       !.pc = IF calls[c].attempts + 1 >= MaxRetries THEN "failover" ELSE "call"]
    <3>2. Becomes(c, k) \/ Becomes(c, m)
      BY <2>6 DEF OperationFails, Becomes, CallInv, CallsOK
    <3>3. ~setting.shared => ~(current[c] # None /\ role[current[c]] = "healthy")
      BY <2>a, <3>1 DEF Unblamed
    <3>4. ~setting.shared => Unblamed(k, current[c]) /\ Unblamed(m, current[c])
      BY <3>3 DEF Unblamed
    <3> HIDE DEF k, m
    <3> QED BY <3>1, <3>2, <3>4, BlameIdle
  <2>7. CASE RetriesExhausted(c)
    <3>1. Becomes(c, Failover(c)) /\ calls[c].pc = "failover" /\ UNCHANGED setting
          /\ MarkCurrent(c)
      BY <2>7 DEF RetriesExhausted, Becomes, At
    <3>2. Unblamed(Failover(c), None)
      BY DEF Unblamed
    <3>3. ~setting.shared => /\ \A p \in Playing("healthy") : failures'[p] = << >>
                             /\ current' = [current EXCEPT ![c] = None]
      BY <3>1, MarkBlames
    <3> QED BY <3>1, <3>2, <3>3, BlameStep
  <2>8. CASE NonRetriable(c)
    <3>1. Becomes(c, Fresh) /\ calls[c].pc = "fatal" /\ UNCHANGED setting
          /\ (MarkCurrent(c) \/ UNCHANGED <<health, next, current>>)
      BY <2>8 DEF NonRetriable, Becomes, health, At
    <3>2. CASE MarkCurrent(c)
      <4>1. ~setting.shared => /\ \A p \in Playing("healthy") : failures'[p] = << >>
                               /\ current' = [current EXCEPT ![c] = None]
        BY <3>1, <3>2, MarkBlames
      <4> QED BY <3>1, <4>1, <2>c, BlameStep
    <3>3. CASE UNCHANGED <<health, next, current>>
      BY <3>1, <3>3, <2>c, BlameIdle
    <3> QED BY <3>1, <3>2, <3>3
  <2> QED BY <2>1, <2>2, <2>3, <2>4, <2>5, <2>6, <2>7, <2>8
<1> QED BY <1>1, <1>2, <1>3, NextCases

\* With selectors of their own, concurrent calls never record a failure of a provider that
\* works, although mark_current_as_failed takes whatever provider is current.
THEOREM WorkingNotBlamed == FairSpec => []HealthyNotBlamed
<1>1. BlameInv => HealthyNotBlamed
  BY DEF BlameInv, HealthyNotBlamed
<1> QED BY <1>1, InitInv, StepInv, BlameNext, PTL DEF FairSpec
=============================================================================
