---------------------------- MODULE JobQueueProofs ----------------------------
(***************************************************************************)
(* Proofs about JobQueue, for any number of messages, workers, retries and *)
(* faults: the job that is followed is not lost.                           *)
(***************************************************************************)
EXTENDS JobQueue, TLAPS

Attempts == 0 .. MaxRetries
Messages == [state : {"free", "ready", "hidden", "dead"}, due : BOOLEAN,
             attempt : Attempts \cup {None}, receives : 0 .. MaxRetries + 1]
RecordStatuses == {"Active", "Mined", "Noop", "Final"}
Executions == [pc : {"idle", "run", "check"}, m : Slots \cup {None}, current : BOOLEAN,
               attempt : Attempts, over : BOOLEAN, snap : RecordStatuses \cup {None},
               tripped : BOOLEAN]

\* The types of the queue and of the executions.
QueueTypes ==
    /\ job \in {"status", "bounded"} /\ network \in {"evm", "other"} /\ fifo \in BOOLEAN
    /\ rec \in [status : RecordStatuses, consecutive : 0 .. MaxTotal, total : 0 .. MaxTotal]
    /\ onchain \in {"absent", "mined", "final"}
    /\ msgs \in [Slots -> Messages]
    /\ wk \in [Workers -> Executions]
    /\ condemned \in [Slots -> {"no", "current", "stale"}]
    /\ runs \in 0 .. MaxRetries + 1 /\ done \in BOOLEAN
    /\ faults \in 0 .. MaxFaults

\* An execution has a message, and what checks a status is a status check.
Busy ==
    \A w \in Workers : /\ wk[w].pc # "idle" => wk[w].m \in Slots
                       /\ wk[w].pc = "check" => job = "status"

\* No receipt of a message that is gone waits to be deleted.
FreeNotCondemned == \A m \in Slots : msgs[m].state = "free" => condemned[m] = "no"

\* The counts that the messages of a queue carry, after n deliveries; none is put off.
Counts(queue, n) ==
    \A m \in Slots : /\ queue[m].attempt # None => queue[m].attempt <= n
                     /\ queue[m].receives <= n
                     /\ queue[m].due

\* Neither way to count the attempts of a bounded job runs ahead of its deliveries.
AttemptsCounted ==
    job = "bounded" =>
        /\ Counts(msgs, runs)
        /\ \A w \in Workers : wk[w].pc = "run" => wk[w].attempt < runs

\* The job still has to be executed.
Needed ==
    IF job = "status" THEN rec.status # "Final" ELSE ~done /\ runs <= MaxRetries

\* A message that no receipt waits to delete.
Live == \E m \in Slots : msgs[m].state # "free" /\ condemned[m] = "no"

Kept == Needed => Live

QueueInv == QueueTypes /\ Busy /\ FreeNotCondemned /\ AttemptsCounted /\ Kept
-----------------------------------------------------------------------------
\* The steps of Next, one by one.
LEMMA NextCases ==
    ASSUME Next
    PROVE  \/ \E w \in Workers :
                \/ Succeed(w) \/ Fail(w) \/ StatusRead(w) \/ StatusBreaker(w) \/ StatusOk(w)
                \/ StatusError(w) \/ Timeout(w)
                \/ \E m \in Slots : Receive(w, m) \/ Defer(w, m)
           \/ \E m \in Slots : Reappear(m) \/ Redrive(m)
           \/ Flush \/ Crash \/ BecomeDue \/ Advance
BY DEF Next, Execute

\* The ranges of the counts.
LEMMA CountFacts ==
    /\ MaxRetries \in Nat /\ MaxTotal \in Nat /\ MaxFaults \in Nat
    /\ 0 \in Attempts /\ 0 \in 0 .. MaxRetries + 1 /\ 0 \in 0 .. MaxTotal
    /\ None \notin Attempts
    /\ \A n \in 0 .. MaxRetries + 1 :
         /\ n \in Nat
         /\ Counted(n) \in 0 .. MaxRetries + 1 /\ Counted(n) - 1 \in Attempts
         /\ n <= Counted(n)
    /\ \A a \in Attempts : a \in Nat /\ a <= MaxRetries
    /\ \A a \in Attempts : a < MaxRetries => a + 1 \in Attempts
    /\ \A a, b \in 0 .. MaxRetries + 1 : a <= b => Counted(a) <= Counted(b)
    /\ \A a \in Attempts, b \in 0 .. MaxRetries + 1 : a <= b => a < Counted(b)
<1>1. MaxRetries \in Nat /\ MaxTotal \in Nat /\ MaxFaults \in Nat /\ None \notin Int
  BY JobQueueAssumption
<1> QED
  BY <1>1 DEF Attempts, Counted

\* Idle executions and empty slots have their types.
LEMMA BlankTypes ==
    Idle \in Executions /\ NoMessage \in Messages
BY CountFacts DEF Idle, NoMessage, Executions, Messages

\* A fault stays within its bound.
LEMMA FaultBound ==
    ASSUME QueueTypes, Fault
    PROVE  faults' \in 0 .. MaxFaults
BY CountFacts DEF QueueTypes, Fault

\* The end of an execution.
LEMMA IdleEffect ==
    ASSUME QueueInv, NEW w \in Workers, wk' = [wk EXCEPT ![w] = Idle]
    PROVE  /\ wk' \in [Workers -> Executions]
           /\ wk'[w].pc = "idle"
           /\ \A v \in Workers \ {w} : wk'[v] = wk[v]
<1>1. wk \in [Workers -> Executions]
  BY DEF QueueInv, QueueTypes
<1>2. Idle.pc = "idle"
  BY DEF Idle
<1> HIDE DEF Idle
<1> QED
  BY <1>1, <1>2, BlankTypes

\* A receipt that joins the pending deletes.
LEMMA DeleteEffect ==
    ASSUME QueueInv, NEW w \in Workers, NEW m \in Slots, NEW current, Delete(w, m, current)
    PROVE  /\ wk' = [wk EXCEPT ![w] = Idle]
           /\ condemned' \in [Slots -> {"no", "current", "stale"}]
           /\ \A n \in Slots \ {m} : condemned'[n] = condemned[n]
           /\ msgs[m].state = "free" => condemned'[m] = "no"
BY DEF QueueInv, QueueTypes, Delete

\* A message that is sent takes an unused slot.
LEMMA WithEffect ==
    ASSUME ~Full, NEW queue, NEW message
    PROVE  \E c \in Slots : Unused(c) /\ With(queue, message) = [queue EXCEPT ![c] = message]
<1>1. \E c \in Slots : Unused(c)
  BY DEF Full
<1> DEFINE c == CHOOSE m \in Slots : Unused(m)
<1>2. c \in Slots /\ Unused(c)
  BY <1>1
<1> QED
  BY <1>2 DEF With

\* A copy carries the next attempt.
LEMMA CopyMessage ==
    ASSUME QueueInv, NEW w \in Workers,
           job = "bounded" => wk[w].pc = "run" /\ wk[w].attempt < MaxRetries
    PROVE  /\ Copy(w) \in Messages
           /\ Copy(w).state # "free" /\ Copy(w).receives = 0 /\ Copy(w).due
           /\ job = "bounded" /\ Copy(w).attempt # None => Copy(w).attempt <= runs
<1> DEFINE a == IF job = "status" THEN None ELSE wk[w].attempt + 1
<1>1. wk[w].attempt \in Attempts /\ runs \in 0 .. MaxRetries + 1 /\ job \in {"status", "bounded"}
  BY DEF QueueInv, QueueTypes, Executions
<1>2. a \in Attempts \cup {None}
  BY <1>1, CountFacts
<1>3. job = "bounded" => a <= runs
  <2> SUFFICES ASSUME job = "bounded" PROVE a <= runs
    OBVIOUS
  <2>1. wk[w].attempt < runs
    BY DEF QueueInv, AttemptsCounted
  <2>2. a = wk[w].attempt + 1
    OBVIOUS
  <2>3. wk[w].attempt \in Nat /\ runs \in Nat
    BY <1>1, CountFacts
  <2> HIDE DEF a
  <2> QED
    BY <2>1, <2>2, <2>3
<1> HIDE DEF a
<1>4. Copy(w) = [state |-> "hidden", due |-> TRUE, attempt |-> a, receives |-> 0]
  <2>1. Copy(w) = [NoMessage EXCEPT !.state = "hidden", !.attempt = a]
    BY DEF Copy, a
  <2> QED
    BY <2>1 DEF NoMessage
<1> QED
  BY <1>2, <1>3, <1>4, CountFacts DEF Messages



\* A copy in an unused slot, whatever becomes of the other receipts, is a live message.
LEMMA SendEffect ==
    ASSUME QueueInv, NEW queue \in [Slots -> Messages],
           \A n \in Slots : queue[n].state = "free" <=> msgs[n].state = "free",
           job = "bounded" => Counts(queue, runs),
           NEW c \in Slots, Unused(c), NEW copy \in Messages, copy.state # "free",
           msgs' = [queue EXCEPT ![c] = copy],
           condemned' \in [Slots -> {"no", "current", "stale"}],
           \A n \in Slots : msgs[n].state = "free" => condemned'[n] = "no",
           copy.receives = 0,
           job = "bounded" => copy.due /\ (copy.attempt # None => copy.attempt <= runs)
    PROVE  /\ msgs' \in [Slots -> Messages]
           /\ FreeNotCondemned' /\ Live'
           /\ job = "bounded" => Counts(msgs', runs)
<1>1. /\ msgs' \in [Slots -> Messages]
      /\ msgs'[c] = copy /\ \A n \in Slots \ {c} : msgs'[n] = queue[n]
  OBVIOUS
<1>2. condemned'[c] = "no"
  BY DEF Unused
<1>3. FreeNotCondemned'
  BY <1>1 DEF FreeNotCondemned
<1>4. Live'
  BY <1>1, <1>2 DEF Live
<1>5. job = "bounded" => Counts(msgs', runs)
  <2>1. runs \in Nat
    BY CountFacts DEF QueueInv, QueueTypes
  <2> QED
    BY <1>1, <2>1 DEF Counts
<1> QED
  BY <1>1, <1>3, <1>4, <1>5

\* A retry ends the execution and leaves a live message if there was one.
LEMMA RetryEffect ==
    ASSUME QueueInv, NEW w \in Workers, wk[w].pc # "idle",
           job = "bounded" => wk[w].pc = "run" /\ wk[w].attempt < MaxRetries,
           Retry(w)
    PROVE  /\ msgs' \in [Slots -> Messages]
           /\ wk' = [wk EXCEPT ![w] = Idle]
           /\ condemned' \in [Slots -> {"no", "current", "stale"}]
           /\ faults' \in 0 .. MaxFaults
           /\ FreeNotCondemned' /\ (Live => Live')
           /\ job = "bounded" => Counts(msgs', runs)
<1>0. wk[w].m \in Slots
  BY DEF QueueInv, Busy
<1>a. SendFails => faults' \in 0 .. MaxFaults
  BY FaultBound DEF SendFails, QueueInv, QueueTypes
<1>1. CASE Retain(w) /\ UNCHANGED msgs /\ faults' \in 0 .. MaxFaults
  BY <1>1 DEF Retain, QueueInv, QueueTypes, FreeNotCondemned, Live, AttemptsCounted, Counts
<1>2. CASE /\ ~Full /\ msgs' = With(msgs, Copy(w)) /\ (Complete(w) \/ Retain(w))
           /\ faults' \in 0 .. MaxFaults
  <2>1. PICK c \in Slots : Unused(c) /\ msgs' = [msgs EXCEPT ![c] = Copy(w)]
    BY <1>2, WithEffect
  <2>2. /\ wk' = [wk EXCEPT ![w] = Idle]
        /\ condemned' \in [Slots -> {"no", "current", "stale"}]
        /\ \A n \in Slots : msgs[n].state = "free" => condemned'[n] = "no"
    <3>1. CASE Complete(w)
      BY <3>1, <1>0, DeleteEffect DEF Complete, QueueInv, FreeNotCondemned
    <3>2. CASE Retain(w)
      BY <3>2 DEF Retain, QueueInv, QueueTypes, FreeNotCondemned
    <3> QED
      BY <1>2, <3>1, <3>2
  <2>3. /\ msgs \in [Slots -> Messages]
        /\ job = "bounded" => Counts(msgs, runs)
    BY DEF QueueInv, QueueTypes, AttemptsCounted
  <2> QED
    BY <1>2, <2>1, <2>2, <2>3, CopyMessage, SendEffect
<1>3. faults \in 0 .. MaxFaults
  BY DEF QueueInv, QueueTypes
<1> QED
  BY <1>1, <1>2, <1>3, <1>a, FaultBound DEF Retry, QueueInv

\* The end of an execution that leaves what the invariant says of the queue.
LEMMA EndKeeps ==
    ASSUME QueueInv, NEW w \in Workers, UNCHANGED <<job, network, fifo, onchain, runs>>,
           rec' \in [status : RecordStatuses, consecutive : 0 .. MaxTotal, total : 0 .. MaxTotal],
           done' \in BOOLEAN, faults' \in 0 .. MaxFaults,
           msgs' \in [Slots -> Messages],
           condemned' \in [Slots -> {"no", "current", "stale"}],
           wk' = [wk EXCEPT ![w] = Idle],
           FreeNotCondemned', job = "bounded" => Counts(msgs', runs),
           Needed' => Needed /\ Live'
    PROVE  QueueInv'
<1>1. /\ wk' \in [Workers -> Executions] /\ wk'[w].pc = "idle"
      /\ \A v \in Workers \ {w} : wk'[v] = wk[v]
  BY IdleEffect
<1>2. QueueTypes'
  BY <1>1 DEF QueueInv, QueueTypes
<1>3. Busy'
  BY <1>1 DEF QueueInv, Busy
<1>4. AttemptsCounted'
  BY <1>1 DEF QueueInv, AttemptsCounted, Counts
<1>5. Kept'
  BY DEF Kept
<1> QED
  BY <1>2, <1>3, <1>4, <1>5 DEF QueueInv

\* A completed execution.
LEMMA CompleteEffect ==
    ASSUME QueueInv, NEW w \in Workers, wk[w].pc # "idle", Complete(w), UNCHANGED msgs
    PROVE  /\ msgs' \in [Slots -> Messages]
           /\ wk' = [wk EXCEPT ![w] = Idle]
           /\ condemned' \in [Slots -> {"no", "current", "stale"}]
           /\ FreeNotCondemned'
           /\ job = "bounded" => Counts(msgs', runs)
<1>0. wk[w].m \in Slots
  BY DEF QueueInv, Busy
<1>1. /\ wk' = [wk EXCEPT ![w] = Idle]
      /\ condemned' \in [Slots -> {"no", "current", "stale"}]
      /\ \A n \in Slots \ {wk[w].m} : condemned'[n] = condemned[n]
      /\ msgs[wk[w].m].state = "free" => condemned'[wk[w].m] = "no"
  BY <1>0, DeleteEffect DEF Complete
<1>2. FreeNotCondemned'
  BY <1>1 DEF QueueInv, FreeNotCondemned
<1> QED
  BY <1>1, <1>2 DEF QueueInv, QueueTypes, AttemptsCounted

\* A retained message.
LEMMA RetainEffect ==
    ASSUME QueueInv, NEW w \in Workers, Retain(w), UNCHANGED msgs
    PROVE  /\ msgs' \in [Slots -> Messages]
           /\ wk' = [wk EXCEPT ![w] = Idle]
           /\ condemned' \in [Slots -> {"no", "current", "stale"}]
           /\ FreeNotCondemned'
           /\ Live => Live'
           /\ job = "bounded" => Counts(msgs', runs)
BY DEF Retain, QueueInv, QueueTypes, FreeNotCondemned, Live, AttemptsCounted

-----------------------------------------------------------------------------
\* The invariant holds at the start.
LEMMA InvInit == Init => QueueInv
<1> SUFFICES ASSUME Init PROVE QueueInv
  OBVIOUS
<1> DEFINE first == CHOOSE m \in Slots : TRUE
           due == job # "status"
           sent == [NoMessage EXCEPT !.state = "ready", !.due = due]
<1>a. msgs = [m \in Slots |-> IF m = first THEN sent ELSE NoMessage]
  BY DEF Init
<1>b. /\ wk = [w \in Workers |-> Idle] /\ condemned = [m \in Slots |-> "no"]
      /\ onchain = "absent" /\ runs = 0 /\ done = FALSE /\ faults = 0
  BY DEF Init
<1>1. first \in Slots
  BY JobQueueAssumption
<1>2. due \in BOOLEAN /\ (job = "bounded" => due)
  OBVIOUS
<1> HIDE DEF first, due
<1>4. /\ sent \in Messages /\ sent.state = "ready" /\ sent.attempt = None /\ sent.receives = 0
      /\ sent.due = due
  <2>1. CASE due = TRUE
    <3>1. sent = [NoMessage EXCEPT !.state = "ready", !.due = TRUE]
      BY <2>1, Zenon
    <3> HIDE DEF sent
    <3>2. sent = [state |-> "ready", due |-> TRUE, attempt |-> None, receives |-> 0]
      BY <3>1 DEF NoMessage
    <3> QED
      BY <2>1, <3>2, CountFacts DEF Messages
  <2>2. CASE due = FALSE
    <3>1. sent = [NoMessage EXCEPT !.state = "ready", !.due = FALSE]
      BY <2>2, Zenon
    <3> HIDE DEF sent
    <3>2. sent = [state |-> "ready", due |-> FALSE, attempt |-> None, receives |-> 0]
      BY <3>1 DEF NoMessage
    <3> QED
      BY <2>2, <3>2, CountFacts DEF Messages
  <2> QED
    BY <1>2, <2>1, <2>2
<1> HIDE DEF sent
<1>6. QueueTypes
  <2>1. msgs \in [Slots -> Messages] /\ wk \in [Workers -> Executions]
    BY <1>4, <1>a, <1>b, BlankTypes
  <2>2. job \in {"status", "bounded"} /\ network \in {"evm", "other"} /\ fifo \in BOOLEAN
    BY JobQueueAssumption DEF Init
  <2>3. rec \in [status : RecordStatuses, consecutive : 0 .. MaxTotal, total : 0 .. MaxTotal]
    BY CountFacts DEF Init, RecordStatuses
  <2> QED
    <3>1. done \in BOOLEAN
      BY <1>b, Zenon
    <3>2. runs \in 0 .. MaxRetries + 1 /\ faults \in 0 .. MaxFaults
      BY <1>b, CountFacts
    <3>3. condemned \in [Slots -> {"no", "current", "stale"}]
      BY <1>b
    <3>4. onchain \in {"absent", "mined", "final"}
      BY <1>b
    <3> QED
      BY <2>1, <2>2, <2>3, <3>1, <3>2, <3>3, <3>4 DEF QueueTypes
<1>7. Busy /\ FreeNotCondemned
  BY <1>b DEF Busy, FreeNotCondemned, Idle
<1>8. AttemptsCounted
  <2>1. NoMessage.attempt = None /\ NoMessage.receives = 0 /\ NoMessage.due
    BY DEF NoMessage
  <2>2. \A w \in Workers : wk[w].pc = "idle"
    BY <1>b DEF Idle
  <2>3. ASSUME job = "bounded", NEW m \in Slots
        PROVE  msgs[m].attempt = None /\ msgs[m].receives = 0 /\ msgs[m].due
    <3>1. CASE m = first
      <4>1. msgs[m] = sent
        BY <1>a, <3>1
      <4>2. sent.due
        BY <1>2, <1>4, <2>3
      <4> QED
        BY <1>4, <4>1, <4>2
    <3>2. CASE m # first
      <4>1. msgs[m] = NoMessage
        BY <1>a, <3>2
      <4> QED
        BY <2>1, <4>1
    <3> QED
      BY <3>1, <3>2
  <2>4. job = "bounded" => Counts(msgs, runs)
    BY <1>b, <2>3 DEF Counts
  <2> QED
    BY <2>2, <2>4 DEF AttemptsCounted
<1>9. Kept
  BY <1>1, <1>4, <1>a, <1>b DEF Kept, Live
<1> QED
  BY <1>6, <1>7, <1>8, <1>9 DEF QueueInv

\* handle_result of a status check.
LEMMA ReturnedKeeps ==
    ASSUME QueueInv, NEW w \in Workers, wk[w].pc = "check", NEW s \in RecordStatuses,
           Returned(w, s), UNCHANGED <<job, network, fifo, onchain, runs, done>>
    PROVE  QueueInv'
<1>0. /\ rec \in [status : RecordStatuses, consecutive : 0 .. MaxTotal, total : 0 .. MaxTotal]
      /\ done \in BOOLEAN /\ faults \in 0 .. MaxFaults /\ job = "status"
  BY DEF QueueInv, QueueTypes, Busy
<1>1. CASE /\ rec' = [rec EXCEPT !.status = "Final"]
           /\ Complete(w) /\ UNCHANGED <<msgs, faults>>
  <2>1. /\ rec' \in [status : RecordStatuses, consecutive : 0 .. MaxTotal, total : 0 .. MaxTotal]
        /\ rec'.status = "Final"
    BY <1>0, <1>1 DEF RecordStatuses
  <2>2. ~Needed'
    BY <1>0, <2>1 DEF Needed
  <2> QED
    BY <1>0, <1>1, <2>1, <2>2, CompleteEffect, EndKeeps
<1>2. CASE /\ "Final" \notin {s, rec.status}
           /\ \E n \in {0, rec.consecutive} : rec' = [rec EXCEPT !.status = s, !.consecutive = n]
           /\ Retry(w)
  <2>1. rec' \in [status : RecordStatuses, consecutive : 0 .. MaxTotal, total : 0 .. MaxTotal]
    BY <1>0, <1>2, CountFacts
  <2>2. Needed
    BY <1>0, <1>2 DEF Needed
  <2> QED
    BY <1>0, <1>2, <2>1, <2>2, RetryEffect, EndKeeps DEF QueueInv, Kept
<1> QED
  BY <1>1, <1>2 DEF Returned

\* Each end of an execution keeps the invariant.
LEMMA ExecuteKeeps ==
    ASSUME QueueInv, NEW w \in Workers,
           \/ Succeed(w) \/ Fail(w) \/ StatusRead(w) \/ StatusBreaker(w) \/ StatusOk(w)
           \/ StatusError(w) \/ Timeout(w)
    PROVE  QueueInv'
<1>0. /\ rec \in [status : RecordStatuses, consecutive : 0 .. MaxTotal, total : 0 .. MaxTotal]
      /\ done \in BOOLEAN /\ faults \in 0 .. MaxFaults /\ runs \in 0 .. MaxRetries + 1
      /\ wk[w] \in Executions /\ wk[w].attempt \in Attempts
  BY DEF QueueInv, QueueTypes, Executions
<1>1. CASE Succeed(w)
  <2>1. ~Needed'
    BY <1>1 DEF Succeed, Needed, fixed
  <2> QED
    BY <1>0, <1>1, <2>1, CompleteEffect, EndKeeps DEF Succeed, At, fixed
<1>2. CASE Fail(w)
  <2>0. /\ wk[w].pc = "run" /\ job = "bounded"
        /\ UNCHANGED <<job, network, fifo, rec, onchain, runs, done>>
    BY <1>2 DEF Fail, At, fixed, outcome
  <2>1. CASE wk[w].attempt >= MaxRetries /\ Complete(w) /\ UNCHANGED <<msgs, faults>>
    <3>1. wk[w].attempt < runs
      BY <2>0 DEF QueueInv, AttemptsCounted
    <3>2. ~(runs <= MaxRetries)
      BY <1>0, <2>1, <3>1, CountFacts
    <3>3. ~Needed'
      BY <2>0, <3>2 DEF Needed
    <3> QED
      BY <1>0, <2>0, <2>1, <3>3, CompleteEffect, EndKeeps
  <2>2. CASE Retain(w) /\ UNCHANGED <<msgs, faults>>
    <3>1. Needed' => Needed
      BY <2>0 DEF Needed
    <3> QED
      BY <1>0, <2>0, <2>2, <3>1, RetainEffect, EndKeeps DEF QueueInv, Kept
  <2>3. CASE wk[w].attempt < MaxRetries /\ Retry(w)
    <3>1. Needed' => Needed
      BY <2>0 DEF Needed
    <3> QED
      BY <1>0, <2>0, <2>3, <3>1, RetryEffect, EndKeeps DEF QueueInv, Kept
  <2> QED
    BY <1>2, <2>1, <2>2, <2>3 DEF Fail
<1>3. CASE StatusRead(w)
  <2>0. /\ wk[w].pc = "run" /\ job = "status"
        /\ UNCHANGED <<job, network, fifo, rec, onchain, msgs, runs, done, faults>>
    BY <1>3 DEF StatusRead, At, fixed, outcome
  <2>1. CASE rec.status = "Final" /\ Complete(w)
    <3>1. ~Needed'
      BY <2>0, <2>1 DEF Needed
    <3> QED
      BY <1>0, <2>0, <2>1, <3>1, CompleteEffect, EndKeeps
  <2>2. CASE /\ wk' = [wk EXCEPT ![w].pc = "check", ![w].snap = rec.status,
                                 ![w].tripped = should_force_finalize]
             /\ UNCHANGED condemned
    <3>1. should_force_finalize \in BOOLEAN
      BY DEF should_force_finalize
    <3>2. /\ wk' \in [Workers -> Executions] /\ wk'[w].m = wk[w].m
          /\ \A v \in Workers \ {w} : wk'[v] = wk[v]
      <4> HIDE DEF should_force_finalize
      <4> QED
        BY <1>0, <2>2, <3>1 DEF QueueInv, QueueTypes, Executions
    <3>3. QueueTypes'
      BY <2>0, <2>2, <3>2 DEF QueueInv, QueueTypes
    <3>4. Busy'
      BY <2>0, <3>2 DEF QueueInv, Busy
    <3> QED
      BY <2>0, <2>2, <3>3, <3>4 DEF QueueInv, FreeNotCondemned, AttemptsCounted, Kept, Needed, Live
  <2> QED
    BY <1>3, <2>1, <2>2 DEF StatusRead
<1>4. CASE StatusBreaker(w) \/ StatusOk(w)
  <2>1. wk[w].pc = "check" /\ UNCHANGED <<job, network, fifo, onchain, runs, done>>
    BY <1>4 DEF StatusBreaker, StatusOk, At, fixed, outcome
  <2>2. rec.status \in RecordStatuses
    BY <1>0
  <2>3. \E s \in RecordStatuses : Returned(w, s)
    BY <1>4, <2>2 DEF StatusBreaker, StatusOk, RecordStatuses
  <2> QED
    BY <2>1, <2>3, ReturnedKeeps
<1>5. CASE StatusError(w)
  <2>0. /\ wk[w].pc = "check" /\ Retry(w) /\ UNCHANGED <<job, network, fifo, onchain, runs, done>>
    BY <1>5 DEF StatusError, At, fixed, outcome
  <2>1. job = "status"
    BY <2>0 DEF QueueInv, Busy
  <2>2. PICK n \in 1 .. 2 :
          rec' = IF rec.status = "Final" THEN rec
                 ELSE [rec EXCEPT !.consecutive = Capped(@ + n), !.total = Capped(@ + n)]
    BY <1>5 DEF StatusError
  <2>3. \A k \in 0 .. MaxTotal : Capped(k + n) \in 0 .. MaxTotal
    BY CountFacts DEF Capped
  <2>4. /\ rec' \in [status : RecordStatuses, consecutive : 0 .. MaxTotal, total : 0 .. MaxTotal]
        /\ rec'.status = rec.status
    BY <1>0, <2>2, <2>3
  <2>5. Needed' => Needed
    BY <2>0, <2>4 DEF Needed
  <2> QED
    BY <1>0, <2>0, <2>1, <2>4, <2>5, RetryEffect, EndKeeps DEF QueueInv, Kept
<1>6. CASE Timeout(w)
  <2>1. /\ Retain(w) /\ UNCHANGED <<job, network, fifo, rec, onchain, msgs, runs, done>>
        /\ faults' \in 0 .. MaxFaults
    BY <1>6, FaultBound DEF Timeout, fixed, outcome, QueueInv
  <2>2. Needed' => Needed
    BY <2>1 DEF Needed
  <2> QED
    BY <1>0, <2>1, <2>2, RetainEffect, EndKeeps DEF QueueInv, Kept
<1> QED
  BY <1>1, <1>2, <1>3, <1>4, <1>5, <1>6

\* A delivery hides the message and counts it.
LEMMA DeliveredEffect ==
    ASSUME QueueInv, NEW m \in Slots
    PROVE  /\ Delivered(m) \in [Slots -> Messages]
           /\ Delivered(m)[m].state = "hidden"
           /\ Delivered(m)[m].attempt = msgs[m].attempt /\ Delivered(m)[m].due = msgs[m].due
           /\ Delivered(m)[m].receives = IF job = "status" THEN 0 ELSE Counted(msgs[m].receives)
           /\ \A n \in Slots \ {m} : Delivered(m)[n] = msgs[n]
<1> DEFINE r == IF job = "status" THEN 0 ELSE Counted(msgs[m].receives)
<1>1. msgs \in [Slots -> Messages] /\ msgs[m] \in Messages
  BY DEF QueueInv, QueueTypes
<1>2. r \in 0 .. MaxRetries + 1
  BY <1>1, CountFacts DEF Messages
<1>3. Delivered(m) = [msgs EXCEPT ![m] = [msgs[m] EXCEPT !.state = "hidden", !.receives = r]]
  BY <1>1 DEF Delivered, Messages
<1> HIDE DEF r
<1> DEFINE e == [msgs[m] EXCEPT !.state = "hidden", !.receives = r]
<1>4. /\ e \in Messages /\ e.state = "hidden" /\ e.receives = r
      /\ e.attempt = msgs[m].attempt /\ e.due = msgs[m].due
  BY <1>1, <1>2 DEF Messages
<1>5. /\ Delivered(m) \in [Slots -> Messages] /\ Delivered(m)[m] = e
      /\ \A n \in Slots \ {m} : Delivered(m)[n] = msgs[n]
  <2> HIDE DEF e
  <2> QED
    BY <1>1, <1>3, <1>4 DEF e
<1> HIDE DEF e
<1> QED
  BY <1>4, <1>5 DEF r

\* A delivery keeps the invariant: its attempt is below the number of deliveries.
LEMMA ReceiveKeeps ==
    ASSUME QueueInv, NEW w \in Workers, NEW m \in Slots, Receive(w, m)
    PROVE  QueueInv'
<1> DEFINE a == IF job = "status" THEN 0
                ELSE effective_handler_attempt(msgs'[m].receives, msgs[m].attempt)
           o == job = "bounded" /\ msgs'[m].receives > MaxRetries
<1>0. /\ UNCHANGED <<job, network, fifo, rec, onchain, condemned, done, faults>>
      /\ msgs' = Delivered(m) /\ msgs[m].state = "ready"
      /\ runs' = IF job = "status" THEN 0 ELSE Counted(runs)
      /\ wk' = [wk EXCEPT ![w] = [Idle EXCEPT !.pc = "run", !.m = m, !.attempt = a, !.over = o]]
  BY DEF Receive, fixed
<1>1. /\ msgs[m] \in Messages /\ runs \in 0 .. MaxRetries + 1
      /\ job \in {"status", "bounded"} /\ wk \in [Workers -> Executions]
  BY DEF QueueInv, QueueTypes
<1>2. /\ msgs[m].receives \in 0 .. MaxRetries + 1
      /\ msgs[m].attempt # None => msgs[m].attempt \in Attempts
  BY <1>1 DEF Messages
<1>3. /\ msgs' \in [Slots -> Messages] /\ msgs'[m].state = "hidden"
      /\ msgs'[m].attempt = msgs[m].attempt /\ msgs'[m].due = msgs[m].due
      /\ msgs'[m].receives = IF job = "status" THEN 0 ELSE Counted(msgs[m].receives)
      /\ \A n \in Slots \ {m} : msgs'[n] = msgs[n]
  BY <1>0, DeliveredEffect
<1>4. runs' \in 0 .. MaxRetries + 1 /\ (job = "bounded" => runs <= runs')
  BY <1>0, <1>1, CountFacts
<1>5. ASSUME job = "bounded"
      PROVE  /\ Counts(msgs, runs)
             /\ msgs'[m].receives <= runs' /\ a \in Attempts /\ a < runs'
  <2>1. Counts(msgs, runs)
    BY <1>5 DEF QueueInv, AttemptsCounted
  <2>2. runs' = Counted(runs) /\ msgs'[m].receives = Counted(msgs[m].receives)
    BY <1>0, <1>3, <1>5
  <2>3. Counted(msgs[m].receives) <= Counted(runs)
    BY <1>1, <1>2, <2>1, CountFacts DEF Counts
  <2>4. CASE msgs[m].attempt # None
    <3>1. a = msgs[m].attempt
      BY <1>5, <2>4 DEF effective_handler_attempt
    <3>2. msgs[m].attempt <= runs
      BY <2>1, <2>4 DEF Counts
    <3> HIDE DEF a
    <3> QED
      BY <1>1, <1>2, <2>1, <2>2, <2>3, <2>4, <3>1, <3>2, CountFacts
  <2>5. CASE msgs[m].attempt = None
    <3>1. a = Counted(msgs[m].receives) - 1
      BY <1>5, <2>2, <2>5 DEF effective_handler_attempt
    <3>2. /\ Counted(msgs[m].receives) - 1 \in Attempts
          /\ Counted(msgs[m].receives) \in Int /\ Counted(runs) \in Int
      BY <1>1, <1>2, CountFacts
    <3> HIDE DEF a
    <3> QED
      BY <2>1, <2>2, <2>3, <3>1, <3>2
  <2> QED
    BY <2>4, <2>5
<1>6. a \in Attempts
  BY <1>1, <1>5, CountFacts
<1>7. o \in BOOLEAN
  OBVIOUS
<1> HIDE DEF a, o
<1>8. /\ wk' \in [Workers -> Executions]
      /\ wk'[w].pc = "run" /\ wk'[w].m = m /\ wk'[w].attempt = a
      /\ \A v \in Workers \ {w} : wk'[v] = wk[v]
  <2> DEFINE e == [Idle EXCEPT !.pc = "run", !.m = m, !.attempt = a, !.over = o]
  <2>1. /\ e \in Executions /\ e.pc = "run" /\ e.m = m /\ e.attempt = a
    <3>1. CASE o = TRUE
      <4>1. e = [Idle EXCEPT !.pc = "run", !.m = m, !.attempt = a, !.over = TRUE]
        BY <3>1, Zenon
      <4> HIDE DEF e
      <4> QED
        BY <4>1, <1>6 DEF Idle, Executions
    <3>2. CASE o = FALSE
      <4>1. e = [Idle EXCEPT !.pc = "run", !.m = m, !.attempt = a, !.over = FALSE]
        BY <3>2, Zenon
      <4> HIDE DEF e
      <4> QED
        BY <4>1, <1>6 DEF Idle, Executions
    <3> QED
      BY <1>7, <3>1, <3>2
  <2>2. wk' = [wk EXCEPT ![w] = e]
    BY <1>0
  <2> HIDE DEF e
  <2> QED
    BY <1>1, <2>1, <2>2
<1>9. QueueTypes'
  BY <1>0, <1>3, <1>4, <1>8 DEF QueueInv, QueueTypes
<1>10. Busy'
  BY <1>0, <1>8 DEF QueueInv, Busy
<1>11. FreeNotCondemned'
  BY <1>0, <1>3 DEF QueueInv, FreeNotCondemned
<1>12. AttemptsCounted'
  <2> SUFFICES ASSUME job = "bounded"
               PROVE  /\ Counts(msgs', runs')
                      /\ \A v \in Workers : wk'[v].pc = "run" => wk'[v].attempt < runs'
    BY <1>0 DEF AttemptsCounted, Counts
  <2>1. ASSUME NEW n \in Slots
        PROVE  /\ msgs'[n].attempt # None => msgs'[n].attempt <= runs'
               /\ msgs'[n].receives <= runs' /\ msgs'[n].due
    <3>1. /\ msgs[n].attempt # None => msgs[n].attempt <= runs /\ msgs[n].attempt \in Int
          /\ msgs[n].receives <= runs /\ msgs[n].receives \in Int /\ msgs[n].due
      <4>1. msgs[n] \in Messages
        BY DEF QueueInv, QueueTypes
      <4>2. /\ msgs[n].attempt # None => msgs[n].attempt \in Attempts
            /\ msgs[n].receives \in 0 .. MaxRetries + 1
        BY <4>1 DEF Messages
      <4> QED
        BY <1>5, <4>2, CountFacts DEF Counts
    <3>2. runs \in Int /\ runs' \in Int /\ runs <= runs'
      BY <1>1, <1>4, CountFacts
    <3>3. CASE n # m
      BY <1>3, <3>1, <3>2, <3>3
    <3>4. CASE n = m
      BY <1>3, <1>5, <3>1, <3>2, <3>4
    <3> QED
      BY <3>3, <3>4
  <2>2. ASSUME NEW v \in Workers, wk'[v].pc = "run"
        PROVE  wk'[v].attempt < runs'
    <3>1. CASE v = w
      BY <1>5, <1>8, <3>1
    <3>2. CASE v # w
      <4>1. wk[v].attempt \in Attempts /\ wk'[v] = wk[v]
        BY <1>1, <1>8, <3>2 DEF Executions
      <4>2. wk[v].attempt < runs
        BY <2>2, <4>1 DEF QueueInv, AttemptsCounted
      <4> QED
        BY <1>1, <1>4, <4>1, <4>2, CountFacts
    <3> QED
      BY <3>1, <3>2
  <2> QED
    BY <2>1, <2>2 DEF Counts
<1>13. Kept'
  <2>1. Live => Live'
    BY <1>0, <1>3 DEF Live
  <2>2. Needed' => Needed
    <3>1. job = "bounded" => (runs' <= MaxRetries => runs <= MaxRetries)
      BY <1>1, <1>4, CountFacts
    <3> QED
      BY <1>0, <1>1, <3>1 DEF Needed
  <2> QED
    BY <2>1, <2>2 DEF QueueInv, Kept
<1> QED
  BY <1>9, <1>10, <1>11, <1>12, <1>13 DEF QueueInv

\* A job that is not due is a status check; putting it off leaves it, or a copy, in the queue.
LEMMA DeferKeeps ==
    ASSUME QueueInv, NEW w \in Workers, NEW m \in Slots, Defer(w, m)
    PROVE  QueueInv'
<1>0. /\ UNCHANGED <<job, network, fifo, rec, onchain, runs, done>>
      /\ msgs[m].state = "ready" /\ ~msgs[m].due
  BY DEF Defer, fixed, outcome
<1>1. job # "bounded"
  BY <1>0 DEF QueueInv, AttemptsCounted, Counts
<1>2. /\ rec \in [status : RecordStatuses, consecutive : 0 .. MaxTotal, total : 0 .. MaxTotal]
      /\ done \in BOOLEAN /\ faults \in 0 .. MaxFaults
  BY DEF QueueInv, QueueTypes
<1>3. Needed' => Needed
  BY <1>0 DEF Needed
<1>4. /\ Delivered(m) \in [Slots -> Messages]
      /\ \A n \in Slots : Delivered(m)[n].state = "free" <=> msgs[n].state = "free"
  BY <1>0, DeliveredEffect
<1>5. CASE msgs' = Delivered(m) /\ Retain(w) /\ faults' \in 0 .. MaxFaults
  <2>1. /\ wk' = [wk EXCEPT ![w] = Idle] /\ UNCHANGED condemned
    BY <1>5 DEF Retain
  <2>2. FreeNotCondemned' /\ (Live => Live')
    BY <1>4, <1>5, <2>1 DEF QueueInv, FreeNotCondemned, Live
  <2>3. condemned' \in [Slots -> {"no", "current", "stale"}]
    BY <2>1 DEF QueueInv, QueueTypes
  <2> QED
    BY <1>0, <1>1, <1>2, <1>3, <1>4, <1>5, <2>1, <2>2, <2>3, EndKeeps DEF QueueInv, Kept
<1>6. CASE /\ ~Full
           /\ msgs' = With(Delivered(m), [NoMessage EXCEPT !.state = "hidden", !.due = FALSE])
           /\ Delete(w, m, TRUE) /\ UNCHANGED faults
  <2> DEFINE copy == [NoMessage EXCEPT !.state = "hidden", !.due = FALSE]
  <2>1. copy \in Messages /\ copy.state # "free" /\ copy.receives = 0
    BY CountFacts DEF NoMessage, Messages
  <2> HIDE DEF copy
  <2>2. PICK c \in Slots : Unused(c) /\ msgs' = [Delivered(m) EXCEPT ![c] = copy]
    BY <1>6, WithEffect DEF copy
  <2>3. /\ wk' = [wk EXCEPT ![w] = Idle]
        /\ condemned' \in [Slots -> {"no", "current", "stale"}]
        /\ \A n \in Slots : msgs[n].state = "free" => condemned'[n] = "no"
    BY <1>6, DeleteEffect DEF QueueInv, FreeNotCondemned
  <2>4. msgs' \in [Slots -> Messages] /\ FreeNotCondemned' /\ Live'
    BY <1>1, <1>4, <2>1, <2>2, <2>3, SendEffect
  <2> QED
    BY <1>0, <1>1, <1>2, <1>3, <1>6, <2>3, <2>4, EndKeeps
<1>7. SendFails => faults' \in 0 .. MaxFaults
  BY <1>2, FaultBound DEF SendFails, QueueInv
<1> QED
  BY <1>2, <1>5, <1>6, <1>7 DEF Defer

\* The queue, the clock, the chain and the death of the process.
LEMMA QueueKeeps ==
    ASSUME QueueInv,
           \/ \E m \in Slots : Reappear(m) \/ Redrive(m)
           \/ Flush \/ Crash \/ BecomeDue \/ Advance
    PROVE  QueueInv'
<1>0. /\ msgs \in [Slots -> Messages] /\ wk \in [Workers -> Executions]
      /\ condemned \in [Slots -> {"no", "current", "stale"}] /\ faults \in 0 .. MaxFaults
  BY DEF QueueInv, QueueTypes
<1>1. ASSUME NEW m \in Slots, Reappear(m)
      PROVE  QueueInv'
  <2>1. /\ UNCHANGED <<job, network, fifo, rec, onchain, runs, done, faults>>
        /\ msgs[m].state = "hidden" /\ msgs' = [msgs EXCEPT ![m].state = "ready"]
        /\ condemned' = [condemned EXCEPT ![m] = IF @ = "current" THEN "stale" ELSE @]
        /\ wk' = [w \in Workers |-> IF wk[w].m = m THEN [wk[w] EXCEPT !.current = FALSE] ELSE wk[w]]
    BY <1>1 DEF Reappear, fixed, outcome
  <2>2. /\ msgs' \in [Slots -> Messages] /\ msgs'[m].state = "ready"
        /\ \A n \in Slots \ {m} : msgs'[n] = msgs[n]
        /\ msgs'[m].due = msgs[m].due /\ msgs'[m].attempt = msgs[m].attempt
        /\ msgs'[m].receives = msgs[m].receives
    BY <1>0, <2>1 DEF Messages
  <2>3. /\ condemned' \in [Slots -> {"no", "current", "stale"}]
        /\ \A n \in Slots : condemned'[n] = "no" <=> condemned[n] = "no"
    BY <1>0, <2>1
  <2>4. \A w \in Workers : /\ wk'[w] \in Executions
                           /\ wk'[w].pc = wk[w].pc /\ wk'[w].m = wk[w].m
                           /\ wk'[w].attempt = wk[w].attempt
    BY <1>0, <2>1 DEF Executions
  <2>5. wk' \in [Workers -> Executions]
    BY <2>1, <2>4
  <2>6. QueueTypes'
    BY <2>1, <2>2, <2>3, <2>5 DEF QueueInv, QueueTypes
  <2>7. Busy'
    BY <2>1, <2>4 DEF QueueInv, Busy
  <2>8. FreeNotCondemned'
    BY <2>2, <2>3 DEF QueueInv, FreeNotCondemned
  <2>9. AttemptsCounted'
    BY <2>1, <2>2, <2>4 DEF QueueInv, AttemptsCounted, Counts
  <2>10. Kept'
    BY <2>1, <2>2, <2>3 DEF QueueInv, Kept, Needed, Live
  <2> QED
    BY <2>6, <2>7, <2>8, <2>9, <2>10 DEF QueueInv
<1>2. ASSUME NEW m \in Slots, Redrive(m)
      PROVE  QueueInv'
  <2>1. /\ UNCHANGED <<job, network, fifo, rec, onchain, wk, condemned, runs, done, faults>>
        /\ msgs[m].state = "ready" /\ msgs' = [msgs EXCEPT ![m].state = "dead"]
    BY <1>2 DEF Redrive, fixed, outcome
  <2>2. /\ msgs' \in [Slots -> Messages] /\ msgs'[m].state = "dead"
        /\ \A n \in Slots \ {m} : msgs'[n] = msgs[n]
        /\ msgs'[m].due = msgs[m].due /\ msgs'[m].attempt = msgs[m].attempt
        /\ msgs'[m].receives = msgs[m].receives
    BY <1>0, <2>1 DEF Messages
  <2>3. QueueTypes' /\ Busy'
    BY <2>1, <2>2 DEF QueueInv, QueueTypes, Busy
  <2>4. FreeNotCondemned'
    BY <2>1, <2>2 DEF QueueInv, FreeNotCondemned
  <2>5. AttemptsCounted'
    BY <2>1, <2>2 DEF QueueInv, AttemptsCounted, Counts
  <2>6. Kept'
    BY <2>1, <2>2 DEF QueueInv, Kept, Needed, Live
  <2> QED
    BY <2>3, <2>4, <2>5, <2>6 DEF QueueInv
<1>3. CASE Flush
  <2>1. /\ UNCHANGED <<job, network, fifo, rec, onchain, wk, runs, done>>
        /\ condemned' = [m \in Slots |-> "no"]
    BY <1>3 DEF Flush, fixed, outcome
  <2>2. faults' \in 0 .. MaxFaults
    BY <1>0, <1>3, FaultBound DEF Flush, QueueInv
  <2>3. /\ msgs' \in [Slots -> Messages]
        /\ \A m \in Slots : msgs'[m] = msgs[m] \/ (msgs'[m] = NoMessage /\ condemned[m] # "no")
    <3>1. CASE UNCHANGED msgs
      BY <1>0, <3>1
    <3>2. ASSUME NEW D \in SUBSET {m \in Slots : condemned[m] = "current"
                                          \/ (~fifo /\ condemned[m] = "stale")},
                 msgs' = [m \in Slots |-> IF m \in D THEN NoMessage ELSE msgs[m]]
          PROVE  /\ msgs' \in [Slots -> Messages]
                 /\ \A m \in Slots :
                      msgs'[m] = msgs[m] \/ (msgs'[m] = NoMessage /\ condemned[m] # "no")
      <4>1. \A m \in D : condemned[m] # "no"
        OBVIOUS
      <4> HIDE DEF NoMessage
      <4> QED
        BY <1>0, <3>2, <4>1, BlankTypes
    <3> QED
      BY <1>3, <3>1, <3>2 DEF Flush
  <2>4. QueueTypes'
    BY <2>1, <2>2, <2>3 DEF QueueInv, QueueTypes
  <2>5. Busy' /\ FreeNotCondemned'
    BY <2>1 DEF QueueInv, Busy, FreeNotCondemned
  <2>6. AttemptsCounted'
    <3>1. NoMessage.attempt = None /\ NoMessage.receives = 0 /\ NoMessage.due
      BY DEF NoMessage
    <3>2. runs \in Nat
      BY CountFacts DEF QueueInv, QueueTypes
    <3>3. job = "bounded" => Counts(msgs', runs)
      <4> HIDE DEF NoMessage
      <4> QED
        BY <2>3, <3>1, <3>2 DEF QueueInv, AttemptsCounted, Counts
    <3> QED
      BY <2>1, <3>3 DEF QueueInv, AttemptsCounted, Counts
  <2>7. Kept'
    <3>1. Live => Live'
      BY <2>1, <2>3 DEF Live
    <3> QED
      BY <2>1, <3>1 DEF QueueInv, Kept, Needed
  <2> QED
    BY <2>4, <2>5, <2>6, <2>7 DEF QueueInv
<1>4. CASE Crash
  <2>1. /\ UNCHANGED <<job, network, fifo, rec, onchain, msgs, runs, done>>
        /\ wk' = [w \in Workers |-> Idle] /\ condemned' = [m \in Slots |-> "no"]
        /\ faults' \in 0 .. MaxFaults
    BY <1>4, FaultBound DEF Crash, fixed, outcome, QueueInv
  <2>2. wk' \in [Workers -> Executions] /\ \A w \in Workers : wk'[w].pc = "idle"
    <3>1. Idle.pc = "idle"
      BY DEF Idle
    <3> HIDE DEF Idle
    <3> QED
      BY <2>1, <3>1, BlankTypes
  <2>3. QueueTypes'
    BY <2>1, <2>2 DEF QueueInv, QueueTypes
  <2>4. Busy' /\ FreeNotCondemned' /\ AttemptsCounted'
    BY <2>1, <2>2 DEF QueueInv, Busy, FreeNotCondemned, AttemptsCounted, Counts
  <2>5. Kept'
    BY <2>1 DEF QueueInv, Kept, Needed, Live
  <2> QED
    BY <2>3, <2>4, <2>5 DEF QueueInv
<1>5. CASE BecomeDue
  <2>1. /\ UNCHANGED <<job, network, fifo, rec, onchain, wk, condemned, runs, done, faults>>
        /\ msgs' = [m \in Slots |-> [msgs[m] EXCEPT !.due = TRUE]]
    BY <1>5 DEF BecomeDue, fixed, outcome
  <2>2. \A m \in Slots : /\ msgs'[m] \in Messages
                         /\ msgs'[m].state = msgs[m].state /\ msgs'[m].attempt = msgs[m].attempt
                         /\ msgs'[m].receives = msgs[m].receives /\ msgs'[m].due
    BY <1>0, <2>1 DEF Messages
  <2>3. msgs' \in [Slots -> Messages]
    BY <2>1, <2>2
  <2>4. QueueTypes' /\ Busy'
    BY <2>1, <2>3 DEF QueueInv, QueueTypes, Busy
  <2>5. FreeNotCondemned'
    BY <2>1, <2>2 DEF QueueInv, FreeNotCondemned
  <2>6. AttemptsCounted'
    BY <2>1, <2>2 DEF QueueInv, AttemptsCounted, Counts
  <2>7. Kept'
    BY <2>1, <2>2 DEF QueueInv, Kept, Needed, Live
  <2> QED
    BY <2>4, <2>5, <2>6, <2>7 DEF QueueInv
<1>6. CASE Advance
  <2>1. /\ UNCHANGED <<job, network, fifo, rec, msgs, wk, condemned, runs, done, faults>>
        /\ onchain' \in {"absent", "mined", "final"}
    BY <1>6 DEF Advance, fixed, outcome
  <2>2. QueueTypes'
    BY <2>1 DEF QueueInv, QueueTypes
  <2> QED
    BY <2>1, <2>2 DEF QueueInv, Busy, FreeNotCondemned, AttemptsCounted, Counts, Kept, Needed, Live
<1> QED
  BY <1>1, <1>2, <1>3, <1>4, <1>5, <1>6

\* Every step keeps the invariant.
LEMMA InvStep == QueueInv /\ [Next]_vars => QueueInv'
<1> SUFFICES ASSUME QueueInv, [Next]_vars
             PROVE  QueueInv'
  OBVIOUS
<1>1. CASE Next
  BY <1>1, NextCases, ExecuteKeeps, ReceiveKeeps, DeferKeeps, QueueKeeps
<1>2. CASE UNCHANGED vars
  <2>1. QueueTypes'
    BY <1>2 DEF vars, QueueInv, QueueTypes
  <2> QED
    BY <1>2, <2>1 DEF vars, QueueInv, Busy, FreeNotCondemned, AttemptsCounted, Counts, Kept, Needed,
                      Live
<1> QED
  BY <1>1, <1>2

\* So it always holds.
LEMMA InvAlways == Spec => []QueueInv
BY InvInit, InvStep, PTL DEF Spec

\* The queue keeps its types; in particular no copy of a bounded job carries an attempt past
\* max_retries, and no counter of the breaker passes its limit (queues/sqs/worker.rs).
THEOREM TypeCorrect == Spec => []TypeOK
<1>1. QueueInv => TypeOK
  BY DEF QueueInv, QueueTypes, TypeOK, Messages, Executions, RecordStatuses, Attempts
<1> QED
  BY <1>1, InvAlways, PTL

\* However copies, deletes in batches, visibility timeouts, crashes and overlapping deliveries
\* interleave, the status check of a transaction that is not final stays in the queue.
THEOREM StatusCheckKept == Spec => []Monitored
<1>1. QueueInv => Monitored
  BY DEF QueueInv, Kept, Needed, Live, Monitored
<1> QED
  BY <1>1, InvAlways, PTL

\* A bounded job is not given up before its attempts are used up, although its attempts are
\* counted by deliveries of one message, by an attribute of copies and by the redrive policy.
THEOREM BoundedJobKept == Spec => []NotDropped
<1>1. QueueInv => NotDropped
  <2> SUFFICES ASSUME QueueInv, job = "bounded", \A m \in Slots : msgs[m].state = "free"
               PROVE  done \/ runs > MaxRetries
    BY DEF NotDropped
  <2>1. ~Live
    BY DEF Live
  <2>2. done \/ ~(runs <= MaxRetries)
    BY <2>1 DEF QueueInv, Kept, Needed
  <2>3. runs \in Nat
    BY CountFacts DEF QueueInv, QueueTypes
  <2> QED
    BY <2>2, <2>3, CountFacts
<1> QED
  BY <1>1, InvAlways, PTL
=============================================================================
