------------------------------ MODULE JobQueue ------------------------------
(***************************************************************************)
(* The SQS worker and what decides how long a job stays in its queue.  One *)
(* job is followed: the status check of a transaction, which is retried    *)
(* until the transaction is final and counts its failures in the record    *)
(* for the circuit breaker, or a job of bounded retries.                   *)
(*                                                                         *)
(* The queue is external: a message that is received is hidden for the     *)
(* visibility timeout, then comes back unless it was deleted.  An          *)
(* execution may outlast that time, since it starts to count when the      *)
(* batch is received and the handler's own timeout when it gets a permit.  *)
(***************************************************************************)
EXTENDS Integers, FiniteSets

CONSTANTS
    Slots,            \* bound: messages in the queue at a time
    Workers,          \* permits of the semaphore
    None,
    JobTypes,         \* subset of {"status", "bounded"}
    Networks,         \* subset of {"evm", "other"}
    FifoModes,        \* whether the queue may be, or must not be, a FIFO queue
    MaxRetries,       \* QueueType::max_retries of the bounded job
    MaxConsecutive,   \* failures in a row that trip the breaker
    MaxTotal,         \* failures in all that do
    MaxFaults         \* bound: lost calls, timeouts and crashes

ASSUME JobQueueAssumption ==
    /\ JobTypes \subseteq {"status", "bounded"}
    /\ Networks \subseteq {"evm", "other"}
    /\ FifoModes \subseteq BOOLEAN
    /\ {MaxRetries, MaxConsecutive, MaxTotal, MaxFaults} \subseteq Nat
    /\ 0 < MaxConsecutive /\ MaxConsecutive <= MaxTotal
    /\ None \notin Int \cup Slots
    /\ Slots # {}

VARIABLES
    job, network, fifo,  \* what is followed
    rec,        \* the transaction: status and failure counters
    onchain,    \* what the chain knows of it
    msgs,       \* the queue
    wk,         \* the executions
    condemned,  \* per message: the receipt waiting for flush_delete_batch
    runs, done, \* of the bounded job: deliveries, and whether one succeeded
    faults

vars == <<job, network, fifo, rec, onchain, msgs, wk, condemned, runs, done, faults>>
fixed == <<job, network, fifo>>
outcome == <<runs, done>>

\* attempt: the retry_attempt attribute; receives: ApproximateReceiveCount;
\* due: target_scheduled_on has passed.
NoMessage == [state |-> "free", due |-> TRUE, attempt |-> None, receives |-> 0]

\* m, current: the message, and whether the receipt handle is the one of its latest delivery;
\* attempt, over: logical_retry_attempt, and whether receive_count exceeds max_retries;
\* snap, tripped: the record that was read, and whether its counters trip the breaker.
Idle == [pc |-> "idle", m |-> None, current |-> TRUE, attempt |-> 0, over |-> FALSE,
         snap |-> None, tripped |-> FALSE]

Init ==
    /\ job \in JobTypes /\ network \in Networks /\ fifo \in FifoModes
    /\ job = "bounded" => network = "other"
    /\ rec = [status |-> "Active", consecutive |-> 0, total |-> 0]
    /\ onchain = "absent"
    /\ LET first == CHOOSE m \in Slots : TRUE
       IN msgs = [m \in Slots |->
            IF m = first THEN [NoMessage EXCEPT !.state = "ready", !.due = (job # "status")]
            ELSE NoMessage]
    /\ wk = [w \in Workers |-> Idle]
    /\ condemned = [m \in Slots |-> "no"]
    /\ runs = 0 /\ done = FALSE
    /\ faults = 0

-----------------------------------------------------------------------------
Fault == faults < MaxFaults /\ faults' = faults + 1

At(w, pc) == wk[w].pc = pc

\* MessageOutcome::Retain
Retain(w) == wk' = [wk EXCEPT ![w] = Idle] /\ UNCHANGED condemned

\* MessageOutcome::Delete: the receipt of message m joins pending_deletes.
Delete(w, m, current) ==
    /\ wk' = [wk EXCEPT ![w] = Idle]
    /\ condemned' = [condemned EXCEPT ![m] =
         IF msgs[m].state = "free" THEN "no"
         ELSE IF @ = "current" \/ current THEN "current" ELSE "stale"]

Complete(w) == Delete(w, wk[w].m, wk[w].current)

\* send_message; slots are interchangeable, and a full queue (the bound) refuses.
Unused(m) == msgs[m].state = "free" /\ \A w \in Workers : wk[w].m # m
Full == \A m \in Slots : ~Unused(m)
SendFails == IF Full THEN UNCHANGED faults ELSE Fault
With(queue, message) == [queue EXCEPT ![CHOOSE m \in Slots : Unused(m)] = message]

\* One more, as far as the limit is concerned.
Counted(n) == IF n > MaxRetries THEN n ELSE n + 1

\* The redrive policy: with the recommended maxReceiveCount, max_retries + 1, a message that
\* was received that often is not delivered again.
Exhausted(m) == job = "bounded" /\ msgs[m].receives > MaxRetries

\* SQS hides the message it delivers and counts the delivery; status checks have no limit, so
\* neither their count nor their attempt is kept.
Delivered(m) == [msgs EXCEPT ![m].state = "hidden",
                             ![m].receives = IF job = "status" THEN 0 ELSE Counted(@)]

Mut_effective_handler_attempt(receives, attempt) == receives - 1

\* The attempt of the handler: the attribute of a copy counts, not its receive count.
effective_handler_attempt(receives, attempt) == IF attempt # None THEN attempt ELSE receives - 1

-----------------------------------------------------------------------------
(* run_poll_loop: a message is received and process_message started.       *)

Receive(w, m) ==
    /\ At(w, "idle") /\ msgs[m].state = "ready" /\ msgs[m].due /\ ~Exhausted(m)
    /\ msgs' = Delivered(m)
    /\ wk' = [wk EXCEPT ![w] =
         [Idle EXCEPT !.pc = "run", !.m = m,
            !.attempt = IF job = "status" THEN 0
                        ELSE effective_handler_attempt(msgs'[m].receives, msgs[m].attempt),
            !.over = (job = "bounded" /\ msgs'[m].receives > MaxRetries)]]
    /\ runs' = IF job = "status" THEN 0 ELSE Counted(runs)
    /\ UNCHANGED <<fixed, rec, onchain, condemned, done, faults>>

\* defer_message: a job that is not due is put off by a copy (standard queue) or by its
\* visibility (FIFO); if the call fails it waits for the visibility timeout.
Defer(w, m) ==
    /\ At(w, "idle") /\ msgs[m].state = "ready" /\ ~msgs[m].due
    /\ \/ fifo /\ msgs' = Delivered(m) /\ Retain(w) /\ UNCHANGED faults
       \/ /\ ~fifo /\ ~Full
          /\ msgs' = With(Delivered(m), [NoMessage EXCEPT !.state = "hidden", !.due = FALSE])
          /\ Delete(w, m, TRUE)
          /\ UNCHANGED faults
       \/ ~fifo /\ SendFails /\ msgs' = Delivered(m) /\ Retain(w)
    /\ UNCHANGED <<fixed, rec, onchain, outcome>>

-----------------------------------------------------------------------------
(* ProcessingError::Retryable.                                             *)

Copy(w) == [NoMessage EXCEPT !.state = "hidden",
                             !.attempt = IF job = "status" THEN None ELSE wk[w].attempt + 1]

Mut_Retry(w) ==
    \/ fifo /\ Retain(w) /\ UNCHANGED <<msgs, faults>>
    \/ ~fifo /\ ~Full /\ msgs' = With(msgs, Copy(w)) /\ Complete(w) /\ UNCHANGED faults
    \/ ~fifo /\ SendFails /\ Complete(w) /\ UNCHANGED msgs

\* FIFO: change_message_visibility of the message, which is retained.  Standard: a copy with
\* the next attempt is sent and the original deleted; if sending fails, or the execution ends
\* before it reports, the original is retained.
Retry(w) ==
    \/ fifo /\ Retain(w) /\ UNCHANGED <<msgs, faults>>
    \/ ~fifo /\ ~Full /\ msgs' = With(msgs, Copy(w)) /\ Complete(w) /\ UNCHANGED faults
    \/ ~fifo /\ ~Full /\ msgs' = With(msgs, Copy(w)) /\ Retain(w) /\ Fault
    \/ ~fifo /\ SendFails /\ Retain(w) /\ UNCHANGED msgs

-----------------------------------------------------------------------------
(* A bounded job: the handler's result through handle_result.              *)

\* A success, or an error that no retry can change (is_terminal_error).
Succeed(w) ==
    /\ At(w, "run") /\ job = "bounded"
    /\ done' = TRUE
    /\ Complete(w)
    /\ UNCHANGED <<fixed, rec, onchain, msgs, runs, faults>>

Mut_Fail(w) ==
    /\ At(w, "run") /\ job = "bounded"
    /\ \/ wk[w].attempt + 1 >= MaxRetries /\ Complete(w) /\ UNCHANGED <<msgs, faults>>
       \/ wk[w].attempt + 1 < MaxRetries /\ Retry(w)
    /\ UNCHANGED <<fixed, rec, onchain, outcome>>

Mut_FailAlways(w) ==
    /\ At(w, "run") /\ job = "bounded"
    /\ \/ wk[w].over /\ Retain(w) /\ UNCHANGED <<msgs, faults>>
       \/ ~wk[w].over /\ Retry(w)
    /\ UNCHANGED <<fixed, rec, onchain, outcome>>

\* Aborted once the attempts are used up; past max_retries deliveries of one message it is
\* left to the redrive policy.
Fail(w) ==
    /\ At(w, "run") /\ job = "bounded"
    /\ \/ wk[w].attempt >= MaxRetries /\ Complete(w) /\ UNCHANGED <<msgs, faults>>
       \/ wk[w].attempt < MaxRetries /\ wk[w].over /\ Retain(w) /\ UNCHANGED <<msgs, faults>>
       \/ wk[w].attempt < MaxRetries /\ ~wk[w].over /\ Retry(w)
    /\ UNCHANGED <<fixed, rec, onchain, outcome>>

-----------------------------------------------------------------------------
(* transaction_status_handler.                                             *)

should_force_finalize == rec.consecutive >= MaxConsecutive \/ rec.total >= MaxTotal

\* The record and its counters are read.  One that is final, or deleted since, completes the
\* job.
StatusRead(w) ==
    /\ At(w, "run") /\ job = "status"
    /\ \/ rec.status = "Final" /\ Complete(w)
       \/ /\ rec.status # "Final"
          /\ wk' = [wk EXCEPT ![w].pc = "check", ![w].snap = rec.status,
                              ![w].tripped = should_force_finalize]
          /\ UNCHANGED condemned
    /\ UNCHANGED <<fixed, rec, onchain, msgs, outcome, faults>>

\* handle_result of the transaction the check returns, with status s unless the record was
\* final already.  The failures in a row are reset, total stays; the reset is skipped if the
\* copy at hand shows no failure, and its own failure is ignored.
Returned(w, s) ==
    \/ /\ "Final" \in {s, rec.status}
       /\ rec' = [rec EXCEPT !.status = "Final"]
       /\ Complete(w) /\ UNCHANGED <<msgs, faults>>
    \/ /\ "Final" \notin {s, rec.status}
       /\ \E n \in {0, rec.consecutive} : rec' = [rec EXCEPT !.status = s, !.consecutive = n]
       /\ Retry(w)

\* handle_status_impl of an EVM NOOP does not look at the breaker.
Tripped(w) == wk[w].tripped /\ ~(network = "evm" /\ wk[w].snap = "Noop")

\* The breaker: Solana and Stellar transactions become Failed.  Of EVM ones those without a
\* nonce do, those with one are turned into a NOOP, and Mined ones are returned as they are.
StatusBreaker(w) ==
    /\ At(w, "check") /\ Tripped(w)
    /\ \/ network = "other" /\ Returned(w, "Final")
       \/ network = "evm" /\ wk[w].snap = "Active" /\ \E s \in {"Final", "Noop"} : Returned(w, s)
       \/ network = "evm" /\ wk[w].snap = "Mined" /\ Returned(w, rec.status)
    /\ UNCHANGED <<fixed, onchain, outcome>>

\* A check that works writes what the chain says.
StatusOk(w) ==
    /\ At(w, "check") /\ ~Tripped(w)
    /\ Returned(w, IF onchain = "final" THEN "Final"
                   ELSE IF onchain = "mined" /\ rec.status = "Active" THEN "Mined"
                   ELSE rec.status)
    /\ UNCHANGED <<fixed, onchain, outcome>>

Capped(n) == IF n > MaxTotal THEN MaxTotal ELSE n

Mut_StatusError(w) ==
    /\ At(w, "check") /\ ~Tripped(w)
    /\ rec' = IF rec.status # "Active" THEN rec
              ELSE [rec EXCEPT !.consecutive = Capped(@ + 1), !.total = Capped(@ + 1)]
    /\ Retry(w)
    /\ UNCHANGED <<fixed, onchain, outcome>>

\* One that fails increments the counters, with a script that leaves final records alone and
\* that run_atomic_script repeats when its reply is lost.
StatusError(w) ==
    /\ At(w, "check") /\ ~Tripped(w)
    /\ \E n \in 1 .. 2 :
         rec' = IF rec.status = "Final" THEN rec
                ELSE [rec EXCEPT !.consecutive = Capped(@ + n), !.total = Capped(@ + n)]
    /\ Retry(w)
    /\ UNCHANGED <<fixed, onchain, outcome>>

-----------------------------------------------------------------------------
(* flush_delete_batch, and executions that end without an outcome.         *)

\* The batch: an old receipt is refused by a FIFO queue and may be by a standard one; the
\* call may fail.
Flush ==
    /\ \E m \in Slots : condemned[m] # "no"
    /\ \/ \E D \in SUBSET {m \in Slots : condemned[m] = "current"
                                          \/ (~fifo /\ condemned[m] = "stale")} :
            /\ {m \in Slots : condemned[m] = "current"} \subseteq D
            /\ msgs' = [m \in Slots |-> IF m \in D THEN NoMessage ELSE msgs[m]]
            /\ UNCHANGED faults
       \/ Fault /\ UNCHANGED msgs
    /\ condemned' = [m \in Slots |-> "no"]
    /\ UNCHANGED <<fixed, rec, onchain, wk, outcome>>

\* The handler panics or exceeds handler_timeout: the message is retained.  A failed read of
\* the record, or increment, has the same effect.
Timeout(w) ==
    /\ ~At(w, "idle")
    /\ Fault
    /\ Retain(w)
    /\ UNCHANGED <<fixed, rec, onchain, msgs, outcome>>

\* The process dies with its executions and pending_deletes.
Crash ==
    /\ Fault
    /\ wk' = [w \in Workers |-> Idle]
    /\ condemned' = [m \in Slots |-> "no"]
    /\ UNCHANGED <<fixed, rec, onchain, msgs, outcome>>

-----------------------------------------------------------------------------
(* The queue, the clock and the chain.                                     *)

\* A hidden message comes back: its delay or its visibility timeout is over.
Reappear(m) ==
    /\ msgs[m].state = "hidden"
    /\ msgs' = [msgs EXCEPT ![m].state = "ready"]
    /\ wk' = [w \in Workers |-> IF wk[w].m = m THEN [wk[w] EXCEPT !.current = FALSE] ELSE wk[w]]
    /\ condemned' = [condemned EXCEPT ![m] = IF @ = "current" THEN "stale" ELSE @]
    /\ UNCHANGED <<fixed, rec, onchain, outcome, faults>>

BecomeDue ==
    /\ \E m \in Slots : ~msgs[m].due
    /\ msgs' = [m \in Slots |-> [msgs[m] EXCEPT !.due = TRUE]]
    /\ UNCHANGED <<fixed, rec, onchain, wk, condemned, outcome, faults>>

\* A message received too often moves to the dead-letter queue.
Redrive(m) ==
    /\ msgs[m].state = "ready" /\ Exhausted(m)
    /\ msgs' = [msgs EXCEPT ![m].state = "dead"]
    /\ UNCHANGED <<fixed, rec, onchain, wk, condemned, outcome, faults>>

Advance ==
    /\ job = "status"
    /\ \/ onchain = "absent" /\ onchain' = "mined"
       \/ onchain = "mined" /\ onchain' = "final"
    /\ UNCHANGED <<fixed, rec, msgs, wk, condemned, outcome, faults>>

-----------------------------------------------------------------------------
Execute(w) ==
    \/ Succeed(w) \/ Fail(w)
    \/ StatusRead(w) \/ StatusBreaker(w) \/ StatusOk(w) \/ StatusError(w)

Next ==
    \/ \E w \in Workers :
         Execute(w) \/ Timeout(w) \/ \E m \in Slots : Receive(w, m) \/ Defer(w, m)
    \/ \E m \in Slots : Reappear(m) \/ Redrive(m)
    \/ Flush \/ Crash \/ BecomeDue \/ Advance

Spec == Init /\ [][Next]_vars

\* Executions go on, the poll loop polls and flushes, hidden messages come back, time and the
\* chain pass.  Nothing is assumed of the RPC calls of a check.
Fairness ==
    /\ \A w \in Workers : WF_vars(Execute(w))
    /\ \A m \in Slots : /\ SF_vars(\E w \in Workers : Receive(w, m) \/ Defer(w, m))
                        /\ WF_vars(Reappear(m)) /\ WF_vars(Redrive(m))
    /\ WF_vars(Flush) /\ WF_vars(BecomeDue) /\ WF_vars(Advance)

FairSpec == Spec /\ Fairness

-----------------------------------------------------------------------------
\* Types; in particular no copy of a bounded job carries an attempt past the limit.
TypeOK ==
    /\ rec.status \in {"Active", "Mined", "Noop", "Final"}
    /\ rec.consecutive \in 0 .. MaxTotal /\ rec.total \in 0 .. MaxTotal
    /\ onchain \in {"absent", "mined", "final"}
    /\ \A m \in Slots : /\ msgs[m].state \in {"free", "ready", "hidden", "dead"}
                        /\ msgs[m].attempt \in 0 .. MaxRetries \cup {None}
                        /\ msgs[m].receives \in 0 .. MaxRetries + 1
    /\ \A w \in Workers : wk[w].m \in Slots \cup {None}
    /\ condemned \in [Slots -> {"no", "current", "stale"}]
    /\ runs \in 0 .. MaxRetries + 1 /\ done \in BOOLEAN
    /\ faults \in 0 .. MaxFaults

\* The status check of a transaction that is not final is never lost between sending a copy,
\* deleting the original, timeouts, crashes and deliveries that overlap: some message is in
\* the queue that no receipt waits to delete.
Monitored ==
    job = "status" /\ rec.status # "Final" =>
        \E m \in Slots : msgs[m].state # "free" /\ condemned[m] = "no"

\* A job of bounded retries leaves the queue only after a success, after more deliveries
\* than its queue allows retries, or into the dead-letter queue: neither the receive count
\* nor the retry_attempt attribute of a copy runs ahead of what was really delivered.
NotDropped ==
    job = "bounded" /\ (\A m \in Slots : msgs[m].state = "free") => done \/ runs > MaxRetries

\* Past the limit a Mined EVM transaction is returned unchanged by every check.
PastLimit == rec.status = "Mined" /\ rec.total >= MaxTotal

\* The breaker's promise, with nothing assumed of the RPC calls: whatever checks fail, lose
\* their counter updates or run twice, a transaction becomes final; on EVM it may instead
\* become a NOOP, which is sent until it is mined, or stay Mined past the limit.
BreakerEnds ==
    job = "status" =>
        <>(rec.status = "Final" \/ (network = "evm" /\ (rec.status = "Noop" \/ PastLimit)))

\* A job of bounded retries does not loop, although a retry on a standard queue is a new
\* message with a receive count that starts again.
BoundedEnds ==
    job = "bounded" => <>(\A m \in Slots : msgs[m].state \in {"free", "dead"})
=============================================================================
