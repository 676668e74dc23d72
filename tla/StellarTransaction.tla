------------------------- MODULE StellarTransaction -------------------------
(***************************************************************************)
(* The life of Stellar transactions of one relayer account: prepare,       *)
(* submit and status check of domain/transaction/stellar, the lane gate    *)
(* that lets one transaction at a time through, and the sequence counter   *)
(* with its recovery from a bad sequence.  Transactions are built from     *)
(* operations, so the relayer chooses their sequence.                      *)
(*                                                                         *)
(* A handler reads its transaction when its job is taken and works on that *)
(* snapshot.  It is split where others may act between two of its effects: *)
(* the lane, the counter, the repository, the node, the queue.  What is    *)
(* decided from clocks is a nondeterministic choice.                       *)
(***************************************************************************)
EXTENDS Integers, Sequences, FiniteSets

CONSTANTS
    Txs,         \* transaction ids, in the order of creation
    Workers,     \* concurrent executions of jobs
    None,        \* Rust's Option::None
    Concurrent,  \* job kinds of which two may run at once for one transaction
    MaxSeq,      \* bound: sequences 1..MaxSeq
    Modes,       \* values of ~concurrent_transactions_enabled
    Faults,      \* the failures and adverse conditions of this instance
    MaxFaults    \* bound: kinds of failures injected, each once

ASSUME StellarAssumption ==
    /\ Txs \subseteq Nat
    /\ None \notin Nat
    /\ MaxSeq \in Nat /\ MaxFaults \in Nat
    /\ Modes \subseteq BOOLEAN

VARIABLES
    txs,        \* the transaction repository
    lane,       \* lane_gate::BUSY: the owner of the relayer's lane
    counter,    \* transaction_counter: the next sequence to allocate
    jobs,       \* queued jobs
    wk,         \* what each worker is executing
    mempool,    \* signed envelopes a node holds
    chain,      \* chain[s] is what consumed sequence s
    newest,     \* the transaction confirmed last, the first of the Confirmed index
    sequential, \* one transaction at a time: the relayer's policy
    faults      \* the kinds of failures so far

vars == <<txs, lane, counter, jobs, wk, mempool, chain, newest, sequential, faults>>

-----------------------------------------------------------------------------
(* Data *)

Finals   == {"Confirmed", "Failed", "Expired"}
InFlight == {"Sent", "Submitted"}
Statuses == {"Absent", "Pending"} \cup InFlight \cup Finals
Seqs     == 1 .. MaxSeq
Counts   == 1 .. MaxSeq + 1
JobKinds == {"request", "submit", "status"}
Jobs     == [kind : JobKinds, tx : Txs]

\* env: the signed envelope, known by its sequence; sequence_number is set and
\* cleared with it.  hash: the hash the node returned for it.
Records == [status : Statuses, env : Seqs \cup {None}, hash : Seqs \cup {None}]

NoTx == [status |-> "Absent", env |-> None, hash |-> None]

PCs == {"idle", "request", "sequence", "sign", "fetch", "floor", "bound", "cas", "fail",
        "submit", "store", "reset", "status", "mark", "find", "pass"}

\* seq: sequence allocated; floor, observed, target: of sync_sequence_from_chain;
\* then: where that continues; new: status about to be stored; next: whom the lane goes to.
Idle == [pc |-> "idle", kind |-> "none", tx |-> None, snap |-> NoTx, seq |-> None,
         floor |-> 1, observed |-> 1, target |-> 1, then |-> "idle", new |-> "Failed",
         next |-> None]

WorkerStates ==
    [pc : PCs, kind : JobKinds \cup {"none"}, tx : Txs \cup {None}, snap : Records,
     seq : Seqs \cup {None}, floor : Counts, observed : Counts, target : Counts,
     then : {"idle", "fail"}, new : Finals, next : Txs \cup {None}]

\* Sequence 0 is the one build_signed_envelope falls back to.
Envelopes == [tx : Txs, seq : Seqs \cup {0}]
Entries   == [tx : Txs \cup {None}, ok : BOOLEAN]

is_final_state(s) == s \in Finals

-----------------------------------------------------------------------------
(* Lane gate, repository, queues, node *)

\* claim: the lane is free or already t's.
CanClaim(t) == sequential => lane \in {None, t}

Claimed(t) == IF sequential THEN t ELSE lane

\* Fault: the lane is freed for whoever asks.
Mut_FreeAny(t) == None

\* pass_to and free act only for the owner.
pass_to(t, u) == IF lane = t THEN u ELSE lane
free(t)       == IF lane = t THEN None ELSE lane

\* What partial_update of the Redis repository stores for a patch with a status.
WithStatus(cur, new) == IF is_final_state(cur.status) THEN cur ELSE new

SetStatus(t, s) == txs' = [txs EXCEPT ![t] = WithStatus(@, [@ EXCEPT !.status = s])]

RequestJob(t) == [kind |-> "request", tx |-> t]
SubmitJob(t)  == [kind |-> "submit", tx |-> t]
StatusJob(t)  == [kind |-> "status", tx |-> t]

At(w, pc)  == wk[w].pc = pc
Goto(w, p) == wk' = [wk EXCEPT ![w].pc = p]

\* A failure that happens once; a condition that may hold at any time.
Fault(f) ==
    /\ f \in Faults \ faults /\ Cardinality(faults) < MaxFaults
    /\ faults' = faults \cup {f}

May(f)   == f \in Faults

\* The handler ends, leaving queue q; or it is retried.
End(w, q) == wk' = [wk EXCEPT ![w] = Idle] /\ jobs' = q

\* Fault: a status check that returns without an error is not repeated.
Mut_NotRetried(w, q) == q

Retried(w, q) == q \cup {[kind |-> wk[w].kind, tx |-> wk[w].tx]}

OnChainSeq == Len(chain)
Applied(e) == e.seq \in DOMAIN chain /\ chain[e.seq].tx = e.tx

\* What a node may answer to sendTransaction.  It holds one envelope of an
\* account and recognises one that was applied, unless it has forgotten it.
Accepts(e) == e.seq = OnChainSeq + 1 /\ mempool = {}

Answers(e) ==
    {a \in {"pending"} : Accepts(e)}
    \cup {a \in {"duplicate"} : e \in mempool}
    \cup {a \in {"later"} : e \notin mempool /\ mempool # {} /\ e.seq > OnChainSeq}
    \cup {a \in {"later", "duplicate"} : Applied(e)}
    \cup {a \in {"badseq"} : e \notin mempool /\ e.seq # OnChainSeq + 1
                                /\ (~Applied(e) \/ May("forget"))}

\* A fee too low, another rejection, no connection, no answer in time although the
\* envelope was accepted; or the repository fails to record that it was put off.
Failures(e) ==
    {a \in {"fee", "reject"} : e \notin mempool}
    \cup {"rpc"}
    \cup {a \in {"timeout"} : Accepts(e)}
    \cup {a \in {"db"} : "later" \in Answers(e)}

-----------------------------------------------------------------------------
(* process_transaction_request_with_id, and taking a job *)

\* The status check is queued first.  If that fails the record is marked Failed, and
\* if that fails as well it stays as it is, unwatched.
CreateTransaction(t) ==
    /\ txs[t].status = "Absent"
    /\ \A u \in Txs : u < t => txs[u].status # "Absent"
    /\ \/ /\ SetStatus(t, "Pending")
          /\ jobs' = jobs \cup {StatusJob(t), RequestJob(t)}
          /\ UNCHANGED faults
       \/ /\ Fault("queue")
          /\ \/ SetStatus(t, "Pending") /\ jobs' = jobs \cup {StatusJob(t)}
             \/ SetStatus(t, "Failed") /\ UNCHANGED jobs
       \/ /\ {"queue", "db"} \subseteq Faults \ faults /\ Cardinality(faults) + 2 <= MaxFaults
          /\ faults' = faults \cup {"queue", "db"}
          /\ SetStatus(t, "Pending") /\ UNCHANGED jobs
    /\ UNCHANGED <<lane, counter, wk, mempool, chain, newest, sequential>>

Take(w, j) ==
    /\ At(w, "idle")
    /\ j \in jobs
    /\ j.kind \in Concurrent
          \/ \A v \in Workers : ~(wk[v].kind = j.kind /\ wk[v].tx = j.tx)
    \* a kind in Concurrent may also be delivered again while it is running
    /\ jobs' \in {jobs \ {j}} \cup {q \in {jobs} : j.kind \in Concurrent}
    /\ wk' = [wk EXCEPT ![w] = [Idle EXCEPT !.pc = j.kind, !.kind = j.kind, !.tx = j.tx,
                                            !.snap = txs[j.tx]]]
    /\ UNCHANGED <<txs, lane, counter, mempool, chain, newest, sequential, faults>>

\* The process restarts: the lane gate is lost with its memory, the jobs it was
\* executing are delivered again.
Restart ==
    /\ Fault("restart")
    /\ lane' = None
    /\ jobs' = jobs \cup {[kind |-> wk[w].kind, tx |-> wk[w].tx] :
                             w \in {v \in Workers : ~At(v, "idle")}}
    /\ wk' = [w \in Workers |-> Idle]
    /\ UNCHANGED <<txs, counter, mempool, chain, newest, sequential>>

-----------------------------------------------------------------------------
(* prepare_transaction_impl *)

\* Not Pending, or the lane is another transaction's: nothing to do.
PrepareSkip(w) ==
    /\ At(w, "request")
    /\ wk[w].snap.status # "Pending" \/ ~CanClaim(wk[w].tx)
    /\ End(w, jobs)
    /\ UNCHANGED <<txs, lane, counter, mempool, chain, newest, sequential, faults>>

\* Fault: only the lane is checked, not the status.
Mut_ClaimAnyStatus(w) ==
    /\ At(w, "request")
    /\ CanClaim(wk[w].tx)
    /\ lane' = Claimed(wk[w].tx)
    /\ Goto(w, "sequence")
    /\ UNCHANGED <<txs, counter, jobs, mempool, chain, newest, sequential, faults>>

PrepareClaim(w) ==
    /\ At(w, "request")
    /\ wk[w].snap.status = "Pending" /\ CanClaim(wk[w].tx)
    /\ lane' = Claimed(wk[w].tx)
    /\ Goto(w, "sequence")
    /\ UNCHANGED <<txs, counter, jobs, mempool, chain, newest, sequential, faults>>

\* get_next_sequence
PrepareSequence(w) ==
    /\ At(w, "sequence")
    /\ counter \in Seqs
    /\ wk' = [wk EXCEPT ![w].seq = counter, ![w].pc = "sign"]
    /\ counter' = counter + 1
    /\ UNCHANGED <<txs, lane, jobs, mempool, chain, newest, sequential, faults>>

\* Simulate, sign, store as Sent, queue the submission.  When only the queue
\* fails the record is Sent and the preparation has failed nevertheless.
PrepareStore(w) ==
    /\ At(w, "sign")
    /\ txs' = [txs EXCEPT ![wk[w].tx] =
                  WithStatus(@, [status |-> "Sent", env |-> wk[w].seq, hash |-> None])]
    /\ \/ End(w, jobs \cup {SubmitJob(wk[w].tx)}) /\ UNCHANGED faults
       \/ /\ Fault("queue")
          /\ wk' = [wk EXCEPT ![w].pc = "fetch", ![w].then = "fail"]
          /\ UNCHANGED jobs
    /\ UNCHANGED <<lane, counter, mempool, chain, newest, sequential>>

\* A policy, counter, simulation, signer or repository error.
PrepareError(w) ==
    /\ At(w, "sequence") \/ At(w, "sign")
    /\ Fault("prepare")
    /\ wk' = [wk EXCEPT ![w].pc = "fetch", ![w].then = "fail"]
    /\ UNCHANGED <<txs, lane, counter, jobs, mempool, chain, newest, sequential>>

-----------------------------------------------------------------------------
(* sync_sequence_from_chain: the first thing after a failed preparation, the
   second, after the reset, when a node reported a bad sequence *)

Continue(w) ==
    IF wk[w].then = "idle" THEN Idle
    ELSE [Idle EXCEPT !.pc = wk[w].then, !.kind = wk[w].kind, !.tx = wk[w].tx]

\* An error at any of its steps is logged.
SyncError(w) ==
    /\ \/ At(w, "fetch") /\ Fault("rpc")
       \/ (At(w, "floor") \/ At(w, "bound") \/ At(w, "cas")) /\ Fault("db")
    /\ wk' = [wk EXCEPT ![w] = Continue(w)]
    /\ UNCHANGED <<txs, lane, counter, jobs, mempool, chain, newest, sequential>>

\* Fault: the account's sequence is taken for the next one.
Mut_CurrentNotNext(w) ==
    /\ At(w, "fetch")
    /\ wk' = [wk EXCEPT ![w].floor = OnChainSeq, ![w].pc = "floor"]
    /\ UNCHANGED <<txs, lane, counter, jobs, mempool, chain, newest, sequential, faults>>

\* fetch_next_sequence_from_chain, from a node that may lag behind.
SyncFetch(w) ==
    /\ At(w, "fetch")
    /\ \E seen \in IF May("lag") THEN 0 .. OnChainSeq ELSE {OnChainSeq} :
          wk' = [wk EXCEPT ![w].floor = seen + 1, ![w].pc = "floor"]
    /\ UNCHANGED <<txs, lane, counter, jobs, mempool, chain, newest, sequential, faults>>

\* sync_floor returns the counter it leaves behind.
SyncFloor(w) ==
    /\ At(w, "floor")
    /\ counter' = IF counter < wk[w].floor THEN wk[w].floor ELSE counter
    /\ wk' = [wk EXCEPT ![w] = IF counter > wk[w].floor
                                  THEN [@ EXCEPT !.observed = counter, !.pc = "bound"]
                                  ELSE Continue(w)]
    /\ UNCHANGED <<txs, lane, jobs, mempool, chain, newest, sequential, faults>>

\* The sequences that bound the rewind: those of the active records and that of
\* the record confirmed last.
BoundSeqs ==
    {txs[t].env : t \in {u \in Txs : txs[u].status \in {"Pending"} \cup InFlight \/ u = newest}}
    \ {None}

\* try_rewind_sequence_counter
SyncBound(w) ==
    /\ At(w, "bound")
    /\ \E target \in Counts :
          /\ target = wk[w].floor \/ target - 1 \in BoundSeqs
          /\ wk[w].floor <= target /\ \A s \in BoundSeqs : s < target
          /\ wk' = [wk EXCEPT ![w] = IF target < wk[w].observed
                                        THEN [@ EXCEPT !.target = target, !.pc = "cas"]
                                        ELSE Continue(w)]
    /\ UNCHANGED <<txs, lane, counter, jobs, mempool, chain, newest, sequential, faults>>

\* Fault: the counter is only ever raised.
Mut_NoRewind(w) ==
    /\ At(w, "cas")
    /\ wk' = [wk EXCEPT ![w] = Continue(w)]
    /\ UNCHANGED <<txs, lane, counter, jobs, mempool, chain, newest, sequential, faults>>

\* set_if_equals
SyncRewind(w) ==
    /\ At(w, "cas")
    /\ counter' = IF counter = wk[w].observed THEN wk[w].target ELSE counter
    /\ wk' = [wk EXCEPT ![w] = Continue(w)]
    /\ UNCHANGED <<txs, lane, jobs, mempool, chain, newest, sequential, faults>>

-----------------------------------------------------------------------------
(* Storing a final status, and handing the lane over *)

\* handle_prepare_failure goes on when the record cannot be marked; then the
\* queue retries the preparation, which finds what is stored.
\* handle_submit_failure gives up, and the status check will see to it.
Fail(w) ==
    /\ At(w, "fail")
    /\ \/ SetStatus(wk[w].tx, "Failed") /\ Goto(w, "find") /\ UNCHANGED <<jobs, faults>>
       \/ /\ Fault("db")
          /\ IF wk[w].kind = "request" THEN Goto(w, "find") /\ UNCHANGED jobs
                                       ELSE End(w, jobs)
          /\ UNCHANGED txs
    /\ UNCHANGED <<lane, counter, mempool, chain, newest, sequential>>

\* The success handler stores the snapshot's data again.
Marked(cur, k) ==
    IF k.new = "Confirmed" THEN [k.snap EXCEPT !.status = "Confirmed"]
                           ELSE [cur EXCEPT !.status = k.new]

\* mark_as_failed, mark_as_expired, handle_stellar_success, handle_stellar_failed.
Mark(w) ==
    /\ At(w, "mark")
    /\ \/ /\ txs' = [txs EXCEPT ![wk[w].tx] = WithStatus(@, Marked(@, wk[w]))]
          /\ newest' = IF txs'[wk[w].tx].status = "Confirmed" THEN wk[w].tx ELSE newest
          /\ Goto(w, "find")
          /\ UNCHANGED <<jobs, faults>>
       \/ /\ Fault("db")
          /\ End(w, IF wk[w].kind = "status" THEN Retried(w, jobs) ELSE jobs)
          /\ UNCHANGED <<txs, newest>>
    /\ UNCHANGED <<lane, counter, mempool, chain, sequential>>

\* The queue once the handler is through; q is what it leaves itself.  A failed
\* preparation returns its error and is retried while attempts are left.  A
\* status check returns a final record, or the error of the handover.
Finished(w, q) == {q} \cup {r \in {Retried(w, q)} : wk[w].kind = "request"}

FinishedError(w) == {jobs} \cup {r \in {Retried(w, jobs)} : wk[w].kind # "submit"}

\* enqueue_next_pending_transaction: find_oldest_pending_for_relayer.
FindNext(w) ==
    /\ At(w, "find") /\ sequential
    /\ \E u \in Txs \cup {None} :
          /\ IF u = None THEN \A t \in Txs : txs[t].status # "Pending"
             ELSE txs[u].status = "Pending" /\ \A t \in Txs : t < u => txs[t].status # "Pending"
          /\ wk' = [wk EXCEPT ![w].next = u, ![w].pc = "pass"]
    /\ UNCHANGED <<txs, lane, counter, jobs, mempool, chain, newest, sequential, faults>>

\* The lookup fails.  Only a failed preparation frees the lane then.
FindError(w) ==
    /\ At(w, "find") /\ sequential
    /\ Fault("db")
    /\ lane' = IF wk[w].kind = "request" THEN free(wk[w].tx) ELSE lane
    /\ \E q \in FinishedError(w) : End(w, q)
    /\ UNCHANGED <<txs, counter, mempool, chain, newest, sequential>>

FindNothing(w) ==
    /\ At(w, "find") /\ ~sequential
    /\ \E q \in Finished(w, jobs) : End(w, q)
    /\ UNCHANGED <<txs, lane, counter, mempool, chain, newest, sequential, faults>>

\* Hand the lane over and queue the preparation, or free it.
Pass(w) ==
    /\ At(w, "pass")
    /\ LET u == wk[w].next
       IN  IF u = None
             THEN /\ lane' = free(wk[w].tx)
                  /\ \E q \in Finished(w, jobs) : End(w, q)
                  /\ UNCHANGED faults
             ELSE \/ /\ lane' = pass_to(wk[w].tx, u)
                     /\ \E q \in Finished(w, jobs \cup {RequestJob(u)}) : End(w, q)
                     /\ UNCHANGED faults
                  \/ /\ Fault("queue")
                     /\ lane' = IF wk[w].kind = "request" /\ u = wk[w].tx
                                  THEN free(u) ELSE pass_to(wk[w].tx, u)
                     /\ \E q \in FinishedError(w) : End(w, q)
    /\ UNCHANGED <<txs, counter, mempool, chain, newest, sequential>>

-----------------------------------------------------------------------------
(* submit_transaction_impl *)

SubmitSkip(w) ==
    /\ At(w, "submit")
    /\ is_final_state(wk[w].snap.status)
    /\ End(w, jobs)
    /\ UNCHANGED <<txs, lane, counter, mempool, chain, newest, sequential, faults>>

\* is_transaction_expired
SubmitExpired(w) ==
    /\ At(w, "submit")
    /\ ~is_final_state(wk[w].snap.status)
    /\ Fault("expiry")
    /\ wk' = [wk EXCEPT ![w].new = "Expired", ![w].pc = "mark"]
    /\ UNCHANGED <<txs, lane, counter, jobs, mempool, chain, newest, sequential>>

\* get_envelope_for_submission: without a signed envelope, one of sequence 0.
Envelope(t, r) == [tx |-> t, seq |-> IF r.env = None THEN 0 ELSE r.env]

\* TRY_AGAIN_LATER and a low fee are recorded, unless the record is final by
\* now, and sent again by a delayed job while the fast retries last.
SendLater(w) ==
    \/ ~is_final_state(txs[wk[w].tx].status) /\ End(w, jobs \cup {SubmitJob(wk[w].tx)})
    \/ End(w, jobs)

\* submit_core.  Past its limit a low fee is an error, and so is a retry that
\* cannot be recorded.
SubmitSend(w) ==
    /\ At(w, "submit")
    /\ ~is_final_state(wk[w].snap.status)
    /\ LET e == Envelope(wk[w].tx, wk[w].snap)
       IN  \/ /\ \E a \in Answers(e) :
                    /\ mempool' = mempool \cup {f \in {e} : a = "pending"}
                    /\ \/ a \in {"pending", "duplicate"} /\ Goto(w, "store") /\ UNCHANGED jobs
                       \/ a = "later" /\ SendLater(w)
                       \/ a = "badseq" /\ Goto(w, "reset") /\ UNCHANGED jobs
              /\ UNCHANGED faults
           \/ \E a \in Failures(e) :
                 /\ Fault(a)
                 /\ mempool' = mempool \cup {f \in {e} : a = "timeout"}
                 /\ \/ a = "fee" /\ SendLater(w)
                    \/ Goto(w, "fail") /\ UNCHANGED jobs
    /\ UNCHANGED <<txs, lane, counter, chain, newest, sequential>>

\* Accepted.  A conflicting update is left to the status check, another error of
\* the repository counts as a failed submission.
SubmitStore(w) ==
    /\ At(w, "store")
    /\ \/ /\ txs' = [txs EXCEPT ![wk[w].tx] = WithStatus(@,
                        [status |-> "Submitted", env |-> wk[w].snap.env, hash |-> wk[w].snap.env])]
          /\ End(w, jobs) /\ UNCHANGED faults
       \/ Fault("conflict") /\ End(w, jobs) /\ UNCHANGED txs
       \/ Fault("db") /\ Goto(w, "fail") /\ UNCHANGED <<txs, jobs>>
    /\ UNCHANGED <<lane, counter, mempool, chain, newest, sequential>>

\* handle_submit_failure, bad sequence: reset_transaction_for_retry, before the
\* counter is synchronised.  Failed if the record cannot be reset.
SubmitReset(w) ==
    /\ At(w, "reset")
    /\ \/ /\ txs' = [txs EXCEPT ![wk[w].tx] = WithStatus(@, [NoTx EXCEPT !.status = "Pending"])]
          /\ wk' = [wk EXCEPT ![w].pc = "fetch", ![w].then = "idle"]
          /\ UNCHANGED faults
       \/ /\ Fault("db")
          /\ wk' = [wk EXCEPT ![w].pc = "fetch", ![w].then = "fail"]
          /\ UNCHANGED txs
    /\ UNCHANGED <<lane, counter, jobs, mempool, chain, newest, sequential>>

-----------------------------------------------------------------------------
(* handle_transaction_status_impl *)

\* The check ends without a final record and is retried, having queued js.
StatusKeep(w, js) == End(w, Retried(w, jobs \cup js))

StatusMark(w, s) ==
    /\ wk' = [wk EXCEPT ![w].new = s, ![w].pc = "mark"]
    /\ UNCHANGED jobs

StatusFinal(w) ==
    /\ At(w, "status")
    /\ is_final_state(wk[w].snap.status)
    /\ End(w, jobs)
    /\ UNCHANGED <<txs, lane, counter, mempool, chain, newest, sequential, faults>>

Checking(w) == At(w, "status") /\ ~is_final_state(wk[w].snap.status)

\* The circuit breaker: too many errors in a row.
StatusBreaker(w) ==
    /\ Checking(w)
    /\ Fault("breaker")
    /\ StatusMark(w, "Failed")
    /\ UNCHANGED <<txs, lane, counter, mempool, chain, newest, sequential>>

\* get_transaction: a lagging node may not have the transaction yet.
Found(w) == wk[w].snap.hash # None /\ Applied([tx |-> wk[w].tx, seq |-> wk[w].snap.hash])

StatusOnChain(w) ==
    /\ Checking(w)
    /\ wk[w].snap.status = "Submitted" /\ Found(w)
    /\ StatusMark(w, IF chain[wk[w].snap.hash].ok THEN "Confirmed" ELSE "Failed")
    /\ UNCHANGED <<txs, lane, counter, mempool, chain, newest, sequential, faults>>

NotOnChain(w) == wk[w].snap.status = "Submitted" => ~Found(w) \/ May("lag")

\* check_expiration_and_max_lifetime
StatusExpired(w) ==
    /\ Checking(w) /\ NotOnChain(w)
    /\ \/ Fault("expiry") /\ StatusMark(w, "Expired")
       \/ Fault("lifetime") /\ StatusMark(w, "Failed")
    /\ UNCHANGED <<txs, lane, counter, mempool, chain, newest, sequential>>

\* get_transaction fails.
StatusError(w) ==
    /\ Checking(w) /\ wk[w].snap.status = "Submitted"
    /\ Fault("rpc")
    /\ StatusKeep(w, {})
    /\ UNCHANGED <<txs, lane, counter, mempool, chain, newest, sequential>>

\* handle_pending_state, handle_sent_state, handle_submitted_state: once it is
\* old enough, prepare or submit again.
StatusAgain(w) ==
    /\ Checking(w) /\ NotOnChain(w)
    /\ StatusKeep(w, {IF wk[w].snap.status = "Pending" THEN RequestJob(wk[w].tx)
                                                     ELSE SubmitJob(wk[w].tx)})
    /\ UNCHANGED <<txs, lane, counter, mempool, chain, newest, sequential, faults>>

\* Too early for that, or the job could not be queued.
StatusWait(w) ==
    /\ Checking(w) /\ NotOnChain(w)
    /\ StatusKeep(w, {})
    /\ UNCHANGED <<txs, lane, counter, mempool, chain, newest, sequential, faults>>

-----------------------------------------------------------------------------
(* The ledger, and the relayer's own synchronisation *)

\* sync_sequence, when the relayer is initialised: raise the counter.
SyncSequence ==
    /\ counter <= OnChainSeq
    /\ counter' = OnChainSeq + 1
    /\ UNCHANGED <<txs, lane, jobs, wk, mempool, chain, newest, sequential, faults>>

Apply(e) ==
    /\ e \in mempool
    /\ e.seq = OnChainSeq + 1
    /\ \E ok \in {TRUE} \cup {b \in {FALSE} : May("revert")} :
          chain' = Append(chain, [tx |-> e.tx, ok |-> ok])
    /\ mempool' = mempool \ {e}
    /\ UNCHANGED <<txs, lane, counter, jobs, wk, newest, sequential, faults>>

\* The account is used from elsewhere, or the node gives up on an envelope.
OtherApplied ==
    /\ Fault("other")
    /\ OnChainSeq < MaxSeq
    /\ chain' = Append(chain, [tx |-> None, ok |-> TRUE])
    /\ mempool' = {}
    /\ UNCHANGED <<txs, lane, counter, jobs, wk, newest, sequential>>

Drop(e) ==
    /\ e \in mempool
    /\ Fault("drop")
    /\ mempool' = mempool \ {e}
    /\ UNCHANGED <<txs, lane, counter, jobs, wk, chain, newest, sequential>>

-----------------------------------------------------------------------------
Init ==
    /\ txs = [t \in Txs |-> NoTx]
    /\ lane = None
    /\ counter = 1
    /\ jobs = {}
    /\ wk = [w \in Workers |-> Idle]
    /\ mempool = {}
    /\ chain = <<>>
    /\ newest = None
    /\ sequential \in Modes
    /\ faults = {}

Prepare(w) == PrepareSkip(w) \/ PrepareClaim(w) \/ PrepareSequence(w) \/ PrepareStore(w)
              \/ PrepareError(w)
Sync(w)    == SyncFetch(w) \/ SyncFloor(w) \/ SyncBound(w) \/ SyncRewind(w) \/ SyncError(w)
Finish(w)  == Fail(w) \/ Mark(w) \/ FindNext(w) \/ FindNothing(w) \/ FindError(w) \/ Pass(w)
Submit(w)  == SubmitSkip(w) \/ SubmitExpired(w) \/ SubmitSend(w) \/ SubmitStore(w)
              \/ SubmitReset(w)
Status(w)  == StatusFinal(w) \/ StatusBreaker(w) \/ StatusOnChain(w) \/ StatusExpired(w)
              \/ StatusAgain(w) \/ StatusWait(w) \/ StatusError(w)
Work(w)    == Prepare(w) \/ Sync(w) \/ Finish(w) \/ Submit(w) \/ Status(w)

Next ==
    \/ \E t \in Txs : CreateTransaction(t)
    \/ \E w \in Workers, j \in jobs : Take(w, j)
    \/ \E w \in Workers : Work(w)
    \/ \E e \in mempool : Apply(e) \/ Drop(e)
    \/ OtherApplied \/ SyncSequence \/ Restart

Spec == Init /\ [][Next]_vars

\* Jobs are delivered, a running handler goes on, a transaction gets old enough
\* to be tried again, and what is sent again and again is applied in the end.
Fairness ==
    /\ \A w \in Workers : WF_vars(Work(w))
    /\ \A j \in Jobs : SF_vars(\E w \in Workers : Take(w, j))
    /\ \A t \in Txs : SF_vars(\E w \in Workers : wk[w].tx = t /\ StatusAgain(w))
    /\ SF_vars(\E e \in mempool : Apply(e))

FairSpec == Spec /\ Fairness

-----------------------------------------------------------------------------
(* Properties *)

\* Every variable has its type.
TypeOK ==
    /\ txs \in [Txs -> Records]
    /\ lane \in Txs \cup {None}
    /\ counter \in Counts
    /\ jobs \subseteq Jobs
    /\ wk \in [Workers -> WorkerStates]
    /\ mempool \subseteq Envelopes
    /\ chain \in Seq(Entries)
    /\ newest \in Txs \cup {None}
    /\ sequential \in Modes
    /\ faults \subseteq Faults

\* In sequential mode a transaction in flight owns the lane, so there is one at a
\* time (claim against the handover of whoever finishes), as long as the process
\* that holds the lane gate in its memory lives.
InFlightOwnsLane ==
    sequential /\ "restart" \notin faults
    => \A t \in Txs : txs[t].status \in InFlight => lane = t

\* No transaction takes effect twice, although a bad sequence makes it lose its
\* envelope and be signed again (reset_transaction_for_retry).  It holds while a
\* preparation and a submission are delivered once at a time, and for nodes that know
\* what was applied; prepare_transaction_impl itself does not see to it.
NoDoubleExecution ==
    \A i, j \in DOMAIN chain : chain[i].tx # None /\ chain[i].tx = chain[j].tx => i = j

\* Every transaction that is not final is watched: its status job is queued or being
\* executed.  The exception is a creation for which the queue fails and then the
\* repository too (process_transaction_request_with_id logs it and goes on).
MonitoredUntilFinal ==
    \A t \in Txs :
        \/ txs[t].status = "Absent" \/ is_final_state(txs[t].status)
        \/ StatusJob(t) \in jobs
        \/ \E w \in Workers : wk[w].kind = "status" /\ wk[w].tx = t

\* A final transaction does not keep the lane: as long as it owns it, some job or
\* handler of its is left that could hand it over or free it.
LaneReleased ==
    lane # None /\ is_final_state(txs[lane].status)
    => \/ \E j \in jobs : j.tx = lane
       \/ \E w \in Workers : wk[w].tx = lane

\* In sequential mode every transaction takes effect or becomes final, without
\* having to expire: a sequence lost on the way holds nobody up for good
\* (try_rewind_sequence_counter), and the lane comes round to everybody
\* (enqueue_next_pending_transaction).
EventuallySettled ==
    \A t \in Txs : sequential /\ txs[t].status = "Pending"
        ~> is_final_state(txs[t].status) \/ \E i \in DOMAIN chain : chain[i].tx = t

=============================================================================
