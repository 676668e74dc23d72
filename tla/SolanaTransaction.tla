------------------------- MODULE SolanaTransaction -------------------------
(***************************************************************************)
(* The life of one Solana transaction: prepare, submit, resubmit and       *)
(* status check of domain/transaction/solana over the repository, the      *)
(* queues and the cluster.  Transactions of a relayer do not meet, so one  *)
(* is enough.                                                              *)
(*                                                                         *)
(* The message is fixed but for its blockhash, and signing is              *)
(* deterministic: a signature is known by the blockhash it was made for.   *)
(* Ages and validity periods decide nondeterministically.                  *)
(***************************************************************************)
EXTENDS Integers, FiniteSets

CONSTANTS
    Workers,      \* concurrent executions of jobs
    None,         \* Rust's Option::None
    MaxHash,      \* bound: blockhashes 1..MaxHash, in the order of their blocks
    Window,       \* the newest Window blockhashes are valid
    MaxAttempts,  \* MAXIMUM_SOLANA_TX_ATTEMPTS
    MaxQueued,    \* bound: copies of a job in a queue
    Modes,        \* instructions, single or multi: what the request holds
    Faults,       \* the failures of this instance
    MaxFaults     \* bound: kinds of failures injected, each once

ASSUME SolanaAssumption ==
    /\ {MaxHash, Window, MaxAttempts, MaxQueued} \subseteq Nat \ {0}
    /\ None \notin Nat /\ MaxFaults \in Nat
    /\ Modes \subseteq {"instructions", "single", "multi"}

VARIABLES
    tx,       \* the transaction's record
    mode,     \* how the request was given; multi needs other signers
    queue,    \* per kind of job: how many are queued
    wk,       \* what each worker is executing
    tip,      \* the newest blockhash
    net,      \* signatures the cluster has accepted for inclusion
    chain,    \* per signature: what became of it
    faults    \* the kinds of failures so far

vars == <<tx, mode, queue, wk, tip, net, chain, faults>>

Finals   == {"Confirmed", "Failed", "Expired"}
Statuses == {"Pending", "Sent", "Submitted", "Mined"} \cup Finals
JobKinds == {"request", "submit", "resubmit", "status"}
Hashes   == 1 .. MaxHash

\* sig: the signature stored with the encoded transaction, None before it is built;
\* attempts: the length of hashes.
Records == [status : Statuses, sig : Hashes \cup {None}, hashes : SUBSET Hashes,
            attempts : 0 .. MaxAttempts]

Idle == [pc |-> "idle", kind |-> "status", snap |-> None, sig |-> None]

is_final_state(s) == s \in Finals

\* A blockhash that a bank at commitment confirmed still accepts.
is_blockhash_valid(b) == b + Window > tip

\* The status check is queued first; if that fails the record is marked Failed, a write
\* that may fail as well and leave nobody to look at it.  Then the request is queued, which
\* the status check makes good if it is lost.  s is the status, ks the jobs, f what failed.
Creation(s, ks, f) ==
    \/ s = "Pending" /\ ks = {"request", "status"} /\ f = {}
    \/ s = "Pending" /\ ks = {"status"} /\ f = {"queue"}
    \/ s = "Failed"  /\ ks = {} /\ f = {"queue"}
    \/ s = "Pending" /\ ks = {} /\ f = {"queue", "db"}

\* Requests with a built transaction bring a blockhash; others get one in prepare.
Init ==
    /\ mode \in Modes
    /\ \E s \in {"Pending", "Failed"}, ks \in SUBSET JobKinds, f \in SUBSET Faults :
         /\ Creation(s, ks, f) /\ Cardinality(f) <= MaxFaults
         /\ tx = [status |-> s, sig |-> IF mode = "instructions" THEN None ELSE 1,
                  hashes |-> {}, attempts |-> 0]
         /\ queue = [k \in JobKinds |-> IF k \in ks THEN 1 ELSE 0]
         /\ faults = f
    /\ wk = [w \in Workers |-> Idle]
    /\ tip = 1
    /\ net = {}
    /\ chain = [b \in Hashes |-> "absent"]

-----------------------------------------------------------------------------
(* Repository, queues, provider *)

\* What partial_update stores for a patch with a status.
Stored(new) == IF is_final_state(tx.status) THEN tx ELSE new

SetStatus(s) == tx' = Stored([tx EXCEPT !.status = s])

Pushed(r, b) == [hashes |-> r.hashes \cup {b},
                 attempts |-> IF r.attempts = MaxAttempts THEN MaxAttempts ELSE r.attempts + 1]

Queued(k) == [queue EXCEPT ![k] = IF @ = MaxQueued THEN @ ELSE @ + 1]

Fault(f) ==
    /\ f \in Faults \ faults /\ Cardinality(faults) < MaxFaults
    /\ faults' = faults \cup {f}

At(w, pc) == wk[w].pc = pc

\* The handler ends, leaving queues q; or its job is queued again.
End(w, q) == wk' = [wk EXCEPT ![w] = Idle] /\ queue' = q
Done(w)   == End(w, queue)
Retry(w)  == End(w, Queued(wk[w].kind))

Mut_StatusDone(w, q) == End(w, q)

\* A status check that ends without a final status is repeated.
StatusDone(w, q) ==
    End(w, IF is_final_state(tx'.status) THEN q
           ELSE [q EXCEPT !["status"] = 1])

cluster == <<tip, net, chain>>

resubmitable == mode # "multi"

\* The answers of send_transaction for a signature.
Accepted(b) == is_blockhash_valid(b) /\ chain[b] = "absent"
AlreadyProcessed(b) == chain[b] # "absent"
BlockhashNotFound(b) == ~is_blockhash_valid(b)

\* map_solana_status_to_transaction_status, of a signature that is found.
OnChainStatus(b) ==
    CASE chain[b] = "processed" -> "Mined"
      [] chain[b] = "finalized" -> "Confirmed"
      [] chain[b] = "failed"    -> "Failed"

Found(b) == chain[b] # "absent"

-----------------------------------------------------------------------------
(* Workers *)

\* The job is taken and the record read.
Take(w, k) ==
    /\ At(w, "idle") /\ queue[k] > 0
    /\ queue' = [queue EXCEPT ![k] = @ - 1]
    /\ wk' = [wk EXCEPT ![w] = [pc |-> k, kind |-> k, snap |-> tx, sig |-> tx.sig]]
    /\ UNCHANGED <<tx, mode, cluster, faults>>

\* The worker dies; the job is delivered again.
Crash(w) ==
    /\ ~At(w, "idle")
    /\ Fault("crash")
    /\ Retry(w)
    /\ UNCHANGED <<tx, mode, cluster>>

(* prepare_transaction_impl *)

PrepareSkip(w) ==
    /\ At(w, "request") /\ wk[w].snap.status # "Pending"
    /\ Done(w)
    /\ UNCHANGED <<tx, mode, cluster, faults>>

Preparing(w) == At(w, "request") /\ wk[w].snap.status = "Pending"

Mut_PrepareSign(w) ==
    /\ Preparing(w)
    /\ wk' = [wk EXCEPT ![w].pc = "prepared"]
    /\ UNCHANGED <<tx, mode, queue, cluster, faults>>

\* An instructions request is built on the latest blockhash; a given transaction keeps
\* its own, which must be valid still.  It is validated and signed.
PrepareSign(w) ==
    LET b == IF mode = "instructions" THEN tip ELSE wk[w].snap.sig
    IN /\ Preparing(w) /\ is_blockhash_valid(b)
       /\ wk' = [wk EXCEPT ![w].pc = "prepared", ![w].sig = b]
       /\ UNCHANGED <<tx, mode, queue, cluster, faults>>

\* A permanent error: an expired blockhash, a policy, a balance.
PrepareReject(w) ==
    /\ Preparing(w)
    /\ \/ mode # "instructions" /\ ~is_blockhash_valid(wk[w].snap.sig) /\ UNCHANGED faults
       \/ Fault("invalid")
    /\ SetStatus("Failed")
    /\ Done(w)
    /\ UNCHANGED <<mode, cluster>>

\* The provider, the signer or the write of a rejection fails, and the job is retried, or
\* its retries are used up.
PrepareError(w) ==
    /\ Preparing(w)
    /\ Fault("prepare") \/ Fault("db")
    /\ Retry(w) \/ Done(w)
    /\ UNCHANGED <<tx, mode, cluster>>

\* Store the signed transaction, then queue its submission; either may fail.
PrepareStore(w) ==
    /\ At(w, "prepared")
    /\ \/ /\ tx' = Stored([tx EXCEPT !.status = "Sent", !.sig = wk[w].sig])
          /\ \/ End(w, Queued("submit")) /\ UNCHANGED faults
             \/ Fault("queue") /\ Retry(w)
       \/ Fault("db") /\ Retry(w) /\ UNCHANGED tx
    /\ UNCHANGED <<mode, cluster>>

(* submit_transaction_impl *)

Sendable(w) == wk[w].snap.status \in {"Sent", "Submitted"}

SubmitSkip(w) ==
    /\ At(w, "submit") \/ At(w, "resubmit")
    /\ ~Sendable(w)
    /\ Done(w)
    /\ UNCHANGED <<tx, mode, cluster, faults>>

\* The cluster takes the signature, and the answer arrives or is lost.
Send(w, b) ==
    /\ Accepted(b)
    /\ net' = net \cup {b}
    /\ \/ wk' = [wk EXCEPT ![w].pc = "sent", ![w].sig = b] /\ UNCHANGED <<queue, faults>>
       \/ Fault("timeout") /\ Retry(w)
    /\ UNCHANGED <<tx, mode, tip, chain>>

\* Rejected for good.
SendRejected(w) ==
    /\ Fault("reject")
    /\ SetStatus("Failed")
    /\ Done(w)
    /\ UNCHANGED <<mode, cluster>>

\* A transient error, or one in writing down a rejection: the job is retried until its
\* attempts are used up.
SendError(w) ==
    /\ Retry(w) \/ Done(w)
    /\ UNCHANGED <<tx, mode, cluster>>

SendFault == Fault("send") \/ Fault("db")

Submit(w) ==
    /\ At(w, "submit") /\ Sendable(w)
    /\ LET b == wk[w].snap.sig
       IN \/ Send(w, b)
          \/ AlreadyProcessed(b) /\ Done(w) /\ UNCHANGED <<tx, mode, cluster, faults>>
          \/ /\ BlockhashNotFound(b) /\ resubmitable
             /\ Done(w) /\ UNCHANGED <<tx, mode, cluster, faults>>
          \/ BlockhashNotFound(b) /\ ~resubmitable /\ SendError(w) /\ UNCHANGED faults
          \/ SendFault /\ SendError(w)
          \/ SendRejected(w)

\* The status, the signature's place in hashes, the time; a failed write is swallowed.
SubmitStore(w) ==
    /\ At(w, "sent") /\ wk[w].kind = "submit"
    /\ \/ LET p == Pushed(wk[w].snap, wk[w].sig)
          IN /\ tx' = Stored([tx EXCEPT !.status = "Submitted", !.hashes = p.hashes,
                                        !.attempts = p.attempts])
             /\ UNCHANGED faults
       \/ Fault("db") /\ UNCHANGED tx
    /\ Done(w)
    /\ UNCHANGED <<mode, cluster>>

(* resubmit_transaction_impl: sign for the latest blockhash and send at once. *)

Resubmit(w) ==
    /\ At(w, "resubmit") /\ Sendable(w)
    /\ \/ Send(w, tip)
       \/ AlreadyProcessed(tip) /\ Done(w) /\ UNCHANGED <<tx, mode, cluster, faults>>
       \/ SendFault /\ SendError(w)
       \/ SendRejected(w)

Mut_ResubmitStore(w) ==
    /\ At(w, "sent") /\ wk[w].kind = "resubmit"
    /\ LET p == Pushed(wk[w].snap, wk[w].sig)
       IN tx' = Stored([tx EXCEPT !.status = "Submitted", !.hashes = p.hashes,
                                  !.attempts = p.attempts])
    /\ Done(w)
    /\ UNCHANGED <<mode, cluster, faults>>

ResubmitStore(w) ==
    /\ At(w, "sent") /\ wk[w].kind = "resubmit"
    /\ \/ LET p == Pushed(wk[w].snap, wk[w].sig)
          IN /\ tx' = Stored([status |-> "Submitted", sig |-> wk[w].sig,
                              hashes |-> p.hashes, attempts |-> p.attempts])
             /\ UNCHANGED faults
       \/ Fault("dbresubmit") /\ UNCHANGED tx
    /\ Done(w)
    /\ UNCHANGED <<mode, cluster>>

-----------------------------------------------------------------------------
(* handle_transaction_status_impl *)

StatusFinal(w) ==
    /\ At(w, "status") /\ is_final_state(wk[w].snap.status)
    /\ UNCHANGED tx
    /\ StatusDone(w, queue)
    /\ UNCHANGED <<mode, cluster, faults>>

Checking(w) == At(w, "status") /\ ~is_final_state(wk[w].snap.status)

StatusBreaker(w) ==
    /\ Checking(w)
    /\ Fault("breaker")
    /\ SetStatus("Failed")
    /\ StatusDone(w, queue)
    /\ UNCHANGED <<mode, cluster>>

\* check_onchain_transaction_status: the chain is asked for the stored signature, and an
\* error counts as not found.  What is found leads to a reload and an update.
StatusOnChain(w) ==
    /\ Checking(w)
    /\ wk[w].snap.status \in {"Submitted", "Mined"} /\ Found(wk[w].snap.sig)
    /\ SetStatus(OnChainStatus(wk[w].snap.sig))
    /\ StatusDone(w, queue)
    /\ UNCHANGED <<mode, cluster, faults>>

\* Nothing found, nothing to ask for, or no answer.
Undetected(w) ==
    /\ Checking(w)
    /\ \/ wk[w].snap.status \in {"Pending", "Sent"} /\ UNCHANGED faults
       \/ /\ wk[w].snap.status \in {"Submitted", "Mined"}
          /\ (~Found(wk[w].snap.sig) /\ UNCHANGED faults) \/ Fault("rpc")

\* The detected status is Mined still.
StatusMined(w) ==
    /\ Undetected(w) /\ wk[w].snap.status = "Mined"
    /\ UNCHANGED tx
    /\ StatusDone(w, queue)
    /\ UNCHANGED <<mode, cluster>>

\* valid_until has passed.
StatusExpired(w) ==
    /\ Undetected(w) /\ wk[w].snap.status # "Mined"
    /\ SetStatus("Expired")
    /\ StatusDone(w, queue)
    /\ UNCHANGED <<mode, cluster>>

\* Pending or Sent for too long, or too many attempts.
StatusTimeout(w) ==
    /\ Undetected(w)
    /\ \/ wk[w].snap.status \in {"Pending", "Sent"}
       \/ wk[w].snap.status = "Submitted" /\ wk[w].snap.attempts = MaxAttempts
    /\ SetStatus("Failed")
    /\ StatusDone(w, queue)
    /\ UNCHANGED <<mode, cluster>>

\* handle_pending_status: the preparation may be stuck.
StatusPending(w) ==
    /\ Undetected(w) /\ wk[w].snap.status = "Pending"
    /\ UNCHANGED tx
    /\ \/ StatusDone(w, Queued("request"))
       \/ StatusDone(w, queue)
    /\ UNCHANGED <<mode, cluster>>

Resubmittable(w) ==
    \/ wk[w].snap.status = "Sent"
    \/ wk[w].snap.status = "Submitted" /\ wk[w].snap.attempts < MaxAttempts

StatusYoung(w) ==
    /\ Undetected(w) /\ Resubmittable(w)
    /\ UNCHANGED tx
    /\ StatusDone(w, queue)
    /\ UNCHANGED <<mode, cluster>>

Mut_StatusSignature(w) ==
    /\ Undetected(w) /\ Resubmittable(w)
    /\ \E b \in wk[w].snap.hashes :
         /\ Found(b)
         /\ SetStatus(OnChainStatus(b))
    /\ StatusDone(w, queue)
    /\ UNCHANGED <<mode, cluster>>

\* check_any_signature_on_chain: an earlier signature took effect; it becomes the stored one.
StatusSignature(w) ==
    /\ Undetected(w) /\ Resubmittable(w)
    /\ \E b \in wk[w].snap.hashes :
         /\ Found(b)
         /\ tx' = Stored([tx EXCEPT !.status = OnChainStatus(b), !.sig = b])
    /\ StatusDone(w, queue)
    /\ UNCHANGED <<mode, cluster>>

\* None was found, or the calls failed: the blockhash is looked at next.
StatusSearched(w) ==
    /\ Undetected(w) /\ Resubmittable(w)
    /\ faults' # faults \/ \A b \in wk[w].snap.hashes : ~Found(b)
    /\ wk' = [wk EXCEPT ![w].pc = "searched"]
    /\ UNCHANGED <<tx, mode, queue, cluster>>

\* A valid blockhash is left its time.  Otherwise the transaction is signed again, which
\* the relayer alone can do only if it is the one signer.
StatusBlockhash(w) ==
    /\ At(w, "searched")
    /\ IF is_blockhash_valid(wk[w].snap.sig)
       THEN UNCHANGED tx /\ StatusDone(w, queue)
       ELSE IF resubmitable
       THEN UNCHANGED tx /\ StatusDone(w, Queued("resubmit"))
       ELSE SetStatus("Expired") /\ StatusDone(w, queue)
    /\ UNCHANGED <<mode, cluster, faults>>

\* The provider fails on the blockhash, or the queue on the job: an error, and a retry.
StatusError(w) ==
    /\ At(w, "searched")
    /\ Fault("blockhash") /\ UNCHANGED tx
    /\ StatusDone(w, queue)
    /\ UNCHANGED <<mode, cluster>>

-----------------------------------------------------------------------------
(* The cluster *)

NewBlock ==
    /\ tip < MaxHash
    /\ tip' = tip + 1
    /\ UNCHANGED <<tx, mode, queue, wk, net, chain, faults>>

\* An accepted signature is processed while its blockhash is valid; it may fail.
Process(b) ==
    /\ b \in net /\ Accepted(b)
    /\ \/ chain' = [chain EXCEPT ![b] = "processed"] /\ UNCHANGED faults
       \/ chain' = [chain EXCEPT ![b] = "failed"] /\ Fault("revert")
    /\ UNCHANGED <<tx, mode, queue, wk, tip, net>>

Finalize(b) ==
    /\ chain[b] = "processed"
    /\ chain' = [chain EXCEPT ![b] = "finalized"]
    /\ UNCHANGED <<tx, mode, queue, wk, tip, net, faults>>

\* The fork that processed it is abandoned.
Fork(b) ==
    /\ chain[b] = "processed"
    /\ Fault("fork")
    /\ chain' = [chain EXCEPT ![b] = "absent"]
    /\ UNCHANGED <<tx, mode, queue, wk, tip, net>>

-----------------------------------------------------------------------------
Prepare(w) == PrepareSkip(w) \/ PrepareSign(w) \/ PrepareReject(w) \/ PrepareError(w)
              \/ PrepareStore(w)

Submission(w) == SubmitSkip(w) \/ Submit(w) \/ SubmitStore(w) \/ Resubmit(w)
                 \/ ResubmitStore(w)

StatusCheck(w) ==
    \/ StatusFinal(w) \/ StatusBreaker(w) \/ StatusOnChain(w) \/ StatusMined(w)
    \/ StatusExpired(w) \/ StatusTimeout(w) \/ StatusPending(w) \/ StatusYoung(w)
    \/ StatusSignature(w) \/ StatusSearched(w) \/ StatusBlockhash(w) \/ StatusError(w)

Handle(w) == Prepare(w) \/ Submission(w) \/ StatusCheck(w)

Cluster == NewBlock \/ \E b \in Hashes : Process(b) \/ Finalize(b) \/ Fork(b)

Next ==
    \/ \E w \in Workers : Handle(w) \/ Crash(w) \/ \E k \in JobKinds : Take(w, k)
    \/ Cluster

Spec == Init /\ [][Next]_vars

\* Handlers go on, queued jobs are taken in the end, what was processed is finalized, and
\* valid_until of a transaction that stays on the way passes.
Fairness ==
    /\ \A w \in Workers : WF_vars(Handle(w)) /\ SF_vars(StatusExpired(w))
                          /\ SF_vars(StatusOnChain(w))
                          /\ \A k \in JobKinds : SF_vars(Take(w, k))
    /\ \A b \in Hashes : WF_vars(Finalize(b))

FairSpec == Spec /\ Fairness

-----------------------------------------------------------------------------
\* Types; in particular what was sent, or is to be, has its signature stored with it.
TypeOK ==
    /\ tx \in Records
    /\ tx.status \in {"Sent", "Submitted", "Mined"} => tx.sig # None
    /\ mode \in Modes
    /\ queue \in [JobKinds -> 0 .. MaxQueued]
    /\ \A w \in Workers :
         /\ wk[w].pc \in JobKinds \cup {"idle", "prepared", "sent", "searched"}
         /\ wk[w].kind \in JobKinds
         /\ wk[w].snap \in Records \cup {None}
         /\ wk[w].sig \in Hashes \cup {None}
    /\ tip \in Hashes
    /\ net \subseteq Hashes
    /\ chain \in [Hashes -> {"absent", "processed", "finalized", "failed"}]
    /\ faults \subseteq Faults

\* A status check queues a resubmission.
QueuesResubmission ==
    /\ \E w \in Workers : At(w, "searched")
    /\ queue'["resubmit"] > queue["resubmit"]

\* handle_resubmit_or_expiration looks at the blockhash of the stored transaction alone,
\* and that is enough for all the attempts on record: when it queues a resubmission none
\* of them can be processed any more, whatever was resubmitted, retried or lost before.
ResubmitsExpired ==
    [][QueuesResubmission =>
         \A b \in tx.hashes \cup {tx.sig} : ~is_blockhash_valid(b)]_vars

\* A transaction reported Confirmed is recorded with the signature that was finalized,
\* also when an earlier attempt was the one that took effect.
ConfirmedSignature ==
    tx.status = "Confirmed" => tx.sig # None /\ chain[tx.sig] = "finalized"

\* check_any_signature_on_chain is there to "prevent double-execution": the transaction takes
\* effect at most once.  It does not hold.  An attempt that is processed after the search for
\* signatures, and whose blockhash expires before the look at the blockhash, is resubmitted
\* all the same; and a resubmit job that was queued twice, or delivered late, sends an attempt
\* of its own each time.
NoDoubleExecution ==
    Cardinality({b \in Hashes : chain[b] \in {"processed", "finalized"}}) <= 1

\* Recorded as Mined on a fork that was abandoned: check_onchain_transaction_status takes
\* the missing signature for no news, so nothing happens until it is processed again.
Stranded == tx.status = "Mined" /\ ~Found(tx.sig)

\* The status check drives every transaction to a final status, whatever is lost on the
\* way, unless it is stranded.  (With MaxFaults > 1 a creation may lose the status check
\* and the write of Failed, and nothing happens to the record any more.)
EventuallyFinal == <>(is_final_state(tx.status) \/ Stranded)
=============================================================================
