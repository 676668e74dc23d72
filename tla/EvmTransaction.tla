--------------------------- MODULE EvmTransaction ---------------------------
(***************************************************************************)
(* The life of EVM transactions in the relayer: the handlers prepare,      *)
(* submit, resubmit, status check, cancel and replace of                   *)
(* domain/transaction/evm, run by concurrent workers over one repository,  *)
(* one set of job queues and one chain account.                            *)
(*                                                                         *)
(* A handler reads its transaction once, when its job is taken, and works  *)
(* on that snapshot from then on.  It is split where another process may   *)
(* act between two of its effects: nonce allocation, repository write,     *)
(* broadcast, repository write.  What the handler decides from clocks,     *)
(* balances and gas limits is a nondeterministic choice.                   *)
(***************************************************************************)
EXTENDS Integers, Sequences

CONSTANTS
    Txs,          \* transaction ids of one relayer
    Workers,      \* concurrent executions of jobs and API calls
    None,         \* Rust's Option::None
    Other,        \* a chain entry that is not one of Txs (external wallet, gap-filling NOOP)
    MaxNonce,     \* bound: nonces 0..MaxNonce
    GasPriceCap,  \* highest price a resubmission may bump to (policy gas_price_cap)
    MaxPrice,     \* bound: prices from here on, which only NOOPs reach, are not told apart
    MinHashesForRecovery, \* EVM_MIN_HASHES_FOR_RECOVERY
    Concurrent,   \* job kinds of which two may run at once for one transaction
    Faults,       \* the failures this instance may inject
    ApiOps,       \* user operations this instance performs, each at most once
    FinalGuard    \* TRUE: Redis partial_update; FALSE: in-memory partial_update

ASSUME BoundsAssumption ==
    /\ MaxNonce \in Nat
    /\ GasPriceCap \in Nat /\ MaxPrice \in Nat
    /\ 1 <= GasPriceCap /\ GasPriceCap <= MaxPrice
    /\ MinHashesForRecovery \in Nat
    /\ FinalGuard \in BOOLEAN
    /\ ApiOps \subseteq {"cancel", "replace"}
    /\ None \notin Nat

VARIABLES
    txs,      \* the transaction repository
    jobs,     \* queued jobs
    wk,       \* what each worker is executing
    counter,  \* transaction_counter: the next nonce to allocate
    mempool,  \* signed transactions some node has accepted
    chain,    \* chain[n + 1] is what consumed nonce n
    health,   \* a nonce-health job is queued
    api       \* user operations still to come

vars == <<txs, jobs, wk, counter, mempool, chain, health, api>>

-----------------------------------------------------------------------------
(* Data *)

Finals   == {"Confirmed", "Failed", "Expired", "Canceled"}
Statuses == {"Pending", "Sent", "Submitted", "Mined"} \cup Finals
Contents == {"orig", "repl", "noop"}
Nonces   == 0 .. MaxNonce
Prices   == 1 .. MaxPrice
JobKinds == {"request", "submit", "resubmit", "status", "recover"}
Jobs     == [kind : JobKinds, tx : Txs]

\* A signed transaction.  Its hash and its raw bytes both stand for all of it.
Hashes == [tx : Txs, kind : Contents, nonce : Nonces, price : Prices]

ASSUME HashAssumption == Other \notin Hashes /\ None \notin Hashes

\* EvmTransactionData: make_noop changes the content and leaves raw and hash alone.
Data == [nonce : Nonces \cup {None}, kind : Contents, price : Prices \cup {0},
         raw : Hashes \cup {None}, hash : Hashes \cup {None}]

Transactions == [status : Statuses \cup {"Absent"}, data : Data, hashes : Seq(Hashes),
                 canceled : BOOLEAN, sentAt : BOOLEAN]

NoTx == [status |-> "Absent", hashes |-> <<>>, canceled |-> FALSE, sentAt |-> FALSE,
         data |-> [nonce |-> None, kind |-> "orig", price |-> 0, raw |-> None, hash |-> None]]

PCs == {"idle", "request", "presign", "sign", "submit", "submitted", "resubmit", "resent",
        "kept", "status", "nonce", "check", "act", "cancel", "replace"}

Idle == [pc |-> "idle", kind |-> "none", tx |-> None, snap |-> NoTx,
         nonce |-> None, sig |-> None, seen |-> "Absent"]

WorkerStates ==
    [pc : PCs, kind : JobKinds \cup ApiOps \cup {"none"}, tx : Txs \cup {None},
     snap : Transactions, nonce : Nonces \cup {None}, sig : Hashes \cup {None},
     seen : Statuses \cup {"Absent"}]

Entries == [hash : Hashes \cup {Other}, ok : BOOLEAN, conf : BOOLEAN]

is_final_state(s)         == s \in Finals
is_active_nonce_status(s) == s \in {"Pending", "Sent", "Submitted", "Mined"}
is_noop(d)                == d.kind = "noop"
make_noop(d)              == [d EXCEPT !.kind = "noop"]

-----------------------------------------------------------------------------
(* Repository, queues and chain *)

\* What partial_update stores and returns for a patch that carries a status.
\* A patch without a status is applied whatever the stored status is.
\* (Mut_* operators are faulty variants that the properties must tell apart.)
Mut_NoFinalGuard(cur, new) == new

WithStatus(cur, new) == IF FinalGuard /\ is_final_state(cur.status) THEN cur ELSE new

Job(w)     == [kind |-> wk[w].kind, tx |-> wk[w].tx]
StatusJob(t) == [kind |-> "status", tx |-> t]
RequestJob(t) == [kind |-> "request", tx |-> t]
SubmitJob(t) == [kind |-> "submit", tx |-> t]
ResubmitJob(t) == [kind |-> "resubmit", tx |-> t]
RecoverJob(t) == [kind |-> "recover", tx |-> t]

At(w, pc)  == wk[w].pc = pc
Done(w)    == wk' = [wk EXCEPT ![w] = Idle]
Goto(w, p) == wk' = [wk EXCEPT ![w].pc = p]

\* Enqueuing either works or, in an instance with queue faults, fails.
Enqueued(j) == {jobs \cup {j}} \cup (IF "queue" \in Faults THEN {jobs} ELSE {})

\* get_transaction_count, get_transaction_receipt
OnChainNonce == Len(chain)
Mined(h)     == h.nonce < Len(chain) /\ chain[h.nonce + 1].hash = h

\* What a node may answer to eth_sendRawTransaction.  "known" stands for
\* AlreadyKnown and ReplacementUnderpriced, which the handlers treat alike;
\* "timeout" is an error reported although the node accepted the transaction.
SendOutcomes(h) ==
    {o \in {"low"} : h.nonce < OnChainNonce}
    \cup {o \in {"ok"} : h.nonce >= OnChainNonce /\ h \notin mempool}
    \cup {o \in {"known"} : h.nonce >= OnChainNonce
             /\ (h \in mempool \/ \E g \in mempool : g.nonce = h.nonce /\ g.price >= h.price)}
    \cup {o \in {"high"} : h.nonce > OnChainNonce}
    \cup {o \in {"other"} : "rpc" \in Faults}
    \cup {o \in {"timeout"} : "timeout" \in Faults /\ h.nonce >= OnChainNonce}

\* schedule_nonce_recovery_status_check: the queue after a nonce-too-low answer.
Mut_NoRecovery(t) == {jobs}

schedule_nonce_recovery_status_check(t) == Enqueued(RecoverJob(t))

Broadcast(h, o) == mempool' = IF o \in {"ok", "timeout"} THEN mempool \cup {h} ELSE mempool

-----------------------------------------------------------------------------
(* API: create *)

\* process_transaction_request: store, push the status check, then the request.
\* When the status queue fails the record is set to Failed; a failure of that
\* write, too, is logged and leaves the record Pending.
CreateTransaction(t) ==
    /\ txs[t].status = "Absent"
    /\ \/ /\ txs' = [txs EXCEPT ![t].status = "Pending"]
          /\ \E push \in {TRUE} \cup {b \in {FALSE} : "queue" \in Faults} :
                jobs' = jobs \cup {StatusJob(t)} \cup (IF push THEN {RequestJob(t)} ELSE {})
       \/ /\ "queue" \in Faults
          /\ txs' = [txs EXCEPT ![t].status = "Failed"]
          /\ UNCHANGED jobs
       \/ /\ {"queue", "db"} \subseteq Faults
          /\ txs' = [txs EXCEPT ![t].status = "Pending"]
          /\ UNCHANGED jobs
    /\ UNCHANGED <<wk, counter, mempool, chain, health, api>>

-----------------------------------------------------------------------------
(* Taking a job: the handler fetches the transaction and runs on that copy *)

EntryPoint(kind) == IF kind = "recover" THEN "status" ELSE kind

Take(w, j) ==
    /\ At(w, "idle")
    /\ j \in jobs
    /\ j.kind \in Concurrent
          \/ \A v \in Workers : ~(wk[v].kind = j.kind /\ wk[v].tx = j.tx)
    \* a kind in Concurrent may also be delivered again while it is running
    /\ jobs' \in {jobs \ {j}} \cup {q \in {jobs} : j.kind \in Concurrent}
    /\ wk' = [wk EXCEPT ![w] = [Idle EXCEPT !.pc = EntryPoint(j.kind), !.kind = j.kind,
                                            !.tx = j.tx, !.snap = txs[j.tx]]]
    /\ UNCHANGED <<txs, counter, mempool, chain, health, api>>

\* The process dies: the queue redelivers the job, an API call is lost.
Crash(w) ==
    /\ "crash" \in Faults
    /\ ~At(w, "idle")
    /\ jobs' = IF wk[w].kind \in JobKinds THEN jobs \cup {Job(w)} ELSE jobs
    /\ Done(w)
    /\ UNCHANGED <<txs, counter, mempool, chain, health, api>>

-----------------------------------------------------------------------------
(* prepare_transaction *)

PrepareSkip(w) ==
    /\ At(w, "request")
    /\ wk[w].snap.status # "Pending"
    /\ Done(w)
    /\ UNCHANGED <<txs, jobs, counter, mempool, chain, health, api>>

\* An error is retried by the queue until the attempts run out.
PrepareError(w) ==
    /\ At(w, "request") \/ At(w, "presign") \/ At(w, "sign")
    /\ wk[w].snap.status = "Pending" \/ ~At(w, "request")
    /\ At(w, "request") => Faults \cap {"rpc", "db"} # {}
    /\ At(w, "presign") => "db" \in Faults
    /\ At(w, "sign")    => Faults \cap {"signer", "db"} # {}
    /\ jobs' \in {jobs, jobs \cup {Job(w)}}
    /\ Done(w)
    /\ UNCHANGED <<txs, counter, mempool, chain, health, api>>

\* Gas limit above the block's, or not enough balance.
PrepareReject(w) ==
    /\ At(w, "request")
    /\ wk[w].snap.status = "Pending"
    /\ txs' = [txs EXCEPT ![wk[w].tx] = WithStatus(@, [@ EXCEPT !.status = "Failed"])]
    /\ Done(w)
    /\ UNCHANGED <<jobs, counter, mempool, chain, health, api>>

\* The nonce is not stored before signing.
Mut_NoPresign(w) ==
    /\ At(w, "request") /\ wk[w].snap.status = "Pending"
    /\ counter <= MaxNonce /\ counter' = counter + 1
    /\ Goto(w, "sign")
    /\ UNCHANGED <<txs, jobs, mempool, chain, health, api>>

\* Neither the status nor a stored nonce stops a second allocation.
Mut_FreshNonce(w) ==
    /\ At(w, "request")
    /\ counter <= MaxNonce /\ counter' = counter + 1
    /\ wk' = [wk EXCEPT ![w].nonce = counter, ![w].pc = "presign"]
    /\ UNCHANGED <<txs, jobs, mempool, chain, health, api>>

\* A nonce kept from an earlier attempt is reused; otherwise one is allocated.
PrepareNonce(w) ==
    /\ At(w, "request")
    /\ wk[w].snap.status = "Pending"
    /\ IF wk[w].snap.data.nonce # None
         THEN Goto(w, "sign") /\ UNCHANGED counter
         ELSE /\ counter <= MaxNonce
              /\ counter' = counter + 1
              /\ wk' = [wk EXCEPT ![w].nonce = counter, ![w].pc = "presign"]
    /\ UNCHANGED <<txs, jobs, mempool, chain, health, api>>

\* The nonce is stored before signing; the patch carries no status.
PreparePresign(w) ==
    /\ At(w, "presign")
    /\ LET t == wk[w].tx
           d == [wk[w].snap.data EXCEPT !.nonce = wk[w].nonce, !.price = 1]
           r == [txs[t] EXCEPT !.data = d]
       IN  /\ txs' = [txs EXCEPT ![t] = r]
           /\ wk' = [wk EXCEPT ![w].snap = r, ![w].pc = "sign"]
    /\ UNCHANGED <<jobs, counter, mempool, chain, health, api>>

Sign(t, d) == [tx |-> t, kind |-> d.kind, nonce |-> d.nonce, price |-> d.price]

with_signed_transaction_data(d, h) == [d EXCEPT !.raw = h, !.hash = h]

\* Sign, store as Sent with the new hash, queue the submission.
PrepareSign(w) ==
    /\ At(w, "sign")
    /\ LET t == wk[w].tx
           d == [wk[w].snap.data EXCEPT !.price = 1]
           h == Sign(t, d)
       IN  txs' = [txs EXCEPT ![t] = WithStatus(@,
                     [@ EXCEPT !.status = "Sent", !.data = with_signed_transaction_data(d, h),
                               !.hashes = Append(wk[w].snap.hashes, h)])]
    /\ jobs' \in Enqueued(SubmitJob(wk[w].tx))
    /\ Done(w)
    /\ UNCHANGED <<counter, mempool, chain, health, api>>

-----------------------------------------------------------------------------
(* submit_transaction *)

CanSend(w) == wk[w].snap.status \in {"Sent", "Submitted"}

\* Wrong status: nothing to do.  No signed bytes: an error, and submission
\* jobs have no retries.
SubmitSkip(w) ==
    /\ At(w, "submit")
    /\ ~CanSend(w) \/ wk[w].snap.data.raw = None
    /\ Done(w)
    /\ UNCHANGED <<txs, jobs, counter, mempool, chain, health, api>>

Submit(w) ==
    /\ At(w, "submit")
    /\ CanSend(w)
    /\ wk[w].snap.data.raw # None
    /\ \E o \in SendOutcomes(wk[w].snap.data.raw) :
          /\ Broadcast(wk[w].snap.data.raw, o)
          /\ IF o \in {"ok", "known"} THEN Goto(w, "submitted") ELSE Done(w)
          /\ jobs' \in IF o = "low" THEN schedule_nonce_recovery_status_check(wk[w].tx)
                       ELSE {jobs}
          \* handle_nonce_too_high queues a health job once its retries are used up
          /\ health' \in IF o = "high" THEN {health, TRUE} ELSE {health}
    /\ UNCHANGED <<txs, counter, chain, api>>

\* A failing write after the broadcast is logged and swallowed.
SubmitUpdate(w) ==
    /\ At(w, "submitted")
    /\ \/ txs' = [txs EXCEPT ![wk[w].tx] =
                    WithStatus(@, [@ EXCEPT !.status = "Submitted", !.sentAt = TRUE])]
       \/ "db" \in Faults /\ UNCHANGED txs
    /\ Done(w)
    /\ UNCHANGED <<jobs, counter, mempool, chain, health, api>>

-----------------------------------------------------------------------------
(* resubmit_transaction *)

\* calculate_bumped_gas_price is forced past the cap for a NOOP.  Networks without a
\* mempool, where a resubmission keeps the market's price, are not modelled.
CanBump(d) == is_noop(d) \/ d.price < GasPriceCap

Bumped(d) == [d EXCEPT !.price = IF @ < MaxPrice THEN @ + 1 ELSE MaxPrice]

ResubmitSkip(w) ==
    /\ At(w, "resubmit")
    /\ \/ ~CanSend(w)
       \/ ~CanBump(wk[w].snap.data)
       \/ wk[w].snap.data.nonce = None
       \/ Faults \cap {"rpc", "signer"} # {}   \* price, balance or signing error
    /\ Done(w)
    /\ UNCHANGED <<txs, jobs, counter, mempool, chain, health, api>>

\* The bumped transaction is broadcast before it is stored.
Resubmit(w) ==
    /\ At(w, "resubmit")
    /\ CanSend(w)
    /\ CanBump(wk[w].snap.data)
    /\ wk[w].snap.data.nonce # None
    /\ LET h == Sign(wk[w].tx, Bumped(wk[w].snap.data))
       IN  \E o \in SendOutcomes(h) :
              /\ Broadcast(h, o)
              /\ wk' = [wk EXCEPT ![w] =
                    IF o = "ok" THEN [@ EXCEPT !.sig = h, !.pc = "resent"]
                    ELSE IF o \in {"known", "low"} THEN [@ EXCEPT !.pc = "kept"]
                    ELSE Idle]
              /\ jobs' \in IF o = "low" THEN schedule_nonce_recovery_status_check(wk[w].tx)
                       ELSE {jobs}
              /\ health' \in IF o = "high" THEN {health, TRUE} ELSE {health}
    /\ UNCHANGED <<txs, counter, chain, api>>

\* The stored record after a resubmission was accepted: h is signed from snapshot s.
Mut_HashNotPushed(cur, s, h) ==
    [cur EXCEPT !.status = "Submitted", !.sentAt = TRUE, !.hashes = s.hashes,
                !.data = with_signed_transaction_data(Bumped(s.data), h)]

Resent(cur, s, h) ==
    [cur EXCEPT !.status = "Submitted", !.sentAt = TRUE, !.hashes = Append(s.hashes, h),
                !.data = with_signed_transaction_data(Bumped(s.data), h)]

ResubmitUpdate(w) ==
    /\ At(w, "resent") \/ At(w, "kept")
    /\ \/ txs' = [txs EXCEPT ![wk[w].tx] = WithStatus(@,
              IF At(w, "resent") THEN Resent(@, wk[w].snap, wk[w].sig)
                                 ELSE [@ EXCEPT !.status = "Submitted"])]
       \/ "db" \in Faults /\ UNCHANGED txs
    /\ Done(w)
    /\ UNCHANGED <<jobs, counter, mempool, chain, health, api>>

-----------------------------------------------------------------------------
(* cancel_transaction and replace_transaction *)

StartApi(w, op, t) ==
    /\ At(w, "idle")
    /\ op \in api
    /\ txs[t].status \in {"Pending", "Sent", "Submitted"}
    /\ api' = api \ {op}
    /\ wk' = [wk EXCEPT ![w] = [Idle EXCEPT !.pc = op, !.kind = op, !.tx = t,
                                            !.snap = txs[t]]]
    /\ UNCHANGED <<txs, jobs, counter, mempool, chain, health>>

\* prepare_noop_update_request: the snapshot's data turned into a NOOP.
NoopUpdate(cur, s, cancel) ==
    [cur EXCEPT !.data = make_noop(s.data), !.canceled = cancel \/ s.canceled]

Cancel(w) ==
    /\ At(w, "cancel")
    /\ LET t == wk[w].tx
           s == wk[w].snap
       IN  IF s.status = "Pending"
             THEN /\ txs' = [txs EXCEPT ![t] = WithStatus(@, [@ EXCEPT !.status = "Canceled"])]
                  /\ UNCHANGED jobs
             ELSE /\ txs' = [txs EXCEPT ![t] = NoopUpdate(@, s, TRUE)]
                  /\ jobs' \in Enqueued(ResubmitJob(t))
    /\ Done(w)
    /\ UNCHANGED <<counter, mempool, chain, health, api>>

\* The replacement is signed and stored; its hash is not added to hashes.
\* Without a nonce, or past the price bound, the request is refused.
Replace(w) ==
    /\ At(w, "replace")
    /\ LET t == wk[w].tx
           d == [Bumped(wk[w].snap.data) EXCEPT !.kind = "repl"]
       IN  IF wk[w].snap.data.nonce # None /\ CanBump(wk[w].snap.data)
             THEN /\ txs' = [txs EXCEPT ![t].data =
                                with_signed_transaction_data(d, Sign(t, d))]
                  /\ jobs' \in Enqueued(ResubmitJob(t))
             ELSE UNCHANGED <<txs, jobs>>
    /\ Done(w)
    /\ UNCHANGED <<counter, mempool, chain, health, api>>

-----------------------------------------------------------------------------
(* Status checks: transaction_status_handler and handle_status_impl *)

\* The job completes when the returned transaction is final; otherwise it is
\* retried, as it is after an error.
Mut_MinedIsFinal(w, r) ==
    IF r.status \in Finals \cup {"Mined"} THEN jobs ELSE jobs \cup {Job(w)}

Keep(w, r) == IF is_final_state(r.status) THEN jobs ELSE jobs \cup {Job(w)}

StatusEnd(w, r) == Done(w) /\ jobs' = Keep(w, r)

\* The check also queues job j; a failing queue makes the check itself an error.
StatusEndWith(w, r, j) ==
    /\ Done(w)
    /\ jobs' \in {Keep(w, r) \cup {j}}
                \cup (IF "queue" \in Faults THEN {jobs \cup {Job(w)}} ELSE {})

StatusFinal(w) ==
    /\ At(w, "status")
    /\ is_final_state(wk[w].snap.status)
    /\ StatusEnd(w, wk[w].snap)
    /\ UNCHANGED <<txs, counter, mempool, chain, health, api>>

\* handle_circuit_breaker_safely, once the failure counters have tripped.
CircuitBreaker(w) ==
    /\ "breaker" \in Faults
    /\ At(w, "status")
    /\ LET t == wk[w].tx
           s == wk[w].snap
           noop == \/ s.status = "Submitted"
                   \/ s.status = "Sent" /\ s.data.nonce # None
           fail == s.status \in {"Pending", "Sent"} /\ ~noop
           r == IF fail THEN WithStatus(txs[t], [txs[t] EXCEPT !.status = "Failed"])
                ELSE IF noop THEN NoopUpdate(txs[t], s, FALSE) ELSE s
       IN  /\ ~is_final_state(s.status)
           /\ ~is_noop(s.data)
           /\ txs' = IF fail \/ noop THEN [txs EXCEPT ![t] = r] ELSE txs
           /\ IF noop THEN StatusEndWith(w, r, ResubmitJob(t)) ELSE StatusEnd(w, r)
    /\ UNCHANGED <<counter, mempool, chain, health, api>>

\* reconcile_tx_nonce_state, steps 1 and 2: look for a receipt of the current
\* hash, then of the historical ones.  An error on the current hash is
\* remembered and keeps the handler out of step 3; an error on a historical
\* hash is not.
Mut_NoHistory(s) == {}

HistoricalMined(s) == {h \in {s.hashes[i] : i \in DOMAIN s.hashes} : h # s.data.hash /\ Mined(h)}

\* update_transaction_with_corrected_hash
Corrected(cur, s, h) ==
    WithStatus(cur, [cur EXCEPT !.status = "Mined", !.data = [s.data EXCEPT !.hash = h]])

ReconcileHashes(w) ==
    /\ At(w, "status")
    /\ wk[w].kind = "recover"
    /\ LET t == wk[w].tx
           s == wk[w].snap
           found == IF Len(s.hashes) > 1 THEN HistoricalMined(s) ELSE {}
       IN  /\ ~is_final_state(s.status)
           /\ \/ /\ s.data.hash # None
                 /\ Mined(s.data.hash) \/ "rpc" \in Faults \/ (found # {} /\ "db" \in Faults)
                 /\ Goto(w, "check")
                 /\ UNCHANGED <<txs, jobs>>
              \/ /\ s.data.hash # None => ~Mined(s.data.hash)
                 /\ \E h \in found :
                       /\ txs' = [txs EXCEPT ![t] = Corrected(@, s, h)]
                       /\ StatusEnd(w, Corrected(txs[t], s, h))
              \/ /\ s.data.hash # None => ~Mined(s.data.hash)
                 /\ found = {} \/ "hashrpc" \in Faults
                 /\ Goto(w, "nonce")
                 /\ UNCHANGED <<txs, jobs>>
    /\ UNCHANGED <<counter, mempool, chain, health, api>>

\* Step 3: the nonce is gone and none of the known hashes has it.  Failing to
\* read the nonce, or to store the outcome, falls through to the normal check.
ReconcileNonce(w) ==
    /\ At(w, "nonce")
    /\ LET t == wk[w].tx
           s == wk[w].snap
           r == WithStatus(txs[t], [txs[t] EXCEPT !.status = "Failed"])
           consumed == s.data.nonce # None /\ OnChainNonce > s.data.nonce
       IN  \/ /\ consumed
              /\ txs' = [txs EXCEPT ![t] = r]
              /\ StatusEnd(w, r)
              /\ health' \in {TRUE, health}   \* debounced, best effort
           \/ /\ ~consumed \/ Faults \cap {"rpc", "db"} # {}
              /\ Goto(w, "check")
              /\ UNCHANGED <<txs, jobs, health>>
    /\ UNCHANGED <<counter, mempool, chain, api>>

Mut_AnyReceiptConfirms(s) ==
    LET r == chain[s.data.hash.nonce + 1]
    IN  IF ~r.ok THEN "Failed"
        ELSE IF s.canceled /\ s.data.hash.kind = "noop" THEN "Canceled"
        ELSE "Confirmed"

Mut_RecordNotReceipt(s) ==
    LET r == chain[s.data.hash.nonce + 1]
    IN  IF ~r.ok THEN "Failed"
        ELSE IF ~r.conf THEN "Mined"
        ELSE IF s.canceled /\ is_noop(s.data) THEN "Canceled"
        ELSE "Confirmed"

\* The status a receipt means, check_transaction_status.
ReceiptStatus(s) ==
    LET r == chain[s.data.hash.nonce + 1]
    IN  IF ~r.ok THEN "Failed"
        ELSE IF ~r.conf THEN "Mined"
        ELSE IF s.canceled /\ s.data.hash.kind = "noop" THEN "Canceled"
        ELSE "Confirmed"

Checking(w) == At(w, "check") \/ (At(w, "status") /\ wk[w].kind = "status")

\* check_transaction_status, and the reload when the status differs.
Check(w) ==
    /\ Checking(w)
    /\ LET t == wk[w].tx
           s == wk[w].snap
           See(st, cur) == wk' = [wk EXCEPT ![w].seen = st, ![w].pc = "act",
                                            ![w].snap = IF st = s.status THEN s ELSE cur]
       IN  /\ ~is_final_state(s.status)
           /\ \/ s.status \in {"Pending", "Sent"} /\ See(s.status, s) /\ UNCHANGED txs
              \/ /\ s.status \in {"Submitted", "Mined"} /\ s.data.hash # None
                 /\ Mined(s.data.hash)
                 /\ See(ReceiptStatus(s), txs[t])
                 /\ UNCHANGED txs
              \/ /\ s.status \in {"Submitted", "Mined"} /\ s.data.hash # None
                 /\ ~Mined(s.data.hash)
                 /\ \/ /\ s.status = "Submitted" /\ s.sentAt
                       /\ Len(s.hashes) >= MinHashesForRecovery
                       /\ \E h \in HistoricalMined(s) :
                             LET r == Corrected(txs[t], s, h)
                             IN  txs' = [txs EXCEPT ![t] = r] /\ See(r.status, r)
                    \/ /\ s.status = "Submitted" /\ Len(s.hashes) > 1 => s.sentAt
                       /\ See("Submitted", txs[t])
                       /\ UNCHANGED txs
    /\ UNCHANGED <<jobs, counter, mempool, chain, health, api>>

\* The check fails: an RPC or repository error, a Submitted transaction without
\* hash, or should_resubmit on one without sent_at or, after the reload, not
\* Submitted.
CheckError(w) ==
    /\ LET s == wk[w].snap
       IN  \/ /\ Checking(w)
              /\ s.status \in {"Submitted", "Mined"}
              /\ \/ "rpc" \in Faults
                 \/ s.data.hash = None
                 \/ s.status = "Submitted" /\ Len(s.hashes) > 1 /\ ~s.sentAt
           \/ /\ At(w, "act")
              /\ \/ wk[w].seen = "Submitted" /\ (s.status # "Submitted" \/ ~s.sentAt)
                 \/ "db" \in Faults
    /\ Done(w)
    /\ jobs' = jobs \cup {Job(w)}
    /\ UNCHANGED <<txs, counter, mempool, chain, health, api>>

\* Receipts decided, or nothing is due yet: update_transaction_status_if_needed.
ActUpdate(w) ==
    /\ At(w, "act")
    /\ LET t == wk[w].tx
           r == IF wk[w].snap.status = wk[w].seen THEN wk[w].snap
                ELSE WithStatus(txs[t], [txs[t] EXCEPT !.status = wk[w].seen])
       IN  /\ txs' = IF wk[w].snap.status = wk[w].seen THEN txs ELSE [txs EXCEPT ![t] = r]
           /\ StatusEnd(w, r)
    /\ UNCHANGED <<counter, mempool, chain, health, api>>

\* handle_pending_state: expired or stuck too long, or queue the preparation again.
ActPending(w) ==
    /\ At(w, "act")
    /\ wk[w].seen = "Pending"
    /\ \/ LET r == WithStatus(txs[wk[w].tx], [txs[wk[w].tx] EXCEPT !.status = "Failed"])
          IN  /\ ~is_noop(wk[w].snap.data)
              /\ txs' = [txs EXCEPT ![wk[w].tx] = r]
              /\ StatusEnd(w, r)
       \/ /\ StatusEndWith(w, wk[w].snap, RequestJob(wk[w].tx))
          /\ UNCHANGED txs
    /\ UNCHANGED <<counter, mempool, chain, health, api>>

\* detect_nonce_gap_ahead: some nonce before this one is neither consumed nor
\* held by an active transaction.
GapAhead(d) ==
    d.nonce # None
    /\ \E n \in OnChainNonce .. d.nonce - 1 :
          ~\E t \in Txs : txs[t].data.nonce = n /\ is_active_nonce_status(txs[t].status)

Stuck(w, st) ==
    /\ At(w, "act") /\ wk[w].seen = st /\ wk[w].snap.status = st
    /\ st = "Submitted" => wk[w].snap.sentAt

\* should_noop says the transaction expired or was tried too often.  The NOOP of
\* a Sent transaction is queued with a submit job, not a resubmit job.
ActNoop(w, st) ==
    /\ Stuck(w, st)
    /\ LET t == wk[w].tx
           s == wk[w].snap
           r == NoopUpdate(txs[t], s, FALSE)
       IN  /\ ~is_noop(s.data)
           /\ st = "Sent" \/ ~GapAhead(s.data) \/ "rpc" \in Faults
           /\ txs' = [txs EXCEPT ![t] = r]
           /\ StatusEndWith(w, r, IF st = "Sent" THEN SubmitJob(t) ELSE ResubmitJob(t))
    /\ UNCHANGED <<counter, mempool, chain, health, api>>

\* detect_nonce_gap_ahead queues a (debounced) nonce-health job instead of a resubmission.
ActGap(w, st) ==
    /\ Stuck(w, st)
    /\ GapAhead(wk[w].snap.data)
    /\ health' \in {TRUE, health}
    /\ StatusEnd(w, wk[w].snap)
    /\ UNCHANGED <<txs, counter, mempool, chain, api>>

ActResubmit(w, st) ==
    /\ Stuck(w, st)
    /\ ~GapAhead(wk[w].snap.data) \/ "rpc" \in Faults
    /\ StatusEndWith(w, wk[w].snap, ResubmitJob(wk[w].tx))
    /\ UNCHANGED <<txs, counter, mempool, chain, health, api>>

-----------------------------------------------------------------------------
(* Environment: the chain, other senders, the nonce-health job *)

Mine(h) ==
    /\ h \in mempool
    /\ h.nonce = OnChainNonce
    /\ \E ok \in {TRUE} \cup {b \in {FALSE} : "revert" \in Faults /\ h.kind # "noop"} :
          chain' = Append(chain, [hash |-> h, ok |-> ok, conf |-> FALSE])
    /\ UNCHANGED <<txs, jobs, wk, counter, mempool, health, api>>

OtherMined ==
    /\ "other" \in Faults
    /\ OnChainNonce <= MaxNonce
    /\ chain' = Append(chain, [hash |-> Other, ok |-> TRUE, conf |-> TRUE])
    /\ UNCHANGED <<txs, jobs, wk, counter, mempool, health, api>>

Confirm(i) ==
    /\ i \in DOMAIN chain
    /\ ~chain[i].conf
    /\ chain' = [chain EXCEPT ![i].conf = TRUE]
    /\ UNCHANGED <<txs, jobs, wk, counter, mempool, health, api>>

\* What the nonce-health job does that this module sees: it raises the counter
\* to the chain's nonce.  Module EvmNonce has the job itself.
NonceHealth ==
    /\ health
    /\ health' = FALSE
    /\ counter' = IF counter < OnChainNonce THEN OnChainNonce ELSE counter
    /\ UNCHANGED <<txs, jobs, wk, mempool, chain, api>>

-----------------------------------------------------------------------------
Init ==
    /\ txs = [t \in Txs |-> NoTx]
    /\ jobs = {}
    /\ wk = [w \in Workers |-> Idle]
    /\ counter = 0
    /\ mempool = {}
    /\ chain = <<>>
    /\ health = FALSE
    /\ api = ApiOps

Prepare(w)  == PrepareSkip(w) \/ PrepareError(w) \/ PrepareReject(w) \/ PrepareNonce(w)
               \/ PreparePresign(w) \/ PrepareSign(w)
Send(w)     == SubmitSkip(w) \/ Submit(w) \/ SubmitUpdate(w)
               \/ ResubmitSkip(w) \/ Resubmit(w) \/ ResubmitUpdate(w)
UserOp(w)   == Cancel(w) \/ Replace(w)
Status(w)   == StatusFinal(w) \/ CircuitBreaker(w) \/ ReconcileHashes(w) \/ ReconcileNonce(w)
               \/ Check(w) \/ CheckError(w) \/ ActUpdate(w) \/ ActPending(w)
               \/ \E st \in {"Sent", "Submitted"} :
                     ActNoop(w, st) \/ ActGap(w, st) \/ ActResubmit(w, st)

Next ==
    \/ \E t \in Txs : CreateTransaction(t)
    \/ \E w \in Workers, j \in jobs : Take(w, j)
    \/ \E w \in Workers : Crash(w) \/ Prepare(w) \/ Send(w) \/ UserOp(w) \/ Status(w)
    \/ \E w \in Workers, op \in ApiOps, t \in Txs : StartApi(w, op, t)
    \/ \E h \in mempool : Mine(h)
    \/ \E i \in DOMAIN chain : Confirm(i)
    \/ OtherMined
    \/ NonceHealth

Spec == Init /\ [][Next]_vars

\* Queues deliver every job in the end, a running handler is not abandoned, the
\* age thresholds behind a NOOP or a resubmission are passed as time goes on, the
\* chain mines and confirms what it can.
Fairness ==
    /\ \A w \in Workers :
          /\ WF_vars(Prepare(w) \/ Send(w) \/ UserOp(w) \/ Status(w))
          /\ \A j \in Jobs : SF_vars(Take(w, j))
          /\ SF_vars(\E st \in {"Sent", "Submitted"} : ActNoop(w, st))
          /\ SF_vars(\E st \in {"Sent", "Submitted"} : ActResubmit(w, st))
    /\ WF_vars(\E h \in mempool : Mine(h))
    /\ WF_vars(\E i \in DOMAIN chain : Confirm(i))
    /\ WF_vars(NonceHealth)

FairSpec == Spec /\ Fairness

-----------------------------------------------------------------------------
(* Properties *)

\* Every variable has its type; in particular nothing is ever signed without a
\* nonce (prepare_transaction stores one before it signs).
TypeOK ==
    /\ txs \in [Txs -> Transactions]
    /\ jobs \subseteq Jobs
    /\ wk \in [Workers -> WorkerStates]
    /\ counter \in Nat
    /\ mempool \subseteq Hashes
    /\ chain \in Seq(Entries)
    /\ health \in BOOLEAN
    /\ api \subseteq ApiOps

OwnEntry(t, i)  == chain[i].hash # Other /\ chain[i].hash.tx = t
Executed(t, i)  == OwnEntry(t, i) /\ chain[i].hash.kind # "noop" /\ chain[i].ok

\* No transaction takes effect twice: whatever prepare_transaction, resubmit and
\* replace signed and broadcast for it competes for one nonce.
NoDoubleExecution ==
    \A t \in Txs : \A i, j \in DOMAIN chain : OwnEntry(t, i) /\ OwnEntry(t, j) => i = j

\* A worker with a stale snapshot never moves a transaction out of a final status
\* (the guard in the Lua script of partial_update).
FinalIsForever ==
    [][\A t \in Txs : is_final_state(txs[t].status) => txs'[t].status = txs[t].status]_vars

\* Every transaction that is not final is still being watched: its status job
\* is queued or being executed (transaction_status_handler retries until final).
MonitoredUntilFinal ==
    \A t \in Txs :
        txs[t].status = "Absent" \/ is_final_state(txs[t].status)
        \/ StatusJob(t) \in jobs
        \/ \E w \in Workers : wk[w].kind = "status" /\ wk[w].tx = t

\* check_transaction_status reports Mined and Confirmed only of a transaction
\* whose own bytes consumed a nonce; Confirmed only when they succeeded and were
\* confirmed.
ReportedIsOnChain ==
    \A t \in Txs :
        /\ txs[t].status \in {"Mined", "Confirmed"} => \E i \in DOMAIN chain : OwnEntry(t, i)
        /\ txs[t].status = "Confirmed" =>
              \E i \in DOMAIN chain : OwnEntry(t, i) /\ chain[i].ok /\ chain[i].conf

NotExecuted(status) ==
    \A t \in Txs : txs[t].status = status => \A i \in DOMAIN chain : ~Executed(t, i)

\* A transaction reported Failed did not take effect: reconcile_tx_nonce_state
\* looks at every hash it may have been mined under before it gives up.
FailedNotExecuted == NotExecuted("Failed")

\* A transaction reported Canceled did not take effect: check_transaction_status
\* looks at what was mined, not at what the record says.
CanceledNotExecuted == NotExecuted("Canceled")

\* check_transaction_status or try_recover_with_historical_hashes can find h.
Knows(r, h) == h = r.data.hash \/ \E i \in DOMAIN r.hashes : r.hashes[i] = h

\* What a node may mine for a transaction is recorded before it is broadcast, a
\* resubmission right afterwards unless that store fails, and no handler's write from
\* an old snapshot makes the record forget it, whatever crashes or answers are lost.
NoHashForgotten ==
    [][/\ \A h \in mempool' :
             \/ Knows(txs'[h.tx], h)
             \/ h \in mempool /\ ~Knows(txs[h.tx], h)
             \/ h \notin mempool /\ \E w \in Workers : At(w, "resubmit") /\ wk[w].tx = h.tx
       /\ \A w \in Workers :
             At(w, "resent") /\ wk'[w] # wk[w] /\ txs' # txs
             => Knows(txs'[wk[w].tx], wk[w].sig)]_vars

\* submit_transaction broadcasts what the record says: never the stale bytes of
\* the original once the record was turned into a NOOP.
SubmitSendsRecord ==
    [][\A w \in Workers :
          At(w, "submit") /\ mempool' # mempool /\ wk'[w] # wk[w]
          => wk[w].snap.data.raw.kind = wk[w].snap.data.kind]_vars

\* Every accepted transaction reaches a final status, whoever consumes its nonce
\* (handle_status_impl, with nonce recovery after a nonce-too-low answer).
EventuallyFinal ==
    \A t \in Txs : txs[t].status # "Absent" ~> is_final_state(txs[t].status)

=============================================================================
