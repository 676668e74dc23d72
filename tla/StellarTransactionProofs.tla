----------------------- MODULE StellarTransactionProofs -----------------------
(***************************************************************************)
(* Proofs about StellarTransaction, for any number of transactions,        *)
(* workers, sequences and failures: its types, the watch over every        *)
(* transaction, the one envelope that a transaction may have on its way,   *)
(* and the lane that a transaction in flight owns.                         *)
(***************************************************************************)
EXTENDS StellarTransaction, TLAPS

Syncing    == {"fetch", "floor", "bound", "cas"}
RequestPCs == {"request", "sequence", "sign", "fail", "find", "pass"} \cup Syncing
SubmitPCs  == {"submit", "store", "reset", "fail", "mark", "find", "pass"} \cup Syncing
StatusPCs  == {"status", "mark", "find", "pass"}

\* A worker is at a step of its job's handler.
Placed(k) ==
    \/ k.pc = "idle" /\ k.kind = "none" /\ k.tx = None
    \/ /\ k.tx \in Txs
       /\ \/ k.kind = "request" /\ k.pc \in RequestPCs
          \/ k.kind = "submit" /\ k.pc \in SubmitPCs
          \/ k.kind = "status" /\ k.pc \in StatusPCs

Types ==
    /\ TypeOK /\ Len(chain) <= MaxSeq
    /\ \A w \in Workers : Placed(wk[w])

\* The queue delivers a preparation and a submission once at a time (the FIFO groups of SQS), and
\* a node knows the envelopes that were applied.
Single == {"request", "submit"} \cap Concurrent = {} /\ "forget" \notin Faults

\* Not both a failing queue and a failing repository.
OneStore == ~({"queue", "db"} \subseteq Faults)

\* Two workers do not prepare, or submit, one transaction.
Exclusive ==
    \A v, w \in Workers :
        wk[v].kind = wk[w].kind /\ wk[v].tx = wk[w].tx /\ wk[v].kind \in {"request", "submit"} => v = w

Final(t) == is_final_state(txs[t].status)

\* What a worker knows to be final is, and it goes on to the handover only with a final
\* record; a preparation also when its failure could not be recorded.
FinalSeen(k) ==
    /\ is_final_state(k.snap.status) => Final(k.tx)
    /\ k.kind # "request" /\ k.pc \in {"find", "pass"} => Final(k.tx)

FinalInv == \A w \in Workers : ~At(w, "idle") => FinalSeen(wk[w])

\* The sequences of t's envelopes that a node holds or the ledger has applied.
Out(t) == {s \in Seqs : [tx |-> t, seq |-> s] \in mempool}
          \cup {s \in DOMAIN chain : chain[s].tx = t}

\* A record that may still be signed again knows the envelope that is out, if any is, and a
\* record without envelope is not in flight.
Known(t) ==
    /\ ~Final(t) => Out(t) \subseteq {txs[t].env}
    /\ \A a, b \in Out(t) : a = b
    /\ txs[t].status \in {"Absent", "Pending"} => txs[t].env = None

\* A preparation works on a record that is Pending still, unless it became final.
Unsigned(k) ==
    /\ k.kind = "request"
    /\ k.pc \in {"sequence", "sign"} \/ (k.pc = "request" /\ k.snap.status = "Pending")
    => txs[k.tx].status = "Pending" \/ Final(k.tx)

\* A submission has the only envelope there can be, and resets the record when that is
\* lost for certain.
Submitting(k) ==
    k.kind = "submit" =>
    /\ k.pc \in {"store", "reset"} => ~is_final_state(k.snap.status)
    /\ k.pc = "store" => k.snap.env # None
    /\ k.pc = "reset" => Out(k.tx) = {}
    /\ k.pc \in {"submit", "store"} /\ ~is_final_state(k.snap.status) =>
         /\ Out(k.tx) \subseteq {k.snap.env}
         /\ k.snap.env # None /\ ~Final(k.tx) => txs[k.tx].env = k.snap.env

EnvelopeInv ==
    /\ \A e \in mempool : e.seq # 0
    /\ \A t \in Txs : Known(t)
    /\ \A w \in Workers : ~At(w, "idle") => Unsigned(wk[w]) /\ Submitting(wk[w])

Gated == sequential /\ "restart" \notin faults

\* A preparation owns the lane it claimed, unless another handler ended the transaction.
Owner(k) ==
    k.kind = "request" =>
    /\ k.pc \in {"sequence", "sign"} /\ Gated => lane = k.tx \/ Final(k.tx)
    /\ k.pc \in Syncing \cup {"fail"} /\ "queue" \notin Faults =>
         txs[k.tx].status = "Pending" \/ Final(k.tx)
    /\ k.pc \in {"find", "pass"} => txs[k.tx].status = "Pending" \/ Final(k.tx)

LaneInv == InFlightOwnsLane /\ \A w \in Workers : ~At(w, "idle") => Owner(wk[w])

-----------------------------------------------------------------------------
(* Types. *)

\* Facts about the constants.
LEMMA Constants ==
    /\ MaxSeq \in Nat /\ None \notin Txs /\ None \notin Seqs /\ Txs \subseteq Nat
    /\ Seqs \subseteq Nat /\ Counts \subseteq Nat /\ 1 \in Counts
    /\ \A s \in Seqs : s + 1 \in Counts /\ s # 0
<1>1. MaxSeq \in Nat /\ Txs \subseteq Nat /\ None \notin Nat
  BY StellarAssumption
<1>2. Seqs \subseteq Nat /\ Counts \subseteq Nat /\ 1 \in Counts
      /\ \A s \in Seqs : s + 1 \in Counts /\ s # 0
  BY <1>1 DEF Seqs, Counts
<1> QED BY <1>1, <1>2

\* A worker without a job.
LEMMA IdleOK ==
    /\ Idle \in WorkerStates /\ Placed(Idle) /\ NoTx \in Records
    /\ Idle.pc = "idle" /\ Idle.kind = "none" /\ Idle.tx = None
<1>1. NoTx \in Records
  BY DEF NoTx, Records, Statuses
<1>2. Idle \in WorkerStates
  BY <1>1, Constants DEF Idle, WorkerStates, PCs, Finals
<1> QED BY <1>1, <1>2 DEF Idle, Placed

\* The variables that are not a worker's.
SharedOK ==
    /\ txs' \in [Txs -> Records] /\ lane' \in Txs \cup {None} /\ counter' \in Counts
    /\ jobs' \subseteq Jobs /\ mempool' \subseteq Envelopes
    /\ chain' \in Seq(Entries) /\ Len(chain') <= MaxSeq
    /\ newest' \in Txs \cup {None} /\ sequential' \in Modes /\ faults' \subseteq Faults

\* Worker w continues with k.
Goes(w, k) == wk' = [wk EXCEPT ![w] = k]

\* A step of one worker keeps the types if its new state and the shared variables have theirs.
LEMMA GoesTypes ==
    ASSUME Types, NEW w \in Workers, NEW k \in WorkerStates, Placed(k), Goes(w, k), SharedOK
    PROVE  Types'
<1>1. wk' \in [Workers -> WorkerStates]
  BY DEF Types, TypeOK, Goes
<1>2. \A v \in Workers : Placed(wk'[v])
  BY DEF Types, TypeOK, Goes
<1>3. \A v \in Workers : Placed(wk[v])'
  BY <1>2 DEF Placed
<1> QED BY <1>1, <1>3 DEF Types, TypeOK, SharedOK

\* A worker with a job, and its job.
LEMMA Working ==
    ASSUME Types, NEW w \in Workers, ~At(w, "idle")
    PROVE  /\ wk[w] \in WorkerStates /\ wk[w].tx \in Txs /\ wk[w].kind \in JobKinds
           /\ wk[w].snap \in Records /\ Placed(wk[w])
           /\ [kind |-> wk[w].kind, tx |-> wk[w].tx] \in Jobs
           /\ txs[wk[w].tx] \in Records
<1>1. wk[w] \in WorkerStates /\ Placed(wk[w]) /\ wk[w].pc # "idle"
  BY DEF Types, TypeOK, At
<1>2. wk[w].tx \in Txs /\ wk[w].kind \in JobKinds
  BY <1>1 DEF Placed, JobKinds
<1>3. wk[w].snap \in Records
  BY <1>1 DEF WorkerStates
<1>4. [kind |-> wk[w].kind, tx |-> wk[w].tx] \in Jobs
  BY <1>2 DEF Jobs
<1> QED BY <1>1, <1>2, <1>3, <1>4 DEF Types, TypeOK

\* The jobs of a transaction.
LEMMA JobsOK ==
    ASSUME NEW t \in Txs
    PROVE  RequestJob(t) \in Jobs /\ SubmitJob(t) \in Jobs /\ StatusJob(t) \in Jobs
BY DEF RequestJob, SubmitJob, StatusJob, Jobs, JobKinds

\* What is stored is a record.
LEMMA StoreOK ==
    ASSUME Types, NEW t \in Txs, NEW r \in Records
    PROVE  /\ WithStatus(txs[t], r) \in Records
           /\ [txs EXCEPT ![t] = WithStatus(@, r)] \in [Txs -> Records]
<1>1. WithStatus(txs[t], r) \in Records
  BY DEF WithStatus, Types, TypeOK
<1> QED BY <1>1 DEF Types, TypeOK

\* Setting a status.
LEMMA SetStatusOK ==
    ASSUME Types, NEW t \in Txs, NEW s \in Statuses, SetStatus(t, s)
    PROVE  /\ txs' = [txs EXCEPT ![t] = WithStatus(@, [txs[t] EXCEPT !.status = s])]
           /\ [txs[t] EXCEPT !.status = s] \in Records
           /\ txs' \in [Txs -> Records]
<1>1. txs[t] \in Records
  BY DEF Types, TypeOK
<1>2. [txs[t] EXCEPT !.status = s] \in Records
  BY <1>1 DEF Records
<1>3. txs' = [txs EXCEPT ![t] = WithStatus(txs[t], [txs[t] EXCEPT !.status = s])]
  BY DEF SetStatus
<1> QED BY <1>2, <1>3, StoreOK

\* Nothing shared changes.
LEMMA SharedKept ==
    ASSUME Types, UNCHANGED <<txs, lane, counter, jobs, mempool, chain, newest, sequential>>,
           UNCHANGED faults \/ faults' \subseteq Faults
    PROVE  SharedOK
BY DEF Types, TypeOK, SharedOK

\* A failure that is injected is one of the instance.
LEMMA FaultOK == ASSUME NEW f, Types, Fault(f) PROVE faults' \subseteq Faults /\ f \in Faults
BY DEF Fault, Types, TypeOK

\* A worker goes to another step of its handler.
LEMMA PcOK ==
    ASSUME Types, NEW w \in Workers, ~At(w, "idle"), NEW x \in PCs
    PROVE  LET k == [wk[w] EXCEPT !.pc = x]
           IN /\ k \in WorkerStates /\ k.pc = x /\ k.kind = wk[w].kind /\ k.tx = wk[w].tx
              /\ k.snap = wk[w].snap /\ k.seq = wk[w].seq
BY Working DEF WorkerStates

\* A worker that only changes its program counter.
LEMMA GotoOK ==
    ASSUME Types, NEW w \in Workers, NEW x, Goto(w, x)
    PROVE  Goes(w, [wk[w] EXCEPT !.pc = x])
BY DEF Goto, Goes, Types, TypeOK

\* sync_sequence_from_chain is left for the failure handler, or for good.
LEMMA ContinueOK ==
    ASSUME Types, NEW w \in Workers, wk[w].pc \in Syncing
    PROVE  /\ Continue(w) \in WorkerStates /\ Placed(Continue(w))
           /\ Continue(w).snap = NoTx
           /\ \/ Continue(w) = Idle
              \/ /\ Continue(w).pc = "fail" /\ Continue(w).kind = wk[w].kind
                 /\ Continue(w).tx = wk[w].tx
<1>1. ~At(w, "idle")
  BY DEF At, Syncing
<1>2. wk[w] \in WorkerStates /\ wk[w].tx \in Txs /\ wk[w].kind \in {"request", "submit"}
      /\ wk[w].then \in {"idle", "fail"}
  BY <1>1, Working DEF Placed, Syncing, StatusPCs, WorkerStates
<1>3. CASE wk[w].then = "idle"
  BY <1>3, IdleOK DEF Continue, Idle
<1>4. CASE wk[w].then = "fail"
  <2> DEFINE i == wk[w].kind
             t == wk[w].tx
             k == [Idle EXCEPT !.pc = "fail", !.kind = i, !.tx = t]
  <2>1. Continue(w) = k
    BY <1>4 DEF Continue
  <2>2. i \in {"request", "submit"} /\ t \in Txs
    BY <1>2
  <2> HIDE DEF i, t
  <2>3. k \in WorkerStates /\ k.pc = "fail" /\ k.kind = i /\ k.tx = t /\ k.snap = Idle.snap
    BY <2>2, IdleOK DEF WorkerStates, PCs, JobKinds
  <2> HIDE DEF k
  <2>4. Placed(k)
    BY <2>2, <2>3 DEF Placed, RequestPCs, SubmitPCs
  <2> QED BY <2>1, <2>3, <2>4 DEF i, t, Idle
<1> QED BY <1>2, <1>3, <1>4

-----------------------------------------------------------------------------
(* The forms of a worker's steps. *)

\* Worker w continues with k; jobs are only added.
Base(w, k) ==
    /\ Goes(w, k) /\ k \in WorkerStates /\ Placed(k) /\ SharedOK
    /\ UNCHANGED <<chain, sequential>> /\ jobs \subseteq jobs' /\ faults \subseteq faults'

Still(w, k) == Base(w, k) /\ UNCHANGED <<txs, lane, mempool>>

\* It stays with its job and its snapshot.
Same(w, k) == k.kind = wk[w].kind /\ k.tx = wk[w].tx /\ k.snap = wk[w].snap

\* It stores r.
Writes(w, r) ==
    /\ r \in Records /\ txs' = [txs EXCEPT ![wk[w].tx] = WithStatus(@, r)]
    /\ UNCHANGED <<lane, mempool>>

EnvelopeOf(w) == Envelope(wk[w].tx, wk[w].snap)

\* A handler ends before the handover; a status check is repeated or has read a final record.
Ends(w) ==
    /\ Still(w, Idle) /\ wk[w].pc \in {"request", "submit", "store", "fail", "mark", "status"}
    /\ wk[w].kind = "status" => \/ StatusJob(wk[w].tx) \in jobs'
                                \/ wk[w].pc = "status" /\ is_final_state(wk[w].snap.status)

Claims(w) ==
    \E k : /\ Base(w, k) /\ Same(w, k) /\ UNCHANGED <<txs, mempool>>
           /\ wk[w].pc = "request" /\ k.pc = "sequence" /\ wk[w].snap.status = "Pending"
           /\ CanClaim(wk[w].tx) /\ lane' = Claimed(wk[w].tx)

Syncs(w) ==
    \E k : /\ Still(w, k)
           /\ \/ wk[w].pc \in Syncing /\ k = Idle
              \/ /\ wk[w].pc \in Syncing \cup {"sequence", "sign"}
                 /\ k.kind = wk[w].kind /\ k.tx = wk[w].tx /\ k.snap \in {NoTx, wk[w].snap}
                 /\ k.pc \in Syncing \cup {"fail"} \/ (wk[w].pc = "sequence" /\ k.pc = "sign")

Prepares(w) ==
    /\ wk[w].pc = "sign"
    /\ Writes(w, [status |-> "Sent", env |-> wk[w].seq, hash |-> None])
    /\ \E k : /\ Base(w, k)
              /\ k = Idle \/ ("queue" \in Faults /\ Same(w, k) /\ k.pc = "fetch")

Fails(w) ==
    \E k : /\ Base(w, k) /\ Same(w, k) /\ wk[w].pc = "fail" /\ k.pc = "find"
           /\ \/ Writes(w, [txs[wk[w].tx] EXCEPT !.status = "Failed"])
              \/ wk[w].kind = "request" /\ "db" \in Faults /\ UNCHANGED <<txs, lane, mempool>>

Marks(w) ==
    \E k : \E r : /\ Base(w, k) /\ Same(w, k) /\ wk[w].pc = "mark" /\ k.pc = "find"
                  /\ Writes(w, r) /\ r.status \in Finals

Finds(w) == \E k : Still(w, k) /\ Same(w, k) /\ wk[w].pc = "find" /\ k.pc = "pass"

Releases(w) ==
    /\ Base(w, Idle) /\ wk[w].pc \in {"find", "pass"} /\ UNCHANGED <<txs, mempool>>
    /\ lane' = lane \/ lane = wk[w].tx

Sends(w) ==
    \E k : /\ Base(w, k) /\ Same(w, k) /\ UNCHANGED <<txs, lane>>
           /\ wk[w].pc = "submit" /\ ~is_final_state(wk[w].snap.status)
           /\ k.pc \in {"store", "reset", "fail"}
           /\ \/ mempool' = mempool
              \/ Accepts(EnvelopeOf(w)) /\ mempool' = mempool \cup {EnvelopeOf(w)}
           /\ k.pc = "store" => \/ Accepts(EnvelopeOf(w)) \/ EnvelopeOf(w) \in mempool
                                \/ Applied(EnvelopeOf(w))
           /\ k.pc = "reset" => /\ mempool' = mempool /\ EnvelopeOf(w) \notin mempool
                                /\ ~Applied(EnvelopeOf(w)) \/ "forget" \in Faults

ToMark(w) ==
    \E k : Still(w, k) /\ Same(w, k) /\ wk[w].pc \in {"submit", "status"} /\ k.pc = "mark"

Submits(w) ==
    /\ Base(w, Idle) /\ wk[w].pc = "store"
    /\ Writes(w, [status |-> "Submitted", env |-> wk[w].snap.env, hash |-> wk[w].snap.env])

Unstored(w) == \E k : Still(w, k) /\ Same(w, k) /\ wk[w].pc = "store" /\ k.pc = "fail"

Resets(w) ==
    \E k : /\ Base(w, k) /\ Same(w, k) /\ wk[w].pc = "reset" /\ k.pc = "fetch"
           /\ \/ Writes(w, [NoTx EXCEPT !.status = "Pending"])
              \/ UNCHANGED <<txs, lane, mempool>>

\* What a worker may do.
Form(w) ==
    \/ Ends(w) \/ Claims(w) \/ Syncs(w) \/ Prepares(w) \/ Fails(w) \/ Marks(w) \/ Finds(w)
    \/ Releases(w) \/ Sends(w) \/ ToMark(w) \/ Submits(w) \/ Unstored(w) \/ Resets(w)

\* The failures only grow.
FaultsOK == faults \subseteq faults' /\ faults' \subseteq Faults

\* Failures that are injected are remembered.
LEMMA FaultsGrow ==
    ASSUME Types, UNCHANGED faults \/ \E f : Fault(f)
    PROVE  FaultsOK
BY DEF Fault, Types, TypeOK, FaultsOK

\* Only the queue, and no more than the failures, changes beside the worker.
LEMMA StillOK ==
    ASSUME Types, NEW w \in Workers, NEW k \in WorkerStates, Placed(k), Goes(w, k), FaultsOK,
           UNCHANGED <<txs, lane, mempool, chain, newest, sequential>>, counter' \in Counts,
           jobs \subseteq jobs', jobs' \subseteq Jobs
    PROVE  Still(w, k)
BY DEF Types, TypeOK, SharedOK, Still, Base, FaultsOK

\* A handler ends.
LEMMA EndOK ==
    ASSUME Types, NEW w \in Workers, NEW q, End(w, q), jobs \subseteq q, q \subseteq Jobs
    PROVE  /\ Goes(w, Idle) /\ Idle \in WorkerStates /\ Placed(Idle)
           /\ jobs \subseteq jobs' /\ jobs' \subseteq Jobs /\ jobs' = q
BY IdleOK DEF End, Goes

\* What a worker's retry adds to the queue.
LEMMA RetriedOK ==
    ASSUME Types, NEW w \in Workers, ~At(w, "idle"), NEW q, q \subseteq Jobs
    PROVE  /\ q \subseteq Retried(w, q) /\ Retried(w, q) \subseteq Jobs
           /\ wk[w].kind = "status" => StatusJob(wk[w].tx) \in Retried(w, q)
BY Working DEF Retried, StatusJob

\* prepare_transaction_impl.
LEMMA PrepareForm == ASSUME Types, NEW w \in Workers, Prepare(w) PROVE Form(w)
<1>0. ~At(w, "idle") /\ jobs \subseteq Jobs /\ counter \in Counts
  BY DEF Prepare, PrepareSkip, PrepareClaim, PrepareSequence, PrepareStore, PrepareError, At,
         Types, TypeOK
<1>a. wk[w] \in WorkerStates /\ wk[w].tx \in Txs /\ Placed(wk[w])
  BY <1>0, Working
<1>1. CASE PrepareSkip(w)
  <2>1. End(w, jobs) /\ UNCHANGED <<txs, lane, counter, mempool, chain, newest, sequential, faults>>
        /\ wk[w].pc = "request"
    BY <1>1 DEF PrepareSkip, At
  <2>2. wk[w].kind = "request"
    BY <2>1, <1>a DEF Placed, SubmitPCs, StatusPCs, Syncing
  <2>3. Still(w, Idle)
    BY <2>1, <1>0, EndOK, StillOK, FaultsGrow
  <2> QED BY <2>1, <2>2, <2>3 DEF Form, Ends
<1>2. CASE PrepareClaim(w)
  <2> DEFINE k == [wk[w] EXCEPT !.pc = "sequence"]
  <2>1. Goes(w, k) /\ wk[w].pc = "request" /\ wk[w].snap.status = "Pending"
        /\ CanClaim(wk[w].tx) /\ lane' = Claimed(wk[w].tx)
        /\ UNCHANGED <<txs, counter, jobs, mempool, chain, newest, sequential, faults>>
    BY <1>2, GotoOK DEF PrepareClaim, At
  <2>2. k \in WorkerStates /\ k.pc = "sequence" /\ k.kind = wk[w].kind /\ k.tx = wk[w].tx
        /\ k.snap = wk[w].snap
    BY <1>0, PcOK DEF PCs
  <2> HIDE DEF k
  <2>3. Placed(k)
    BY <2>1, <2>2, <1>a DEF Placed, RequestPCs, SubmitPCs, StatusPCs, Syncing
  <2>4. lane' \in Txs \cup {None}
    BY <2>1, <1>a DEF Claimed, Types, TypeOK
  <2>5. Base(w, k)
    BY <2>1, <2>2, <2>3, <2>4 DEF Base, SharedOK, Types, TypeOK
  <2> QED BY <2>1, <2>2, <2>5 DEF Form, Claims, Same
<1>3. CASE PrepareSequence(w)
  <2> DEFINE k == [wk[w] EXCEPT !.seq = counter, !.pc = "sign"]
  <2>1. counter \in Seqs /\ counter' = counter + 1 /\ wk[w].pc = "sequence"
        /\ UNCHANGED <<txs, lane, jobs, mempool, chain, newest, sequential, faults>>
        /\ Goes(w, k)
    BY <1>3 DEF PrepareSequence, At, Goes, Types, TypeOK
  <2>2. k \in WorkerStates /\ k.pc = "sign" /\ k.kind = wk[w].kind /\ k.tx = wk[w].tx
        /\ k.snap = wk[w].snap
    BY <2>1, <1>a DEF WorkerStates, PCs
  <2> HIDE DEF k
  <2>3. Placed(k)
    BY <2>1, <2>2, <1>a DEF Placed, RequestPCs, SubmitPCs, StatusPCs, Syncing
  <2>4. counter' \in Counts
    BY <2>1, Constants
  <2>5. Still(w, k)
    BY <2>1, <2>2, <2>3, <2>4, <1>0, StillOK, FaultsGrow
  <2> QED BY <2>1, <2>2, <2>5 DEF Form, Syncs
<1>b. /\ [wk[w] EXCEPT !.pc = "fetch", !.then = "fail"] \in WorkerStates
      /\ [wk[w] EXCEPT !.pc = "fetch", !.then = "fail"].pc = "fetch"
      /\ Same(w, [wk[w] EXCEPT !.pc = "fetch", !.then = "fail"])
  BY <1>a DEF WorkerStates, PCs, Same
<1>4. CASE PrepareStore(w)
  <2> DEFINE r == [status |-> "Sent", env |-> wk[w].seq, hash |-> None]
             k == [wk[w] EXCEPT !.pc = "fetch", !.then = "fail"]
  <2>1. txs' = [txs EXCEPT ![wk[w].tx] = WithStatus(@, r)] /\ wk[w].pc = "sign"
        /\ UNCHANGED <<lane, counter, mempool, chain, newest, sequential>>
    BY <1>4 DEF PrepareStore, At
  <2>2. r \in Records
    BY <1>a DEF WorkerStates, Records, Statuses, InFlight
  <2>3. Writes(w, r) /\ txs' \in [Txs -> Records]
    BY <2>1, <2>2, <1>a, StoreOK DEF Writes
  <2>4. k \in WorkerStates /\ k.pc = "fetch" /\ Same(w, k)
    BY <1>b
  <2>5. \/ End(w, jobs \cup {SubmitJob(wk[w].tx)}) /\ UNCHANGED faults
        \/ Fault("queue") /\ Goes(w, k) /\ UNCHANGED jobs
    BY <1>4 DEF PrepareStore, Goes, Types, TypeOK
  <2> HIDE DEF k, r
  <2>6. FaultsOK
    BY <2>5, FaultsGrow
  <2>7. CASE End(w, jobs \cup {SubmitJob(wk[w].tx)})
    <3>1. SubmitJob(wk[w].tx) \in Jobs
      BY <1>a, JobsOK
    <3>2. Goes(w, Idle) /\ Idle \in WorkerStates /\ Placed(Idle) /\ jobs \subseteq jobs'
          /\ jobs' \subseteq Jobs
      BY <2>7, <3>1, <1>0, EndOK
    <3>3. Base(w, Idle)
      BY <2>1, <2>3, <2>6, <3>2, <1>0 DEF Base, SharedOK, Types, TypeOK, FaultsOK
    <3> QED BY <2>1, <2>3, <3>3 DEF Form, Prepares, r
  <2>8. CASE Fault("queue") /\ Goes(w, k) /\ UNCHANGED jobs
    <3>1. Placed(k)
      BY <2>1, <2>4, <1>a DEF Placed, RequestPCs, SubmitPCs, StatusPCs, Syncing, Same
    <3>2. Base(w, k) /\ "queue" \in Faults
      BY <2>1, <2>3, <2>4, <2>6, <2>8, <3>1, <1>0, FaultOK
         DEF Base, SharedOK, Types, TypeOK, FaultsOK
    <3> QED BY <2>1, <2>3, <2>4, <3>2 DEF Form, Prepares, r
  <2> QED BY <2>5, <2>7, <2>8
<1>5. CASE PrepareError(w)
  <2> DEFINE k == [wk[w] EXCEPT !.pc = "fetch", !.then = "fail"]
  <2>1. wk[w].pc \in {"sequence", "sign"} /\ Fault("prepare") /\ Goes(w, k)
        /\ UNCHANGED <<txs, lane, counter, jobs, mempool, chain, newest, sequential>>
    BY <1>5 DEF PrepareError, At, Goes, Types, TypeOK
  <2>2. k \in WorkerStates /\ k.pc = "fetch" /\ Same(w, k)
    BY <1>b
  <2> HIDE DEF k
  <2>3. Placed(k)
    BY <2>1, <2>2, <1>a DEF Placed, RequestPCs, SubmitPCs, StatusPCs, Syncing, Same
  <2>4. Still(w, k)
    BY <2>1, <2>2, <2>3, <1>0, StillOK, FaultsGrow
  <2> QED BY <2>1, <2>2, <2>4 DEF Form, Syncs, Same, Syncing
<1> QED BY <1>1, <1>2, <1>3, <1>4, <1>5 DEF Prepare

\* sync_sequence_from_chain.
LEMMA SyncForm == ASSUME Types, NEW w \in Workers, Sync(w) PROVE Form(w)
<1>0. wk[w].pc \in Syncing /\ ~At(w, "idle") /\ jobs \subseteq Jobs /\ counter \in Counts
  BY DEF Sync, SyncFetch, SyncFloor, SyncBound, SyncRewind, SyncError, At, Types, TypeOK, Syncing
<1>a. wk[w] \in WorkerStates /\ wk[w].tx \in Txs /\ Placed(wk[w])
      /\ wk[w].floor \in Counts /\ wk[w].target \in Counts
  BY <1>0, Working DEF WorkerStates
<1>b. UNCHANGED <<txs, lane, jobs, mempool, chain, newest, sequential>>
      /\ (UNCHANGED faults \/ \E f : Fault(f))
  BY DEF Sync, SyncFetch, SyncFloor, SyncBound, SyncRewind, SyncError
<1>c. counter' \in Counts
  BY <1>0, <1>a DEF Sync, SyncFetch, SyncFloor, SyncBound, SyncRewind, SyncError
<1>1. CASE Goes(w, Continue(w))
  <2>1. Continue(w) \in WorkerStates /\ Placed(Continue(w)) /\ Continue(w).snap = NoTx
        /\ \/ Continue(w) = Idle
           \/ /\ Continue(w).pc = "fail" /\ Continue(w).kind = wk[w].kind
              /\ Continue(w).tx = wk[w].tx
    BY <1>0, ContinueOK
  <2>2. Still(w, Continue(w))
    BY <1>1, <1>b, <1>c, <1>0, <2>1, StillOK, FaultsGrow
  <2> QED BY <2>1, <2>2, <1>0 DEF Form, Syncs
<1>2. ASSUME NEW k \in WorkerStates, Goes(w, k), Same(w, k), k.pc \in Syncing
      PROVE  Form(w)
  <2>1. Placed(k)
    BY <1>0, <1>2, <1>a DEF Placed, RequestPCs, SubmitPCs, StatusPCs, Syncing, Same
  <2>2. Still(w, k)
    BY <1>2, <1>b, <1>c, <1>0, <2>1, StillOK, FaultsGrow
  <2> QED BY <1>2, <2>2, <1>0 DEF Form, Syncs, Same
<1>3. CASE SyncFetch(w)
  <2>1. PICK s \in 0 .. OnChainSeq : wk' = [wk EXCEPT ![w].floor = s + 1, ![w].pc = "floor"]
    <3>1. OnChainSeq \in 0 .. OnChainSeq
      BY DEF OnChainSeq, Types, TypeOK
    <3> QED BY <1>3, <3>1 DEF SyncFetch
  <2> DEFINE k == [wk[w] EXCEPT !.floor = s + 1, !.pc = "floor"]
  <2>2. Goes(w, k)
    BY <2>1 DEF Goes, Types, TypeOK
  <2>3. s + 1 \in Counts
    <3>1. Len(chain) \in Nat /\ Len(chain) <= MaxSeq
      BY DEF Types, TypeOK
    <3> QED BY <3>1, Constants DEF OnChainSeq, Counts
  <2>4. k \in WorkerStates /\ k.pc = "floor" /\ Same(w, k)
    BY <2>3, <1>a DEF WorkerStates, PCs, Same
  <2> HIDE DEF k
  <2> QED BY <2>2, <2>4, <1>2 DEF Syncing
<1>4. CASE SyncFloor(w)
  <2> DEFINE k == [wk[w] EXCEPT !.observed = counter, !.pc = "bound"]
  <2>1. Goes(w, k) \/ Goes(w, Continue(w))
    BY <1>4 DEF SyncFloor, Goes, Types, TypeOK
  <2>2. k \in WorkerStates /\ k.pc = "bound" /\ Same(w, k)
    BY <1>0, <1>a DEF WorkerStates, PCs, Same
  <2> HIDE DEF k
  <2> QED BY <2>1, <2>2, <1>1, <1>2 DEF Syncing
<1>5. CASE SyncBound(w)
  <2>1. PICK g \in Counts :
           wk' = [wk EXCEPT ![w] = IF g < wk[w].observed
                                      THEN [@ EXCEPT !.target = g, !.pc = "cas"]
                                      ELSE Continue(w)]
    BY <1>5 DEF SyncBound
  <2> DEFINE k == [wk[w] EXCEPT !.target = g, !.pc = "cas"]
  <2>2. Goes(w, k) \/ Goes(w, Continue(w))
    BY <2>1 DEF Goes, Types, TypeOK
  <2>3. k \in WorkerStates /\ k.pc = "cas" /\ Same(w, k)
    BY <1>a DEF WorkerStates, PCs, Same
  <2> HIDE DEF k
  <2> QED BY <2>2, <2>3, <1>1, <1>2 DEF Syncing
<1>6. CASE SyncRewind(w) \/ SyncError(w)
  BY <1>6, <1>1 DEF SyncRewind, SyncError, Goes
<1> QED BY <1>3, <1>4, <1>5, <1>6 DEF Sync

\* A worker goes to another step of its handler, with the same job and snapshot.
LEMMA MoveOK ==
    ASSUME Types, NEW w \in Workers, ~At(w, "idle"), NEW x \in PCs, Goto(w, x)
    PROVE  \E k \in WorkerStates : Goes(w, k) /\ Same(w, k) /\ k.pc = x
<1> DEFINE k == [wk[w] EXCEPT !.pc = x]
<1>1. Goes(w, k)
  BY GotoOK
<1>2. k \in WorkerStates /\ Same(w, k) /\ k.pc = x
  BY PcOK DEF Same
<1> QED BY <1>1, <1>2

\* The steps that the failure handlers, the marking and the handover share.
LEMMA PlacedOK ==
    ASSUME Types, NEW w \in Workers, NEW k \in WorkerStates, Same(w, k),
           \/ wk[w].pc \in {"fail", "mark", "find"} /\ k.pc \in {"find", "pass"}
           \/ wk[w].pc = "submit" /\ k.pc \in {"store", "reset", "fail", "mark"}
           \/ wk[w].pc = "store" /\ k.pc = "fail"
           \/ wk[w].pc = "reset" /\ k.pc = "fetch"
           \/ wk[w].pc = "status" /\ k.pc = "mark"
    PROVE  Placed(k)
<1>1. Placed(wk[w])
  BY DEF Types
<1> QED BY <1>1 DEF Placed, Same, RequestPCs, SubmitPCs, StatusPCs, Syncing

\* The handler is through: the lane stays or leaves this worker's transaction.
LEMMA ReleaseOK ==
    ASSUME Types, NEW w \in Workers, wk[w].pc \in {"find", "pass"}, NEW q, End(w, q),
           jobs \subseteq q, q \subseteq Jobs, FaultsOK, lane' \in Txs \cup {None},
           lane' = lane \/ lane = wk[w].tx,
           UNCHANGED <<txs, counter, mempool, chain, newest, sequential>>
    PROVE  Form(w)
<1>1. Goes(w, Idle) /\ Idle \in WorkerStates /\ Placed(Idle)
      /\ jobs \subseteq jobs' /\ jobs' \subseteq Jobs
  BY EndOK
<1>2. Base(w, Idle)
  BY <1>1 DEF Base, SharedOK, Types, TypeOK, FaultsOK
<1> QED BY <1>2 DEF Form, Releases

\* The failure handlers, the marking and the handover.
LEMMA FinishForm == ASSUME Types, NEW w \in Workers, Finish(w) PROVE Form(w)
<1>0. ~At(w, "idle") /\ jobs \subseteq Jobs /\ counter \in Counts
  BY DEF Finish, Fail, Mark, FindNext, FindNothing, FindError, Pass, At, Types, TypeOK
<1>a. wk[w] \in WorkerStates /\ wk[w].tx \in Txs /\ wk[w].snap \in Records /\ Placed(wk[w])
      /\ txs[wk[w].tx] \in Records /\ wk[w].new \in Finals /\ wk[w].next \in Txs \cup {None}
  BY <1>0, Working DEF WorkerStates
<1>b. ASSUME NEW k \in WorkerStates, NEW r \in Records, Goes(w, k), Same(w, k), k.pc = "find",
             wk[w].pc \in {"fail", "mark"}, txs' = [txs EXCEPT ![wk[w].tx] = WithStatus(@, r)],
             UNCHANGED <<lane, counter, jobs, mempool, chain, sequential, faults>>,
             newest' \in Txs \cup {None}
      PROVE  Base(w, k) /\ Writes(w, r)
  <2>1. Placed(k)
    BY <1>b, PlacedOK
  <2>2. txs' \in [Txs -> Records]
    BY <1>b, <1>a, StoreOK
  <2> QED BY <1>b, <2>1, <2>2 DEF Base, Writes, SharedOK, Types, TypeOK
<1>1. CASE Fail(w)
  <2>1. wk[w].pc = "fail" /\ UNCHANGED <<lane, counter, mempool, chain, newest, sequential>>
    BY <1>1 DEF Fail, At
  <2>2. CASE SetStatus(wk[w].tx, "Failed") /\ Goto(w, "find") /\ UNCHANGED <<jobs, faults>>
    <3>1. PICK k \in WorkerStates : Goes(w, k) /\ Same(w, k) /\ k.pc = "find"
      BY <2>2, <1>0, MoveOK DEF PCs
    <3> DEFINE r == [txs[wk[w].tx] EXCEPT !.status = "Failed"]
    <3>2. txs' = [txs EXCEPT ![wk[w].tx] = WithStatus(@, r)] /\ r \in Records
      BY <2>2, <1>a, SetStatusOK DEF Statuses, Finals
    <3> HIDE DEF r
    <3>3. newest' \in Txs \cup {None}
      BY <2>1 DEF Types, TypeOK
    <3>4. Base(w, k) /\ Writes(w, r)
      BY <3>1, <3>2, <3>3, <2>1, <2>2, <1>b
    <3> QED BY <3>1, <3>4, <2>1 DEF Form, Fails, r
  <2>3. CASE Fault("db") /\ wk[w].kind = "request" /\ Goto(w, "find") /\ UNCHANGED <<jobs, txs>>
    <3>1. PICK k \in WorkerStates : Goes(w, k) /\ Same(w, k) /\ k.pc = "find"
      BY <2>3, <1>0, MoveOK DEF PCs
    <3>2. Placed(k)
      BY <2>1, <3>1, PlacedOK
    <3>3. Still(w, k)
      BY <3>1, <3>2, <2>1, <2>3, <1>0, StillOK, FaultsGrow
    <3>4. "db" \in Faults
      BY <2>3, FaultOK
    <3> QED BY <3>1, <3>3, <3>4, <2>1, <2>3 DEF Form, Fails, Still
  <2>4. CASE Fault("db") /\ wk[w].kind # "request" /\ End(w, jobs) /\ UNCHANGED txs
    <3>1. wk[w].kind # "status"
      BY <2>1, <1>a DEF Placed, StatusPCs
    <3>2. Still(w, Idle)
      BY <2>1, <2>4, <1>0, EndOK, StillOK, FaultsGrow
    <3> QED BY <2>1, <3>1, <3>2 DEF Form, Ends
  <2> QED BY <1>1, <2>2, <2>3, <2>4 DEF Fail
<1>2. CASE Mark(w)
  <2>1. wk[w].pc = "mark" /\ UNCHANGED <<lane, counter, mempool, chain, sequential>>
    BY <1>2 DEF Mark, At
  <2>2. CASE /\ txs' = [txs EXCEPT ![wk[w].tx] = WithStatus(@, Marked(@, wk[w]))]
             /\ newest' = IF txs'[wk[w].tx].status = "Confirmed" THEN wk[w].tx ELSE newest
             /\ Goto(w, "find") /\ UNCHANGED <<jobs, faults>>
    <3>1. PICK k \in WorkerStates : Goes(w, k) /\ Same(w, k) /\ k.pc = "find"
      BY <2>2, <1>0, MoveOK DEF PCs
    <3> DEFINE r == Marked(txs[wk[w].tx], wk[w])
    <3>2. txs' = [txs EXCEPT ![wk[w].tx] = WithStatus(@, r)]
      BY <2>2
    <3>3. r \in Records /\ r.status \in Finals
      BY <1>a DEF Marked, Records, Finals, Statuses
    <3> HIDE DEF r
    <3>4. newest' \in Txs \cup {None}
      BY <2>2, <1>a DEF Types, TypeOK
    <3>5. Base(w, k) /\ Writes(w, r)
      BY <3>1, <3>2, <3>3, <3>4, <2>1, <2>2, <1>b
    <3> QED BY <3>1, <3>3, <3>5, <2>1 DEF Form, Marks
  <2>3. CASE /\ Fault("db") /\ UNCHANGED <<txs, newest>>
             /\ End(w, IF wk[w].kind = "status" THEN Retried(w, jobs) ELSE jobs)
    <3> DEFINE q == IF wk[w].kind = "status" THEN Retried(w, jobs) ELSE jobs
    <3>1. jobs \subseteq q /\ q \subseteq Jobs
          /\ (wk[w].kind = "status" => StatusJob(wk[w].tx) \in q)
      BY <1>0, RetriedOK
    <3>2. End(w, q)
      BY <2>3
    <3> HIDE DEF q
    <3>3. Still(w, Idle) /\ jobs' = q
      BY <2>1, <2>3, <3>1, <3>2, <1>0, EndOK, StillOK, FaultsGrow
    <3> QED BY <2>1, <3>1, <3>3 DEF Form, Ends
  <2> QED BY <1>2, <2>2, <2>3 DEF Mark
<1>3. CASE FindNext(w)
  <2>1. PICK u \in Txs \cup {None} : wk' = [wk EXCEPT ![w].next = u, ![w].pc = "pass"]
    BY <1>3 DEF FindNext
  <2> DEFINE k == [wk[w] EXCEPT !.next = u, !.pc = "pass"]
  <2>2. Goes(w, k) /\ wk[w].pc = "find"
        /\ UNCHANGED <<txs, lane, counter, jobs, mempool, chain, newest, sequential, faults>>
    BY <1>3, <2>1 DEF FindNext, At, Goes, Types, TypeOK
  <2>3. k \in WorkerStates /\ k.pc = "pass" /\ Same(w, k)
    BY <1>a DEF WorkerStates, PCs, Same
  <2> HIDE DEF k
  <2>4. Placed(k)
    BY <2>2, <2>3, PlacedOK
  <2>5. Still(w, k)
    BY <2>2, <2>3, <2>4, <1>0, StillOK, FaultsGrow
  <2> QED BY <2>2, <2>3, <2>5 DEF Form, Finds
<1>c. \A q \in SUBSET Jobs : jobs \subseteq q => \A r \in Finished(w, q) : jobs \subseteq r /\ r \subseteq Jobs
  BY <1>0, RetriedOK DEF Finished
<1>d. \A r \in FinishedError(w) : jobs \subseteq r /\ r \subseteq Jobs
  BY <1>0, RetriedOK DEF FinishedError
<1>e. lane \in Txs \cup {None}
  BY DEF Types, TypeOK
<1>4. CASE FindNothing(w)
  <2>1. PICK q \in Finished(w, jobs) : End(w, q)
    BY <1>4 DEF FindNothing
  <2>2. jobs \subseteq q /\ q \subseteq Jobs
    BY <1>0, <1>c
  <2>3. wk[w].pc = "find" /\ lane' = lane
        /\ UNCHANGED <<txs, counter, mempool, chain, newest, sequential, faults>>
    BY <1>4 DEF FindNothing, At
  <2> QED BY <2>1, <2>2, <2>3, <1>e, ReleaseOK, FaultsGrow
<1>5. CASE FindError(w)
  <2>1. PICK q \in FinishedError(w) : End(w, q)
    BY <1>5 DEF FindError
  <2>2. jobs \subseteq q /\ q \subseteq Jobs
    BY <1>d
  <2>3. wk[w].pc = "find" /\ Fault("db")
        /\ lane' \in Txs \cup {None} /\ (lane' = lane \/ lane = wk[w].tx)
        /\ UNCHANGED <<txs, counter, mempool, chain, newest, sequential>>
    BY <1>5, <1>e DEF FindError, At, free
  <2> QED BY <2>1, <2>2, <2>3, ReleaseOK, FaultsGrow
<1>6. CASE Pass(w)
  <2> DEFINE u == wk[w].next
  <2>1. wk[w].pc = "pass" /\ UNCHANGED <<txs, counter, mempool, chain, newest, sequential>>
    BY <1>6 DEF Pass, At
  <2>2. CASE u = None /\ lane' = free(wk[w].tx) /\ UNCHANGED faults
             /\ \E q \in Finished(w, jobs) : End(w, q)
    <3>1. PICK q \in Finished(w, jobs) : End(w, q)
      BY <2>2
    <3>2. jobs \subseteq q /\ q \subseteq Jobs
      BY <1>0, <1>c
    <3>3. lane' \in Txs \cup {None} /\ (lane' = lane \/ lane = wk[w].tx)
      BY <2>2, <1>e DEF free
    <3> QED BY <2>1, <2>2, <3>1, <3>2, <3>3, ReleaseOK, FaultsGrow
  <2>3. CASE u # None /\ lane' = pass_to(wk[w].tx, u) /\ UNCHANGED faults
             /\ \E q \in Finished(w, jobs \cup {RequestJob(u)}) : End(w, q)
    <3>1. PICK q \in Finished(w, jobs \cup {RequestJob(u)}) : End(w, q)
      BY <2>3
    <3>2. RequestJob(u) \in Jobs
      BY <2>3, <1>a, JobsOK
    <3>3. jobs \subseteq q /\ q \subseteq Jobs
      BY <1>0, <1>c, <3>2
    <3>4. lane' \in Txs \cup {None} /\ (lane' = lane \/ lane = wk[w].tx)
      BY <2>3, <1>a, <1>e DEF pass_to
    <3> QED BY <2>1, <2>3, <3>1, <3>3, <3>4, ReleaseOK, FaultsGrow
  <2>4. CASE u # None /\ Fault("queue") /\ (\E q \in FinishedError(w) : End(w, q))
             /\ lane' = IF wk[w].kind = "request" /\ u = wk[w].tx THEN free(u)
                                                                  ELSE pass_to(wk[w].tx, u)
    <3>1. PICK q \in FinishedError(w) : End(w, q)
      BY <2>4
    <3>2. jobs \subseteq q /\ q \subseteq Jobs
      BY <1>d
    <3>3. lane' \in Txs \cup {None} /\ (lane' = lane \/ lane = wk[w].tx)
      BY <2>4, <1>a, <1>e DEF pass_to, free
    <3> QED BY <2>1, <2>4, <3>1, <3>2, <3>3, ReleaseOK, FaultsGrow
  <2> QED BY <1>6, <2>2, <2>3, <2>4 DEF Pass
<1> QED BY <1>1, <1>2, <1>3, <1>4, <1>5, <1>6 DEF Finish

\* What the answers of a node tell.
LEMMA AnswersOK ==
    ASSUME NEW e, NEW a \in Answers(e)
    PROVE  /\ a \in {"pending", "duplicate", "later", "badseq"}
           /\ a = "pending" => Accepts(e)
           /\ a = "duplicate" => e \in mempool \/ Applied(e)
           /\ a = "badseq" => e \notin mempool /\ (~Applied(e) \/ "forget" \in Faults)
BY DEF Answers, May

\* A handler that has sent its envelope, or tried to.
LEMMA SendOK ==
    ASSUME Types, NEW w \in Workers, wk[w].pc = "submit", ~is_final_state(wk[w].snap.status),
           NEW x \in {"store", "reset", "fail"}, Goto(w, x), FaultsOK,
           UNCHANGED <<txs, lane, counter, jobs, chain, newest, sequential>>,
           \/ mempool' = mempool
           \/ Accepts(EnvelopeOf(w)) /\ mempool' = mempool \cup {EnvelopeOf(w)},
           x = "store" => \/ Accepts(EnvelopeOf(w)) \/ EnvelopeOf(w) \in mempool
                          \/ Applied(EnvelopeOf(w)),
           x = "reset" => /\ mempool' = mempool /\ EnvelopeOf(w) \notin mempool
                          /\ ~Applied(EnvelopeOf(w)) \/ "forget" \in Faults
    PROVE  Form(w)
<1>0. ~At(w, "idle")
  BY DEF At
<1>1. PICK k \in WorkerStates : Goes(w, k) /\ Same(w, k) /\ k.pc = x
  BY <1>0, MoveOK DEF PCs
<1>2. Placed(k)
  BY <1>1, PlacedOK
<1>3. EnvelopeOf(w) \in Envelopes
  <2>1. wk[w].tx \in Txs /\ wk[w].snap \in Records
    BY <1>0, Working
  <2> QED BY <2>1 DEF EnvelopeOf, Envelope, Envelopes, Records
<1>4. Base(w, k)
  BY <1>1, <1>2, <1>3 DEF Base, SharedOK, Types, TypeOK, FaultsOK
<1> QED BY <1>1, <1>4 DEF Form, Sends

\* submit_transaction_impl.
LEMMA SubmitForm == ASSUME Types, NEW w \in Workers, Submit(w) PROVE Form(w)
<1>0. ~At(w, "idle") /\ jobs \subseteq Jobs /\ counter \in Counts
  BY DEF Submit, SubmitSkip, SubmitExpired, SubmitSend, SubmitStore, SubmitReset, At, Types, TypeOK
<1>a. wk[w] \in WorkerStates /\ wk[w].tx \in Txs /\ wk[w].snap \in Records /\ Placed(wk[w])
  BY <1>0, Working
<1>b. wk[w].kind = "submit"
  <2>1. wk[w].pc \in {"submit", "store", "reset"}
    BY DEF Submit, SubmitSkip, SubmitExpired, SubmitSend, SubmitStore, SubmitReset, At
  <2> QED BY <2>1, <1>a DEF Placed, RequestPCs, StatusPCs, Syncing
<1>1. CASE SubmitSkip(w)
  <2>1. wk[w].pc = "submit" /\ End(w, jobs)
        /\ UNCHANGED <<txs, lane, counter, mempool, chain, newest, sequential, faults>>
    BY <1>1 DEF SubmitSkip, At
  <2>2. Still(w, Idle)
    BY <2>1, <1>0, EndOK, StillOK, FaultsGrow
  <2> QED BY <2>1, <2>2, <1>b DEF Form, Ends
<1>2. CASE SubmitExpired(w)
  <2> DEFINE k == [wk[w] EXCEPT !.new = "Expired", !.pc = "mark"]
  <2>1. wk[w].pc = "submit" /\ Goes(w, k) /\ Fault("expiry")
        /\ UNCHANGED <<txs, lane, counter, jobs, mempool, chain, newest, sequential>>
    BY <1>2 DEF SubmitExpired, At, Goes, Types, TypeOK
  <2>2. k \in WorkerStates /\ k.pc = "mark" /\ Same(w, k)
    BY <1>a DEF WorkerStates, PCs, Same, Finals
  <2> HIDE DEF k
  <2>3. Placed(k)
    BY <2>1, <2>2, PlacedOK
  <2>4. Still(w, k)
    BY <2>1, <2>2, <2>3, <1>0, StillOK, FaultsGrow
  <2> QED BY <2>1, <2>2, <2>4 DEF Form, ToMark
<1>3. CASE SubmitSend(w)
  <2> DEFINE e == EnvelopeOf(w)
  <2>1. wk[w].pc = "submit" /\ ~is_final_state(wk[w].snap.status)
        /\ UNCHANGED <<txs, lane, counter, chain, newest, sequential>>
    BY <1>3 DEF SubmitSend, At
  <2>2. ASSUME SendLater(w), mempool' = mempool, FaultsOK PROVE Form(w)
    <3>1. SubmitJob(wk[w].tx) \in Jobs
      BY <1>a, JobsOK
    <3>2. \E q \in SUBSET Jobs : jobs \subseteq q /\ End(w, q)
      BY <2>2, <3>1, <1>0 DEF SendLater
    <3>3. PICK q \in SUBSET Jobs : jobs \subseteq q /\ End(w, q)
      BY <3>2
    <3>4. Goes(w, Idle) /\ Idle \in WorkerStates /\ Placed(Idle)
          /\ jobs \subseteq jobs' /\ jobs' \subseteq Jobs
      BY <3>3, EndOK
    <3>5. Still(w, Idle)
      BY <2>1, <2>2, <3>4, <1>0, StillOK
    <3> QED BY <2>1, <3>5, <1>b DEF Form, Ends
  <2>3. \/ \E a \in Answers(e) :
              /\ mempool' = mempool \cup {f \in {e} : a = "pending"}
              /\ \/ a \in {"pending", "duplicate"} /\ Goto(w, "store") /\ UNCHANGED jobs
                 \/ a = "later" /\ SendLater(w)
                 \/ a = "badseq" /\ Goto(w, "reset") /\ UNCHANGED jobs
              /\ UNCHANGED faults
        \/ \E a \in Failures(e) :
              /\ Fault(a)
              /\ mempool' = mempool \cup {f \in {e} : a = "timeout"}
              /\ \/ a = "fee" /\ SendLater(w)
                 \/ Goto(w, "fail") /\ UNCHANGED jobs
    BY <1>3 DEF SubmitSend, EnvelopeOf
  <2> HIDE DEF e
  <2>4. ASSUME NEW a \in Answers(e),
               mempool' = mempool \cup {f \in {e} : a = "pending"}, UNCHANGED faults,
               \/ a \in {"pending", "duplicate"} /\ Goto(w, "store") /\ UNCHANGED jobs
               \/ a = "later" /\ SendLater(w)
               \/ a = "badseq" /\ Goto(w, "reset") /\ UNCHANGED jobs
        PROVE  Form(w)
    <3>1. /\ a = "pending" => Accepts(e)
          /\ a = "duplicate" => e \in mempool \/ Applied(e)
          /\ a = "badseq" => e \notin mempool /\ (~Applied(e) \/ "forget" \in Faults)
      BY <2>4, AnswersOK
    <3>2. FaultsOK
      BY <2>4, FaultsGrow
    <3>3. mempool' = IF a = "pending" THEN mempool \cup {e} ELSE mempool
      BY <2>4
    <3>4. CASE a \in {"pending", "duplicate"} /\ Goto(w, "store") /\ UNCHANGED jobs
      <4>1. Accepts(e) \/ e \in mempool \/ Applied(e)
        BY <3>1, <3>4
      <4>2. mempool' = mempool \/ (Accepts(e) /\ mempool' = mempool \cup {e})
        BY <3>1, <3>3
      <4> QED BY <2>1, <3>2, <3>4, <4>1, <4>2, SendOK DEF e
    <3>5. CASE a = "later" /\ SendLater(w)
      BY <2>2, <3>2, <3>3, <3>5
    <3>6. CASE a = "badseq" /\ Goto(w, "reset") /\ UNCHANGED jobs
      BY <2>1, <3>1, <3>2, <3>3, <3>6, SendOK DEF e
    <3> QED BY <2>4, <3>4, <3>5, <3>6
  <2>5. ASSUME NEW a \in Failures(e), Fault(a),
               mempool' = mempool \cup {f \in {e} : a = "timeout"},
               \/ a = "fee" /\ SendLater(w)
               \/ Goto(w, "fail") /\ UNCHANGED jobs
        PROVE  Form(w)
    <3>1. FaultsOK
      BY <2>5, FaultsGrow
    <3>2. mempool' = IF a = "timeout" THEN mempool \cup {e} ELSE mempool
      BY <2>5
    <3>3. a = "timeout" => Accepts(e)
      BY <2>5 DEF Failures
    <3>4. CASE a = "fee" /\ SendLater(w)
      BY <2>2, <3>1, <3>2, <3>4
    <3>5. CASE Goto(w, "fail") /\ UNCHANGED jobs
      BY <2>1, <3>1, <3>2, <3>3, <3>5, SendOK DEF e
    <3> QED BY <2>5, <3>4, <3>5
  <2> QED BY <2>3, <2>4, <2>5
<1>4. CASE SubmitStore(w)
  <2> DEFINE r == [status |-> "Submitted", env |-> wk[w].snap.env, hash |-> wk[w].snap.env]
  <2>1. wk[w].pc = "store" /\ UNCHANGED <<lane, counter, mempool, chain, newest, sequential>>
    BY <1>4 DEF SubmitStore, At
  <2>2. CASE /\ txs' = [txs EXCEPT ![wk[w].tx] = WithStatus(@, r)]
             /\ End(w, jobs) /\ UNCHANGED faults
    <3>1. r \in Records
      BY <1>a DEF Records, Statuses, InFlight
    <3> HIDE DEF r
    <3>2. Writes(w, r) /\ txs' \in [Txs -> Records]
      BY <2>1, <2>2, <3>1, <1>a, StoreOK DEF Writes
    <3>3. Goes(w, Idle) /\ Idle \in WorkerStates /\ Placed(Idle) /\ jobs' = jobs
      BY <2>2, <1>0, EndOK
    <3>4. Base(w, Idle)
      BY <2>1, <2>2, <3>2, <3>3 DEF Base, SharedOK, Types, TypeOK
    <3> QED BY <2>1, <3>2, <3>4 DEF Form, Submits, r
  <2>3. CASE Fault("conflict") /\ End(w, jobs) /\ UNCHANGED txs
    <3>1. Still(w, Idle)
      BY <2>1, <2>3, <1>0, EndOK, StillOK, FaultsGrow
    <3> QED BY <2>1, <3>1, <1>b DEF Form, Ends
  <2>4. CASE Fault("db") /\ Goto(w, "fail") /\ UNCHANGED <<txs, jobs>>
    <3>1. PICK k \in WorkerStates : Goes(w, k) /\ Same(w, k) /\ k.pc = "fail"
      BY <2>4, <1>0, MoveOK DEF PCs
    <3>2. Placed(k)
      BY <2>1, <3>1, PlacedOK
    <3>3. Still(w, k)
      BY <2>1, <2>4, <3>1, <3>2, <1>0, StillOK, FaultsGrow
    <3> QED BY <2>1, <3>1, <3>3 DEF Form, Unstored
  <2> QED BY <1>4, <2>2, <2>3, <2>4 DEF SubmitStore
<1>5. CASE SubmitReset(w)
  <2>1. wk[w].pc = "reset" /\ UNCHANGED <<lane, counter, jobs, mempool, chain, newest, sequential>>
    BY <1>5 DEF SubmitReset, At
  <2>2. PICK x \in {"idle", "fail"} : wk' = [wk EXCEPT ![w].pc = "fetch", ![w].then = x]
    BY <1>5 DEF SubmitReset
  <2> DEFINE k == [wk[w] EXCEPT !.pc = "fetch", !.then = x]
             r == [NoTx EXCEPT !.status = "Pending"]
  <2>3. Goes(w, k)
    BY <2>2 DEF Goes, Types, TypeOK
  <2>4. k \in WorkerStates /\ k.pc = "fetch" /\ Same(w, k)
    BY <1>a DEF WorkerStates, PCs, Same
  <2> HIDE DEF k
  <2>5. Placed(k)
    BY <2>1, <2>4, PlacedOK
  <2>6. \/ txs' = [txs EXCEPT ![wk[w].tx] = WithStatus(@, r)] /\ UNCHANGED faults
        \/ Fault("db") /\ UNCHANGED txs
    BY <1>5 DEF SubmitReset
  <2>7. r \in Records
    BY DEF NoTx, Records, Statuses
  <2> HIDE DEF r
  <2>8. FaultsOK
    BY <2>6, FaultsGrow
  <2>9. txs' \in [Txs -> Records] /\ (Writes(w, r) \/ UNCHANGED <<txs, lane, mempool>>)
    BY <2>1, <2>6, <2>7, <1>a, StoreOK DEF Writes, Types, TypeOK
  <2>10. Base(w, k)
    BY <2>1, <2>3, <2>4, <2>5, <2>8, <2>9 DEF Base, SharedOK, Types, TypeOK, FaultsOK
  <2> QED BY <2>1, <2>4, <2>9, <2>10 DEF Form, Resets, r
<1> QED BY <1>1, <1>2, <1>3, <1>4, <1>5 DEF Submit

\* handle_transaction_status_impl.
LEMMA StatusForm == ASSUME Types, NEW w \in Workers, Status(w) PROVE Form(w)
<1>0. wk[w].pc = "status" /\ ~At(w, "idle") /\ jobs \subseteq Jobs /\ counter \in Counts
  BY DEF Status, StatusFinal, StatusBreaker, StatusOnChain, StatusExpired, StatusAgain, StatusWait,
         StatusError, Checking, At, Types, TypeOK
<1>a. wk[w] \in WorkerStates /\ wk[w].tx \in Txs /\ wk[w].snap \in Records /\ Placed(wk[w])
  BY <1>0, Working
<1>b. wk[w].kind = "status"
  BY <1>0, <1>a DEF Placed, RequestPCs, SubmitPCs, Syncing
<1>c. UNCHANGED <<txs, lane, counter, mempool, chain, newest, sequential>>
      /\ (UNCHANGED faults \/ \E f : Fault(f))
  BY DEF Status, StatusFinal, StatusBreaker, StatusOnChain, StatusExpired, StatusAgain, StatusWait,
         StatusError
<1>1. ASSUME NEW s \in Finals, StatusMark(w, s) PROVE Form(w)
  <2> DEFINE k == [wk[w] EXCEPT !.new = s, !.pc = "mark"]
  <2>1. Goes(w, k) /\ UNCHANGED jobs
    BY <1>1 DEF StatusMark, Goes, Types, TypeOK
  <2>2. k \in WorkerStates /\ k.pc = "mark" /\ Same(w, k)
    BY <1>a DEF WorkerStates, PCs, Same
  <2> HIDE DEF k
  <2>3. Placed(k)
    BY <1>0, <2>2, PlacedOK
  <2>4. Still(w, k)
    BY <2>1, <2>2, <2>3, <1>0, <1>c, StillOK, FaultsGrow
  <2> QED BY <1>0, <2>2, <2>4 DEF Form, ToMark
<1>2. ASSUME NEW js \in SUBSET Jobs, StatusKeep(w, js) PROVE Form(w)
  <2>1. jobs \cup js \subseteq Jobs /\ End(w, Retried(w, jobs \cup js))
    BY <1>0, <1>2 DEF StatusKeep
  <2>2. /\ jobs \cup js \subseteq Retried(w, jobs \cup js)
        /\ Retried(w, jobs \cup js) \subseteq Jobs
        /\ StatusJob(wk[w].tx) \in Retried(w, jobs \cup js)
    BY <2>1, <1>0, <1>b, RetriedOK
  <2>3. Still(w, Idle) /\ jobs' = Retried(w, jobs \cup js)
    BY <2>1, <2>2, <1>0, <1>c, EndOK, StillOK, FaultsGrow
  <2> QED BY <2>2, <2>3, <1>0 DEF Form, Ends
<1>3. CASE StatusFinal(w)
  <2>1. End(w, jobs) /\ is_final_state(wk[w].snap.status)
    BY <1>3 DEF StatusFinal
  <2>2. Still(w, Idle)
    BY <2>1, <1>0, <1>c, EndOK, StillOK, FaultsGrow
  <2> QED BY <2>1, <2>2, <1>0 DEF Form, Ends
<1>4. CASE StatusBreaker(w) \/ StatusOnChain(w) \/ StatusExpired(w)
  BY <1>4, <1>1 DEF StatusBreaker, StatusOnChain, StatusExpired, Finals
<1>5. CASE StatusAgain(w) \/ StatusWait(w) \/ StatusError(w)
  <2>1. RequestJob(wk[w].tx) \in Jobs /\ SubmitJob(wk[w].tx) \in Jobs
    BY <1>a, JobsOK
  <2>2. \E js \in SUBSET Jobs : StatusKeep(w, js)
    BY <2>1, <1>5 DEF StatusAgain, StatusWait, StatusError
  <2> QED BY <2>2, <1>2
<1> QED BY <1>3, <1>4, <1>5 DEF Status

\* What a worker adds to the queue is its own transaction's, or a preparation.
Adds(w) ==
    \A j \in jobs' : \/ j \in jobs \/ j.kind = "request"
                     \/ j.tx = wk[w].tx /\ wk[w].pc # "request"

\* That holds of every step of a worker.
LEMMA WorkAdds == ASSUME Types, NEW w \in Workers, Work(w) PROVE Adds(w)
<1>0. \A t : RequestJob(t).kind = "request" /\ SubmitJob(t).tx = t
  BY DEF RequestJob, SubmitJob
<1>a. \A q : \A j \in Retried(w, q) : j \in q \/ j.tx = wk[w].tx
  BY DEF Retried
<1>b. CASE UNCHANGED jobs
  BY <1>b DEF Adds
<1>c. ASSUME NEW q, End(w, q),
             \A j \in q : \/ j \in jobs \/ j.kind = "request"
                          \/ j.tx = wk[w].tx /\ wk[w].pc # "request"
      PROVE  Adds(w)
  BY <1>c DEF End, Adds
<1>1. CASE Prepare(w)
  <2>1. CASE PrepareSkip(w)
    BY <2>1, <1>c DEF PrepareSkip
  <2>2. CASE PrepareStore(w)
    <3>1. wk[w].pc = "sign" /\ (UNCHANGED jobs \/ End(w, jobs \cup {SubmitJob(wk[w].tx)}))
      BY <2>2 DEF PrepareStore, At
    <3> QED BY <3>1, <1>0, <1>b, <1>c
  <2> QED BY <1>1, <1>b, <2>1, <2>2 DEF Prepare, PrepareClaim, PrepareSequence, PrepareError
<1>2. CASE Sync(w)
  BY <1>2, <1>b DEF Sync, SyncFetch, SyncFloor, SyncBound, SyncRewind, SyncError
<1>3. CASE Finish(w)
  <2>1. wk[w].pc # "request"
    BY <1>3 DEF Finish, Fail, Mark, FindNext, FindNothing, FindError, Pass, At
  <2>2. CASE Fail(w) \/ Mark(w) \/ FindNext(w)
    <3>1. UNCHANGED jobs \/ End(w, jobs) \/ End(w, Retried(w, jobs))
      BY <2>2 DEF Fail, Mark, FindNext
    <3> QED BY <3>1, <2>1, <1>a, <1>b, <1>c
  <2>3. CASE FindNothing(w) \/ FindError(w)
    <3>1. End(w, jobs) \/ End(w, Retried(w, jobs))
      BY <2>3 DEF FindNothing, FindError, Finished, FinishedError
    <3> QED BY <3>1, <2>1, <1>a, <1>c
  <2>4. CASE Pass(w)
    <3> DEFINE q == jobs \cup {RequestJob(wk[w].next)}
    <3>1. End(w, jobs) \/ End(w, Retried(w, jobs)) \/ End(w, q) \/ End(w, Retried(w, q))
      BY <2>4 DEF Pass, Finished, FinishedError
    <3> QED BY <3>1, <2>1, <1>0, <1>a, <1>c
  <2> QED BY <1>3, <2>2, <2>3, <2>4 DEF Finish
<1>4. CASE Submit(w)
  <2>1. wk[w].pc # "request"
    BY <1>4 DEF Submit, SubmitSkip, SubmitExpired, SubmitSend, SubmitStore, SubmitReset, At
  <2>2. UNCHANGED jobs \/ End(w, jobs) \/ End(w, jobs \cup {SubmitJob(wk[w].tx)})
    BY <1>4 DEF Submit, SubmitSkip, SubmitExpired, SubmitSend, SubmitStore, SubmitReset, SendLater
  <2> QED BY <2>1, <2>2, <1>0, <1>b, <1>c
<1>5. CASE Status(w)
  <2>1. wk[w].pc # "request"
    BY <1>5 DEF Status, StatusFinal, StatusBreaker, StatusOnChain, StatusExpired, StatusAgain,
                StatusWait, StatusError, Checking, At
  <2> DEFINE Q == {{}, {RequestJob(wk[w].tx)}, {SubmitJob(wk[w].tx)}}
  <2>2. UNCHANGED jobs \/ End(w, jobs) \/ \E js \in Q : End(w, Retried(w, jobs \cup js))
    BY <1>5 DEF Status, StatusFinal, StatusBreaker, StatusOnChain, StatusExpired, StatusAgain,
                StatusWait, StatusError, StatusMark, StatusKeep
  <2> QED BY <2>1, <2>2, <1>0, <1>a, <1>b, <1>c
<1> QED BY <1>1, <1>2, <1>3, <1>4, <1>5 DEF Work

\* Every step of a worker has one of the forms.
LEMMA WorkForm == ASSUME Types, NEW w \in Workers, Work(w) PROVE Form(w)
BY PrepareForm, SyncForm, FinishForm, SubmitForm, StatusForm DEF Work

-----------------------------------------------------------------------------
(* The other steps, and the types. *)

\* A transaction is stored, with its status check, or as Failed, unless queue and repository fail.
Creates(t) ==
    /\ txs[t].status = "Absent" /\ txs'[t].status \in {"Pending", "Failed"}
    /\ txs'[t].env = txs[t].env
    /\ txs' = [txs EXCEPT ![t] = txs'[t]] /\ jobs \subseteq jobs'
    /\ txs'[t].status = "Pending" => StatusJob(t) \in jobs' \/ ~OneStore
    /\ \A j \in jobs' : j \in jobs \/ j.tx = t
    /\ UNCHANGED <<lane, wk, mempool, chain, sequential>> /\ faults \subseteq faults'

\* A worker takes the job j.
Takes(w, j) ==
    \E k \in WorkerStates :
        /\ Goes(w, k) /\ wk[w].pc = "idle" /\ j \in jobs /\ jobs' \in {jobs, jobs \ {j}}
        /\ k.pc = j.kind /\ k.kind = j.kind /\ k.tx = j.tx /\ k.snap = txs[j.tx]
        /\ j.kind \in Concurrent \/ \A v \in Workers : ~(wk[v].kind = j.kind /\ wk[v].tx = j.tx)
        /\ UNCHANGED <<txs, lane, mempool, chain, sequential, faults>>

\* The ledger moves on, a node forgets an envelope, or the counter is raised.
Ledger ==
    /\ UNCHANGED <<txs, lane, jobs, wk, sequential>> /\ faults \subseteq faults'
    /\ \/ UNCHANGED <<mempool, chain>>
       \/ mempool' \subseteq mempool /\ UNCHANGED chain
       \/ mempool' = {} /\ \E b : chain' = Append(chain, [tx |-> None, ok |-> b])
       \/ \E e \in mempool : /\ e.seq = OnChainSeq + 1 /\ mempool' = mempool \ {e}
                             /\ \E b : chain' = Append(chain, [tx |-> e.tx, ok |-> b])

\* The process restarts.
Restarts ==
    /\ wk' = [w \in Workers |-> Idle] /\ jobs \subseteq jobs'
    /\ \A w \in Workers : wk[w].kind = "status" => StatusJob(wk[w].tx) \in jobs'
    /\ \A j \in jobs' : \/ j \in jobs
                        \/ \E w \in Workers : /\ ~At(w, "idle") /\ j.kind = wk[w].kind
                                              /\ j.tx = wk[w].tx
    /\ UNCHANGED <<txs, mempool, chain, sequential>> /\ faults \subseteq faults'
    /\ "restart" \in faults'

\* A step of Next, by its form.
Step ==
    \/ \E t \in Txs : Creates(t)
    \/ \E w \in Workers : \E j \in Jobs : Takes(w, j)
    \/ \E w \in Workers : Form(w) /\ Adds(w)
    \/ Ledger \/ Restarts

\* A worker's step, whatever its form.
LEMMA FormBase == ASSUME NEW w \in Workers, Form(w) PROVE \E k : Base(w, k)
BY DEF Form, Ends, Claims, Syncs, Prepares, Fails, Marks, Finds, Releases, Sends, ToMark,
       Submits, Unstored, Resets, Still

\* A worker's step keeps the types.
LEMMA FormTypes == ASSUME Types, NEW w \in Workers, Form(w) PROVE Types'
<1>1. PICK k : Base(w, k)
  BY FormBase
<1> QED BY <1>1, GoesTypes DEF Base

\* Storing a transaction.
LEMMA CreateOK ==
    ASSUME Types, NEW t \in Txs, CreateTransaction(t)
    PROVE  Types' /\ Creates(t)
<1>1. txs[t].status = "Absent" /\ UNCHANGED <<lane, counter, wk, mempool, chain, newest, sequential>>
  BY DEF CreateTransaction
<1>2. PICK s \in {"Pending", "Failed"} : SetStatus(t, s)
  BY DEF CreateTransaction
<1>3. FaultsOK
  <2>1. CASE UNCHANGED faults \/ \E f : Fault(f)
    BY <2>1, FaultsGrow
  <2>2. CASE {"queue", "db"} \subseteq Faults /\ faults' = faults \cup {"queue", "db"}
    BY <2>2 DEF FaultsOK, Types, TypeOK
  <2> QED BY <2>1, <2>2 DEF CreateTransaction
<1>4. StatusJob(t) \in Jobs /\ RequestJob(t) \in Jobs /\ jobs \subseteq Jobs
  BY JobsOK DEF Types, TypeOK
<1>5. jobs \subseteq jobs' /\ jobs' \subseteq Jobs
  BY <1>4 DEF CreateTransaction
<1>6. SetStatus(t, "Pending") \/ SetStatus(t, "Failed")
  BY DEF CreateTransaction
<1>7. ASSUME NEW x \in {"Pending", "Failed"}, SetStatus(t, x)
      PROVE  /\ txs' \in [Txs -> Records] /\ txs'[t].status = x /\ txs'[t].env = txs[t].env
             /\ txs' = [txs EXCEPT ![t] = txs'[t]]
  <2>0. x \in Statuses
    BY <1>7 DEF Statuses, Finals
  <2> DEFINE r == [txs[t] EXCEPT !.status = x]
  <2>1. txs' = [txs EXCEPT ![t] = WithStatus(@, r)] /\ r \in Records /\ txs' \in [Txs -> Records]
    BY <1>7, <2>0, SetStatusOK
  <2>2. txs \in [Txs -> Records]
    BY DEF Types, TypeOK
  <2>3. r.status = x /\ r.env = txs[t].env
    BY <2>2 DEF Records
  <2> HIDE DEF r
  <2>4. WithStatus(txs[t], r) = r
    BY <1>1 DEF WithStatus, is_final_state, Finals
  <2>5. txs' = [txs EXCEPT ![t] = r]
    BY <2>1, <2>4
  <2>6. txs'[t] = r
    BY <2>5, <2>2
  <2> QED BY <2>1, <2>3, <2>5, <2>6
<1>8. txs'[t].status = "Pending" => StatusJob(t) \in jobs' \/ ~OneStore
  <2>1. SetStatus(t, "Failed") => txs'[t].status # "Pending"
    BY <1>7
  <2> QED BY <2>1 DEF CreateTransaction, OneStore
<1>9. Creates(t) /\ txs' \in [Txs -> Records]
  <2>1. \A j \in jobs' : j \in jobs \/ j.tx = t
    BY DEF CreateTransaction, StatusJob, RequestJob
  <2> QED BY <1>1, <1>2, <1>3, <1>5, <1>7, <1>8, <2>1 DEF Creates, FaultsOK
<1>10. wk' \in [Workers -> WorkerStates] /\ \A v \in Workers : Placed(wk[v])'
  BY <1>1 DEF Types, TypeOK, Placed
<1> QED BY <1>1, <1>3, <1>5, <1>9, <1>10 DEF Types, TypeOK, FaultsOK

\* Taking a job.
LEMMA TakeOK ==
    ASSUME Types, NEW w \in Workers, NEW j \in jobs, Take(w, j)
    PROVE  Types' /\ j \in Jobs /\ Takes(w, j)
<1> DEFINE i == j.kind
           t == j.tx
           r == txs[j.tx]
           k == [Idle EXCEPT !.pc = i, !.kind = i, !.tx = t, !.snap = r]
<1>1. j \in Jobs /\ i \in JobKinds /\ t \in Txs
  BY DEF Types, TypeOK, Jobs
<1>2. Goes(w, k) /\ wk[w].pc = "idle" /\ jobs' \in {jobs, jobs \ {j}}
      /\ UNCHANGED <<txs, lane, counter, mempool, chain, newest, sequential, faults>>
      /\ (j.kind \in Concurrent \/ \A v \in Workers : ~(wk[v].kind = j.kind /\ wk[v].tx = j.tx))
  BY DEF Take, Goes, At
<1>3. r \in Records
  BY <1>1 DEF Types, TypeOK
<1> HIDE DEF i, t, r
<1>4. k \in WorkerStates /\ k.pc = i /\ k.kind = i /\ k.tx = t /\ k.snap = r
  BY <1>1, <1>3, IdleOK DEF WorkerStates, PCs, JobKinds
<1> HIDE DEF k
<1>5. Placed(k)
  BY <1>1, <1>4 DEF Placed, JobKinds, RequestPCs, SubmitPCs, StatusPCs
<1>6. SharedOK
  BY <1>2 DEF SharedOK, Types, TypeOK
<1>7. Types'
  BY <1>2, <1>4, <1>5, <1>6, GoesTypes
<1> QED BY <1>1, <1>2, <1>4, <1>7 DEF Takes, i, t, r

\* The ledger and the counter.
LEMMA LedgerOK ==
    ASSUME Types, (\E e \in mempool : Apply(e) \/ Drop(e)) \/ OtherApplied \/ SyncSequence
    PROVE  Types' /\ Ledger
<1>0. Len(chain) \in Nat /\ Len(chain) <= MaxSeq /\ OnChainSeq = Len(chain) /\ MaxSeq \in Nat
      /\ chain \in Seq(Entries) /\ mempool \subseteq Envelopes
  BY Constants DEF Types, TypeOK, OnChainSeq
<1>a. UNCHANGED <<txs, lane, jobs, wk, newest, sequential>>
      /\ (UNCHANGED faults \/ \E f : Fault(f))
  BY DEF Apply, Drop, OtherApplied, SyncSequence
<1>b. FaultsOK
  BY <1>a, FaultsGrow
<1>c. ASSUME NEW n \in Entries, Len(chain) < MaxSeq, chain' = Append(chain, n)
      PROVE  chain' \in Seq(Entries) /\ Len(chain') <= MaxSeq
  BY <1>c, <1>0
<1>d. ASSUME counter' \in Counts, mempool' \subseteq Envelopes, chain' \in Seq(Entries),
             Len(chain') <= MaxSeq
      PROVE  Types'
  <2>1. \A v \in Workers : Placed(wk[v])'
    BY <1>a DEF Types, Placed
  <2> QED BY <1>a, <1>b, <1>d, <2>1 DEF Types, TypeOK, FaultsOK
<1>1. ASSUME NEW e \in mempool, Apply(e) PROVE Types' /\ Ledger
  <2>1. e.seq = OnChainSeq + 1 /\ mempool' = mempool \ {e} /\ counter' = counter
    BY <1>1 DEF Apply
  <2>2. PICK b \in BOOLEAN : chain' = Append(chain, [tx |-> e.tx, ok |-> b])
    BY <1>1 DEF Apply
  <2>3. e.tx \in Txs /\ e.seq \in Seqs \cup {0}
    BY <1>0 DEF Envelopes
  <2>4. Len(chain) < MaxSeq
    BY <2>1, <2>3, <1>0 DEF Seqs
  <2>5. [tx |-> e.tx, ok |-> b] \in Entries
    BY <2>3 DEF Entries
  <2>6. chain' \in Seq(Entries) /\ Len(chain') <= MaxSeq
    BY <2>2, <2>4, <2>5, <1>c
  <2>7. counter' \in Counts /\ mempool' \subseteq Envelopes
    BY <2>1, <1>0 DEF Types, TypeOK
  <2> QED BY <1>a, <1>b, <1>d, <2>1, <2>2, <2>6, <2>7 DEF Ledger, FaultsOK
<1>2. ASSUME NEW e \in mempool, Drop(e) PROVE Types' /\ Ledger
  <2>1. mempool' = mempool \ {e} /\ counter' = counter /\ chain' = chain
    BY <1>2 DEF Drop
  <2>2. counter' \in Counts /\ mempool' \subseteq Envelopes
    BY <2>1, <1>0 DEF Types, TypeOK
  <2> QED BY <1>0, <1>a, <1>b, <1>d, <2>1, <2>2 DEF Ledger, FaultsOK
<1>3. CASE OtherApplied
  <2>1. Len(chain) < MaxSeq /\ chain' = Append(chain, [tx |-> None, ok |-> TRUE])
        /\ mempool' = {} /\ counter' = counter
    BY <1>3 DEF OtherApplied, OnChainSeq
  <2>2. [tx |-> None, ok |-> TRUE] \in Entries
    BY DEF Entries
  <2>3. chain' \in Seq(Entries) /\ Len(chain') <= MaxSeq
    BY <2>1, <2>2, <1>c
  <2>4. counter' \in Counts
    BY <2>1 DEF Types, TypeOK
  <2> QED BY <1>a, <1>b, <1>d, <2>1, <2>3, <2>4 DEF Ledger, FaultsOK
<1>4. CASE SyncSequence
  <2>1. UNCHANGED <<mempool, chain>> /\ counter' = OnChainSeq + 1
    BY <1>4 DEF SyncSequence
  <2>2. counter' \in Counts
    BY <2>1, <1>0 DEF Counts
  <2> QED BY <1>0, <1>a, <1>b, <1>d, <2>1, <2>2 DEF Ledger, FaultsOK
<1> QED BY <1>1, <1>2, <1>3, <1>4

\* The jobs of a process that dies are delivered again.
LEMMA RestartOK == ASSUME Types, Restart PROVE Types' /\ Restarts
<1>1. lane' = None /\ wk' = [w \in Workers |-> Idle] /\ Fault("restart")
      /\ UNCHANGED <<txs, counter, mempool, chain, newest, sequential>>
      /\ jobs' = jobs \cup {[kind |-> wk[w].kind, tx |-> wk[w].tx] :
                               w \in {v \in Workers : ~At(v, "idle")}}
  BY DEF Restart
<1>2. \A w \in Workers : ~At(w, "idle") => [kind |-> wk[w].kind, tx |-> wk[w].tx] \in Jobs
  BY Working
<1>3. jobs' \subseteq Jobs /\ jobs \subseteq jobs'
  BY <1>1, <1>2 DEF Types, TypeOK
<1>4. ASSUME NEW w \in Workers, wk[w].kind = "status" PROVE StatusJob(wk[w].tx) \in jobs'
  <2>1. ~At(w, "idle")
    BY <1>4 DEF Types, Placed, At, RequestPCs, SubmitPCs, StatusPCs, Syncing
  <2> QED BY <2>1, <1>1, <1>4 DEF StatusJob
<1>5. FaultsOK /\ "restart" \in faults'
  BY <1>1, FaultsGrow DEF Fault
<1>6. wk' \in [Workers -> WorkerStates] /\ \A v \in Workers : Placed(wk'[v])
  BY <1>1, IdleOK
<1>7. \A v \in Workers : Placed(wk[v])'
  BY <1>6 DEF Placed
<1>8. Types'
  BY <1>1, <1>3, <1>5, <1>6, <1>7 DEF Types, TypeOK, FaultsOK
<1>9. \A j \in jobs' : \/ j \in jobs
                       \/ \E w \in Workers : /\ ~At(w, "idle") /\ j.kind = wk[w].kind
                                             /\ j.tx = wk[w].tx
  BY <1>1
<1> QED BY <1>1, <1>3, <1>4, <1>5, <1>8, <1>9 DEF Restarts, FaultsOK

\* The initial types.
LEMMA InitTypes == ASSUME Init PROVE Types
<1>1. wk \in [Workers -> WorkerStates] /\ \A w \in Workers : Placed(wk[w])
  BY IdleOK DEF Init
<1>2. txs \in [Txs -> Records]
  BY IdleOK DEF Init
<1>3. chain \in Seq(Entries) /\ Len(chain) <= MaxSeq
  BY Constants DEF Init
<1> QED BY <1>1, <1>2, <1>3, Constants DEF Init, Types, TypeOK

\* Every step keeps the types and has one of the forms.
LEMMA StepOK == ASSUME Types, Next PROVE Types' /\ Step
<1>1. ASSUME NEW t \in Txs, CreateTransaction(t) PROVE Types' /\ Step
  BY <1>1, CreateOK DEF Step
<1>2. ASSUME NEW w \in Workers, NEW j \in jobs, Take(w, j) PROVE Types' /\ Step
  BY <1>2, TakeOK DEF Step
<1>3. ASSUME NEW w \in Workers, Work(w) PROVE Types' /\ Step
  BY <1>3, WorkForm, WorkAdds, FormTypes DEF Step
<1>4. CASE (\E e \in mempool : Apply(e) \/ Drop(e)) \/ OtherApplied \/ SyncSequence
  BY <1>4, LedgerOK DEF Step
<1>5. CASE Restart
  BY <1>5, RestartOK DEF Step
<1> QED BY <1>1, <1>2, <1>3, <1>4, <1>5 DEF Next

\* Steps that change nothing.
LEMMA StutterTypes == ASSUME Types, UNCHANGED vars PROVE Types'
<1>1. \A v \in Workers : Placed(wk[v])'
  BY DEF vars, Types, Placed
<1> QED BY <1>1 DEF vars, Types, TypeOK

\* The types are kept by every behaviour.
LEMMA AlwaysTypes == Spec => []Types
<1>1. Init => Types
  BY InitTypes
<1>2. Types /\ [Next]_vars => Types'
  BY StepOK, StutterTypes
<1> QED BY <1>1, <1>2, PTL DEF Spec

\* Every variable keeps its type: whatever the handlers, failures and restarts do, what the
\* repository, the queues, the lane and the node hold is well formed.
THEOREM TypeCorrect == Spec => []TypeOK
<1>1. Types => TypeOK
  BY DEF Types
<1> QED BY <1>1, AlwaysTypes, PTL

-----------------------------------------------------------------------------
(* Final records, and the watch over the others. *)

\* A worker that does something has a job, and stores at most one record.
LEMMA FormWrites ==
    ASSUME Types, NEW w \in Workers, Form(w)
    PROVE  /\ ~At(w, "idle") /\ wk[w].tx \in Txs /\ Placed(wk[w])
           /\ \/ UNCHANGED txs
              \/ wk[w].pc # "request" /\ \E r : Writes(w, r) /\ r.status # "Absent"
<1>1. ~At(w, "idle")
  BY DEF Form, Ends, Claims, Syncs, Prepares, Fails, Marks, Finds, Releases, Sends, ToMark,
         Submits, Unstored, Resets, At, Syncing
<1>2. \/ UNCHANGED txs
      \/ wk[w].pc # "request" /\ \E r : Writes(w, r) /\ r.status # "Absent"
  <2>1. CASE Prepares(w)
    BY <2>1 DEF Prepares
  <2>2. CASE Fails(w)
    <3>1. wk[w].tx \in Txs
      BY <1>1, Working
    <3>2. [txs[wk[w].tx] EXCEPT !.status = "Failed"].status # "Absent"
      BY <3>1 DEF Types, TypeOK, Records
    <3> QED BY <2>2, <3>2 DEF Fails
  <2>3. CASE Marks(w)
    BY <2>3 DEF Marks, Finals
  <2>4. CASE Submits(w)
    BY <2>4 DEF Submits
  <2>5. CASE Resets(w)
    <3>1. [NoTx EXCEPT !.status = "Pending"].status # "Absent"
      BY DEF NoTx
    <3> QED BY <2>5, <3>1 DEF Resets
  <2>6. CASE Ends(w) \/ Claims(w) \/ Syncs(w) \/ Finds(w) \/ Releases(w) \/ Sends(w) \/ ToMark(w)
             \/ Unstored(w)
    BY <2>6 DEF Ends, Claims, Syncs, Finds, Releases, Sends, ToMark, Unstored, Still
  <2> QED BY <2>1, <2>2, <2>3, <2>4, <2>5, <2>6 DEF Form
<1> QED BY <1>1, <1>2, Working

\* Final after the step.
Done(t) == is_final_state(txs'[t].status)

\* What a store leaves of the records.
LEMMA WriteOK ==
    ASSUME Types, NEW w \in Workers, NEW r, Writes(w, r), wk[w].tx \in Txs
    PROVE  /\ txs'[wk[w].tx] = IF Final(wk[w].tx) THEN txs[wk[w].tx] ELSE r
           /\ \A t \in Txs : t # wk[w].tx => txs'[t] = txs[t]
           /\ \A t \in Txs : Final(t) => txs'[t] = txs[t]
           /\ r.status \in Finals => Done(wk[w].tx)
<1>1. txs' = [txs EXCEPT ![wk[w].tx] = WithStatus(txs[wk[w].tx], r)] /\ txs \in [Txs -> Records]
  BY DEF Writes, Types, TypeOK
<1>2. txs'[wk[w].tx] = WithStatus(txs[wk[w].tx], r)
      /\ \A t \in Txs : t # wk[w].tx => txs'[t] = txs[t]
  BY <1>1
<1>3. txs'[wk[w].tx] = IF Final(wk[w].tx) THEN txs[wk[w].tx] ELSE r
  BY <1>2 DEF WithStatus, Final
<1>4. r.status \in Finals => is_final_state(txs'[wk[w].tx].status)
  BY <1>3 DEF Final, is_final_state
<1> QED BY <1>2, <1>3, <1>4 DEF Done

\* A final record is never changed.
LEMMA FinalKept ==
    ASSUME Types, Step, NEW t \in Txs, Final(t)
    PROVE  txs'[t] = txs[t] /\ Done(t)
<1>1. ASSUME NEW u \in Txs, Creates(u) PROVE txs'[t] = txs[t]
  <2>1. u # t
    BY <1>1 DEF Creates, Final, is_final_state, Finals
  <2> QED BY <1>1, <2>1 DEF Creates, Types, TypeOK
<1>2. ASSUME NEW w \in Workers, Form(w) PROVE txs'[t] = txs[t]
  BY <1>2, FormWrites, WriteOK
<1>3. txs'[t] = txs[t]
  BY <1>1, <1>2 DEF Step, Takes, Ledger, Restarts
<1> QED BY <1>3 DEF Done, Final

\* What the step leaves of FinalSeen.
FinalSeenNext(k) ==
    /\ is_final_state(k.snap.status) => Done(k.tx)
    /\ k.kind # "request" /\ k.pc \in {"find", "pass"} => Done(k.tx)

\* It is enough to look at the worker that moves.
LEMMA FinalMove ==
    ASSUME Types, Step, FinalInv, NEW w \in Workers, NEW k, Goes(w, k),
           k.pc # "idle" => FinalSeenNext(k)
    PROVE  FinalInv'
<1>1. ASSUME NEW v \in Workers, v # w, wk[v].pc # "idle" PROVE FinalSeenNext(wk[v])
  <2>1. wk[v].tx \in Txs /\ FinalSeen(wk[v])
    BY <1>1, Working DEF FinalInv, At
  <2> QED BY <2>1, FinalKept DEF FinalSeen, FinalSeenNext
<1>2. wk'[w] = k /\ \A v \in Workers : v # w => wk'[v] = wk[v]
  BY DEF Goes, Types, TypeOK
<1>3. \A v \in Workers : wk'[v].pc # "idle" => FinalSeenNext(wk'[v])
  BY <1>1, <1>2
<1> QED BY <1>3 DEF FinalInv, FinalSeen, FinalSeenNext, Done, Final, At

\* Nobody moves.
LEMMA FinalStill == ASSUME Types, Step, FinalInv, UNCHANGED wk PROVE FinalInv'
<1>1. ASSUME NEW v \in Workers, wk[v].pc # "idle" PROVE FinalSeenNext(wk[v])
  <2>1. wk[v].tx \in Txs /\ FinalSeen(wk[v])
    BY <1>1, Working DEF FinalInv, At
  <2> QED BY <2>1, FinalKept DEF FinalSeen, FinalSeenNext
<1>2. \A v \in Workers : wk'[v].pc # "idle" => FinalSeenNext(wk'[v])
  BY <1>1
<1> QED BY <1>2 DEF FinalInv, FinalSeen, FinalSeenNext, Done, Final, At

\* A worker's step.
LEMMA FinalForm == ASSUME Types, Step, FinalInv, NEW w \in Workers, Form(w) PROVE FinalInv'
<1>0. ~At(w, "idle") /\ wk[w].tx \in Txs /\ Placed(wk[w]) /\ FinalSeen(wk[w])
  BY FormWrites DEF FinalInv
<1>a. is_final_state(wk[w].snap.status) => Done(wk[w].tx)
  BY <1>0, FinalKept DEF FinalSeen
<1>b. Idle.pc = "idle" /\ ~is_final_state(NoTx.status)
  BY IdleOK DEF NoTx, is_final_state, Finals
<1>c. ASSUME NEW k, Goes(w, k), Same(w, k), k.pc \notin {"find", "pass"} PROVE FinalInv'
  <2>1. FinalSeenNext(k)
    BY <1>a, <1>c DEF FinalSeenNext, Same
  <2> QED BY <1>c, <2>1, FinalMove
<1>d. ASSUME NEW k, Goes(w, k), Same(w, k), Done(wk[w].tx) \/ wk[w].kind = "request" PROVE FinalInv'
  <2>1. FinalSeenNext(k)
    BY <1>a, <1>d DEF FinalSeenNext, Same
  <2> QED BY <1>d, <2>1, FinalMove
<1>1. CASE Goes(w, Idle)
  BY <1>1, <1>b, FinalMove
<1>2. CASE Claims(w) \/ Sends(w) \/ ToMark(w) \/ Unstored(w) \/ Resets(w)
  <2>1. \E k : Goes(w, k) /\ Same(w, k) /\ k.pc \notin {"find", "pass"}
    BY <1>2 DEF Claims, Sends, ToMark, Unstored, Resets, Still, Base
  <2> QED BY <2>1, <1>c
<1>3. CASE Syncs(w)
  <2>1. PICK k : /\ Still(w, k)
                 /\ \/ wk[w].pc \in Syncing /\ k = Idle
                    \/ /\ wk[w].pc \in Syncing \cup {"sequence", "sign"}
                       /\ k.kind = wk[w].kind /\ k.tx = wk[w].tx /\ k.snap \in {NoTx, wk[w].snap}
                       /\ k.pc \in Syncing \cup {"fail"} \/ (wk[w].pc = "sequence" /\ k.pc = "sign")
    BY <1>3 DEF Syncs
  <2>2. CASE k = Idle
    BY <2>1, <2>2, <1>1 DEF Still, Base
  <2>3. CASE k # Idle
    <3>1. FinalSeenNext(k)
      BY <2>1, <2>3, <1>a, <1>b DEF FinalSeenNext, Syncing
    <3> QED BY <2>1, <3>1, FinalMove DEF Still, Base
  <2> QED BY <2>2, <2>3
<1>4. CASE Prepares(w)
  <2>1. Goes(w, Idle) \/ \E k : Goes(w, k) /\ Same(w, k) /\ k.pc \notin {"find", "pass"}
    BY <1>4 DEF Prepares, Base
  <2> QED BY <2>1, <1>1, <1>c
<1>5. CASE Fails(w)
  <2>1. PICK k : /\ Base(w, k) /\ Same(w, k)
                 /\ \/ Writes(w, [txs[wk[w].tx] EXCEPT !.status = "Failed"])
                    \/ wk[w].kind = "request"
    BY <1>5 DEF Fails
  <2>2. [txs[wk[w].tx] EXCEPT !.status = "Failed"].status \in Finals
    BY <1>0 DEF Types, TypeOK, Records, Finals
  <2>3. Done(wk[w].tx) \/ wk[w].kind = "request"
    BY <2>1, <2>2, <1>0, WriteOK
  <2> QED BY <2>1, <2>3, <1>d DEF Base
<1>6. CASE Marks(w)
  <2>1. PICK k, r : Base(w, k) /\ Same(w, k) /\ Writes(w, r) /\ r.status \in Finals
    BY <1>6 DEF Marks
  <2>2. Done(wk[w].tx)
    BY <2>1, <1>0, WriteOK
  <2> QED BY <2>1, <2>2, <1>d DEF Base
<1>7. CASE Finds(w)
  <2>1. PICK k : Still(w, k) /\ Same(w, k) /\ wk[w].pc = "find"
    BY <1>7 DEF Finds
  <2>2. Done(wk[w].tx) \/ wk[w].kind = "request"
    BY <2>1, <1>0, FinalKept DEF FinalSeen
  <2> QED BY <2>1, <2>2, <1>d DEF Base, Still
<1>8. CASE Ends(w) \/ Releases(w) \/ Submits(w)
  BY <1>8, <1>1 DEF Ends, Releases, Submits, Still, Base
<1> QED BY <1>2, <1>3, <1>4, <1>5, <1>6, <1>7, <1>8 DEF Form

\* Every step.
LEMMA FinalStep == ASSUME Types, Step, FinalInv PROVE FinalInv'
<1>1. ASSUME NEW w \in Workers, NEW j \in Jobs, Takes(w, j) PROVE FinalInv'
  <2>1. PICK k : Goes(w, k) /\ k.pc = j.kind /\ k.tx = j.tx /\ k.snap = txs[j.tx]
    BY <1>1 DEF Takes
  <2>2. j.tx \in Txs /\ j.kind \in JobKinds
    BY DEF Jobs
  <2>3. FinalSeenNext(k)
    BY <2>1, <2>2, FinalKept DEF FinalSeenNext, Final, JobKinds
  <2> QED BY <2>1, <2>3, FinalMove
<1>2. CASE Restarts
  <2>1. \A v \in Workers : wk'[v].pc = "idle"
    BY <1>2, IdleOK DEF Restarts
  <2> QED BY <2>1 DEF FinalInv, At
<1>3. CASE (\E t \in Txs : Creates(t)) \/ Ledger
  BY <1>3, FinalStill DEF Creates, Ledger
<1> QED BY <1>1, <1>2, <1>3, FinalForm DEF Step


\* A transaction is stored before its submission or status check is queued, and a
\* preparation goes on only with a stored one.
Present(t) == txs[t].status # "Absent"

PresentOf(k) ==
    k.kind # "request" \/ k.pc # "request" \/ k.snap.status = "Pending" => Present(k.tx)

PresentInv ==
    /\ \A j \in jobs : j.kind # "request" => Present(j.tx)
    /\ \A w \in Workers : ~At(w, "idle") => PresentOf(wk[w])

\* A worker ends its job or goes on with it.
LEMMA FormMoves ==
    ASSUME Types, NEW w \in Workers, Form(w)
    PROVE  \E k : /\ Base(w, k)
                  /\ \/ k = Idle
                     \/ /\ k.kind = wk[w].kind /\ k.tx = wk[w].tx /\ k.snap \in {NoTx, wk[w].snap}
                        /\ k.pc \notin {"idle", "request"}
                        /\ wk[w].pc = "request" => wk[w].snap.status = "Pending"
<1>1. CASE Ends(w) \/ Releases(w) \/ Submits(w)
  BY <1>1 DEF Ends, Releases, Submits, Still
<1>2. CASE Claims(w) \/ Fails(w) \/ Marks(w) \/ Finds(w) \/ Sends(w) \/ ToMark(w) \/ Unstored(w)
           \/ Resets(w)
  BY <1>2 DEF Claims, Fails, Marks, Finds, Sends, ToMark, Unstored, Resets, Still, Same
<1>3. CASE Syncs(w)
  BY <1>3 DEF Syncs, Still, Syncing
<1>4. CASE Prepares(w)
  BY <1>4 DEF Prepares, Same
<1> QED BY <1>1, <1>2, <1>3, <1>4 DEF Form

\* One preparation and one submission of a transaction at a time, whatever the step.
LEMMA ExclusiveStep == ASSUME Single, Types, Step, Exclusive PROVE Exclusive'
<1>0. wk \in [Workers -> WorkerStates] /\ Idle.kind = "none"
  BY IdleOK DEF Types, TypeOK
<1>1. ASSUME NEW w \in Workers, Form(w) PROVE Exclusive'
  <2>1. PICK k : /\ Base(w, k) /\ (k = Idle \/ (k.kind = wk[w].kind /\ k.tx = wk[w].tx))
    BY <1>1, FormMoves
  <2>2. wk'[w] = k /\ \A v \in Workers : v # w => wk'[v] = wk[v]
    BY <2>1, <1>0 DEF Base, Goes
  <2> QED BY <2>1, <2>2, <1>0 DEF Exclusive
<1>2. ASSUME NEW w \in Workers, NEW j \in Jobs, Takes(w, j) PROVE Exclusive'
  <2>1. PICK k : Goes(w, k) /\ k.kind = j.kind /\ k.tx = j.tx
    BY <1>2 DEF Takes
  <2>2. wk'[w] = k /\ \A v \in Workers : v # w => wk'[v] = wk[v]
    BY <2>1, <1>0 DEF Goes
  <2>3. j.kind \in {"request", "submit"} =>
          \A v \in Workers : ~(wk[v].kind = j.kind /\ wk[v].tx = j.tx)
    BY <1>2 DEF Takes, Single
  <2> QED BY <2>1, <2>2, <2>3 DEF Exclusive
<1>3. CASE Restarts
  <2>1. \A v \in Workers : wk'[v] = Idle
    BY <1>3 DEF Restarts
  <2> QED BY <2>1, <1>0 DEF Exclusive
<1>4. CASE (\E t \in Txs : Creates(t)) \/ Ledger
  BY <1>4 DEF Creates, Ledger, Exclusive
<1> QED BY <1>1, <1>2, <1>3, <1>4 DEF Step

\* A transaction that is stored stays stored.
LEMMA PresentKept ==
    ASSUME Types, Step, NEW t \in Txs, Present(t)
    PROVE  txs'[t].status # "Absent"
<1>1. ASSUME NEW u \in Txs, Creates(u) PROVE txs'[t].status # "Absent"
  BY <1>1 DEF Creates, Present, Types, TypeOK
<1>2. ASSUME NEW w \in Workers, Form(w) PROVE txs'[t].status # "Absent"
  <2>1. wk[w].tx \in Txs /\ (UNCHANGED txs \/ \E r : Writes(w, r) /\ r.status # "Absent")
    BY <1>2, FormWrites
  <2>2. CASE UNCHANGED txs
    BY <2>2 DEF Present
  <2>3. ASSUME NEW r, Writes(w, r), r.status # "Absent" PROVE txs'[t].status # "Absent"
    BY <2>1, <2>3, WriteOK DEF Present
  <2> QED BY <2>1, <2>2, <2>3
<1> QED BY <1>1, <1>2 DEF Step, Takes, Ledger, Restarts, Present

\* What the step leaves of PresentOf.
PresentOfNext(k) ==
    k.kind # "request" \/ k.pc # "request" \/ k.snap.status = "Pending"
    => txs'[k.tx].status # "Absent"

\* A worker that keeps its state keeps its transaction.
LEMMA PresentStays ==
    ASSUME Types, Step, PresentInv, NEW v \in Workers, wk[v].pc # "idle"
    PROVE  PresentOfNext(wk[v])
<1>1. wk[v].tx \in Txs /\ PresentOf(wk[v])
  BY Working DEF PresentInv, At
<1> QED BY <1>1, PresentKept DEF PresentOf, PresentOfNext

\* Every step.
LEMMA PresentStep == ASSUME Types, Step, PresentInv PROVE PresentInv'
<1>0. wk \in [Workers -> WorkerStates] /\ Idle.pc = "idle" /\ jobs \subseteq Jobs
      /\ \A j \in Jobs : j.tx \in Txs
  BY IdleOK DEF Types, TypeOK, Jobs
<1>a. \A j \in jobs : j.kind # "request" => txs'[j.tx].status # "Absent"
  BY <1>0, PresentKept DEF PresentInv
<1>b. SUFFICES /\ \A j \in jobs' : j.kind # "request" => txs'[j.tx].status # "Absent"
               /\ \A v \in Workers : wk'[v].pc # "idle" => PresentOfNext(wk'[v])
  BY DEF PresentInv, PresentOf, PresentOfNext, Present, At
<1>1. CASE \E t \in Txs : Creates(t)
  <2>1. PICK t \in Txs : Creates(t)
    BY <1>1
  <2>2. txs'[t].status # "Absent" /\ wk' = wk /\ \A j \in jobs' : j \in jobs \/ j.tx = t
    BY <2>1 DEF Creates
  <2> QED BY <2>2, <1>a, PresentStays
<1>2. CASE \E w \in Workers : \E j \in Jobs : Takes(w, j)
  <2>1. PICK w \in Workers, j \in Jobs : Takes(w, j)
    BY <1>2
  <2>2. PICK k : Goes(w, k) /\ k.pc = j.kind /\ k.kind = j.kind /\ k.tx = j.tx /\ k.snap = txs[j.tx]
    BY <2>1 DEF Takes
  <2>3. j \in jobs /\ jobs' \subseteq jobs /\ txs' = txs
    BY <2>1 DEF Takes
  <2>4. wk'[w] = k /\ \A v \in Workers : v # w => wk'[v] = wk[v]
    BY <2>2, <1>0 DEF Goes
  <2>5. PresentOfNext(k)
    BY <2>2, <2>3, <1>a DEF PresentOfNext
  <2> QED BY <2>3, <2>4, <2>5, <1>a, PresentStays
<1>3. CASE \E w \in Workers : Form(w) /\ Adds(w)
  <2>1. PICK w \in Workers : Form(w) /\ Adds(w)
    BY <1>3
  <2>2. PICK k : /\ Base(w, k)
                 /\ \/ k = Idle
                    \/ /\ k.kind = wk[w].kind /\ k.tx = wk[w].tx /\ k.snap \in {NoTx, wk[w].snap}
                       /\ k.pc \notin {"idle", "request"}
                       /\ wk[w].pc = "request" => wk[w].snap.status = "Pending"
    BY <2>1, FormMoves
  <2>3. wk'[w] = k /\ \A v \in Workers : v # w => wk'[v] = wk[v]
    BY <2>2, <1>0 DEF Base, Goes
  <2>4. PresentOfNext(wk[w]) /\ wk[w].pc # "idle"
    BY <2>1, FormWrites, PresentStays DEF At
  <2>5. k # Idle => PresentOfNext(k)
    BY <2>2, <2>4 DEF PresentOfNext
  <2>6. \A j \in jobs' : j.kind # "request" => txs'[j.tx].status # "Absent"
    BY <2>1, <2>4, <1>a DEF Adds, PresentOfNext
  <2> QED BY <2>3, <2>5, <2>6, <1>0, PresentStays
<1>4. CASE Ledger
  BY <1>4, <1>a, PresentStays DEF Ledger
<1>5. CASE Restarts
  <2>1. \A v \in Workers : wk'[v].pc = "idle"
    BY <1>5, <1>0 DEF Restarts
  <2>2. \A j \in jobs' : j.kind # "request" => txs'[j.tx].status # "Absent"
    BY <1>5, <1>a, PresentStays DEF Restarts, PresentOfNext, At
  <2> QED BY <2>1, <2>2
<1> QED BY <1>1, <1>2, <1>3, <1>4, <1>5 DEF Step

\* A status check ends with a final record, or leaves its job behind.
LEMMA Watches ==
    ASSUME Types, Step, FinalInv, NEW w \in Workers, Form(w), wk[w].kind = "status"
    PROVE  \/ Done(wk[w].tx) \/ StatusJob(wk[w].tx) \in jobs'
           \/ \E k : Goes(w, k) /\ k.kind = "status" /\ k.tx = wk[w].tx
<1>0. ~At(w, "idle") /\ wk[w].tx \in Txs /\ Placed(wk[w]) /\ FinalSeen(wk[w])
  BY FormWrites DEF FinalInv
<1>1. wk[w].pc \in StatusPCs
  BY <1>0 DEF Placed, At
<1>2. CASE Ends(w)
  BY <1>0, <1>2, FinalKept DEF Ends, FinalSeen
<1>3. CASE Releases(w)
  BY <1>0, <1>3, FinalKept DEF Releases, FinalSeen
<1>4. CASE Claims(w) \/ Fails(w) \/ Marks(w) \/ Finds(w) \/ Sends(w) \/ ToMark(w) \/ Unstored(w)
           \/ Resets(w)
  BY <1>4 DEF Claims, Fails, Marks, Finds, Sends, ToMark, Unstored, Resets, Still, Base, Same
<1>5. ~Syncs(w) /\ ~Prepares(w) /\ ~Submits(w)
  BY <1>1 DEF Syncs, Prepares, Submits, StatusPCs, Syncing
<1> QED BY <1>2, <1>3, <1>4, <1>5 DEF Form

\* What the step leaves of the watch over t.
Watched(t) ==
    \/ txs'[t].status = "Absent" \/ Done(t) \/ StatusJob(t) \in jobs'
    \/ \E v \in Workers : wk'[v].kind = "status" /\ wk'[v].tx = t

\* The watch over one transaction.
LEMMA WatchStep ==
    ASSUME OneStore, Types, Step, FinalInv, PresentInv, MonitoredUntilFinal, NEW t \in Txs
    PROVE  Watched(t)
<1>0. wk \in [Workers -> WorkerStates] /\ txs \in [Txs -> Records]
  BY DEF Types, TypeOK
<1>1. \/ txs[t].status = "Absent" \/ Final(t) \/ StatusJob(t) \in jobs
      \/ \E v \in Workers : wk[v].kind = "status" /\ wk[v].tx = t
  BY DEF MonitoredUntilFinal, Final
<1>2. CASE Final(t)
  BY <1>2, FinalKept DEF Watched
<1>3. ASSUME NEW u \in Txs, Creates(u) PROVE Watched(t)
  <2>1. txs' = [txs EXCEPT ![u] = txs'[u]] /\ wk' = wk /\ jobs \subseteq jobs'
    BY <1>3 DEF Creates
  <2>2. CASE u = t
    <3>1. txs'[t].status = "Failed" => Done(t)
      BY DEF Done, is_final_state, Finals
    <3> QED BY <1>3, <2>2, <3>1 DEF Creates, Watched
  <2>3. CASE u # t
    <3>1. txs'[t] = txs[t]
      BY <2>1, <2>3, <1>0
    <3> QED BY <2>1, <3>1, <1>1, <1>2 DEF Watched
  <2> QED BY <2>2, <2>3
<1>4. ASSUME NEW w \in Workers, NEW j \in Jobs, Takes(w, j) PROVE Watched(t)
  <2>1. PICK k : Goes(w, k) /\ k.kind = j.kind /\ k.tx = j.tx
    BY <1>4 DEF Takes
  <2>2. wk[w].pc = "idle" /\ jobs \ {j} \subseteq jobs' /\ txs' = txs
    BY <1>4 DEF Takes
  <2>3. wk'[w] = k /\ \A v \in Workers : v # w => wk'[v] = wk[v]
    BY <2>1, <1>0 DEF Goes
  <2>4. wk[w].kind # "status"
    BY <2>2 DEF Types, Placed, RequestPCs, SubmitPCs, StatusPCs, Syncing
  <2>5. StatusJob(t).kind = "status" /\ StatusJob(t).tx = t
    BY DEF StatusJob
  <2> QED BY <1>1, <1>2, <2>1, <2>2, <2>3, <2>4, <2>5 DEF Watched
<1>5. ASSUME NEW w \in Workers, Form(w) PROVE Watched(t)
  <2>1. PICK k : Base(w, k)
    BY <1>5, FormBase
  <2>2. jobs \subseteq jobs' /\ \A v \in Workers : v # w => wk'[v] = wk[v]
    BY <2>1, <1>0 DEF Base, Goes
  <2>3. txs[t].status = "Absent" => txs'[t] = txs[t]
    <3>1. wk[w].tx \in Txs /\ ~At(w, "idle")
          /\ \/ UNCHANGED txs
             \/ wk[w].pc # "request" /\ \E r : Writes(w, r)
      BY <1>5, FormWrites
    <3>2. wk[w].pc # "request" => txs[wk[w].tx].status # "Absent"
      BY <3>1 DEF PresentInv, PresentOf, Present
    <3> QED BY <3>1, <3>2, WriteOK
  <2>4. CASE wk[w].kind = "status" /\ wk[w].tx = t
    <3>1. \/ Done(t) \/ StatusJob(t) \in jobs'
          \/ \E n : Goes(w, n) /\ n.kind = "status" /\ n.tx = t
      BY <1>5, <2>4, Watches
    <3>2. \A n : Goes(w, n) => wk'[w] = n
      BY <1>0 DEF Goes
    <3> QED BY <3>1, <3>2 DEF Watched
  <2> QED BY <1>1, <1>2, <2>2, <2>3, <2>4 DEF Watched
<1>6. CASE Ledger
  BY <1>1, <1>2, <1>6 DEF Ledger, Watched
<1>7. CASE Restarts
  BY <1>1, <1>2, <1>7 DEF Restarts, Watched
<1> QED BY <1>3, <1>4, <1>5, <1>6, <1>7 DEF Step

\* The watch rests on what the workers know and on the queued jobs' being of stored
\* transactions.
WatchInv == Types /\ FinalInv /\ PresentInv /\ MonitoredUntilFinal

\* The watch holds initially.
LEMMA InitWatch == ASSUME Init PROVE WatchInv
<1>1. \A w \in Workers : At(w, "idle")
  BY IdleOK DEF Init, At
<1>2. \A t \in Txs : txs[t].status = "Absent"
  BY DEF Init, NoTx
<1>3. jobs = {}
  BY DEF Init
<1> QED BY <1>1, <1>2, <1>3, InitTypes DEF WatchInv, FinalInv, PresentInv, MonitoredUntilFinal

\* Every step keeps the watch.
LEMMA WatchInvStep == ASSUME OneStore, WatchInv, [Next]_vars PROVE WatchInv'
<1>1. CASE Next
  <2>1. Types' /\ Step
    BY <1>1, StepOK DEF WatchInv
  <2>2. FinalInv' /\ PresentInv'
    BY <2>1, FinalStep, PresentStep DEF WatchInv
  <2>3. \A t \in Txs : Watched(t)
    BY <2>1, WatchStep DEF WatchInv
  <2>4. MonitoredUntilFinal'
    BY <2>3 DEF Watched, MonitoredUntilFinal, Done, StatusJob
  <2> QED BY <2>1, <2>2, <2>4 DEF WatchInv
<1>2. CASE UNCHANGED vars
  <2>1. Types'
    BY <1>2, StutterTypes DEF WatchInv
  <2>2. FinalInv' /\ PresentInv' /\ MonitoredUntilFinal'
    BY <1>2 DEF WatchInv, vars, FinalInv, FinalSeen, Final, PresentInv, PresentOf, Present, At,
                MonitoredUntilFinal
  <2> QED BY <2>1, <2>2 DEF WatchInv
<1> QED BY <1>1, <1>2

\* The watch holds at all times.
LEMMA AlwaysWatch == OneStore => (Spec => []WatchInv)
<1> SUFFICES ASSUME OneStore PROVE Spec => []WatchInv
  OBVIOUS
<1>1. Init => WatchInv
  BY InitWatch
<1>2. WatchInv /\ [Next]_vars => WatchInv'
  BY WatchInvStep
<1> QED BY <1>1, <1>2, PTL DEF Spec

\* Every transaction that is not final has its status check queued or running, however often the
\* queue delivers a job: a check is given up only with a final record, and a restart, a failed
\* store or a lost race with another handler brings its job back.  Not both the queue and the
\* repository may fail: a creation whose status check could not be queued (stellar_relayer.rs)
\* and whose record could then not be marked Failed leaves it Pending, unwatched.
THEOREM StatusCheckKept == OneStore => (Spec => []MonitoredUntilFinal)
<1>1. WatchInv => MonitoredUntilFinal
  BY DEF WatchInv
<1> QED BY <1>1, AlwaysWatch, PTL

-----------------------------------------------------------------------------
(* The envelopes that are out. *)

\* What the step leaves of Out, Known, Unsigned and Submitting.
OutNext(t) == {s \in Seqs : [tx |-> t, seq |-> s] \in mempool'}
              \cup {s \in DOMAIN chain' : chain'[s].tx = t}

KnownNext(t) ==
    /\ ~Done(t) => OutNext(t) \subseteq {txs'[t].env}
    /\ \A a, b \in OutNext(t) : a = b
    /\ txs'[t].status \in {"Absent", "Pending"} => txs'[t].env = None

UnsignedNext(k) ==
    /\ k.kind = "request"
    /\ k.pc \in {"sequence", "sign"} \/ (k.pc = "request" /\ k.snap.status = "Pending")
    => txs'[k.tx].status = "Pending" \/ Done(k.tx)

SubmittingNext(k) ==
    k.kind = "submit" =>
    /\ k.pc \in {"store", "reset"} => ~is_final_state(k.snap.status)
    /\ k.pc = "store" => k.snap.env # None
    /\ k.pc = "reset" => OutNext(k.tx) = {}
    /\ k.pc \in {"submit", "store"} /\ ~is_final_state(k.snap.status) =>
         /\ OutNext(k.tx) \subseteq {k.snap.env}
         /\ k.snap.env # None /\ ~Done(k.tx) => txs'[k.tx].env = k.snap.env

\* The envelope invariant after a step, from its parts.
LEMMA EnvelopeNext ==
    ASSUME \A e \in mempool' : e.seq # 0, \A t \in Txs : KnownNext(t),
           \A v \in Workers : wk'[v].pc # "idle" => UnsignedNext(wk'[v]) /\ SubmittingNext(wk'[v])
    PROVE  EnvelopeInv'
<1>2. \A t \in Txs : Known(t)'
  BY DEF Known, KnownNext, Out, OutNext, Final, Done
<1>3. \A v \in Workers : wk'[v].pc # "idle" => Unsigned(wk[v])'
  BY DEF Unsigned, UnsignedNext, Final, Done
<1>4. \A v \in Workers : wk'[v].pc # "idle" => Submitting(wk[v])'
  BY DEF Submitting, SubmittingNext, Out, OutNext, Final, Done
<1> QED BY <1>2, <1>3, <1>4 DEF EnvelopeInv, At

\* What a transaction has out are sequences.
LEMMA OutSeqs == ASSUME Types, NEW t \in Txs PROVE Out(t) \subseteq Nat /\ None \notin Out(t)
<1>1. DOMAIN chain \subseteq Nat
  BY DEF Types, TypeOK
<1> QED BY <1>1, Constants, StellarAssumption DEF Out

\* A transaction whose record stays, or is final after the step, with no more envelopes out.
LEMMA EnvelopeStays ==
    ASSUME NEW t, OutNext(t) \subseteq Out(t), Known(t), txs'[t] = txs[t] \/ (Done(t) /\ txs'[t].status \in Finals)
    PROVE  /\ KnownNext(t)
           /\ \A k : k.tx = t /\ Unsigned(k) => UnsignedNext(k)
           /\ \A k : k.tx = t /\ Submitting(k) => SubmittingNext(k)
<1>0. txs'[t] = txs[t] => (Done(t) <=> Final(t))
  BY DEF Done, Final
<1>1. KnownNext(t)
  BY <1>0 DEF Known, KnownNext, Finals
<1>2. ASSUME NEW k, k.tx = t, Unsigned(k) PROVE UnsignedNext(k)
  BY <1>0, <1>2 DEF Unsigned, UnsignedNext
<1>3. ASSUME NEW k, k.tx = t, Submitting(k) PROVE SubmittingNext(k)
  BY <1>0, <1>3 DEF Submitting, SubmittingNext
<1> QED BY <1>1, <1>2, <1>3

\* A worker that is elsewhere.
LEMMA Elsewhere ==
    ASSUME NEW k, k.pc \notin {"request", "sequence", "sign", "submit", "store", "reset"}
    PROVE  UnsignedNext(k) /\ SubmittingNext(k)
BY DEF UnsignedNext, SubmittingNext

\* One worker w moves on; the other transactions stay as they are.
LEMMA EnvelopeMove ==
    ASSUME Types, EnvelopeInv, NEW w \in Workers, wk[w].tx \in Txs, NEW k, Goes(w, k),
           \A e \in mempool' : e.seq # 0,
           \A t \in Txs : t # wk[w].tx => txs'[t] = txs[t] /\ OutNext(t) \subseteq Out(t),
           KnownNext(wk[w].tx),
           k.pc # "idle" => UnsignedNext(k) /\ SubmittingNext(k),
           \A v \in Workers : v # w /\ wk[v].pc # "idle" /\ wk[v].tx = wk[w].tx
                              => UnsignedNext(wk[v]) /\ SubmittingNext(wk[v])
    PROVE  EnvelopeInv'
<1>1. \A t \in Txs : KnownNext(t)
  BY EnvelopeStays DEF EnvelopeInv
<1>2. wk'[w] = k /\ \A v \in Workers : v # w => wk'[v] = wk[v]
  BY DEF Goes, Types, TypeOK
<1>3. ASSUME NEW v \in Workers, v # w, wk[v].pc # "idle", wk[v].tx # wk[w].tx
      PROVE  UnsignedNext(wk[v]) /\ SubmittingNext(wk[v])
  <2>1. wk[v].tx \in Txs
    BY <1>3, Working DEF At
  <2>2. Unsigned(wk[v]) /\ Submitting(wk[v]) /\ Known(wk[v].tx)
    BY <1>3, <2>1 DEF EnvelopeInv, At
  <2> QED BY <1>3, <2>1, <2>2, EnvelopeStays
<1>4. \A v \in Workers : wk'[v].pc # "idle" => UnsignedNext(wk'[v]) /\ SubmittingNext(wk'[v])
  BY <1>2, <1>3
<1> QED BY <1>1, <1>4, EnvelopeNext

\* The record of the worker's transaction stays, or becomes final.
LEMMA EnvelopeKept ==
    ASSUME Types, EnvelopeInv, NEW w \in Workers, wk[w].tx \in Txs, NEW k, Goes(w, k),
           UNCHANGED <<mempool, chain>>,
           \A t \in Txs : t # wk[w].tx => txs'[t] = txs[t],
           txs'[wk[w].tx] = txs[wk[w].tx] \/ (Done(wk[w].tx) /\ txs'[wk[w].tx].status \in Finals),
           k.pc # "idle" => UnsignedNext(k) /\ SubmittingNext(k)
    PROVE  EnvelopeInv'
<1>1. \A t : OutNext(t) = Out(t)
  BY DEF OutNext, Out
<1>2. Known(wk[w].tx)
  BY DEF EnvelopeInv
<1>3. KnownNext(wk[w].tx)
  BY <1>1, <1>2, EnvelopeStays
<1>4. ASSUME NEW v \in Workers, v # w, wk[v].pc # "idle", wk[v].tx = wk[w].tx
      PROVE  UnsignedNext(wk[v]) /\ SubmittingNext(wk[v])
  <2>1. Unsigned(wk[v]) /\ Submitting(wk[v])
    BY <1>4 DEF EnvelopeInv, At
  <2> QED BY <1>1, <1>2, <1>4, <2>1, EnvelopeStays
<1>5. \A e \in mempool' : e.seq # 0
  BY DEF EnvelopeInv
<1> QED BY <1>1, <1>3, <1>4, <1>5, EnvelopeMove

\* A preparation stores what it signed.
LEMMA EnvelopePrepares ==
    ASSUME Types, Exclusive, EnvelopeInv, NEW w \in Workers, Form(w), Prepares(w)
    PROVE  EnvelopeInv'
<1> DEFINE t == wk[w].tx
           r == [status |-> "Sent", env |-> wk[w].seq, hash |-> None]
<1>0. ~At(w, "idle") /\ t \in Txs /\ Placed(wk[w]) /\ wk[w].pc = "sign" /\ Writes(w, r)
  BY FormWrites DEF Prepares
<1>1. wk[w].kind = "request"
  BY <1>0 DEF Placed, SubmitPCs, StatusPCs, Syncing
<1>2. PICK k : Base(w, k) /\ (k = Idle \/ (Same(w, k) /\ k.pc = "fetch"))
  BY DEF Prepares
<1>3. Goes(w, k) /\ UNCHANGED <<mempool, chain>> /\ UnsignedNext(k) /\ SubmittingNext(k)
  BY <1>0, <1>2, IdleOK, Elsewhere DEF Base, Writes
<1>4. Known(t) /\ Unsigned(wk[w])
  BY <1>0 DEF EnvelopeInv
<1>5. /\ txs'[t] = IF Final(t) THEN txs[t] ELSE r
      /\ \A u \in Txs : u # t => txs'[u] = txs[u]
  BY <1>0, WriteOK
<1>6. CASE Final(t)
  BY <1>0, <1>3, <1>5, <1>6, EnvelopeKept
<1>7. CASE ~Final(t)
  <2>1. txs[t].status = "Pending" /\ txs[t].env = None /\ Out(t) = {}
    BY <1>0, <1>1, <1>4, <1>7, OutSeqs DEF Unsigned, Known
  <2>2. \A u : OutNext(u) = Out(u)
    BY <1>3 DEF OutNext, Out
  <2>3. txs'[t] = r /\ r.status = "Sent"
    BY <1>5, <1>7
  <2>4. KnownNext(t)
    BY <2>1, <2>2, <2>3 DEF KnownNext
  <2>5. ASSUME NEW v \in Workers, v # w, wk[v].pc # "idle", wk[v].tx = t
        PROVE  UnsignedNext(wk[v]) /\ SubmittingNext(wk[v])
    <3>1. wk[v].kind # "request" /\ Submitting(wk[v])
      BY <1>1, <2>5 DEF Exclusive, EnvelopeInv, At
    <3>2. SubmittingNext(wk[v])
      BY <1>7, <2>1, <2>2, <2>5, <3>1 DEF Submitting, SubmittingNext
    <3> QED BY <3>1, <3>2 DEF UnsignedNext
  <2>6. \A e \in mempool' : e.seq # 0
    BY <1>3 DEF EnvelopeInv
  <2> HIDE DEF t
  <2> QED BY <1>0, <1>3, <1>5, <2>2, <2>4, <2>5, <2>6, EnvelopeMove DEF t
<1> QED BY <1>6, <1>7

\* A submission records that its envelope was accepted.
LEMMA EnvelopeSubmits ==
    ASSUME Types, Exclusive, EnvelopeInv, NEW w \in Workers, Form(w), Submits(w)
    PROVE  EnvelopeInv'
<1> DEFINE t == wk[w].tx
           r == [status |-> "Submitted", env |-> wk[w].snap.env, hash |-> wk[w].snap.env]
<1>0. ~At(w, "idle") /\ t \in Txs /\ Placed(wk[w]) /\ wk[w].pc = "store" /\ Writes(w, r)
  BY FormWrites DEF Submits
<1>1. wk[w].kind = "submit"
  BY <1>0 DEF Placed, RequestPCs, StatusPCs, Syncing
<1>3. Goes(w, Idle) /\ UNCHANGED <<mempool, chain>> /\ Idle.pc = "idle"
  BY <1>0, IdleOK DEF Submits, Base, Writes
<1>4. Known(t) /\ Submitting(wk[w])
  BY <1>0 DEF EnvelopeInv
<1>5. /\ txs'[t] = IF Final(t) THEN txs[t] ELSE r
      /\ \A u \in Txs : u # t => txs'[u] = txs[u]
  BY <1>0, WriteOK
<1>6. CASE Final(t)
  BY <1>0, <1>3, <1>5, <1>6, EnvelopeKept
<1>7. CASE ~Final(t)
  <2>1. txs[t].env = wk[w].snap.env /\ wk[w].snap.env # None
    BY <1>0, <1>1, <1>4, <1>7 DEF Submitting
  <2>2. \A u : OutNext(u) = Out(u)
    BY <1>3 DEF OutNext, Out
  <2>3. txs'[t] = r /\ r.status = "Submitted" /\ r.env = txs[t].env
    BY <1>5, <1>7, <2>1
  <2>4. KnownNext(t)
    BY <1>4, <1>7, <2>2, <2>3 DEF Known, KnownNext
  <2>5. ASSUME NEW v \in Workers, v # w, wk[v].pc # "idle", wk[v].tx = t
        PROVE  UnsignedNext(wk[v]) /\ SubmittingNext(wk[v])
    <3>1. wk[v].kind # "submit" /\ Unsigned(wk[v])
      BY <1>1, <2>5 DEF Exclusive, EnvelopeInv, At
    <3>2. txs[t].status # "Pending"
      BY <1>4, <2>1 DEF Known
    <3>3. UnsignedNext(wk[v])
      BY <1>7, <2>5, <3>1, <3>2 DEF Unsigned, UnsignedNext
    <3> QED BY <3>1, <3>3 DEF SubmittingNext
  <2>6. \A e \in mempool' : e.seq # 0
    BY <1>3 DEF EnvelopeInv
  <2> HIDE DEF t
  <2> QED BY <1>0, <1>3, <1>5, <2>2, <2>4, <2>5, <2>6, EnvelopeMove DEF t
<1> QED BY <1>6, <1>7

\* A bad sequence: nothing of the transaction is out, and its record is reset.
LEMMA EnvelopeResets ==
    ASSUME Types, Exclusive, EnvelopeInv, NEW w \in Workers, Form(w), Resets(w)
    PROVE  EnvelopeInv'
<1> DEFINE t == wk[w].tx
           r == [NoTx EXCEPT !.status = "Pending"]
<1>0. ~At(w, "idle") /\ t \in Txs /\ Placed(wk[w]) /\ wk[w].pc = "reset"
  BY FormWrites DEF Resets
<1>1. wk[w].kind = "submit"
  BY <1>0 DEF Placed, RequestPCs, StatusPCs, Syncing
<1>2. PICK k : /\ Base(w, k) /\ k.pc = "fetch"
               /\ Writes(w, r) \/ UNCHANGED <<txs, lane, mempool>>
  BY DEF Resets
<1>3. Goes(w, k) /\ UNCHANGED <<mempool, chain>> /\ UnsignedNext(k) /\ SubmittingNext(k)
  BY <1>2, Elsewhere DEF Base, Writes
<1>4. Known(t) /\ Submitting(wk[w])
  BY <1>0 DEF EnvelopeInv
<1>a. Writes(w, r) => /\ txs'[t] = IF Final(t) THEN txs[t] ELSE r
                      /\ \A u \in Txs : u # t => txs'[u] = txs[u]
  BY <1>0, WriteOK
<1>5. /\ txs'[t] = txs[t] \/ (~Final(t) /\ txs'[t] = r)
      /\ \A u \in Txs : u # t => txs'[u] = txs[u]
  BY <1>2, <1>a
<1>6. CASE txs'[t] = txs[t]
  BY <1>0, <1>3, <1>5, <1>6, EnvelopeKept
<1>7. CASE txs'[t] = r
  <2>1. Out(t) = {} /\ r.status = "Pending" /\ r.env = None
    BY <1>0, <1>1, <1>4 DEF Submitting, NoTx
  <2>2. \A u : OutNext(u) = Out(u)
    BY <1>3 DEF OutNext, Out
  <2>4. KnownNext(t)
    BY <1>7, <2>1, <2>2 DEF KnownNext
  <2>5. ASSUME NEW v \in Workers, v # w, wk[v].pc # "idle", wk[v].tx = t
        PROVE  UnsignedNext(wk[v]) /\ SubmittingNext(wk[v])
    <3>1. wk[v].kind # "submit"
      BY <1>1, <2>5 DEF Exclusive
    <3> QED BY <1>7, <2>1, <2>5, <3>1 DEF UnsignedNext, SubmittingNext
  <2>6. \A e \in mempool' : e.seq # 0
    BY <1>3 DEF EnvelopeInv
  <2> HIDE DEF t
  <2> QED BY <1>0, <1>3, <1>5, <2>2, <2>4, <2>5, <2>6, EnvelopeMove DEF t
<1> QED BY <1>5, <1>6, <1>7

\* A submission sends the envelope it read: the only one there can be.
LEMMA EnvelopeSends ==
    ASSUME Single, Types, Exclusive, EnvelopeInv, NEW w \in Workers, Form(w), Sends(w)
    PROVE  EnvelopeInv'
<1> DEFINE t == wk[w].tx
           n == wk[w].snap.env
           e == EnvelopeOf(w)
<1>0. ~At(w, "idle") /\ t \in Txs /\ Placed(wk[w]) /\ wk[w].pc = "submit"
      /\ ~is_final_state(wk[w].snap.status) /\ wk[w].snap \in Records
  BY FormWrites, Working DEF Sends
<1>1. wk[w].kind = "submit"
  BY <1>0 DEF Placed, RequestPCs, StatusPCs, Syncing
<1>2. PICK k : /\ Base(w, k) /\ Same(w, k) /\ UNCHANGED <<txs, lane>>
               /\ k.pc \in {"store", "reset", "fail"}
               /\ mempool' = mempool \/ (Accepts(e) /\ mempool' = mempool \cup {e})
               /\ k.pc = "store" => Accepts(e) \/ e \in mempool \/ Applied(e)
               /\ k.pc = "reset" => mempool' = mempool /\ e \notin mempool /\ ~Applied(e)
  BY DEF Sends, Single
<1>3. Goes(w, k) /\ chain' = chain
  BY <1>2 DEF Base
<1>4. Known(t) /\ Submitting(wk[w]) /\ n \in Seqs \cup {None}
  BY <1>0 DEF EnvelopeInv, Records
<1>5. Out(t) \subseteq {n} /\ (n # None /\ ~Final(t) => txs[t].env = n)
  BY <1>0, <1>1, <1>4 DEF Submitting
<1>6. e.tx = t /\ (n = None => e.seq = 0) /\ (n # None => e = [tx |-> t, seq |-> n])
  BY DEF EnvelopeOf, Envelope
<1>a. Len(chain) \in Nat /\ DOMAIN chain = 1 .. Len(chain)
  BY DEF Types, TypeOK
<1>7. Accepts(e) \/ e \in mempool \/ Applied(e) => n # None
  <2>1. Accepts(e) => e.seq # 0
    BY <1>a DEF Accepts, OnChainSeq
  <2>2. Applied(e) => e.seq # 0
    BY <1>a DEF Applied
  <2> QED BY <2>1, <2>2, <1>6 DEF EnvelopeInv
<1>8. n # None => n \in Seqs /\ n # 0 /\ n # None
  BY <1>4, Constants
<1>9. \A f \in mempool' : f.seq # 0
  BY <1>2, <1>6, <1>7, <1>8 DEF EnvelopeInv
<1> HIDE DEF n, e
<1>10. ASSUME NEW u \in Txs, u # t PROVE txs'[u] = txs[u] /\ OutNext(u) \subseteq Out(u)
  <2>1. \A s : [tx |-> u, seq |-> s].tx = u
    OBVIOUS
  <2>2. \A s : [tx |-> u, seq |-> s] \in mempool' => [tx |-> u, seq |-> s] \in mempool
    BY <1>2, <1>6, <1>10, <2>1
  <2> QED BY <1>2, <1>3, <2>2 DEF OutNext, Out
<1>11. OutNext(t) \subseteq {n}
  <2>1. ASSUME NEW s \in Seqs, [tx |-> t, seq |-> s] \in mempool' PROVE s = n
    <3>1. CASE [tx |-> t, seq |-> s] \in mempool
      BY <3>1, <2>1, <1>5 DEF Out
    <3>2. CASE Accepts(e) /\ [tx |-> t, seq |-> s] = e
      <4>1. e = [tx |-> t, seq |-> n]
        BY <3>2, <1>6, <1>7
      <4>2. [tx |-> t, seq |-> s].seq = [tx |-> t, seq |-> n].seq
        BY <3>2, <4>1
      <4> QED BY <4>2
    <3> QED BY <2>1, <3>1, <3>2, <1>2
  <2>2. \A s \in DOMAIN chain' : chain'[s].tx = t => s = n
    BY <1>3, <1>5 DEF Out
  <2> QED BY <2>1, <2>2 DEF OutNext
<1>12. Done(t) <=> Final(t)
  BY <1>2 DEF Done, Final
<1>13. CASE mempool' = mempool
  <2>1. OutNext(t) = Out(t)
    BY <1>3, <1>13 DEF OutNext, Out
  <2>2. KnownNext(t)
    BY <1>2, <1>4, <2>1, <1>12 DEF Known, KnownNext
  <2>3. k.pc = "reset" => Out(t) = {}
    <3>1. ASSUME k.pc = "reset", NEW s \in Out(t) PROVE FALSE
      <4>1. s = n /\ s # None
        BY <3>1, <1>0, <1>5, OutSeqs
      <4>2. e.tx = t /\ e.seq = n /\ e = [tx |-> t, seq |-> s]
        BY <4>1, <1>6
      <4> QED BY <3>1, <4>1, <4>2, <1>2 DEF Out, Applied
    <3> QED BY <3>1
  <2>4. UnsignedNext(k) /\ SubmittingNext(k)
    BY <1>0, <1>1, <1>2, <1>5, <1>7, <1>11, <1>12, <2>1, <2>3
       DEF UnsignedNext, SubmittingNext, Same, n
  <2>5. ASSUME NEW v \in Workers, v # w, wk[v].pc # "idle", wk[v].tx = t
        PROVE  UnsignedNext(wk[v]) /\ SubmittingNext(wk[v])
    <3>1. wk[v].kind # "submit" /\ Unsigned(wk[v])
      BY <1>1, <2>5 DEF Exclusive, EnvelopeInv, At
    <3> QED BY <1>2, <1>12, <2>5, <3>1 DEF Unsigned, UnsignedNext, SubmittingNext
  <2> HIDE DEF t
  <2> QED BY <1>0, <1>3, <1>9, <1>10, <2>2, <2>4, <2>5, EnvelopeMove DEF t
<1>14. CASE mempool' # mempool
  <2>1. n # None /\ k.pc # "reset"
    BY <1>2, <1>7, <1>14
  <2>2. KnownNext(t)
    BY <1>2, <1>4, <1>5, <1>11, <1>12, <2>1 DEF Known, KnownNext
  <2>4. UnsignedNext(k) /\ SubmittingNext(k)
    BY <1>0, <1>1, <1>2, <1>5, <1>7, <1>11, <1>12, <2>1
       DEF UnsignedNext, SubmittingNext, Same, n
  <2>5. ASSUME NEW v \in Workers, v # w, wk[v].pc # "idle", wk[v].tx = t
        PROVE  UnsignedNext(wk[v]) /\ SubmittingNext(wk[v])
    <3>1. wk[v].kind # "submit" /\ Unsigned(wk[v])
      BY <1>1, <2>5 DEF Exclusive, EnvelopeInv, At
    <3> QED BY <1>2, <1>12, <2>5, <3>1 DEF Unsigned, UnsignedNext, SubmittingNext
  <2> HIDE DEF t
  <2> QED BY <1>0, <1>3, <1>9, <1>10, <2>2, <2>4, <2>5, EnvelopeMove DEF t
<1> QED BY <1>13, <1>14

\* The other steps of a worker.
LEMMA EnvelopeForm ==
    ASSUME Single, Types, Exclusive, EnvelopeInv, NEW w \in Workers, Form(w)
    PROVE  EnvelopeInv'
<1>0. ~At(w, "idle") /\ wk[w].tx \in Txs /\ Placed(wk[w]) /\ Unsigned(wk[w])
  BY FormWrites DEF EnvelopeInv
<1>a. Idle.pc = "idle"
  BY IdleOK
<1>b. ASSUME NEW k, Base(w, k), UNCHANGED <<txs, mempool>>,
             k.pc # "idle" => UnsignedNext(k) /\ SubmittingNext(k)
      PROVE  EnvelopeInv'
  BY <1>0, <1>b, EnvelopeKept DEF Base
<1>1. CASE Ends(w) \/ Releases(w)
  BY <1>1, <1>a, <1>b DEF Ends, Releases, Still
<1>2. CASE Finds(w) \/ ToMark(w) \/ Unstored(w)
  <2>1. PICK k : Base(w, k) /\ UNCHANGED <<txs, mempool>> /\ k.pc \in {"pass", "mark", "fail"}
    BY <1>2 DEF Finds, ToMark, Unstored, Still
  <2> QED BY <2>1, <1>b, Elsewhere
<1>c. txs' = txs => (Done(wk[w].tx) <=> Final(wk[w].tx))
  BY DEF Done, Final
<1>3. CASE Claims(w)
  <2>1. PICK k : /\ Base(w, k) /\ UNCHANGED <<txs, mempool>> /\ Same(w, k) /\ wk[w].pc = "request"
                 /\ k.pc = "sequence" /\ wk[w].snap.status = "Pending"
    BY <1>3 DEF Claims
  <2>2. UnsignedNext(k) /\ SubmittingNext(k)
    BY <2>1, <1>0, <1>c DEF Unsigned, UnsignedNext, SubmittingNext, Same
  <2> QED BY <2>1, <2>2, <1>b
<1>4. CASE Syncs(w)
  <2>1. PICK k : /\ Still(w, k)
                 /\ \/ wk[w].pc \in Syncing /\ k = Idle
                    \/ /\ wk[w].pc \in Syncing \cup {"sequence", "sign"}
                       /\ k.kind = wk[w].kind /\ k.tx = wk[w].tx /\ k.snap \in {NoTx, wk[w].snap}
                       /\ k.pc \in Syncing \cup {"fail"} \/ (wk[w].pc = "sequence" /\ k.pc = "sign")
    BY <1>4 DEF Syncs
  <2>2. k = Idle \/ k.pc \in Syncing \cup {"fail"} => UnsignedNext(k) /\ SubmittingNext(k)
    BY <1>a, Elsewhere DEF Syncing
  <2>3. k # Idle /\ wk[w].pc = "sequence" /\ k.pc = "sign" => UnsignedNext(k) /\ SubmittingNext(k)
    BY <2>1, <1>0, <1>c DEF Unsigned, UnsignedNext, SubmittingNext, Still
  <2> QED BY <2>1, <2>2, <2>3, <1>b DEF Still
<1>5. CASE Fails(w) \/ Marks(w)
  <2>1. \E k : /\ Base(w, k) /\ k.pc = "find"
               /\ \/ \E r : Writes(w, r) /\ r.status \in Finals
                  \/ UNCHANGED <<txs, lane, mempool>>
    <3>1. [txs[wk[w].tx] EXCEPT !.status = "Failed"].status \in Finals
      BY <1>0 DEF Types, TypeOK, Records, Finals
    <3> QED BY <1>5, <3>1 DEF Fails, Marks
  <2>2. PICK k : /\ Base(w, k) /\ k.pc = "find"
                 /\ \/ \E r : Writes(w, r) /\ r.status \in Finals
                    \/ UNCHANGED <<txs, lane, mempool>>
    BY <2>1
  <2>3. UnsignedNext(k) /\ SubmittingNext(k)
    BY <2>2, Elsewhere
  <2>4. CASE UNCHANGED <<txs, lane, mempool>>
    BY <2>2, <2>3, <2>4, <1>b
  <2>5. ASSUME NEW r, Writes(w, r), r.status \in Finals PROVE EnvelopeInv'
    <3>1. /\ \A t \in Txs : t # wk[w].tx => txs'[t] = txs[t]
          /\ Done(wk[w].tx) /\ mempool' = mempool
      BY <1>0, <2>5, WriteOK DEF Writes
    <3>2. txs'[wk[w].tx].status \in Finals
      BY <3>1 DEF Done, is_final_state
    <3> QED BY <1>0, <2>2, <2>3, <3>1, <3>2, EnvelopeKept DEF Base
  <2> QED BY <2>2, <2>4, <2>5
<1> QED BY <1>1, <1>2, <1>3, <1>4, <1>5, EnvelopePrepares, EnvelopeSubmits, EnvelopeResets,
           EnvelopeSends DEF Form

\* Nobody moves and nothing more gets out.
LEMMA EnvelopeStill ==
    ASSUME Types, EnvelopeInv, UNCHANGED <<txs, wk>>, \A e \in mempool' : e.seq # 0,
           \A t \in Txs : OutNext(t) \subseteq Out(t)
    PROVE  EnvelopeInv'
<1>1. \A t \in Txs : KnownNext(t)
  BY EnvelopeStays DEF EnvelopeInv
<1>2. ASSUME NEW v \in Workers, wk[v].pc # "idle"
      PROVE  UnsignedNext(wk[v]) /\ SubmittingNext(wk[v])
  <2>1. wk[v].tx \in Txs
    BY <1>2, Working DEF At
  <2>2. Unsigned(wk[v]) /\ Submitting(wk[v]) /\ Known(wk[v].tx)
    BY <1>2, <2>1 DEF EnvelopeInv, At
  <2> QED BY <2>1, <2>2, EnvelopeStays
<1> QED BY <1>1, <1>2, EnvelopeNext

\* The ledger applies what is out, or something else.
LEMMA EnvelopeLedger == ASSUME Types, EnvelopeInv, Ledger PROVE EnvelopeInv'
<1>0. UNCHANGED <<txs, wk>>
  BY DEF Ledger
<1>a. /\ chain \in Seq(Entries) /\ Len(chain) \in Nat /\ DOMAIN chain = 1 .. Len(chain)
      /\ OnChainSeq = Len(chain) /\ mempool \subseteq Envelopes
  BY DEF Types, TypeOK, OnChainSeq
<1>b. \A e \in mempool : e.seq # 0
  BY DEF EnvelopeInv
<1>c. ASSUME NEW x, chain' = Append(chain, x)
      PROVE  /\ DOMAIN chain' = 1 .. Len(chain) + 1 /\ chain'[Len(chain) + 1] = x
             /\ \A s \in DOMAIN chain : chain'[s] = chain[s]
  BY <1>a, <1>c
<1>1. CASE mempool' \subseteq mempool /\ chain' = chain
  <2>1. \A t \in Txs : OutNext(t) \subseteq Out(t)
    BY <1>1 DEF OutNext, Out
  <2> QED BY <1>0, <1>1, <1>b, <2>1, EnvelopeStill
<1>2. ASSUME NEW b, mempool' = {}, chain' = Append(chain, [tx |-> None, ok |-> b])
      PROVE  EnvelopeInv'
  <2>1. /\ DOMAIN chain' = 1 .. Len(chain) + 1 /\ chain'[Len(chain) + 1].tx = None
        /\ \A s \in DOMAIN chain : chain'[s] = chain[s]
    BY <1>2, <1>c
  <2>2. ASSUME NEW t \in Txs, NEW s \in DOMAIN chain', chain'[s].tx = t PROVE s \in Out(t)
    <3>1. s \in DOMAIN chain
      BY <1>a, <2>1, <2>2, Constants
    <3> QED BY <2>1, <2>2, <3>1 DEF Out
  <2>3. \A t \in Txs : OutNext(t) \subseteq Out(t)
    BY <1>2, <2>2 DEF OutNext
  <2> QED BY <1>0, <1>2, <2>3, EnvelopeStill
<1>3. ASSUME NEW e \in mempool, NEW b, e.seq = OnChainSeq + 1, mempool' = mempool \ {e},
             chain' = Append(chain, [tx |-> e.tx, ok |-> b])
      PROVE  EnvelopeInv'
  <2>1. /\ DOMAIN chain' = 1 .. Len(chain) + 1 /\ chain'[Len(chain) + 1].tx = e.tx
        /\ \A s \in DOMAIN chain : chain'[s] = chain[s]
    BY <1>3, <1>c
  <2>2. e.seq \in Seqs /\ e = [tx |-> e.tx, seq |-> e.seq]
    BY <1>a, <1>b DEF Envelopes
  <2>3. ASSUME NEW t \in Txs, NEW s \in DOMAIN chain', chain'[s].tx = t PROVE s \in Out(t)
    <3>1. CASE s \in DOMAIN chain
      BY <2>1, <2>3, <3>1 DEF Out
    <3>2. CASE s = Len(chain) + 1
      <4>1. e.seq = s /\ e.tx = t
        BY <1>3, <1>a, <2>1, <2>3, <3>2
      <4> QED BY <2>2, <4>1 DEF Out
    <3> QED BY <1>a, <2>1, <2>3, <3>1, <3>2
  <2>4. \A t \in Txs : OutNext(t) \subseteq Out(t)
    <3>1. \A t \in Txs : \A s \in Seqs : [tx |-> t, seq |-> s] \in mempool' => s \in Out(t)
      BY <1>3 DEF Out
    <3> QED BY <2>3, <3>1 DEF OutNext
  <2>5. \A f \in mempool' : f.seq # 0
    BY <1>3, <1>b
  <2> QED BY <1>0, <2>4, <2>5, EnvelopeStill
<1> QED BY <1>1, <1>2, <1>3 DEF Ledger

\* Every step.
LEMMA EnvelopeStep == ASSUME Single, Types, Step, Exclusive, EnvelopeInv PROVE EnvelopeInv'
<1>0. wk \in [Workers -> WorkerStates] /\ txs \in [Txs -> Records] /\ Idle.pc = "idle"
  BY IdleOK DEF Types, TypeOK
<1>a. \A e \in mempool : e.seq # 0
  BY DEF EnvelopeInv
<1>1. ASSUME NEW t \in Txs, Creates(t) PROVE EnvelopeInv'
  <2>1. /\ txs[t].status = "Absent" /\ txs'[t].status \in {"Pending", "Failed"}
        /\ txs'[t].env = txs[t].env /\ UNCHANGED <<wk, mempool, chain>>
        /\ \A u \in Txs : u # t => txs'[u] = txs[u]
    BY <1>1, <1>0 DEF Creates
  <2>2. \A u : OutNext(u) = Out(u)
    BY <2>1 DEF OutNext, Out
  <2>3. ~Final(t) /\ Known(t)
    BY <2>1 DEF Final, is_final_state, Finals, EnvelopeInv
  <2>4. KnownNext(t)
    BY <2>1, <2>2, <2>3 DEF Known, KnownNext
  <2>5. \A u \in Txs : KnownNext(u)
    BY <2>1, <2>2, <2>4, EnvelopeStays DEF EnvelopeInv
  <2>6. ASSUME NEW v \in Workers, wk[v].pc # "idle"
        PROVE  UnsignedNext(wk[v]) /\ SubmittingNext(wk[v])
    <3>1. wk[v].tx \in Txs
      BY <2>6, Working DEF At
    <3>2. Unsigned(wk[v]) /\ Submitting(wk[v]) /\ Known(wk[v].tx)
      BY <2>6, <3>1 DEF EnvelopeInv, At
    <3>3. CASE wk[v].tx # t
      BY <2>1, <2>2, <3>1, <3>2, <3>3, EnvelopeStays
    <3>4. CASE wk[v].tx = t
      <4>1. UnsignedNext(wk[v])
        BY <2>1, <2>3, <3>2, <3>4 DEF Unsigned, UnsignedNext
      <4>2. SubmittingNext(wk[v])
        BY <2>1, <2>2, <2>3, <3>2, <3>4 DEF Submitting, SubmittingNext
      <4> QED BY <4>1, <4>2
    <3> QED BY <3>3, <3>4
  <2> QED BY <1>a, <2>1, <2>5, <2>6, EnvelopeNext
<1>2. ASSUME NEW w \in Workers, NEW j \in Jobs, Takes(w, j) PROVE EnvelopeInv'
  <2>1. PICK k : Goes(w, k) /\ k.pc = j.kind /\ k.kind = j.kind /\ k.tx = j.tx /\ k.snap = txs[j.tx]
    BY <1>2 DEF Takes
  <2>2. UNCHANGED <<txs, mempool, chain>>
    BY <1>2 DEF Takes
  <2>3. j.tx \in Txs /\ j.kind \in JobKinds /\ Known(j.tx)
    BY DEF Jobs, EnvelopeInv
  <2>4. \A u : OutNext(u) = Out(u) /\ (Done(u) <=> Final(u))
    BY <2>2 DEF OutNext, Out, Done, Final
  <2>5. wk'[w] = k /\ \A v \in Workers : v # w => wk'[v] = wk[v]
    BY <2>1, <1>0 DEF Goes
  <2>6. UnsignedNext(k)
    BY <2>1, <2>2, <2>3 DEF UnsignedNext, JobKinds
  <2>7. SubmittingNext(k)
    BY <2>1, <2>2, <2>3, <2>4 DEF SubmittingNext, JobKinds, Known, Final
  <2>8. \A u \in Txs : KnownNext(u)
    BY <2>2, <2>4, EnvelopeStays DEF EnvelopeInv
  <2>9. ASSUME NEW v \in Workers, wk[v].pc # "idle"
        PROVE  UnsignedNext(wk[v]) /\ SubmittingNext(wk[v])
    <3>1. wk[v].tx \in Txs
      BY <2>9, Working DEF At
    <3>2. Unsigned(wk[v]) /\ Submitting(wk[v]) /\ Known(wk[v].tx)
      BY <2>9, <3>1 DEF EnvelopeInv, At
    <3> QED BY <2>2, <2>4, <3>1, <3>2, EnvelopeStays
  <2> QED BY <1>a, <2>2, <2>5, <2>6, <2>7, <2>8, <2>9, EnvelopeNext
<1>3. CASE Restarts
  <2>1. UNCHANGED <<txs, mempool, chain>> /\ \A v \in Workers : wk'[v].pc = "idle"
    BY <1>3, <1>0 DEF Restarts
  <2>2. \A u : OutNext(u) = Out(u)
    BY <2>1 DEF OutNext, Out
  <2>3. \A u \in Txs : KnownNext(u)
    BY <2>1, <2>2, EnvelopeStays DEF EnvelopeInv
  <2> QED BY <1>a, <2>1, <2>3, EnvelopeNext
<1> QED BY <1>1, <1>2, <1>3, EnvelopeForm, EnvelopeLedger DEF Step

\* The invariant and what it rests on.
OutInv == Types /\ Exclusive /\ EnvelopeInv

\* Nothing is out initially.
LEMMA InitOut == ASSUME Init PROVE OutInv
<1>1. \A w \in Workers : At(w, "idle") /\ wk[w].kind = "none"
  BY IdleOK DEF Init, At
<1>2. mempool = {} /\ DOMAIN chain = {}
  BY DEF Init
<1>3. \A t \in Txs : txs[t].env = None /\ Out(t) = {}
  BY <1>2 DEF Init, NoTx, Out
<1>4. \A t \in Txs : Known(t)
  BY <1>3 DEF Known
<1> QED BY <1>1, <1>2, <1>4, InitTypes DEF OutInv, Exclusive, EnvelopeInv

\* Every step keeps the envelope invariant.
LEMMA OutInvStep == ASSUME Single, OutInv, [Next]_vars PROVE OutInv'
<1>1. CASE Next
  <2>1. Types' /\ Step
    BY <1>1, StepOK DEF OutInv
  <2> QED BY <2>1, ExclusiveStep, EnvelopeStep DEF OutInv
<1>2. CASE UNCHANGED vars
  <2>1. Types'
    BY <1>2, StutterTypes DEF OutInv
  <2>2. Exclusive'
    BY <1>2 DEF OutInv, Exclusive, vars
  <2>3. EnvelopeInv'
    BY <1>2, EnvelopeStill DEF OutInv, vars, EnvelopeInv, OutNext, Out
  <2> QED BY <2>1, <2>2, <2>3 DEF OutInv
<1> QED BY <1>1, <1>2

\* The envelope invariant holds at all times.
LEMMA AlwaysOut == Single => (Spec => []OutInv)
<1> SUFFICES ASSUME Single PROVE Spec => []OutInv
  OBVIOUS
<1>1. Init => OutInv
  BY InitOut
<1>2. OutInv /\ [Next]_vars => OutInv'
  BY OutInvStep
<1> QED BY <1>1, <1>2, PTL DEF Spec

\* No transaction takes effect twice, however often a bad sequence makes it lose its envelope and
\* be signed again, if preparation and submission are delivered once at a time and a node never
\* reports a bad sequence for an envelope that was applied: until the record is reset nobody signs
\* another.  Neither is something the handlers see to, and without either it fails.
THEOREM ExecutedOnce == Single => (Spec => []NoDoubleExecution)
<1>1. ASSUME OutInv PROVE NoDoubleExecution
  <2>1. ASSUME NEW i \in DOMAIN chain, NEW j \in DOMAIN chain, chain[i].tx # None,
               chain[i].tx = chain[j].tx
        PROVE  i = j
    <3>1. chain[i].tx \in Txs
      <4>1. chain \in Seq(Entries)
        BY <1>1 DEF OutInv, Types, TypeOK
      <4>2. chain[i] \in Entries
        BY <4>1
      <4> QED BY <4>2, <2>1 DEF Entries
    <3>2. i \in Out(chain[i].tx) /\ j \in Out(chain[i].tx)
      BY <2>1 DEF Out
    <3>3. Known(chain[i].tx)
      BY <1>1, <3>1 DEF OutInv, EnvelopeInv
    <3> QED BY <3>2, <3>3 DEF Known
  <2> QED BY <2>1 DEF NoDoubleExecution
<1>2. OutInv => NoDoubleExecution
  BY <1>1
<1> QED BY <1>2, AlwaysOut, PTL

-----------------------------------------------------------------------------
(* The lane. *)

\* Pending, or final: what a record must be for its transaction to give up the lane.
Settled(t)     == txs[t].status = "Pending" \/ Final(t)
SettledNext(t) == txs'[t].status = "Pending" \/ Done(t)
GatedNext      == sequential' /\ "restart" \notin faults'

OwnerNext(k) ==
    k.kind = "request" =>
    /\ k.pc \in {"sequence", "sign"} /\ GatedNext => lane' = k.tx \/ Done(k.tx)
    /\ k.pc \in Syncing \cup {"fail"} /\ "queue" \notin Faults => SettledNext(k.tx)
    /\ k.pc \in {"find", "pass"} => SettledNext(k.tx)

\* The lane invariant after a step.
LEMMA LaneNext ==
    ASSUME GatedNext => \A t \in Txs : txs'[t].status \in InFlight => lane' = t,
           \A v \in Workers : wk'[v].pc # "idle" => OwnerNext(wk'[v])
    PROVE  LaneInv'
<1>1. InFlightOwnsLane'
  BY DEF InFlightOwnsLane, GatedNext
<1>2. \A v \in Workers : wk'[v].pc # "idle" => Owner(wk[v])'
  BY DEF Owner, OwnerNext, SettledNext, GatedNext, Gated, Done, Final
<1> QED BY <1>1, <1>2 DEF LaneInv, At

\* Pending or final, a record stays so but for its preparation.
LEMMA SettledKept ==
    ASSUME Types, EnvelopeInv, NEW w \in Workers, Form(w), NEW t \in Txs, Settled(t),
           ~(Prepares(w) /\ wk[w].tx = t)
    PROVE  SettledNext(t)
<1>0. ~At(w, "idle") /\ wk[w].tx \in Txs /\ Placed(wk[w]) /\ Submitting(wk[w])
  BY FormWrites DEF EnvelopeInv
<1>a. txs'[t] = txs[t] => SettledNext(t)
  BY DEF Settled, SettledNext, Done, Final
<1>b. ASSUME NEW r, Writes(w, r), r.status \in Finals \cup {"Pending"} PROVE SettledNext(t)
  BY <1>0, <1>a, <1>b, WriteOK DEF SettledNext, Done, is_final_state
<1>1. CASE Prepares(w)
  <2>1. \E r : Writes(w, r)
    BY <1>1 DEF Prepares
  <2> QED BY <1>0, <1>1, <1>a, <2>1, WriteOK
<1>2. CASE Submits(w)
  <2>1. wk[w].pc = "store" /\ \E r : Writes(w, r)
    BY <1>2 DEF Submits
  <2>2. wk[w].kind = "submit"
    BY <1>0, <2>1 DEF Placed, RequestPCs, StatusPCs, Syncing
  <2>3. wk[w].snap.env # None /\ (~Final(wk[w].tx) => txs[wk[w].tx].env = wk[w].snap.env)
    BY <1>0, <2>1, <2>2 DEF Submitting
  <2>4. txs[t].status = "Pending" => txs[t].env = None
    BY DEF EnvelopeInv, Known
  <2>5. wk[w].tx # t \/ Final(t)
    BY <2>3, <2>4 DEF Settled
  <2> QED BY <1>0, <1>a, <2>1, <2>5, WriteOK
<1>3. CASE Fails(w)
  <2>1. [txs[wk[w].tx] EXCEPT !.status = "Failed"].status \in Finals
    BY <1>0 DEF Types, TypeOK, Records, Finals
  <2> QED BY <1>3, <1>a, <1>b, <2>1 DEF Fails
<1>4. CASE Marks(w)
  BY <1>4, <1>b DEF Marks
<1>5. CASE Resets(w)
  <2>1. [NoTx EXCEPT !.status = "Pending"].status = "Pending"
    BY DEF NoTx
  <2> QED BY <1>5, <1>a, <1>b, <2>1 DEF Resets
<1>6. CASE Ends(w) \/ Claims(w) \/ Syncs(w) \/ Finds(w) \/ Releases(w) \/ Sends(w) \/ ToMark(w)
           \/ Unstored(w)
  BY <1>6, <1>a DEF Ends, Claims, Syncs, Finds, Releases, Sends, ToMark, Unstored, Still
<1> QED BY <1>1, <1>2, <1>3, <1>4, <1>5, <1>6 DEF Form

\* The lane leaves a transaction only by the handover of its own worker.
LEMMA LaneKept ==
    ASSUME Types, NEW w \in Workers, Form(w), sequential, NEW t \in Txs, lane = t
    PROVE  \/ lane' = t
           \/ Releases(w) /\ wk[w].tx = t
<1>1. CASE Claims(w)
  BY <1>1, Constants DEF Claims, CanClaim, Claimed
<1>2. CASE Releases(w)
  BY <1>2 DEF Releases
<1>3. CASE Ends(w) \/ Syncs(w) \/ Prepares(w) \/ Fails(w) \/ Marks(w) \/ Finds(w) \/ Sends(w)
           \/ ToMark(w) \/ Submits(w) \/ Unstored(w) \/ Resets(w)
  BY <1>3 DEF Ends, Syncs, Prepares, Fails, Marks, Finds, Sends, ToMark, Submits, Unstored, Resets,
              Still, Writes
<1> QED BY <1>1, <1>2, <1>3 DEF Form

\* A worker at the handover has a record that is Pending or final.
LEMMA ReleaseSettled ==
    ASSUME Types, FinalInv, LaneInv, NEW w \in Workers, Releases(w)
    PROVE  /\ ~At(w, "idle") /\ wk[w].tx \in Txs /\ Settled(wk[w].tx)
           /\ wk[w].kind # "request" => Final(wk[w].tx)
<1>1. wk[w].pc \in {"find", "pass"} /\ ~At(w, "idle")
  BY DEF Releases, At
<1>2. FinalSeen(wk[w]) /\ Owner(wk[w]) /\ wk[w].tx \in Txs
  BY <1>1, Working DEF FinalInv, LaneInv
<1> QED BY <1>1, <1>2 DEF FinalSeen, Owner, Settled

\* Who is in flight after a worker's step owns the lane.
LEMMA FlightForm ==
    ASSUME Types, EnvelopeInv, FinalInv, LaneInv, NEW w \in Workers, Form(w), Gated,
           NEW t \in Txs, txs'[t].status \in InFlight
    PROVE  lane' = t
<1>0. ~At(w, "idle") /\ wk[w].tx \in Txs /\ Placed(wk[w]) /\ Submitting(wk[w]) /\ Owner(wk[w])
  BY FormWrites DEF EnvelopeInv, LaneInv
<1>a. sequential /\ (txs[t].status \in InFlight => lane = t)
  BY DEF Gated, LaneInv, InFlightOwnsLane
<1>b. ~Done(t) /\ txs'[t].status # "Pending"
  BY DEF Done, is_final_state, Finals, InFlight
<1>c. ~Settled(t) \/ (Prepares(w) /\ wk[w].tx = t)
  BY <1>b, SettledKept DEF SettledNext
<1>1. CASE lane = t /\ ~(Prepares(w) /\ wk[w].tx = t)
  <2>1. ~(Releases(w) /\ wk[w].tx = t)
    BY <1>1, <1>c, ReleaseSettled
  <2> QED BY <1>1, <1>a, <2>1, LaneKept
<1>2. CASE Prepares(w) /\ wk[w].tx = t
  <2>1. wk[w].pc = "sign" /\ lane' = lane /\ \E r : Writes(w, r)
    BY <1>2 DEF Prepares, Writes
  <2>2. wk[w].kind = "request"
    BY <1>0, <2>1 DEF Placed, SubmitPCs, StatusPCs, Syncing
  <2>3. ~Final(t)
    <3>1. Final(t) => txs'[t] = txs[t]
      BY <1>0, <2>1, WriteOK
    <3> QED BY <1>b, <3>1 DEF Final, Done
  <2> QED BY <1>0, <1>2, <2>1, <2>2, <2>3 DEF Owner
<1>3. CASE lane # t /\ ~(Prepares(w) /\ wk[w].tx = t)
  <2>1. txs[t].status \notin InFlight /\ ~Settled(t)
    BY <1>3, <1>a, <1>c
  <2>2. txs'[t] # txs[t]
    BY <2>1
  <2>3. wk[w].tx = t /\ (UNCHANGED txs \/ \E r : Writes(w, r))
    BY <1>0, <2>2, FormWrites, WriteOK
  <2>4. ASSUME NEW r, Writes(w, r) PROVE r.status \in InFlight
    BY <1>0, <2>2, <2>3, <2>4, WriteOK
  <2>5. CASE Submits(w)
    <3>1. wk[w].pc = "store"
      BY <2>5 DEF Submits
    <3>2. wk[w].kind = "submit"
      BY <1>0, <3>1 DEF Placed, RequestPCs, StatusPCs, Syncing
    <3>3. txs[t].env # None
      BY <1>0, <2>1, <2>3, <3>1, <3>2 DEF Submitting, Settled
    <3>4. txs[t].status \notin {"Absent", "Pending"}
      BY <3>3 DEF EnvelopeInv, Known
    <3>5. txs[t].status \in Statuses
      BY DEF Types, TypeOK, Records
    <3> QED BY <2>1, <3>4, <3>5 DEF Statuses, Settled, Final, is_final_state
  <2>6. CASE ~Submits(w)
    <3>1. [txs[wk[w].tx] EXCEPT !.status = "Failed"].status = "Failed"
          /\ [NoTx EXCEPT !.status = "Pending"].status = "Pending"
      BY <1>0 DEF Types, TypeOK, Records, NoTx
    <3>2. CASE Fails(w)
      BY <2>2, <2>4, <3>1, <3>2 DEF Fails, InFlight
    <3>3. CASE Marks(w)
      BY <2>4, <3>3 DEF Marks, InFlight, Finals
    <3>4. CASE Resets(w)
      BY <2>2, <2>4, <3>1, <3>4 DEF Resets, InFlight
    <3>5. CASE Ends(w) \/ Claims(w) \/ Syncs(w) \/ Finds(w) \/ Releases(w) \/ Sends(w) \/ ToMark(w)
               \/ Unstored(w)
      BY <2>2, <3>5 DEF Ends, Claims, Syncs, Finds, Releases, Sends, ToMark, Unstored, Still
    <3> QED BY <1>3, <2>3, <2>6, <3>2, <3>3, <3>4, <3>5 DEF Form
  <2> QED BY <2>5, <2>6
<1> QED BY <1>1, <1>2, <1>3

\* The conditions under which a preparation keeps its claim.
LEMMA OwnerStays ==
    ASSUME NEW k, Owner(k), GatedNext => Gated, Gated /\ lane = k.tx => lane' = k.tx \/ Done(k.tx),
           Final(k.tx) => Done(k.tx), Settled(k.tx) => SettledNext(k.tx)
    PROVE  OwnerNext(k)
BY DEF Owner, OwnerNext, Settled

\* A preparation, while another worker acts.
LEMMA OtherOwner ==
    ASSUME Types, Step, Exclusive, EnvelopeInv, FinalInv, LaneInv, NEW w \in Workers, Form(w),
           NEW v \in Workers, v # w, wk[v].pc # "idle", GatedNext => Gated
    PROVE  OwnerNext(wk[v])
<1>0. wk[v].tx \in Txs /\ Owner(wk[v])
  BY Working DEF LaneInv, At
<1>1. CASE wk[v].kind # "request"
  BY <1>1 DEF OwnerNext
<1>2. CASE wk[v].kind = "request"
  <2>1. wk[w].kind = "request" => wk[w].tx # wk[v].tx
    BY <1>2 DEF Exclusive
  <2>2. Prepares(w) => wk[w].kind = "request"
    <3>1. Placed(wk[w])
      BY FormWrites
    <3> QED BY <3>1 DEF Prepares, Placed, SubmitPCs, StatusPCs, Syncing
  <2>3. Settled(wk[v].tx) => SettledNext(wk[v].tx)
    BY <1>0, <2>1, <2>2, SettledKept
  <2>4. Final(wk[v].tx) => Done(wk[v].tx)
    BY <1>0, FinalKept
  <2>5. Gated /\ lane = wk[v].tx => lane' = wk[v].tx \/ Done(wk[v].tx)
    BY <1>0, <2>1, <2>4, LaneKept, ReleaseSettled DEF Gated
  <2> QED BY <1>0, <2>3, <2>4, <2>5, OwnerStays
<1> QED BY <1>1, <1>2

\* A worker's own step.
LEMMA OwnOwner ==
    ASSUME OneStore, Types, Step, EnvelopeInv, LaneInv, NEW w \in Workers, Form(w),
           GatedNext => Gated
    PROVE  \E k : Goes(w, k) /\ (k.pc # "idle" => OwnerNext(k))
<1>0. ~At(w, "idle") /\ wk[w].tx \in Txs /\ Placed(wk[w]) /\ Owner(wk[w]) /\ Unsigned(wk[w])
  BY FormWrites DEF LaneInv, EnvelopeInv
<1>a. Final(wk[w].tx) => Done(wk[w].tx)
  BY <1>0, FinalKept
<1>b. txs' = txs => (Settled(wk[w].tx) => SettledNext(wk[w].tx))
  BY <1>a DEF Settled, SettledNext
<1>1. CASE Ends(w) \/ Releases(w) \/ Submits(w)
  BY <1>1, IdleOK DEF Ends, Releases, Submits, Still, Base
<1>2. CASE Sends(w) \/ ToMark(w) \/ Unstored(w) \/ Resets(w) \/ Marks(w)
  <2>1. PICK k : Goes(w, k) /\ k.kind = wk[w].kind
    BY <1>2 DEF Sends, ToMark, Unstored, Resets, Marks, Same, Still, Base
  <2>2. wk[w].pc \in {"submit", "status", "store", "reset", "mark"}
    BY <1>2 DEF Sends, ToMark, Unstored, Resets, Marks
  <2>3. wk[w].kind # "request"
    BY <1>0, <2>2 DEF Placed, RequestPCs, Syncing
  <2> QED BY <2>1, <2>3 DEF OwnerNext
<1>3. CASE Claims(w)
  <2>1. PICK k : /\ Goes(w, k) /\ k.tx = wk[w].tx /\ k.pc = "sequence"
                 /\ lane' = Claimed(wk[w].tx) /\ sequential' = sequential
    BY <1>3 DEF Claims, Base, Same
  <2>2. OwnerNext(k)
    BY <2>1 DEF OwnerNext, Claimed, GatedNext, Syncing
  <2> QED BY <2>1, <2>2
<1>4. CASE Syncs(w)
  <2>1. PICK k : /\ Still(w, k)
                 /\ \/ wk[w].pc \in Syncing /\ k = Idle
                    \/ /\ wk[w].pc \in Syncing \cup {"sequence", "sign"}
                       /\ k.kind = wk[w].kind /\ k.tx = wk[w].tx
                       /\ k.pc \in Syncing \cup {"fail"} \/ (wk[w].pc = "sequence" /\ k.pc = "sign")
    BY <1>4 DEF Syncs
  <2>2. Goes(w, k) /\ txs' = txs /\ lane' = lane
    BY <2>1 DEF Still, Base
  <2>3. CASE k = Idle
    BY <2>2, <2>3, IdleOK
  <2>4. CASE k # Idle /\ k.pc \in Syncing \cup {"fail"}
    <3>1. wk[w].kind = "request" /\ "queue" \notin Faults => Settled(wk[w].tx)
      BY <1>0, <2>1, <2>4 DEF Owner, Unsigned, Settled, Syncing
    <3>2. k.pc \notin {"sequence", "sign", "find", "pass"}
      BY <2>4 DEF Syncing
    <3>3. OwnerNext(k)
      BY <1>b, <2>1, <2>2, <2>4, <3>1, <3>2 DEF OwnerNext
    <3> QED BY <2>2, <3>3
  <2>5. CASE k # Idle /\ wk[w].pc = "sequence" /\ k.pc = "sign"
    <3>1. OwnerNext(k)
      BY <1>0, <1>a, <2>1, <2>2, <2>5 DEF Owner, OwnerNext, Syncing
    <3> QED BY <2>2, <3>1
  <2> QED BY <2>1, <2>3, <2>4, <2>5
<1>5. CASE Prepares(w)
  <2>1. PICK k : Goes(w, k) /\ (k = Idle \/ ("queue" \in Faults /\ k.pc = "fetch"))
    BY <1>5 DEF Prepares, Base
  <2>2. k # Idle => OwnerNext(k)
    BY <2>1 DEF OwnerNext
  <2> QED BY <2>1, <2>2, IdleOK
<1>6. CASE Fails(w)
  <2>1. PICK k : /\ Base(w, k) /\ Same(w, k) /\ wk[w].pc = "fail" /\ k.pc = "find"
                 /\ \/ Writes(w, [txs[wk[w].tx] EXCEPT !.status = "Failed"])
                    \/ wk[w].kind = "request" /\ "db" \in Faults /\ UNCHANGED <<txs, lane, mempool>>
    BY <1>6 DEF Fails
  <2>2. [txs[wk[w].tx] EXCEPT !.status = "Failed"].status \in Finals
    BY <1>0 DEF Types, TypeOK, Records, Finals
  <2>3. Writes(w, [txs[wk[w].tx] EXCEPT !.status = "Failed"]) => Done(wk[w].tx)
    BY <1>0, <2>2, WriteOK
  <2>4. "db" \in Faults => "queue" \notin Faults
    BY DEF OneStore
  <2>5. wk[w].kind = "request" => SettledNext(wk[w].tx)
    BY <1>0, <1>b, <2>1, <2>3, <2>4 DEF Owner, Settled, SettledNext
  <2>6. OwnerNext(k)
    BY <2>1, <2>5 DEF OwnerNext, Same, Syncing
  <2> QED BY <2>1, <2>6 DEF Base
<1>7. CASE Finds(w)
  <2>1. PICK k : Still(w, k) /\ Same(w, k) /\ wk[w].pc = "find" /\ k.pc = "pass"
    BY <1>7 DEF Finds
  <2>2. wk[w].kind = "request" => SettledNext(wk[w].tx)
    BY <1>0, <1>b, <2>1 DEF Owner, Settled, Still
  <2>3. OwnerNext(k)
    BY <2>1, <2>2 DEF OwnerNext, Same, Syncing
  <2> QED BY <2>1, <2>3 DEF Still, Base
<1> QED BY <1>1, <1>2, <1>3, <1>4, <1>5, <1>6, <1>7 DEF Form

\* Every step.
LEMMA LaneStep ==
    ASSUME OneStore, Types, Step, Exclusive, EnvelopeInv, FinalInv, LaneInv
    PROVE  LaneInv'
<1>0. wk \in [Workers -> WorkerStates] /\ txs \in [Txs -> Records] /\ Idle.pc = "idle"
  BY IdleOK DEF Types, TypeOK
<1>a. GatedNext => Gated
  <2>1. \A w \in Workers : Form(w) => faults \subseteq faults' /\ sequential' = sequential
    BY FormBase DEF Base
  <2> QED BY <2>1 DEF Step, Creates, Takes, Ledger, Restarts, Gated, GatedNext
<1>b. Gated => \A t \in Txs : txs[t].status \in InFlight => lane = t
  BY DEF LaneInv, InFlightOwnsLane, Gated
<1>c. ASSUME NEW v \in Workers, wk[v].pc # "idle", lane' = lane,
             Settled(wk[v].tx) => SettledNext(wk[v].tx)
      PROVE  OwnerNext(wk[v])
  <2>1. wk[v].tx \in Txs /\ Owner(wk[v])
    BY <1>c, Working DEF LaneInv, At
  <2>2. Final(wk[v].tx) => Done(wk[v].tx)
    BY <2>1, FinalKept
  <2> QED BY <1>a, <1>c, <2>1, <2>2, OwnerStays
<1>d. txs' = txs => \A t : Settled(t) => SettledNext(t)
  BY DEF Settled, SettledNext, Final, Done
<1>1. ASSUME NEW t \in Txs, Creates(t) PROVE LaneInv'
  <2>1. /\ txs'[t].status \in {"Pending", "Failed"} /\ UNCHANGED <<wk, lane>>
        /\ \A u \in Txs : u # t => txs'[u] = txs[u]
    BY <1>1, <1>0 DEF Creates
  <2>2. SettledNext(t) /\ txs'[t].status \notin InFlight
    BY <2>1 DEF SettledNext, Done, is_final_state, Finals, InFlight
  <2>3. \A u \in Txs : Settled(u) => SettledNext(u)
    BY <2>1, <2>2 DEF Settled, SettledNext, Final, Done
  <2>4. \A v \in Workers : wk[v].pc # "idle" => wk[v].tx \in Txs
    BY Working DEF At
  <2>5. \A v \in Workers : wk'[v].pc # "idle" => OwnerNext(wk'[v])
    BY <1>c, <2>1, <2>3, <2>4
  <2>6. GatedNext => \A u \in Txs : txs'[u].status \in InFlight => lane' = u
    BY <1>a, <1>b, <2>1, <2>2
  <2> QED BY <2>5, <2>6, LaneNext
<1>2. ASSUME NEW w \in Workers, NEW j \in Jobs, Takes(w, j) PROVE LaneInv'
  <2>1. PICK k : Goes(w, k) /\ k.pc = j.kind
    BY <1>2 DEF Takes
  <2>2. UNCHANGED <<txs, lane>>
    BY <1>2 DEF Takes
  <2>3. wk'[w] = k /\ \A v \in Workers : v # w => wk'[v] = wk[v]
    BY <2>1, <1>0 DEF Goes
  <2>4. OwnerNext(k)
    BY <2>1 DEF OwnerNext, Jobs, JobKinds, Syncing
  <2>5. \A v \in Workers : wk'[v].pc # "idle" => OwnerNext(wk'[v])
    BY <1>c, <1>d, <2>2, <2>3, <2>4
  <2>6. GatedNext => \A u \in Txs : txs'[u].status \in InFlight => lane' = u
    BY <1>a, <1>b, <2>2
  <2> QED BY <2>5, <2>6, LaneNext
<1>3. ASSUME NEW w \in Workers, Form(w) PROVE LaneInv'
  <2>1. PICK k : Goes(w, k) /\ (k.pc # "idle" => OwnerNext(k))
    BY <1>3, <1>a, OwnOwner
  <2>2. wk'[w] = k /\ \A v \in Workers : v # w => wk'[v] = wk[v]
    BY <2>1, <1>0 DEF Goes
  <2>3. \A v \in Workers : wk'[v].pc # "idle" => OwnerNext(wk'[v])
    BY <1>3, <1>a, <2>1, <2>2, OtherOwner
  <2>4. GatedNext => \A u \in Txs : txs'[u].status \in InFlight => lane' = u
    BY <1>3, <1>a, FlightForm
  <2> QED BY <2>3, <2>4, LaneNext
<1>4. CASE Ledger
  <2>1. UNCHANGED <<txs, lane, wk>>
    BY <1>4 DEF Ledger
  <2>2. \A v \in Workers : wk'[v].pc # "idle" => OwnerNext(wk'[v])
    BY <1>c, <1>d, <2>1
  <2> QED BY <1>a, <1>b, <2>1, <2>2, LaneNext
<1>5. CASE Restarts
  <2>1. ~GatedNext /\ \A v \in Workers : wk'[v].pc = "idle"
    BY <1>5, <1>0 DEF Restarts, GatedNext
  <2> QED BY <2>1, LaneNext
<1> QED BY <1>1, <1>2, <1>3, <1>4, <1>5 DEF Step

\* The lane rests on the envelopes and on what the workers know to be final.
FlightInv == OutInv /\ FinalInv /\ LaneInv

\* Nobody is in flight initially.
LEMMA InitFlight == ASSUME Init PROVE FlightInv
<1>1. \A w \in Workers : At(w, "idle")
  BY IdleOK DEF Init, At
<1>2. \A t \in Txs : txs[t].status = "Absent"
  BY DEF Init, NoTx
<1>3. LaneInv /\ FinalInv
  BY <1>1, <1>2 DEF LaneInv, FinalInv, InFlightOwnsLane, InFlight
<1> QED BY <1>3, InitOut DEF FlightInv

\* Every step keeps the lane invariant.
LEMMA FlightStep == ASSUME OneStore, Single, FlightInv, [Next]_vars PROVE FlightInv'
<1>1. OutInv'
  BY OutInvStep DEF FlightInv
<1>2. CASE Next
  <2>1. Step
    BY <1>2, StepOK DEF FlightInv, OutInv
  <2> QED BY <1>1, <2>1, FinalStep, LaneStep DEF FlightInv, OutInv
<1>3. CASE UNCHANGED vars
  <2>1. FinalInv' /\ LaneInv'
    BY <1>3 DEF FlightInv, vars, FinalInv, FinalSeen, Final, LaneInv, Owner, Gated, InFlightOwnsLane, At
  <2> QED BY <1>1, <2>1 DEF FlightInv
<1> QED BY <1>2, <1>3

\* The lane invariant holds at all times.
LEMMA AlwaysFlight == OneStore /\ Single => (Spec => []FlightInv)
<1> SUFFICES ASSUME OneStore, Single PROVE Spec => []FlightInv
  OBVIOUS
<1>1. Init => FlightInv
  BY InitFlight
<1>2. FlightInv /\ [Next]_vars => FlightInv'
  BY FlightStep
<1> QED BY <1>1, <1>2, PTL DEF Spec

\* In sequential mode whoever is in flight owns the lane, so one transaction at a time is, as long
\* as the process lives.  Not both the queue and the repository may fail: a preparation stored as
\* Sent whose submission could not be queued and whose failure could not be recorded gives up the
\* lane.  And preparation and submission are delivered once at a time.
THEOREM OneInFlight == OneStore /\ Single => (Spec => []InFlightOwnsLane)
<1>1. FlightInv => InFlightOwnsLane
  BY DEF FlightInv, LaneInv
<1> QED BY <1>1, AlwaysFlight, PTL
=============================================================================
