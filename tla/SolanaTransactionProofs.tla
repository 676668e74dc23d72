----------------------- MODULE SolanaTransactionProofs -----------------------
(***************************************************************************)
(* Proofs about SolanaTransaction, for any number of blockhashes, attempts *)
(* and failures: the types for any number of workers, and, when the jobs   *)
(* of a transaction are executed one after the other, the signature of a   *)
(* confirmed transaction and the attempts that a resubmission follows.     *)
(***************************************************************************)
EXTENDS SolanaTransaction, TLAPS

PCs == JobKinds \cup {"idle", "prepared", "sent", "searched"}
Queues == [JobKinds -> 0 .. MaxQueued]
Live == {"Sent", "Submitted", "Mined"}
OnChain == {"absent", "processed", "finalized", "failed"}

WorkStates == [pc : PCs, kind : JobKinds, snap : Records \cup {None}, sig : Hashes \cup {None}]

\* A record: what was sent has its signature, and so has what was given with one.
RecordOK(r) ==
    /\ r \in Records
    /\ r.status \in Live => r.sig # None
    /\ mode # "instructions" => r.sig # None

\* A worker: the record it read is one, and a signature never disappears.
WorkOK(k) ==
    /\ k \in WorkStates
    /\ k.pc # "idle" => RecordOK(k.snap) /\ (k.snap.sig # None => tx.sig # None)
    /\ k.pc = "prepared" => k.sig # None
    /\ k.pc = "sent" => k.sig # None /\ k.snap.sig # None

Rest ==
    /\ mode \in Modes /\ queue \in Queues /\ tip \in Hashes /\ net \subseteq Hashes
    /\ chain \in [Hashes -> OnChain] /\ faults \subseteq Faults

Types ==
    /\ RecordOK(tx) /\ Rest
    /\ wk \in [Workers -> WorkStates] /\ \A w \in Workers : WorkOK(wk[w])

\* Jobs of the transaction are executed one after the other.
Serial == \A v, w \in Workers : v = w

\* Then nobody else writes the record between a job's read and its end, and a job is at a
\* step of its own handler.
SnapCurrent ==
    \A w \in Workers :
        /\ ~At(w, "idle") => wk[w].snap = tx
        /\ wk[w].pc \in JobKinds => wk[w].kind = wk[w].pc
        /\ At(w, "prepared") => wk[w].kind = "request" /\ tx.status = "Pending"
        /\ At(w, "sent") => wk[w].kind \in {"submit", "resubmit"} /\ Sendable(w)
        /\ At(w, "searched") => wk[w].kind = "status" /\ tx.status \in {"Sent", "Submitted"}

\* Nothing is signed for a blockhash of the future.
Past(b) == b # None => b <= tip

\* While there may be more attempts none on record is newer than the stored one.
Attempts(r) ==
    /\ r.status = "Pending" => r.hashes = {}
    /\ r.status \in {"Sent", "Submitted"} => \A b \in r.hashes : b <= r.sig

Signing(w) ==
    /\ At(w, "prepared") \/ At(w, "sent") => Past(wk[w].sig)
    /\ At(w, "sent") /\ wk[w].kind = "submit" => wk[w].sig = tx.sig
    /\ At(w, "sent") /\ wk[w].kind = "resubmit" => tx.sig <= wk[w].sig

AttemptInv ==
    SnapCurrent /\ Attempts(tx) /\ Past(tx.sig) /\ \A w \in Workers : Signing(w)

-----------------------------------------------------------------------------
(* Facts about the model's operators. *)

\* The steps of Next, one by one.
LEMMA NextCases ==
    ASSUME Next
    PROVE  \/ \E w \in Workers :
                \/ PrepareSkip(w) \/ PrepareSign(w) \/ PrepareReject(w) \/ PrepareError(w)
                \/ PrepareStore(w) \/ SubmitSkip(w) \/ Submit(w) \/ SubmitStore(w) \/ Resubmit(w)
                \/ ResubmitStore(w) \/ StatusFinal(w) \/ StatusBreaker(w) \/ StatusOnChain(w)
                \/ StatusMined(w) \/ StatusExpired(w) \/ StatusTimeout(w) \/ StatusPending(w)
                \/ StatusYoung(w) \/ StatusSignature(w) \/ StatusSearched(w)
                \/ StatusBlockhash(w) \/ StatusError(w) \/ Crash(w)
                \/ \E k \in JobKinds : Take(w, k)
           \/ NewBlock \/ \E b \in Hashes : Process(b) \/ Finalize(b) \/ Fork(b)
BY DEF Next, Handle, Prepare, Submission, StatusCheck, Cluster

\* Facts about the constants.
LEMMA Constants ==
    /\ MaxHash \in Nat /\ MaxHash > 0 /\ Window \in Nat /\ Window > 0
    /\ MaxAttempts \in Nat /\ MaxAttempts > 0 /\ MaxQueued \in Nat /\ MaxQueued > 0
    /\ None \notin Hashes /\ Hashes \subseteq Nat /\ 1 \in Hashes
    /\ Modes \subseteq {"instructions", "single", "multi"}
BY SolanaAssumption DEF Hashes

\* A queue that gets a job, or a repeated status check, is one.
LEMMA QueuedOK ==
    ASSUME queue \in Queues, NEW k \in JobKinds
    PROVE  Queued(k) \in Queues
<1>1. queue[k] \in 0 .. MaxQueued
  BY DEF Queues
<1>2. (IF queue[k] = MaxQueued THEN queue[k] ELSE queue[k] + 1) \in 0 .. MaxQueued
  BY <1>1, Constants
<1> QED BY <1>2 DEF Queued, Queues

\* The queues a handler leaves.
EndsAny(w) == \E q \in Queues : End(w, q)

\* A status check that ends leaves a well-typed worker and queue.
LEMMA StatusEnds ==
    ASSUME NEW w \in Workers, NEW q \in Queues, StatusDone(w, q)
    PROVE  EndsAny(w)
<1>1. [q EXCEPT !["status"] = 1] \in Queues
  <2>1. 1 \in 0 .. MaxQueued
    BY Constants
  <2> QED BY <2>1 DEF Queues
<1>2. End(w, q) \/ End(w, [q EXCEPT !["status"] = 1])
  BY DEF StatusDone
<1> QED BY <1>1, <1>2 DEF EndsAny

\* So does any other job that ends.
LEMMA JobEnds ==
    ASSUME NEW w \in Workers, Types, Done(w) \/ Retry(w)
    PROVE  EndsAny(w)
<1>1. queue \in Queues /\ wk[w].kind \in JobKinds
  BY DEF Types, Rest, WorkStates
<1>2. Queued(wk[w].kind) \in Queues
  BY <1>1, QueuedOK
<1> QED BY <1>1, <1>2 DEF Done, Retry, EndsAny

\* A failure is one of those of the instance.
LEMMA FaultOK == ASSUME NEW f, Fault(f), faults \subseteq Faults PROVE faults' \subseteq Faults
BY DEF Fault

\* A change of the status alone.
LEMMA StatusRecord ==
    ASSUME RecordOK(tx), NEW s \in Statuses, s \in Live => tx.sig # None
    PROVE  LET r == [tx EXCEPT !.status = s]
           IN RecordOK(r) /\ r.sig = tx.sig /\ r.status = s /\ r.hashes = tx.hashes
BY DEF RecordOK, Records

\* The answer of the chain for a signature it knows.
LEMMA AnswerOK ==
    ASSUME NEW b \in Hashes, Rest, Found(b)
    PROVE  /\ OnChainStatus(b) \in {"Mined", "Confirmed", "Failed"}
           /\ OnChainStatus(b) = "Confirmed" => chain[b] = "finalized"
<1>1. chain[b] \in {"processed", "finalized", "failed"}
  BY DEF Rest, OnChain, Found
<1>2. CASE chain[b] = "processed"
  BY <1>2 DEF OnChainStatus
<1>3. CASE chain[b] = "finalized"
  BY <1>3 DEF OnChainStatus
<1>4. CASE chain[b] = "failed"
  BY <1>4 DEF OnChainStatus
<1> QED BY <1>1, <1>2, <1>3, <1>4

\* What is outside of the record, the queues and the workers.
OutsideOK ==
    /\ tip' \in Hashes /\ net' \subseteq Hashes /\ chain' \in [Hashes -> OnChain]
    /\ faults' \subseteq Faults

\* The cluster does not move, and at most a failure is counted.
LEMMA Outside ==
    ASSUME Types, UNCHANGED cluster, faults' \subseteq Faults \/ UNCHANGED faults
    PROVE  OutsideOK
BY DEF Types, Rest, cluster, OutsideOK

-----------------------------------------------------------------------------
(* Types. *)

\* The record r is what a handler wants to store.
Writes(r) == tx' = Stored(r) /\ RecordOK(r) /\ (tx.sig # None => r.sig # None)

\* A record that is left alone has its type.
LEMMA WritesNothing == ASSUME Types, UNCHANGED tx PROVE Writes(tx)
BY DEF Types, Writes, Stored

\* So has one that only gets another status.
LEMMA WritesStatus ==
    ASSUME Types, NEW s \in Statuses, s \in Live => tx.sig # None, SetStatus(s)
    PROVE  Writes([tx EXCEPT !.status = s])
<1> DEFINE r == [tx EXCEPT !.status = s]
<1>1. RecordOK(r) /\ r.sig = tx.sig
  BY StatusRecord DEF Types
<1>2. tx' = Stored(r)
  BY DEF SetStatus
<1> HIDE DEF r
<1>3. Writes(r)
  BY <1>1, <1>2 DEF Writes
<1> QED BY <1>3 DEF r

\* The record after a write.
LEMMA WrittenOK ==
    ASSUME Types, NEW r, Writes(r), UNCHANGED mode
    PROVE  RecordOK(tx)' /\ (tx.sig # None => tx'.sig # None)
<1>1. tx' = tx \/ tx' = r
  BY DEF Writes, Stored
<1>2. RecordOK(tx) /\ RecordOK(r)
  BY DEF Types, Writes
<1>3. RecordOK(tx')
  BY <1>1, <1>2
<1>4. RecordOK(tx)'
  BY <1>3 DEF RecordOK
<1> QED BY <1>1, <1>4 DEF Writes

\* A handler's worker goes on with k, a record being written perhaps.
LEMMA WorkerTypes ==
    ASSUME Types, NEW w \in Workers, NEW r, Writes(r), UNCHANGED mode, NEW k,
           WorkOK(k), wk' = [wk EXCEPT ![w] = k], queue' \in Queues, OutsideOK
    PROVE  Types'
<1>1. RecordOK(tx)' /\ (tx.sig # None => tx'.sig # None)
  BY WrittenOK
<1>2. Rest'
  BY DEF Types, Rest, OutsideOK
<1>3. wk' \in [Workers -> WorkStates] /\ \A v \in Workers : wk'[v] = k \/ wk'[v] = wk[v]
  BY DEF Types, WorkOK
<1>4. \A v \in Workers : WorkOK(wk'[v])
  BY <1>3 DEF Types
<1>5. \A v \in Workers : WorkOK(wk[v])'
  <2> SUFFICES ASSUME NEW v \in Workers PROVE WorkOK(wk[v])'
    OBVIOUS
  <2> DEFINE m == wk'[v]
  <2>1. WorkOK(m)
    BY <1>4
  <2> HIDE DEF m
  <2>2. /\ m \in WorkStates
        /\ m.pc # "idle" => RecordOK(m.snap) /\ (m.snap.sig # None => tx'.sig # None)
        /\ m.pc = "prepared" => m.sig # None
        /\ m.pc = "sent" => m.sig # None /\ m.snap.sig # None
    BY <2>1, <1>1 DEF WorkOK
  <2> QED BY <2>2 DEF WorkOK, RecordOK, m
<1> QED BY <1>1, <1>2, <1>3, <1>5 DEF Types

\* A worker without a job has its type.
LEMMA IdleOK == WorkOK(Idle)
BY DEF WorkOK, WorkStates, Idle, PCs, JobKinds

\* A handler ends.
LEMMA EndTypes ==
    ASSUME Types, NEW w \in Workers, NEW r, Writes(r), UNCHANGED mode, EndsAny(w), OutsideOK
    PROVE  Types'
<1>1. wk' = [wk EXCEPT ![w] = Idle] /\ queue' \in Queues
  BY DEF EndsAny, End
<1> QED BY <1>1, IdleOK, WorkerTypes

\* The worker of a step, given its step.
LEMMA Working ==
    ASSUME Types, NEW w \in Workers, ~At(w, "idle")
    PROVE  /\ wk[w] \in WorkStates /\ wk[w].snap \in Records /\ RecordOK(wk[w].snap)
           /\ wk[w].snap.sig # None => tx.sig # None /\ wk[w].snap.sig \in Hashes
           /\ wk[w].snap.status \in Live => wk[w].snap.sig # None
           /\ wk[w].snap.hashes \subseteq Hashes
           /\ wk[w].kind \in JobKinds
BY DEF Types, WorkOK, At, RecordOK, Records, WorkStates

\* A worker goes on to the step x with the signature b.
LEMMA MoveOK ==
    ASSUME Types, NEW w \in Workers, ~At(w, "idle"), NEW x \in PCs, NEW b \in Hashes,
           x = "sent" => wk[w].snap.sig # None
    PROVE  WorkOK([wk[w] EXCEPT !.pc = x, !.sig = b])
<1> DEFINE k == wk[w]
           m == [k EXCEPT !.pc = x, !.sig = b]
<1>1. k \in WorkStates /\ RecordOK(k.snap) /\ (k.snap.sig # None => tx.sig # None)
  BY Working
<1>2. b # None
  BY Constants
<1>3. x = "sent" => k.snap.sig # None
  OBVIOUS
<1> HIDE DEF k
<1>4. m \in WorkStates /\ m.pc = x /\ m.sig = b /\ m.snap = k.snap
  BY <1>1 DEF WorkStates
<1> HIDE DEF m
<1>5. WorkOK(m)
  BY <1>1, <1>2, <1>3, <1>4 DEF WorkOK
<1> QED BY <1>5 DEF m, k

\* Reading the record for a job.
LEMMA TakeTypes ==
    ASSUME Types, NEW w \in Workers, NEW k \in JobKinds, Take(w, k)
    PROVE  Types'
<1> DEFINE m == [pc |-> k, kind |-> k, snap |-> tx, sig |-> tx.sig]
<1>1. RecordOK(tx) /\ tx \in Records /\ tx.sig \in Hashes \cup {None}
  BY DEF Types, RecordOK, Records
<1>2. m \in WorkStates
  BY <1>1 DEF WorkStates, PCs
<1>3. m.pc = k /\ m.snap = tx /\ k \notin {"idle", "prepared", "sent"}
  BY DEF JobKinds
<1>4. wk' = [wk EXCEPT ![w] = m] /\ UNCHANGED <<tx, mode, cluster, faults>>
  BY DEF Take
<1> HIDE DEF m
<1>5. WorkOK(m)
  BY <1>1, <1>2, <1>3 DEF WorkOK
<1>6. queue' \in Queues
  <2>1. queue[k] \in 0 .. MaxQueued /\ queue[k] > 0 /\ queue' = [queue EXCEPT ![k] = queue[k] - 1]
    BY DEF Take, Types, Rest, Queues
  <2>2. queue[k] - 1 \in 0 .. MaxQueued
    BY <2>1, Constants
  <2> QED BY <2>1, <2>2 DEF Types, Rest, Queues
<1>7. OutsideOK /\ Writes(tx)
  BY <1>4, Outside, WritesNothing
<1> QED BY <1>4, <1>5, <1>6, <1>7, WorkerTypes

\* prepare_transaction_impl.
LEMMA PrepareTypes ==
    ASSUME Types, NEW w \in Workers,
           \/ PrepareSkip(w) \/ PrepareSign(w) \/ PrepareReject(w) \/ PrepareError(w)
           \/ PrepareStore(w) \/ Crash(w)
    PROVE  Types'
<1>0. RecordOK(tx) /\ tx \in Records /\ faults \subseteq Faults /\ queue \in Queues
  BY DEF Types, Rest, RecordOK
<1>1. CASE PrepareSkip(w)
  <2>1. Done(w) /\ UNCHANGED <<tx, mode, cluster, faults>>
    BY <1>1 DEF PrepareSkip
  <2>2. Writes(tx) /\ OutsideOK /\ EndsAny(w) /\ UNCHANGED mode
    BY <2>1, WritesNothing, Outside, JobEnds
  <2> QED BY <2>2, EndTypes
<1>2. CASE PrepareSign(w)
  <2> DEFINE b == IF mode = "instructions" THEN tip ELSE wk[w].snap.sig
  <2>1. wk' = [wk EXCEPT ![w].pc = "prepared", ![w].sig = b]
        /\ UNCHANGED <<tx, mode, queue, cluster, faults>> /\ ~At(w, "idle")
    BY <1>2 DEF PrepareSign, Preparing, At
  <2>2. b \in Hashes
    BY <2>1, Working DEF RecordOK, Types, Rest
  <2> HIDE DEF b
  <2>3. WorkOK([wk[w] EXCEPT !.pc = "prepared", !.sig = b])
    BY <2>1, <2>2, MoveOK DEF PCs
  <2>4. wk' = [wk EXCEPT ![w] = [wk[w] EXCEPT !.pc = "prepared", !.sig = b]]
    BY <2>1 DEF Types
  <2>5. Writes(tx) /\ OutsideOK /\ UNCHANGED mode /\ queue' \in Queues
    BY <2>1, <1>0, WritesNothing, Outside
  <2> QED BY <2>3, <2>4, <2>5, WorkerTypes
<1>3. CASE PrepareReject(w)
  <2>1. SetStatus("Failed") /\ Done(w) /\ UNCHANGED <<mode, cluster>>
        /\ (UNCHANGED faults \/ Fault("invalid"))
    BY <1>3 DEF PrepareReject
  <2>2. Writes([tx EXCEPT !.status = "Failed"])
    BY <2>1, WritesStatus DEF Statuses, Finals, Live
  <2>3. OutsideOK
    BY <2>1, <1>0, FaultOK, Outside
  <2> QED BY <2>1, <2>2, <2>3, JobEnds, EndTypes
<1>4. CASE PrepareError(w) \/ Crash(w)
  <2>1. (Retry(w) \/ Done(w)) /\ UNCHANGED <<tx, mode, cluster>>
        /\ (Fault("prepare") \/ Fault("db") \/ Fault("crash"))
    BY <1>4 DEF PrepareError, Crash
  <2>2. OutsideOK /\ Writes(tx)
    BY <2>1, <1>0, FaultOK, Outside, WritesNothing
  <2> QED BY <2>1, <2>2, JobEnds, EndTypes
<1>5. CASE PrepareStore(w)
  <2> DEFINE b == wk[w].sig
             r == [tx EXCEPT !.status = "Sent", !.sig = b]
  <2>1. At(w, "prepared") /\ UNCHANGED <<mode, cluster>>
        /\ (UNCHANGED faults \/ Fault("queue") \/ Fault("db"))
        /\ (tx' = Stored(r) \/ UNCHANGED tx)
        /\ (End(w, Queued("submit")) \/ Retry(w))
    BY <1>5 DEF PrepareStore
  <2>2. b # None /\ b \in Hashes
    BY <2>1 DEF Types, WorkOK, WorkStates, At
  <2> HIDE DEF b
  <2>3. r \in Records /\ r.sig = b
    BY <1>0, <2>2 DEF Records, Statuses, Finals
  <2>4. RecordOK(r)
    BY <2>2, <2>3 DEF RecordOK
  <2>5. EndsAny(w)
    BY <2>1, <1>0, QueuedOK, JobEnds DEF EndsAny, JobKinds
  <2>6. OutsideOK
    BY <2>1, <1>0, FaultOK, Outside
  <2> HIDE DEF r
  <2>7. Writes(r) \/ Writes(tx)
    BY <2>1, <2>2, <2>3, <2>4, WritesNothing DEF Writes
  <2> QED BY <2>1, <2>5, <2>6, <2>7, EndTypes
<1> QED BY <1>1, <1>2, <1>3, <1>4, <1>5

\* Sending a signature.
LEMMA SendTypes ==
    ASSUME Types, NEW w \in Workers, ~At(w, "idle"), wk[w].snap.sig # None, NEW b \in Hashes,
           Send(w, b)
    PROVE  Types'
<1>0. faults \subseteq Faults /\ queue \in Queues /\ tip \in Hashes /\ net \subseteq Hashes
      /\ chain \in [Hashes -> OnChain]
  BY DEF Types, Rest
<1>1. net' \subseteq Hashes /\ UNCHANGED <<tx, mode, tip, chain>>
  BY <1>0 DEF Send
<1>2. CASE wk' = [wk EXCEPT ![w].pc = "sent", ![w].sig = b] /\ UNCHANGED <<queue, faults>>
  <2>1. wk' = [wk EXCEPT ![w] = [wk[w] EXCEPT !.pc = "sent", !.sig = b]]
    BY <1>2 DEF Types
  <2>2. WorkOK([wk[w] EXCEPT !.pc = "sent", !.sig = b])
    BY MoveOK DEF PCs
  <2>3. Writes(tx) /\ OutsideOK /\ UNCHANGED mode /\ queue' \in Queues
    BY <1>0, <1>1, <1>2, WritesNothing DEF OutsideOK
  <2> QED BY <2>1, <2>2, <2>3, WorkerTypes
<1>3. CASE Fault("timeout") /\ Retry(w)
  <2>1. Writes(tx) /\ OutsideOK /\ UNCHANGED mode
    BY <1>0, <1>1, <1>3, WritesNothing, FaultOK DEF OutsideOK
  <2> QED BY <2>1, <1>3, JobEnds, EndTypes
<1> QED BY <1>2, <1>3 DEF Send

\* Answers that are no acceptance.
LEMMA RefusedTypes ==
    ASSUME Types, NEW w \in Workers,
           \/ Done(w) /\ UNCHANGED <<tx, mode, cluster, faults>>
           \/ SendError(w) /\ (UNCHANGED faults \/ SendFault)
           \/ SendRejected(w)
    PROVE  Types'
<1>0. faults \subseteq Faults
  BY DEF Types, Rest
<1>1. CASE (Done(w) /\ UNCHANGED <<tx, mode, cluster, faults>>)
           \/ (SendError(w) /\ (UNCHANGED faults \/ SendFault))
  <2>1. (Done(w) \/ Retry(w)) /\ UNCHANGED <<tx, mode, cluster>>
        /\ (UNCHANGED faults \/ SendFault)
    BY <1>1 DEF SendError
  <2>2. Writes(tx) /\ OutsideOK
    BY <1>0, <2>1, WritesNothing, FaultOK, Outside DEF SendFault
  <2> QED BY <2>1, <2>2, JobEnds, EndTypes
<1>2. CASE SendRejected(w)
  <2>1. SetStatus("Failed") /\ Done(w) /\ UNCHANGED <<mode, cluster>> /\ Fault("reject")
    BY <1>2 DEF SendRejected
  <2>2. Writes([tx EXCEPT !.status = "Failed"])
    BY <2>1, WritesStatus DEF Statuses, Finals, Live
  <2>3. OutsideOK
    BY <2>1, <1>0, FaultOK, Outside
  <2> QED BY <2>1, <2>2, <2>3, JobEnds, EndTypes
<1> QED BY <1>1, <1>2

\* The record with one more attempt.
LEMMA PushedOK ==
    ASSUME NEW r \in Records, NEW b \in Hashes
    PROVE  Pushed(r, b).hashes = r.hashes \cup {b} /\ Pushed(r, b).hashes \subseteq Hashes
           /\ Pushed(r, b).attempts \in 0 .. MaxAttempts
<1>1. r.attempts \in 0 .. MaxAttempts /\ r.hashes \subseteq Hashes
  BY DEF Records
<1> QED BY <1>1, Constants DEF Pushed

\* submit_transaction_impl and resubmit_transaction_impl.
LEMMA SubmissionTypes ==
    ASSUME Types, NEW w \in Workers,
           SubmitSkip(w) \/ Submit(w) \/ SubmitStore(w) \/ Resubmit(w) \/ ResubmitStore(w)
    PROVE  Types'
<1>0. RecordOK(tx) /\ tx \in Records /\ faults \subseteq Faults /\ queue \in Queues
      /\ tip \in Hashes
  BY DEF Types, Rest, RecordOK
<1>1. CASE SubmitSkip(w)
  BY <1>1, RefusedTypes DEF SubmitSkip
<1>2. CASE Submit(w) \/ Resubmit(w)
  <2>1. ~At(w, "idle") /\ Sendable(w)
    BY <1>2 DEF Submit, Resubmit, At
  <2>2. wk[w].snap.sig # None /\ wk[w].snap.sig \in Hashes
    BY <2>1, Working DEF Sendable, Live
  <2>3. \/ Send(w, wk[w].snap.sig) \/ Send(w, tip)
        \/ Done(w) /\ UNCHANGED <<tx, mode, cluster, faults>>
        \/ SendError(w) /\ (UNCHANGED faults \/ SendFault)
        \/ SendRejected(w)
    BY <1>2 DEF Submit, Resubmit
  <2> QED BY <2>1, <2>2, <2>3, <1>0, SendTypes, RefusedTypes
<1>3. CASE SubmitStore(w) \/ ResubmitStore(w)
  <2> DEFINE b == wk[w].sig
             p == Pushed(wk[w].snap, b)
             r == [tx EXCEPT !.status = "Submitted", !.hashes = p.hashes, !.attempts = p.attempts]
             m == [status |-> "Submitted", sig |-> b, hashes |-> p.hashes, attempts |-> p.attempts]
  <2>1. At(w, "sent") /\ UNCHANGED <<mode, cluster>> /\ Done(w)
        /\ (UNCHANGED faults \/ Fault("db") \/ Fault("dbresubmit"))
        /\ (tx' = Stored(r) \/ tx' = Stored(m) \/ UNCHANGED tx)
    BY <1>3 DEF SubmitStore, ResubmitStore
  <2>2. b \in Hashes /\ b # None /\ wk[w].snap \in Records /\ tx.sig # None
    BY <2>1, Working DEF At, Types, WorkOK, WorkStates
  <2>3. p.hashes \subseteq Hashes /\ p.attempts \in 0 .. MaxAttempts
    BY <2>2, PushedOK
  <2> HIDE DEF b, p
  <2>4. r \in Records /\ r.sig = tx.sig /\ m \in Records /\ m.sig = b
    BY <1>0, <2>2, <2>3 DEF Records, Statuses, Finals
  <2> HIDE DEF r, m
  <2>5. RecordOK(r) /\ RecordOK(m)
    BY <2>2, <2>4 DEF RecordOK
  <2>6. Writes(r) \/ Writes(m) \/ Writes(tx)
    BY <2>1, <2>2, <2>4, <2>5, WritesNothing DEF Writes
  <2>7. OutsideOK
    BY <2>1, <1>0, FaultOK, Outside
  <2> QED BY <2>1, <2>6, <2>7, JobEnds, EndTypes
<1> QED BY <1>1, <1>2, <1>3

\* The cluster.
LEMMA ClusterTypes ==
    ASSUME Types, NewBlock \/ \E b \in Hashes : Process(b) \/ Finalize(b) \/ Fork(b)
    PROVE  Types'
<1>0. faults \subseteq Faults /\ queue \in Queues /\ tip \in Hashes /\ net \subseteq Hashes
      /\ chain \in [Hashes -> OnChain] /\ mode \in Modes
  BY DEF Types, Rest
<1>1. UNCHANGED <<tx, mode, queue, wk, net>>
  BY DEF NewBlock, Process, Finalize, Fork
<1>2. faults' \subseteq Faults
  BY <1>0, FaultOK DEF NewBlock, Process, Finalize, Fork
<1>3. tip' \in Hashes
  BY <1>0, Constants DEF NewBlock, Process, Finalize, Fork, Hashes
<1>4. chain' \in [Hashes -> OnChain]
  BY <1>0 DEF NewBlock, Process, Finalize, Fork, OnChain
<1> QED BY <1>0, <1>1, <1>2, <1>3, <1>4 DEF Types, Rest, RecordOK, WorkOK

\* An undetected transaction, with a failed call perhaps.
LEMMA UndetectedOK ==
    ASSUME Types, NEW w \in Workers, Undetected(w)
    PROVE  ~At(w, "idle") /\ (UNCHANGED faults \/ Fault("rpc")) /\ At(w, "status")
BY DEF Undetected, Checking, At

\* What a status check may do to the record: nothing, or a status of its own, or the
\* chain's answer for a signature that was sent.
StatusWrites(w) ==
    \/ UNCHANGED tx
    \/ \E s \in {"Failed", "Expired"} : SetStatus(s)
    \/ /\ wk[w].snap.status \in Live /\ Found(wk[w].snap.sig)
       /\ SetStatus(OnChainStatus(wk[w].snap.sig))
    \/ /\ At(w, "status") /\ wk[w].snap.status \in {"Sent", "Submitted"}
       /\ \E b \in wk[w].snap.hashes :
            Found(b) /\ tx' = Stored([tx EXCEPT !.status = OnChainStatus(b), !.sig = b])

\* Which it may do is a write of a record.
LEMMA StatusWritesOK ==
    ASSUME Types, NEW w \in Workers, ~At(w, "idle"), StatusWrites(w)
    PROVE  \E r : Writes(r)
<1>0. RecordOK(tx) /\ tx \in Records /\ Rest
  BY DEF Types, RecordOK
<1>1. CASE UNCHANGED tx
  BY <1>1, WritesNothing
<1>2. CASE \E s \in {"Failed", "Expired"} : SetStatus(s)
  <2>1. PICK s \in {"Failed", "Expired"} : SetStatus(s)
    BY <1>2
  <2>2. s \in Statuses /\ s \notin Live
    BY DEF Statuses, Finals, Live
  <2> QED BY <2>1, <2>2, WritesStatus
<1>3. CASE /\ wk[w].snap.status \in Live /\ Found(wk[w].snap.sig)
           /\ SetStatus(OnChainStatus(wk[w].snap.sig))
  <2> DEFINE b == wk[w].snap.sig
  <2>1. b \in Hashes /\ tx.sig # None
    BY <1>3, Working
  <2> HIDE DEF b
  <2>2. Found(b) /\ SetStatus(OnChainStatus(b))
    BY <1>3 DEF b
  <2>3. OnChainStatus(b) \in Statuses
    BY <2>1, <2>2, <1>0, AnswerOK DEF Statuses, Finals
  <2> QED BY <2>1, <2>2, <2>3, WritesStatus
<1>4. CASE \E b \in wk[w].snap.hashes :
             Found(b) /\ tx' = Stored([tx EXCEPT !.status = OnChainStatus(b), !.sig = b])
  <2>1. PICK b \in wk[w].snap.hashes :
               Found(b) /\ tx' = Stored([tx EXCEPT !.status = OnChainStatus(b), !.sig = b])
    BY <1>4
  <2>2. b \in Hashes /\ b # None
    BY Working, Constants
  <2>3. OnChainStatus(b) \in Statuses
    BY <2>1, <2>2, <1>0, AnswerOK DEF Statuses, Finals
  <2> DEFINE s == OnChainStatus(b)
             r == [tx EXCEPT !.status = s, !.sig = b]
  <2>4. s \in Statuses /\ tx' = Stored(r)
    BY <2>1, <2>3
  <2> HIDE DEF s
  <2>5. r \in Records /\ r.sig = b
    BY <2>2, <2>4, <1>0 DEF Records
  <2> HIDE DEF r
  <2>6. Writes(r)
    BY <2>2, <2>4, <2>5 DEF Writes, RecordOK
  <2> QED BY <2>6
<1> QED BY <1>1, <1>2, <1>3, <1>4 DEF StatusWrites

\* A status check that ends, in one form.
StatusEnd(w) ==
    /\ ~At(w, "idle") /\ (At(w, "status") \/ At(w, "searched"))
    /\ StatusWrites(w) /\ UNCHANGED <<mode, cluster>>
    /\ \/ StatusDone(w, queue)
       \/ StatusDone(w, Queued("request"))
       \/ /\ At(w, "searched") /\ UNCHANGED tx /\ StatusDone(w, Queued("resubmit"))
          /\ ~is_blockhash_valid(wk[w].snap.sig)
    /\ UNCHANGED faults \/ \E f : Fault(f)

\* Every step of the status check but the one to the blockhash has that form.
LEMMA StatusForm ==
    ASSUME Types, NEW w \in Workers,
           \/ StatusFinal(w) \/ StatusBreaker(w) \/ StatusOnChain(w) \/ StatusMined(w)
           \/ StatusExpired(w) \/ StatusTimeout(w) \/ StatusPending(w) \/ StatusYoung(w)
           \/ StatusSignature(w) \/ StatusBlockhash(w) \/ StatusError(w)
    PROVE  StatusEnd(w)
<1>1. CASE StatusFinal(w)
  BY <1>1 DEF StatusFinal, StatusEnd, StatusWrites, At
<1>2. CASE StatusBreaker(w)
  BY <1>2 DEF StatusBreaker, StatusEnd, StatusWrites, At, Checking
<1>3. CASE StatusOnChain(w)
  BY <1>3 DEF StatusOnChain, StatusEnd, StatusWrites, At, Checking, Live
<1>4. CASE StatusMined(w) \/ StatusPending(w) \/ StatusYoung(w)
  <2>1. Undetected(w) /\ UNCHANGED tx /\ UNCHANGED <<mode, cluster>>
        /\ (StatusDone(w, queue) \/ StatusDone(w, Queued("request")))
    BY <1>4 DEF StatusMined, StatusPending, StatusYoung
  <2> QED BY <2>1, UndetectedOK DEF StatusEnd, StatusWrites
<1>5. CASE StatusExpired(w) \/ StatusTimeout(w)
  <2>1. Undetected(w) /\ UNCHANGED <<mode, cluster>> /\ StatusDone(w, queue)
        /\ (SetStatus("Expired") \/ SetStatus("Failed"))
    BY <1>5 DEF StatusExpired, StatusTimeout
  <2> QED BY <2>1, UndetectedOK DEF StatusEnd, StatusWrites
<1>6. CASE StatusSignature(w)
  <2>1. Undetected(w) /\ UNCHANGED <<mode, cluster>> /\ StatusDone(w, queue) /\ StatusWrites(w)
    BY <1>6, UndetectedOK DEF StatusSignature, StatusWrites, Resubmittable
  <2> QED BY <2>1, UndetectedOK DEF StatusEnd
<1>7. CASE StatusBlockhash(w)
  BY <1>7 DEF StatusBlockhash, StatusEnd, StatusWrites, At
<1>8. CASE StatusError(w)
  BY <1>8 DEF StatusError, StatusEnd, StatusWrites, At
<1> QED BY <1>1, <1>2, <1>3, <1>4, <1>5, <1>6, <1>7, <1>8

\* handle_transaction_status_impl.
LEMMA StatusTypes ==
    ASSUME Types, NEW w \in Workers, StatusEnd(w) \/ StatusSearched(w)
    PROVE  Types'
<1>0. faults \subseteq Faults /\ queue \in Queues
  BY DEF Types, Rest
<1>1. CASE StatusEnd(w)
  <2>1. PICK r : Writes(r)
    BY <1>1, StatusWritesOK DEF StatusEnd
  <2>2. Queued("request") \in Queues /\ Queued("resubmit") \in Queues
    BY <1>0, QueuedOK DEF JobKinds
  <2>3. EndsAny(w)
    BY <1>1, <1>0, <2>2, StatusEnds DEF StatusEnd
  <2>4. OutsideOK /\ UNCHANGED mode
    BY <1>1, <1>0, FaultOK, Outside DEF StatusEnd
  <2> QED BY <2>1, <2>3, <2>4, EndTypes
<1>2. CASE StatusSearched(w)
  <2> DEFINE m == [wk[w] EXCEPT !.pc = "searched"]
  <2>1. Undetected(w) /\ wk' = [wk EXCEPT ![w] = m] /\ UNCHANGED <<tx, mode, queue, cluster>>
    BY <1>2 DEF StatusSearched, Types
  <2>2. ~At(w, "idle") /\ (UNCHANGED faults \/ Fault("rpc"))
    BY <2>1, UndetectedOK
  <2>3. wk[w] \in WorkStates /\ RecordOK(wk[w].snap) /\ (wk[w].snap.sig # None => tx.sig # None)
    BY <2>2, Working
  <2>4. m \in WorkStates /\ m.pc = "searched" /\ m.snap = wk[w].snap
    BY <2>3 DEF WorkStates, PCs
  <2> HIDE DEF m
  <2>5. WorkOK(m)
    BY <2>3, <2>4 DEF WorkOK
  <2>6. Writes(tx) /\ OutsideOK /\ UNCHANGED mode /\ queue' \in Queues
    BY <1>0, <2>1, <2>2, WritesNothing, FaultOK, Outside
  <2> QED BY <2>1, <2>5, <2>6, WorkerTypes
<1> QED BY <1>1, <1>2

\* The types hold initially.
LEMMA InitTypes == Init => Types
<1> SUFFICES ASSUME Init PROVE Types
  OBVIOUS
<1>1. PICK s \in {"Pending", "Failed"}, ks \in SUBSET JobKinds, f \in SUBSET Faults :
         /\ tx = [status |-> s, sig |-> IF mode = "instructions" THEN None ELSE 1,
                  hashes |-> {}, attempts |-> 0]
         /\ queue = [k \in JobKinds |-> IF k \in ks THEN 1 ELSE 0]
         /\ faults = f
  BY DEF Init
<1>2. (IF mode = "instructions" THEN None ELSE 1) \in Hashes \cup {None}
      /\ (mode # "instructions" => (IF mode = "instructions" THEN None ELSE 1) # None)
  BY Constants
<1>3. 0 \in 0 .. MaxAttempts
  BY Constants
<1>4. RecordOK(tx)
  BY <1>1, <1>2, <1>3 DEF RecordOK, Records, Statuses, Finals, Live
<1>5. Rest
  <2>1. 0 \in 0 .. MaxQueued /\ 1 \in 0 .. MaxQueued
    BY Constants
  <2>2. queue \in Queues
    BY <2>1, <1>1 DEF Queues
  <2> QED BY <2>2, <1>1, Constants DEF Init, Rest, OnChain
<1>6. wk = [w \in Workers |-> Idle]
  BY DEF Init
<1>7. wk \in [Workers -> WorkStates] /\ \A w \in Workers : WorkOK(wk[w])
  BY <1>6, IdleOK DEF WorkOK
<1> QED BY <1>4, <1>5, <1>7 DEF Types

\* Every step keeps the types.
LEMMA StepTypes == Types /\ [Next]_vars => Types'
<1> SUFFICES ASSUME Types, [Next]_vars PROVE Types'
  OBVIOUS
<1>1. CASE UNCHANGED vars
  BY <1>1 DEF vars, Types, Rest, RecordOK, WorkOK
<1>2. CASE Next
  BY <1>2, NextCases, TakeTypes, PrepareTypes, SubmissionTypes, StatusForm, StatusTypes,
     ClusterTypes
<1> QED BY <1>1, <1>2

\* The types hold always, with any number of workers; in particular a record that is sent,
\* submitted or mined has a signature, however the handlers interleave.
THEOREM TypeCorrect == Spec => []TypeOK
<1>1. Types => TypeOK
  <2> SUFFICES ASSUME Types PROVE TypeOK
    OBVIOUS
  <2>1. \A w \in Workers : wk[w] \in WorkStates
    BY DEF Types
  <2>2. \A w \in Workers :
          /\ wk[w].pc \in JobKinds \cup {"idle", "prepared", "sent", "searched"}
          /\ wk[w].kind \in JobKinds
          /\ wk[w].snap \in Records \cup {None}
          /\ wk[w].sig \in Hashes \cup {None}
    BY <2>1 DEF WorkStates, PCs
  <2> QED BY <2>2 DEF TypeOK, Types, Rest, RecordOK, Live, Queues, OnChain
<1> QED BY <1>1, InitTypes, StepTypes, PTL DEF Spec

-----------------------------------------------------------------------------
(* Jobs of one transaction, one after the other. *)

\* When a handler ends, nobody is at work.
LEMMA NobodyWorks ==
    ASSUME Serial, Types, NEW w \in Workers, EndsAny(w)
    PROVE  SnapCurrent' /\ \A v \in Workers : At(v, "idle")'
<1>1. wk' = [wk EXCEPT ![w] = Idle]
  BY DEF EndsAny, End
<1>2. \A v \in Workers : wk'[v] = Idle
  BY <1>1 DEF Serial, Types
<1>3. Idle.pc = "idle"
  BY DEF Idle
<1> QED BY <1>2, <1>3 DEF SnapCurrent, At, JobKinds

\* What the handlers store.
JobWrites(w) ==
    \/ StatusWrites(w)
    \/ At(w, "prepared") /\ tx' = Stored([tx EXCEPT !.status = "Sent", !.sig = wk[w].sig])
    \/ /\ At(w, "sent") /\ wk[w].kind = "submit"
       /\ tx' = Stored([tx EXCEPT !.status = "Submitted",
                                  !.hashes = Pushed(wk[w].snap, wk[w].sig).hashes,
                                  !.attempts = Pushed(wk[w].snap, wk[w].sig).attempts])
    \/ /\ At(w, "sent") /\ wk[w].kind = "resubmit" /\ Done(w)
       /\ tx' = Stored([status |-> "Submitted", sig |-> wk[w].sig,
                        hashes |-> Pushed(wk[w].snap, wk[w].sig).hashes,
                        attempts |-> Pushed(wk[w].snap, wk[w].sig).attempts])

\* And the queues they leave.
JobLeaves(w) ==
    \/ Done(w) \/ Retry(w) \/ End(w, Queued("submit"))
    \/ StatusDone(w, queue) \/ StatusDone(w, Queued("request"))
    \/ /\ At(w, "searched") /\ UNCHANGED tx /\ StatusDone(w, Queued("resubmit"))
       /\ ~is_blockhash_valid(wk[w].snap.sig)

\* A job that ends.
JobEnd(w) ==
    ~At(w, "idle") /\ JobWrites(w) /\ JobLeaves(w) /\ UNCHANGED <<mode, tip, chain>>

\* And one that goes on, with the step x and the signature b.
GoesOn(w, x, b) ==
    /\ wk' = [wk EXCEPT ![w] = [wk[w] EXCEPT !.pc = x, !.sig = b]]
    /\ UNCHANGED <<tx, mode, queue, tip, chain>>

JobGoesOn(w) ==
    \/ /\ At(w, "request") /\ wk[w].snap.status = "Pending"
       /\ \E b \in {tip, wk[w].snap.sig} : GoesOn(w, "prepared", b)
    \/ At(w, "submit") /\ Sendable(w) /\ GoesOn(w, "sent", wk[w].snap.sig)
    \/ At(w, "resubmit") /\ Sendable(w) /\ GoesOn(w, "sent", tip)
    \/ /\ At(w, "status") /\ wk[w].snap.status \in {"Sent", "Submitted"}
       /\ GoesOn(w, "searched", wk[w].sig)

\* Sending: accepted, or without an answer.
LEMMA SendForm ==
    ASSUME Types, NEW w \in Workers, NEW b, Send(w, b), ~At(w, "idle")
    PROVE  GoesOn(w, "sent", b) \/ JobEnd(w)
<1>1. UNCHANGED <<tx, mode, tip, chain>>
  BY DEF Send
<1>2. CASE wk' = [wk EXCEPT ![w].pc = "sent", ![w].sig = b] /\ UNCHANGED <<queue, faults>>
  BY <1>1, <1>2 DEF GoesOn, Types
<1>3. CASE Retry(w)
  BY <1>1, <1>3 DEF JobEnd, JobWrites, JobLeaves, StatusWrites
<1> QED BY <1>2, <1>3 DEF Send

\* Any other answer.
LEMMA RefusedForm ==
    ASSUME Types, NEW w \in Workers, ~At(w, "idle"),
           \/ Done(w) /\ UNCHANGED <<tx, mode, cluster, faults>>
           \/ SendError(w) \/ SendRejected(w)
    PROVE  JobEnd(w)
BY DEF SendError, SendRejected, JobEnd, JobWrites, JobLeaves, StatusWrites, cluster

\* Every step of a worker at work has one of the two forms.
LEMMA Forms ==
    ASSUME Types, NEW w \in Workers,
           \/ PrepareSkip(w) \/ PrepareSign(w) \/ PrepareReject(w) \/ PrepareError(w)
           \/ PrepareStore(w) \/ SubmitSkip(w) \/ Submit(w) \/ SubmitStore(w) \/ Resubmit(w)
           \/ ResubmitStore(w) \/ StatusEnd(w) \/ StatusSearched(w) \/ Crash(w)
    PROVE  JobEnd(w) \/ JobGoesOn(w)
<1>1. CASE PrepareSkip(w) \/ PrepareReject(w) \/ PrepareError(w) \/ Crash(w)
  <2>1. ~At(w, "idle") /\ UNCHANGED <<mode, tip, chain>> /\ (Done(w) \/ Retry(w))
        /\ (UNCHANGED tx \/ SetStatus("Failed"))
    BY <1>1 DEF PrepareSkip, PrepareReject, PrepareError, Crash, Preparing, At, cluster
  <2> QED BY <2>1 DEF JobEnd, JobWrites, JobLeaves, StatusWrites
<1>2. CASE PrepareSign(w)
  <2> DEFINE b == IF mode = "instructions" THEN tip ELSE wk[w].snap.sig
  <2>1. wk' = [wk EXCEPT ![w].pc = "prepared", ![w].sig = b]
        /\ UNCHANGED <<tx, mode, queue, tip, chain>> /\ Preparing(w) /\ b \in {tip, wk[w].snap.sig}
    BY <1>2 DEF PrepareSign, cluster
  <2> HIDE DEF b
  <2>2. GoesOn(w, "prepared", b)
    BY <2>1 DEF GoesOn, Types
  <2> QED BY <2>1, <2>2 DEF JobGoesOn, Preparing
<1>3. CASE PrepareStore(w)
  <2>1. At(w, "prepared") /\ UNCHANGED <<mode, tip, chain>>
        /\ (End(w, Queued("submit")) \/ Retry(w))
        /\ (UNCHANGED tx \/ tx' = Stored([tx EXCEPT !.status = "Sent", !.sig = wk[w].sig]))
    BY <1>3 DEF PrepareStore, cluster
  <2> QED BY <2>1 DEF JobEnd, JobWrites, JobLeaves, StatusWrites, At
<1>4. CASE SubmitSkip(w)
  BY <1>4, RefusedForm DEF SubmitSkip, At
<1>5. CASE Submit(w)
  <2>1. At(w, "submit") /\ Sendable(w) /\ ~At(w, "idle")
    BY <1>5 DEF Submit, At
  <2>2. \/ Send(w, wk[w].snap.sig)
        \/ Done(w) /\ UNCHANGED <<tx, mode, cluster, faults>>
        \/ SendError(w) \/ SendRejected(w)
    BY <1>5 DEF Submit
  <2> QED BY <2>1, <2>2, SendForm, RefusedForm DEF JobGoesOn
<1>6. CASE Resubmit(w)
  <2>1. At(w, "resubmit") /\ Sendable(w) /\ ~At(w, "idle")
    BY <1>6 DEF Resubmit, At
  <2>2. \/ Send(w, tip)
        \/ Done(w) /\ UNCHANGED <<tx, mode, cluster, faults>>
        \/ SendError(w) \/ SendRejected(w)
    BY <1>6 DEF Resubmit
  <2> QED BY <2>1, <2>2, SendForm, RefusedForm DEF JobGoesOn
<1>7. CASE SubmitStore(w)
  <2>1. JobWrites(w)
    BY <1>7 DEF SubmitStore, JobWrites, StatusWrites
  <2> QED BY <1>7, <2>1 DEF SubmitStore, JobEnd, JobLeaves, At, cluster
<1>8. CASE ResubmitStore(w)
  <2>1. JobWrites(w)
    BY <1>8 DEF ResubmitStore, JobWrites, StatusWrites
  <2> QED BY <1>8, <2>1 DEF ResubmitStore, JobEnd, JobLeaves, At, cluster
<1>9. CASE StatusEnd(w)
  BY <1>9 DEF StatusEnd, JobEnd, JobWrites, JobLeaves, cluster
<1>10. CASE StatusSearched(w)
  <2>1. At(w, "status") /\ UNCHANGED <<tx, mode, queue, tip, chain>>
        /\ wk' = [wk EXCEPT ![w].pc = "searched"] /\ wk[w].snap.status \in {"Sent", "Submitted"}
    BY <1>10 DEF StatusSearched, Undetected, Checking, Resubmittable, cluster
  <2>2. wk[w] \in WorkStates
    BY DEF Types
  <2>3. [wk[w] EXCEPT !.pc = "searched", !.sig = wk[w].sig] = [wk[w] EXCEPT !.pc = "searched"]
    BY <2>2 DEF WorkStates
  <2>4. wk' = [wk EXCEPT ![w] = [wk[w] EXCEPT !.pc = "searched"]]
    BY <2>1 DEF Types
  <2> QED BY <2>1, <2>3, <2>4 DEF JobGoesOn, GoesOn
<1> QED BY <1>1, <1>2, <1>3, <1>4, <1>5, <1>6, <1>7, <1>8, <1>9, <1>10

\* A job that ends leaves proper queues.
LEMMA LeavesOK ==
    ASSUME Types, NEW w \in Workers, JobLeaves(w)
    PROVE  EndsAny(w)
<1>1. queue \in Queues
  BY DEF Types, Rest
<1>2. Queued("submit") \in Queues /\ Queued("request") \in Queues /\ Queued("resubmit") \in Queues
  BY <1>1, QueuedOK DEF JobKinds
<1>3. CASE Done(w) \/ Retry(w)
  BY <1>3, JobEnds
<1>4. CASE End(w, Queued("submit"))
  BY <1>4, <1>2 DEF EndsAny
<1>5. CASE StatusDone(w, queue) \/ StatusDone(w, Queued("request")) \/ StatusDone(w, Queued("resubmit"))
  BY <1>5, <1>1, <1>2, StatusEnds
<1> QED BY <1>3, <1>4, <1>5 DEF JobLeaves

\* What goes on, after the step.
LEMMA GoneOn ==
    ASSUME Serial, Types, NEW w \in Workers, NEW x, NEW b, GoesOn(w, x, b)
    PROVE  \A v \in Workers : /\ v = w
                              /\ wk'[v].pc = x /\ wk'[v].sig = b /\ wk'[v].kind = wk[v].kind
                              /\ wk'[v].snap = wk[v].snap
<1> DEFINE m == [wk[w] EXCEPT !.pc = x, !.sig = b]
<1>1. wk[w] \in WorkStates
  BY DEF Types
<1>2. m.pc = x /\ m.sig = b /\ m.kind = wk[w].kind /\ m.snap = wk[w].snap
  BY <1>1 DEF WorkStates
<1>3. wk'[w] = m
  BY DEF GoesOn, Types
<1> HIDE DEF m
<1> QED BY <1>2, <1>3 DEF Serial

\* A job that goes on has still read the current record.
LEMMA SnapGoesOn ==
    ASSUME Serial, Types, SnapCurrent, NEW w \in Workers, JobGoesOn(w)
    PROVE  SnapCurrent'
<1>1. wk[w].pc \in JobKinds /\ wk[w].pc # "idle"
  BY DEF JobGoesOn, At, JobKinds
<1>2. wk[w].snap = tx /\ wk[w].kind = wk[w].pc
  BY <1>1 DEF SnapCurrent, At
<1>3. CASE wk[w].pc = "request" /\ wk[w].snap.status = "Pending"
           /\ \E b : GoesOn(w, "prepared", b)
  <2>1. PICK b : GoesOn(w, "prepared", b)
    BY <1>3
  <2>2. \A v \in Workers : /\ wk'[v].pc = "prepared" /\ wk'[v].kind = "request"
                           /\ wk'[v].snap = tx
    BY <2>1, <1>2, <1>3, GoneOn
  <2>3. tx' = tx
    BY <2>1 DEF GoesOn
  <2> QED BY <2>2, <2>3, <1>2, <1>3 DEF SnapCurrent, At, JobKinds
<1>4. CASE wk[w].pc \in {"submit", "resubmit"} /\ Sendable(w) /\ \E b : GoesOn(w, "sent", b)
  <2>1. PICK b : GoesOn(w, "sent", b)
    BY <1>4
  <2>2. \A v \in Workers : /\ wk'[v].pc = "sent" /\ wk'[v].kind \in {"submit", "resubmit"}
                           /\ wk'[v].snap = tx
    BY <2>1, <1>2, <1>4, GoneOn
  <2>3. tx' = tx
    BY <2>1 DEF GoesOn
  <2> QED BY <2>2, <2>3, <1>2, <1>4 DEF SnapCurrent, At, JobKinds, Sendable
<1>5. CASE wk[w].pc = "status" /\ wk[w].snap.status \in {"Sent", "Submitted"}
           /\ GoesOn(w, "searched", wk[w].sig)
  <2>2. \A v \in Workers : /\ wk'[v].pc = "searched" /\ wk'[v].kind = "status"
                           /\ wk'[v].snap = tx
    BY <1>2, <1>5, GoneOn
  <2>3. tx' = tx
    BY <1>5 DEF GoesOn
  <2> QED BY <2>2, <2>3, <1>2, <1>5 DEF SnapCurrent, At, JobKinds
<1> QED BY <1>3, <1>4, <1>5 DEF JobGoesOn, At

\* A job that is taken reads the current record.
LEMMA SnapTake ==
    ASSUME Serial, Types, NEW w \in Workers, NEW k \in JobKinds, Take(w, k)
    PROVE  /\ SnapCurrent'
           /\ \A v \in Workers : wk'[v].pc = k /\ wk'[v].kind = k
<1> DEFINE m == [pc |-> k, kind |-> k, snap |-> tx, sig |-> tx.sig]
<1>1. wk' = [wk EXCEPT ![w] = m] /\ tx' = tx
  BY DEF Take
<1>2. m.pc = k /\ m.kind = k /\ m.snap = tx
  OBVIOUS
<1> HIDE DEF m
<1>3. \A v \in Workers : wk'[v] = m
  BY <1>1 DEF Serial, Types
<1> QED BY <1>1, <1>2, <1>3 DEF SnapCurrent, At, JobKinds

\* The records handlers write, when their snapshots are current: what is confirmed is so on
\* the chain.
LEMMA ConfirmedWrite ==
    ASSUME Types, SnapCurrent, ConfirmedSignature, NEW w \in Workers, ~At(w, "idle"),
           JobWrites(w), UNCHANGED chain
    PROVE  ConfirmedSignature'
<1>0. wk[w].snap = tx /\ tx \in Records /\ RecordOK(tx) /\ Rest
  BY DEF SnapCurrent, Types, RecordOK
<1>a. ASSUME NEW r, tx' = Stored(r), r.status = "Confirmed" => r.sig # None /\ chain[r.sig] = "finalized"
      PROVE  ConfirmedSignature'
  <2>1. tx' = tx \/ tx' = r
    BY <1>a DEF Stored
  <2> QED BY <2>1, <1>a DEF ConfirmedSignature
<1>1. CASE UNCHANGED tx
  BY <1>1 DEF ConfirmedSignature
<1>2. CASE \E s \in {"Failed", "Expired"} : SetStatus(s)
  <2>1. PICK s \in {"Failed", "Expired"} : tx' = Stored([tx EXCEPT !.status = s])
    BY <1>2 DEF SetStatus
  <2>2. [tx EXCEPT !.status = s].status # "Confirmed"
    BY <1>0 DEF Records
  <2> QED BY <2>1, <2>2, <1>a
<1>3. CASE /\ wk[w].snap.status \in Live /\ Found(wk[w].snap.sig)
           /\ SetStatus(OnChainStatus(wk[w].snap.sig))
  <2> DEFINE s == OnChainStatus(tx.sig)
             r == [tx EXCEPT !.status = s]
  <2>1. tx.sig \in Hashes /\ tx.sig # None /\ Found(tx.sig) /\ tx' = Stored(r)
    BY <1>3, <1>0, Working DEF SetStatus, RecordOK
  <2>2. s = "Confirmed" => chain[tx.sig] = "finalized"
    BY <2>1, <1>0, AnswerOK
  <2> HIDE DEF s
  <2>3. r.status = s /\ r.sig = tx.sig
    BY <1>0 DEF Records
  <2> HIDE DEF r
  <2> QED BY <2>1, <2>2, <2>3, <1>a
<1>4. CASE \E b \in wk[w].snap.hashes :
             Found(b) /\ tx' = Stored([tx EXCEPT !.status = OnChainStatus(b), !.sig = b])
  <2>1. PICK b \in wk[w].snap.hashes :
               Found(b) /\ tx' = Stored([tx EXCEPT !.status = OnChainStatus(b), !.sig = b])
    BY <1>4
  <2>2. b \in Hashes /\ b # None
    BY Working, Constants
  <2> DEFINE s == OnChainStatus(b)
             r == [tx EXCEPT !.status = s, !.sig = b]
  <2>3. s = "Confirmed" => chain[b] = "finalized"
    BY <2>1, <2>2, <1>0, AnswerOK
  <2>4. tx' = Stored(r)
    BY <2>1
  <2> HIDE DEF s
  <2>5. r.status = s /\ r.sig = b
    BY <1>0 DEF Records
  <2> HIDE DEF r
  <2> QED BY <2>2, <2>3, <2>4, <2>5, <1>a
<1>5. CASE ~StatusWrites(w)
  <2>1. PICK r : tx' = Stored(r) /\ r.status \in {"Sent", "Submitted"}
    <3> DEFINE p == Pushed(wk[w].snap, wk[w].sig)
               b == wk[w].sig
               r1 == [tx EXCEPT !.status = "Sent", !.sig = b]
               r2 == [tx EXCEPT !.status = "Submitted", !.hashes = p.hashes, !.attempts = p.attempts]
               r3 == [status |-> "Submitted", sig |-> b, hashes |-> p.hashes,
                      attempts |-> p.attempts]
    <3>1. tx' = Stored(r1) \/ tx' = Stored(r2) \/ tx' = Stored(r3)
      BY <1>5 DEF JobWrites
    <3> HIDE DEF p, b
    <3>2. r1.status = "Sent" /\ r2.status = "Submitted" /\ r3.status = "Submitted"
      BY <1>0 DEF Records
    <3> HIDE DEF r1, r2, r3
    <3> QED BY <3>1, <3>2
  <2> QED BY <2>1, <1>a
<1> QED BY <1>1, <1>2, <1>3, <1>4, <1>5 DEF StatusWrites

\* The invariant of the signature that is reported.
ConfirmedInv == Types /\ SnapCurrent /\ ConfirmedSignature

\* Every step keeps the snapshot current and the reported signature on chain.
LEMMA SerialStep ==
    ASSUME Serial, Types, SnapCurrent, [Next]_vars
    PROVE  /\ SnapCurrent'
           /\ ConfirmedSignature => ConfirmedSignature'
<1>1. CASE \E w \in Workers : JobEnd(w)
  <2>1. PICK w \in Workers : JobEnd(w)
    BY <1>1
  <2>2. SnapCurrent'
    BY <2>1, LeavesOK, NobodyWorks DEF JobEnd
  <2> QED BY <2>1, <2>2, ConfirmedWrite DEF JobEnd
<1>2. CASE \E w \in Workers : JobGoesOn(w)
  <2>1. PICK w \in Workers : JobGoesOn(w)
    BY <1>2
  <2>2. UNCHANGED <<tx, chain>>
    BY <2>1 DEF JobGoesOn, GoesOn
  <2> QED BY <2>1, <2>2, SnapGoesOn DEF ConfirmedSignature
<1>3. CASE \E w \in Workers : \E k \in JobKinds : Take(w, k)
  <2>1. PICK w \in Workers, k \in JobKinds : Take(w, k)
    BY <1>3
  <2>2. UNCHANGED <<tx, chain>>
    BY <2>1 DEF Take, cluster
  <2> QED BY <2>1, <2>2, SnapTake DEF ConfirmedSignature
<1>4. CASE NewBlock \/ \E b \in Hashes : Process(b) \/ Finalize(b) \/ Fork(b)
  <2>1. UNCHANGED <<tx, wk>>
    BY <1>4 DEF NewBlock, Process, Finalize, Fork
  <2>2. \A h \in Hashes : chain[h] = "finalized" => chain'[h] = "finalized"
    BY <1>4 DEF NewBlock, Process, Finalize, Fork, Accepted, Types, Rest
  <2>3. tx.sig \in Hashes \cup {None}
    BY DEF Types, RecordOK, Records
  <2> QED BY <2>1, <2>2, <2>3 DEF SnapCurrent, ConfirmedSignature, At, Sendable
<1>5. CASE UNCHANGED vars
  BY <1>5 DEF vars, SnapCurrent, ConfirmedSignature, At, Sendable
<1>6. CASE Next
  BY <1>6, <1>1, <1>2, <1>3, <1>4, NextCases, StatusForm, Forms
<1> QED BY <1>5, <1>6

\* Executed one after the other, the jobs of a transaction report it Confirmed only with the
\* signature that the cluster has finalized, whatever fails, forks or is sent again.
THEOREM ConfirmedOnChain == Serial => (Spec => []ConfirmedSignature)
<1> SUFFICES ASSUME Serial PROVE Spec => []ConfirmedSignature
  OBVIOUS
<1>1. Init => ConfirmedInv
  <2> SUFFICES ASSUME Init PROVE ConfirmedInv
    OBVIOUS
  <2>1. tx.status \in {"Pending", "Failed"} /\ \A w \in Workers : wk[w] = Idle
    BY DEF Init
  <2>2. Idle.pc = "idle"
    BY DEF Idle
  <2> QED BY <2>1, <2>2, InitTypes DEF ConfirmedInv, SnapCurrent, ConfirmedSignature, At, JobKinds
<1>2. ConfirmedInv /\ [Next]_vars => ConfirmedInv'
  BY SerialStep, StepTypes DEF ConfirmedInv
<1>3. ConfirmedInv => ConfirmedSignature
  BY DEF ConfirmedInv
<1> QED BY <1>1, <1>2, <1>3, PTL DEF Spec

-----------------------------------------------------------------------------
(* The attempts that a resubmission follows. *)

\* What a handler stores keeps the newest attempt the stored one.
LEMMA AttemptWrite ==
    ASSUME Serial, Types, AttemptInv, NEW w \in Workers, JobEnd(w)
    PROVE  Attempts(tx') /\ Past(tx'.sig)
<1>0. wk[w].snap = tx /\ tx \in Records /\ RecordOK(tx) /\ Rest /\ ~At(w, "idle")
      /\ tx.sig \in Hashes \cup {None} /\ tx.hashes \subseteq Hashes /\ tip \in Nat
  BY Constants DEF AttemptInv, SnapCurrent, Types, RecordOK, JobEnd, Records, Rest
<1>b. Attempts(tx) /\ Past(tx.sig) /\ Signing(w)
  BY DEF AttemptInv
<1>a. ASSUME NEW r, tx' = Stored(r), Attempts(r), Past(r.sig)
      PROVE  Attempts(tx') /\ Past(tx'.sig)
  <2>1. tx' = tx \/ tx' = r
    BY <1>a DEF Stored
  <2> QED BY <2>1, <1>a, <1>b
<1>1. CASE UNCHANGED tx
  BY <1>1, <1>b
<1>2. CASE \E s \in Statuses \ {"Pending", "Sent", "Submitted"} : SetStatus(s)
  <2>1. PICK s \in Statuses \ {"Pending", "Sent", "Submitted"} :
               tx' = Stored([tx EXCEPT !.status = s])
    BY <1>2 DEF SetStatus
  <2> DEFINE r == [tx EXCEPT !.status = s]
  <2>2. r.status = s /\ r.sig = tx.sig
    BY <1>0 DEF Records
  <2>3. tx' = Stored(r)
    BY <2>1
  <2> HIDE DEF r
  <2>4. Attempts(r) /\ Past(r.sig)
    BY <2>1, <2>2, <1>b DEF Attempts
  <2> QED BY <2>3, <2>4, <1>a
<1>3. CASE /\ At(w, "status")
           /\ \E b \in wk[w].snap.hashes :
                Found(b) /\ tx' = Stored([tx EXCEPT !.status = OnChainStatus(b), !.sig = b])
           /\ tx.status \in {"Sent", "Submitted"}
  <2>1. PICK b \in tx.hashes :
               Found(b) /\ tx' = Stored([tx EXCEPT !.status = OnChainStatus(b), !.sig = b])
    BY <1>3, <1>0
  <2>2. b \in Hashes
    BY <1>0
  <2> DEFINE s == OnChainStatus(b)
             r == [tx EXCEPT !.status = s, !.sig = b]
  <2>3. s \in {"Mined", "Confirmed", "Failed"} /\ tx' = Stored(r)
    BY <2>1, <2>2, <1>0, AnswerOK
  <2> HIDE DEF s
  <2>4. r.status = s /\ r.sig = b
    BY <1>0 DEF Records
  <2> HIDE DEF r
  <2>5. tx.sig \in Nat /\ b \in Nat /\ b <= tx.sig /\ tx.sig <= tip
    BY <2>1, <2>2, <1>0, <1>3, <1>b, Constants DEF RecordOK, Live, Past, Attempts
  <2>6. b <= tip
    BY <2>5, <1>0
  <2>7. Attempts(r) /\ Past(r.sig)
    BY <2>3, <2>4, <2>6 DEF Attempts, Past
  <2> QED BY <2>3, <2>7, <1>a
<1>4. CASE At(w, "prepared") /\ tx' = Stored([tx EXCEPT !.status = "Sent", !.sig = wk[w].sig])
  <2> DEFINE b == wk[w].sig
             r == [tx EXCEPT !.status = "Sent", !.sig = b]
  <2>1. tx' = Stored(r) /\ Past(b)
    BY <1>4, <1>b DEF Signing
  <2>2. tx.status = "Pending"
    BY <1>4 DEF AttemptInv, SnapCurrent
  <2>3. tx.hashes = {}
    BY <2>2, <1>b DEF Attempts
  <2> HIDE DEF b
  <2>4. r.hashes = tx.hashes /\ r.sig = b /\ r.status = "Sent"
    BY <1>0 DEF Records
  <2> HIDE DEF r
  <2>5. Attempts(r)
    BY <2>3, <2>4 DEF Attempts
  <2> QED BY <2>1, <2>4, <2>5, <1>a
<1>5. CASE /\ At(w, "sent") /\ wk[w].kind = "submit"
           /\ tx' = Stored([tx EXCEPT !.status = "Submitted",
                                      !.hashes = Pushed(wk[w].snap, wk[w].sig).hashes,
                                      !.attempts = Pushed(wk[w].snap, wk[w].sig).attempts])
  <2> DEFINE b == wk[w].sig
             p == Pushed(tx, b)
             r == [tx EXCEPT !.status = "Submitted", !.hashes = p.hashes, !.attempts = p.attempts]
  <2>1. tx' = Stored(r) /\ tx.status \in {"Sent", "Submitted"} /\ b = tx.sig
    BY <1>5, <1>0, <1>b DEF AttemptInv, SnapCurrent, Signing, Sendable
  <2>2. b \in Hashes /\ b \in Nat
    BY <1>5, Constants DEF Types, WorkOK, WorkStates, At
  <2>3. p.hashes = tx.hashes \cup {b}
    BY <2>2, <1>0, PushedOK
  <2> HIDE DEF b, p
  <2>4. r.status = "Submitted" /\ r.hashes = tx.hashes \cup {b} /\ r.sig = tx.sig
    BY <2>3, <1>0 DEF Records
  <2> HIDE DEF r
  <2>5. \A h \in tx.hashes \cup {b} : h <= tx.sig
    BY <2>1, <2>2, <1>b DEF Attempts
  <2>6. Attempts(r) /\ Past(r.sig)
    BY <2>4, <2>5, <1>b DEF Attempts
  <2> QED BY <2>1, <2>6, <1>a
<1>6. CASE /\ At(w, "sent") /\ wk[w].kind = "resubmit"
           /\ tx' = Stored([status |-> "Submitted", sig |-> wk[w].sig,
                            hashes |-> Pushed(wk[w].snap, wk[w].sig).hashes,
                            attempts |-> Pushed(wk[w].snap, wk[w].sig).attempts])
  <2> DEFINE b == wk[w].sig
             p == Pushed(tx, b)
             r == [status |-> "Submitted", sig |-> b, hashes |-> p.hashes, attempts |-> p.attempts]
  <2>1. tx' = Stored(r) /\ tx.status \in {"Sent", "Submitted"} /\ tx.sig <= b /\ Past(b)
    BY <1>6, <1>0, <1>b DEF AttemptInv, SnapCurrent, Sendable, Signing
  <2>2. b \in Hashes /\ tx.sig \in Hashes
    BY <1>6, <1>0, <2>1 DEF Types, WorkOK, WorkStates, At, RecordOK, Live
  <2>3. p.hashes = tx.hashes \cup {b}
    BY <2>2, <1>0, PushedOK
  <2> HIDE DEF b, p
  <2>5. r.status = "Submitted" /\ r.hashes = tx.hashes \cup {b} /\ r.sig = b
    BY <2>3
  <2> HIDE DEF r
  <2>6. \A h \in tx.hashes : h \in Nat /\ h <= tx.sig
    BY <2>1, <1>b, <1>0, Constants DEF Attempts
  <2>7. \A h \in tx.hashes \cup {b} : h <= b
    <3>1. b \in Nat /\ tx.sig \in Nat /\ tx.sig <= b
      BY <2>1, <2>2, Constants
    <3> QED BY <3>1, <2>6
  <2>8. Attempts(r) /\ Past(r.sig)
    BY <2>1, <2>5, <2>7 DEF Attempts
  <2> QED BY <2>1, <2>8, <1>a
<1>7. CASE /\ wk[w].snap.status \in Live /\ Found(wk[w].snap.sig)
           /\ SetStatus(OnChainStatus(wk[w].snap.sig))
  <2>1. wk[w].snap.sig \in Hashes
    BY <1>7, <1>0, Working
  <2>2. OnChainStatus(wk[w].snap.sig) \in {"Mined", "Confirmed", "Failed"}
    BY <2>1, <1>0, <1>7, AnswerOK
  <2> QED BY <2>2, <1>2, <1>7 DEF Statuses, Finals
<1>8. CASE \E s \in {"Failed", "Expired"} : SetStatus(s)
  BY <1>8, <1>2 DEF Statuses, Finals
<1> QED BY <1>0, <1>1, <1>3, <1>4, <1>5, <1>6, <1>7, <1>8 DEF JobEnd, JobWrites, StatusWrites

\* A job that ends keeps the invariant.
LEMMA AttemptEnd ==
    ASSUME Serial, Types, AttemptInv, NEW w \in Workers, JobEnd(w)
    PROVE  AttemptInv'
<1>1. SnapCurrent' /\ \A v \in Workers : At(v, "idle")'
  BY LeavesOK, NobodyWorks DEF JobEnd
<1>2. tip' = tip
  BY DEF JobEnd
<1>3. Attempts(tx)' /\ Past(tx.sig)'
  BY <1>2, AttemptWrite DEF Attempts, Past
<1>4. \A v \in Workers : Signing(v)'
  BY <1>1 DEF Signing, At
<1> QED BY <1>1, <1>3, <1>4 DEF AttemptInv

\* So does one that goes on.
LEMMA AttemptGoesOn ==
    ASSUME Serial, Types, AttemptInv, NEW w \in Workers, JobGoesOn(w)
    PROVE  AttemptInv'
<1>1. SnapCurrent'
  BY SnapGoesOn DEF AttemptInv
<1>2. wk[w].snap = tx /\ wk[w].kind = wk[w].pc /\ wk[w].pc \in JobKinds
  BY DEF JobGoesOn, At, JobKinds, AttemptInv, SnapCurrent
<1>3. UNCHANGED <<tx, tip>>
  BY DEF JobGoesOn, GoesOn
<1>4. tip \in Nat /\ Past(tip) /\ Past(tx.sig) /\ (tx.sig # None => tx.sig \in Nat)
  <2>1. tip \in Nat
    BY Constants DEF Types, Rest
  <2>2. tx.sig \in Hashes \cup {None}
    BY DEF Types, RecordOK, Records
  <2>3. Past(tx.sig)
    BY DEF AttemptInv
  <2>4. Past(tip)
    BY <2>1 DEF Past
  <2>5. tx.sig # None => tx.sig \in Nat
    BY <2>2, Constants
  <2> QED BY <2>1, <2>3, <2>4, <2>5
<1>5. Attempts(tx)' /\ Past(tx.sig)'
  BY <1>3 DEF AttemptInv, Attempts, Past
<1>6. \A v \in Workers : Signing(v)'
  <2> SUFFICES ASSUME NEW v \in Workers PROVE Signing(v)'
    OBVIOUS
  <2>1. CASE At(w, "request") /\ \E b \in {tip, wk[w].snap.sig} : GoesOn(w, "prepared", b)
    <3>1. PICK b \in {tip, tx.sig} : GoesOn(w, "prepared", b)
      BY <2>1, <1>2
    <3>2. wk'[v].pc = "prepared" /\ wk'[v].sig = b
      BY <3>1, GoneOn
    <3> QED BY <3>1, <3>2, <1>3, <1>4 DEF Signing, At, Past
  <2>2. CASE At(w, "submit") /\ GoesOn(w, "sent", wk[w].snap.sig)
    <3>1. wk'[v].pc = "sent" /\ wk'[v].sig = tx.sig /\ wk'[v].kind = "submit"
      BY <2>2, <1>2, GoneOn DEF At
    <3> QED BY <3>1, <1>3, <1>4 DEF Signing, At, Past
  <2>3. CASE At(w, "resubmit") /\ Sendable(w) /\ GoesOn(w, "sent", tip)
    <3>1. wk'[v].pc = "sent" /\ wk'[v].sig = tip /\ wk'[v].kind = "resubmit"
      BY <2>3, <1>2, GoneOn DEF At
    <3>2. tx.sig <= tip
      BY <2>3, <1>2, <1>4 DEF Sendable, Types, RecordOK, Live, Past
    <3> QED BY <3>1, <3>2, <1>3, <1>4 DEF Signing, At, Past
  <2>4. CASE GoesOn(w, "searched", wk[w].sig)
    <3>1. wk'[v].pc = "searched"
      BY <2>4, GoneOn
    <3> QED BY <3>1 DEF Signing, At
  <2> QED BY <2>1, <2>2, <2>3, <2>4 DEF JobGoesOn
<1> QED BY <1>1, <1>5, <1>6 DEF AttemptInv

\* And taking one.
LEMMA AttemptTake ==
    ASSUME Serial, Types, AttemptInv, NEW w \in Workers, NEW k \in JobKinds, Take(w, k)
    PROVE  AttemptInv'
<1>1. SnapCurrent' /\ \A v \in Workers : wk'[v].pc = k
  BY SnapTake
<1>2. UNCHANGED <<tx, tip>>
  BY DEF Take, cluster
<1>3. \A v \in Workers : Signing(v)'
  BY <1>1 DEF Signing, At, JobKinds
<1> QED BY <1>1, <1>2, <1>3 DEF AttemptInv, Attempts, Past

\* What is signed for a blockhash of the past stays so.
LEMMA AttemptCluster ==
    ASSUME Types, AttemptInv, NewBlock \/ \E b \in Hashes : Process(b) \/ Finalize(b) \/ Fork(b)
    PROVE  AttemptInv'
<1>1. UNCHANGED <<tx, queue, wk>> /\ tip' \in {tip, tip + 1} /\ tip \in Nat
  BY Constants DEF NewBlock, Process, Finalize, Fork, Types, Rest
<1>2. ASSUME NEW b \in Hashes \cup {None}, Past(b) PROVE b # None => b <= tip'
  BY <1>1, <1>2, Constants DEF Past
<1>3. tx.sig \in Hashes \cup {None} /\ \A w \in Workers : wk[w].sig \in Hashes \cup {None}
  BY DEF Types, RecordOK, Records, WorkStates
<1>4. Past(tx.sig)'
  BY <1>1, <1>2, <1>3 DEF Past, AttemptInv
<1>5. \A w \in Workers : Signing(w)'
  <2> SUFFICES ASSUME NEW w \in Workers PROVE Signing(w)'
    OBVIOUS
  <2>1. Signing(w)
    BY DEF AttemptInv
  <2>2. Past(wk[w].sig) => Past(wk[w].sig)'
    BY <1>1, <1>2, <1>3 DEF Past
  <2> QED BY <2>1, <2>2, <1>1 DEF Signing, At
<1>6. SnapCurrent' /\ Attempts(tx)'
  BY <1>1 DEF AttemptInv, SnapCurrent, At, Sendable, Attempts
<1> QED BY <1>4, <1>5, <1>6 DEF AttemptInv

\* Every step keeps the invariant of the attempts.
LEMMA AttemptStep ==
    ASSUME Serial, Types, AttemptInv, [Next]_vars
    PROVE  AttemptInv'
<1>1. CASE UNCHANGED vars
  BY <1>1 DEF vars, AttemptInv, SnapCurrent, Attempts, Signing, Past, At, Sendable
<1>2. CASE Next
  BY <1>2, NextCases, StatusForm, Forms, AttemptEnd, AttemptGoesOn, AttemptTake, AttemptCluster
<1> QED BY <1>1, <1>2

\* The one step of a status check that queues a resubmission.
LEMMA ResubmissionStep ==
    ASSUME Serial, Types, SnapCurrent, [Next]_vars, QueuesResubmission
    PROVE  tx.status \in {"Sent", "Submitted"} /\ ~is_blockhash_valid(tx.sig)
<1>1. PICK w \in Workers : At(w, "searched")
  BY DEF QueuesResubmission
<1>2. /\ \A v \in Workers : v = w
      /\ wk[w].snap = tx /\ wk[w].kind = "status" /\ tx.status \in {"Sent", "Submitted"}
  BY <1>1 DEF Serial, SnapCurrent, At
<1>3. queue \in Queues /\ DOMAIN queue = JobKinds /\ queue["resubmit"] \in Nat
      /\ queue'["resubmit"] > queue["resubmit"]
  BY DEF Types, Rest, Queues, QueuesResubmission, JobKinds
<1>4. queue' # queue
  BY <1>3
<1>5. JobEnd(w)
  <2>1. Next
    BY <1>4 DEF vars
  <2>2. \A v \in Workers : \A k \in JobKinds : ~Take(v, k)
    BY <1>1, <1>2 DEF Take, At
  <2>3. \A v \in Workers : ~JobGoesOn(v)
    BY <1>1, <1>2 DEF JobGoesOn, At
  <2>4. ~(NewBlock \/ \E b \in Hashes : Process(b) \/ Finalize(b) \/ Fork(b))
    BY <1>4 DEF NewBlock, Process, Finalize, Fork
  <2> QED BY <2>1, <2>2, <2>3, <2>4, <1>2, NextCases, StatusForm, Forms
<1>6. \A k \in JobKinds \ {"resubmit"} : Queued(k)["resubmit"] = queue["resubmit"]
  BY <1>3 DEF Queued, JobKinds
<1>7. ASSUME NEW q \in Queues, q["resubmit"] = queue["resubmit"], StatusDone(w, q)
      PROVE  FALSE
  <2>1. queue' = q \/ queue' = [q EXCEPT !["status"] = 1]
    BY <1>7 DEF StatusDone, End
  <2>2. queue'["resubmit"] = q["resubmit"]
    BY <2>1 DEF Queues, JobKinds
  <2> QED BY <2>2, <1>3, <1>7
<1>8. ~Done(w) /\ ~Retry(w) /\ ~End(w, Queued("submit"))
  BY <1>2, <1>3, <1>6 DEF Done, Retry, End, JobKinds
<1>9. ~StatusDone(w, queue) /\ ~StatusDone(w, Queued("request"))
  <2>1. Queued("request") \in Queues /\ Queued("request")["resubmit"] = queue["resubmit"]
    BY <1>3, <1>6, QueuedOK DEF JobKinds
  <2> QED BY <2>1, <1>3, <1>7
<1> QED BY <1>2, <1>5, <1>8, <1>9 DEF JobEnd, JobLeaves

\* Executed one after the other, the jobs of a transaction are resubmitted only when none
\* of its recorded attempts can be processed any more: the check of the stored blockhash
\* covers all of them, whatever fails, crashes or is queued twice.
THEOREM ResubmissionFollowsExpiry == Serial => (Spec => ResubmitsExpired)
<1> SUFFICES ASSUME Serial PROVE Spec => ResubmitsExpired
  OBVIOUS
<1>1. Init => Types /\ AttemptInv
  <2> SUFFICES ASSUME Init PROVE AttemptInv
    BY InitTypes
  <2>1. tx.status \in {"Pending", "Failed"} /\ tx.hashes = {} /\ tip = 1
        /\ tx.sig \in {None, 1} /\ \A w \in Workers : wk[w] = Idle
    BY DEF Init
  <2>2. Idle.pc = "idle"
    BY DEF Idle
  <2>3. SnapCurrent
    BY <2>1, <2>2 DEF SnapCurrent, At, JobKinds
  <2>4. Attempts(tx) /\ Past(tx.sig)
    BY <2>1 DEF Attempts, Past
  <2>5. \A w \in Workers : Signing(w)
    BY <2>1, <2>2 DEF Signing, At
  <2> QED BY <2>3, <2>4, <2>5 DEF AttemptInv
<1>2. Types /\ AttemptInv /\ [Next]_vars => (Types /\ AttemptInv)'
  BY StepTypes, AttemptStep
<1>3. Types /\ AttemptInv /\ [Next]_vars =>
        [QueuesResubmission =>
           \A b \in tx.hashes \cup {tx.sig} : ~is_blockhash_valid(b)]_vars
  <2> SUFFICES ASSUME Types, AttemptInv, [Next]_vars, QueuesResubmission,
                      NEW b \in tx.hashes \cup {tx.sig}
               PROVE  ~is_blockhash_valid(b)
    OBVIOUS
  <2>1. tx.status \in {"Sent", "Submitted"} /\ ~is_blockhash_valid(tx.sig)
    BY ResubmissionStep DEF AttemptInv
  <2>2. tx.sig \in Nat /\ b \in Nat /\ tip \in Nat /\ Window \in Nat
    BY <2>1, Constants DEF Types, Rest, RecordOK, Records, Live
  <2>3. b <= tx.sig
    BY <2>1, <2>2 DEF AttemptInv, Attempts
  <2> QED BY <2>1, <2>2, <2>3 DEF is_blockhash_valid
<1> QED BY <1>1, <1>2, <1>3, PTL DEF Spec, ResubmitsExpired
=============================================================================
