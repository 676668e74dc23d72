------------------------ MODULE EvmTransactionProofs ------------------------
(***************************************************************************)
(* Proofs about EvmTransaction, for any number of transactions, workers,   *)
(* nonces and prices, and for every set of faults unless a theorem says    *)
(* otherwise.                                                              *)
(***************************************************************************)
EXTENDS EvmTransaction, SequenceTheorems, TLAPS

\* The hashes of sequence q are all t's.
AllOf(t, q) == \A i \in DOMAIN q : q[i].tx = t

\* The hashes that a record of transaction t carries are t's.
Own(t, r) ==
    /\ r.data.raw # None => r.data.raw.tx = t
    /\ r.data.hash # None => r.data.hash.tx = t
    /\ AllOf(t, r.hashes)

\* What the handlers rely on when they go on after another process may have acted: whose
\* job it is, and that a nonce was stored before anything is signed.
Handles(k) ==
    /\ k.pc # "idle" => k.tx \in Txs
    /\ k.pc \in {"request", "presign", "sign"} => k.kind = "request"
    /\ k.pc \in {"status", "nonce", "check", "act"} => k.kind \in {"status", "recover"}
    /\ k.kind = "status" => k.pc \in {"status", "check", "act", "nonce"}
    /\ k.pc = "presign" => k.nonce # None
    /\ k.pc = "sign" => k.snap.data.nonce # None
    /\ k.pc = "resent" => k.sig # None
    /\ k.tx \in Txs => Own(k.tx, k.snap)
    /\ k.sig # None => k.sig.tx = k.tx

\* What is mined was broadcast, and has its place by its nonce.
ChainFromMempool ==
    \A i \in DOMAIN chain :
        chain[i].hash # Other => chain[i].hash \in mempool /\ chain[i].hash.nonce = i - 1

Types ==
    /\ TypeOK
    /\ \A t \in Txs : Own(t, txs[t])
    /\ \A w \in Workers : Handles(wk[w])
    /\ ChainFromMempool
-----------------------------------------------------------------------------
(* One nonce per transaction.                                              *)

\* The hashes of sequence q are all for nonce n.
AllFor(n, q) == \A i \in DOMAIN q : q[i].nonce = n

\* Record r of a transaction whose stored nonce is n: it has that nonce or, if it was read
\* earlier, none, and what was signed is for that nonce.
Pinned(r, n) ==
    /\ r.data.nonce # None => r.data.nonce = n
    /\ r.data.raw # None => r.data.raw.nonce = n
    /\ r.data.hash # None => r.data.hash.nonce = n
    /\ AllFor(n, r.hashes)
    /\ r.status \in {"Sent", "Submitted"} \/ r.hashes # <<>> => r.data.nonce # None

\* The same for a handler.  A preparation that read no nonce is the one to store it.
PinnedWorker(k, n) ==
    /\ Pinned(k.snap, n)
    /\ k.sig # None => k.sig.nonce = n
    /\ k.pc = "request" /\ k.snap.data.nonce = None => n = None
    /\ k.pc = "presign" => n = None
    /\ k.pc = "cancel" => k.snap.status \in {"Pending", "Sent", "Submitted"}
    /\ k.pc = "submitted" => k.snap.data.raw # None
    /\ k.pc = "act" /\ k.seen \in {"Sent", "Submitted"} => n # None
    /\ k.pc \in {"kept", "resent"} => k.snap.data.nonce # None

\* A transaction is prepared by one handler at a time.
OneRequest ==
    \A v, w \in Workers : wk[v].kind = "request" /\ wk[w].kind = "request"
                          /\ wk[v].tx = wk[w].tx => v = w

NonceInv ==
    /\ \A t \in Txs : Pinned(txs[t], txs[t].data.nonce)
    /\ \A w \in Workers : wk[w].tx \in Txs => PinnedWorker(wk[w], txs[wk[w].tx].data.nonce)
    /\ \A h \in mempool : h.nonce = txs[h.tx].data.nonce
    /\ OneRequest
-----------------------------------------------------------------------------
(* Final statuses and reports.                                             *)

\* A handler that has seen a final status works on a record that is final.
FinalSeen ==
    \A w \in Workers : wk[w].tx \in Txs /\ is_final_state(wk[w].snap.status)
                       => is_final_state(txs[wk[w].tx].status)

\* Chain c bears status s of transaction t out.
Evidence(c, t, s) ==
    /\ s \in {"Mined", "Confirmed"} => \E i \in DOMAIN c : c[i].hash # Other /\ c[i].hash.tx = t
    /\ s = "Confirmed" =>
          \E i \in DOMAIN c : c[i].hash # Other /\ c[i].hash.tx = t /\ c[i].ok /\ c[i].conf

EvidenceInv ==
    /\ \A t \in Txs : Evidence(chain, t, txs[t].status)
    /\ \A w \in Workers : wk[w].tx \in Txs => /\ Evidence(chain, wk[w].tx, wk[w].snap.status)
                                              /\ Evidence(chain, wk[w].tx, wk[w].seen)
-----------------------------------------------------------------------------
(* Types.                                                                  *)

\* The bounds, and what the constants are not.
LEMMA ConstantFacts ==
    /\ MaxNonce \in Nat /\ GasPriceCap \in Nat /\ MaxPrice \in Nat
    /\ 1 <= GasPriceCap /\ GasPriceCap <= MaxPrice /\ 1 \in Prices
    /\ None \notin Nonces
    /\ \A h \in Hashes : h # Other /\ h # None /\ h.nonce \in Nonces /\ h.tx \in Txs
    /\ ApiOps \subseteq {"cancel", "replace"}
<1>1. /\ MaxNonce \in Nat /\ GasPriceCap \in Nat /\ MaxPrice \in Nat
      /\ 1 <= GasPriceCap /\ GasPriceCap <= MaxPrice /\ 1 \in Prices
      /\ None \notin Nonces
  BY BoundsAssumption DEF Nonces, Prices
<1>2. \A h \in Hashes : h # Other /\ h # None /\ h.nonce \in Nonces /\ h.tx \in Txs
  BY HashAssumption DEF Hashes
<1> QED
  BY <1>1, <1>2, BoundsAssumption

\* A record from its parts.
LEMMA RecordType ==
    ASSUME NEW r \in Transactions
    PROVE  /\ r.status \in Statuses \cup {"Absent"} /\ r.data \in Data
           /\ r.hashes \in Seq(Hashes) /\ r.canceled \in BOOLEAN /\ r.sentAt \in BOOLEAN
           /\ \A s \in Statuses \cup {"Absent"} : [r EXCEPT !.status = s] \in Transactions
           /\ \A d \in Data : [r EXCEPT !.data = d] \in Transactions
           /\ \A s \in Statuses, d \in Data : [r EXCEPT !.status = s, !.data = d] \in Transactions
           /\ \A s \in Statuses, d \in Data, q \in Seq(Hashes) :
                [r EXCEPT !.status = s, !.data = d, !.hashes = q] \in Transactions
BY DEF Transactions

\* The data of a transaction, and what signing it gives.
LEMMA DataType ==
    ASSUME NEW d \in Data
    PROVE  /\ d.nonce \in Nonces \cup {None} /\ d.kind \in Contents
           /\ d.price \in Prices \cup {0}
           /\ d.raw \in Hashes \cup {None} /\ d.hash \in Hashes \cup {None}
           /\ make_noop(d) \in Data /\ Bumped(d) \in Data
           /\ \A h \in Hashes : /\ with_signed_transaction_data(d, h) \in Data
                                /\ [d EXCEPT !.hash = h] \in Data
           /\ \A n \in Nonces : [d EXCEPT !.nonce = n, !.price = 1] \in Data
           /\ [d EXCEPT !.price = 1] \in Data
           /\ [Bumped(d) EXCEPT !.kind = "repl"] \in Data
<1>1. /\ d.nonce \in Nonces \cup {None} /\ d.kind \in Contents
      /\ d.price \in Prices \cup {0}
      /\ d.raw \in Hashes \cup {None} /\ d.hash \in Hashes \cup {None}
  BY DEF Data
<1>2. make_noop(d) \in Data
  BY DEF Data, make_noop, Contents
<1>3. \A p \in Prices : [d EXCEPT !.price = p] \in Data
  BY DEF Data
<1>4. (IF d.price < MaxPrice THEN d.price + 1 ELSE MaxPrice) \in Prices
  BY <1>1, ConstantFacts DEF Prices
<1>5. Bumped(d) \in Data
  BY <1>3, <1>4 DEF Bumped
<1>6. \A h \in Hashes : /\ with_signed_transaction_data(d, h) \in Data
                        /\ [d EXCEPT !.hash = h] \in Data
  BY DEF Data, with_signed_transaction_data
<1>7. 1 \in Prices
  BY ConstantFacts
<1>8. \A n \in Nonces : [d EXCEPT !.nonce = n, !.price = 1] \in Data
  BY <1>7 DEF Data
<1>9. \A e \in Data : [e EXCEPT !.kind = "repl"] \in Data
  BY DEF Data, Contents
<1> QED
  BY <1>1, <1>2, <1>3, <1>5, <1>6, <1>7, <1>8, <1>9

\* A signature is of the transaction and for the nonce that it was made for.
LEMMA SignType ==
    ASSUME NEW t \in Txs, NEW d \in Data, d.nonce # None, d.price # 0
    PROVE  Sign(t, d) \in Hashes /\ Sign(t, d).tx = t /\ Sign(t, d).nonce = d.nonce
BY DEF Sign, Data, Hashes

\* What the operations on data change.
LEMMA DataFields ==
    ASSUME NEW d \in Data
    PROVE  /\ make_noop(d).nonce = d.nonce /\ make_noop(d).raw = d.raw
           /\ make_noop(d).hash = d.hash
           /\ Bumped(d).nonce = d.nonce /\ Bumped(d).raw = d.raw /\ Bumped(d).hash = d.hash
           /\ Bumped(d).kind = d.kind /\ Bumped(d).price # 0
           /\ \A h : /\ with_signed_transaction_data(d, h).nonce = d.nonce
                     /\ with_signed_transaction_data(d, h).raw = h
                     /\ with_signed_transaction_data(d, h).hash = h
<1>0. d.price \in Prices \cup {0}
  BY DataType
<1>1. (IF d.price < MaxPrice THEN d.price + 1 ELSE MaxPrice) # 0
  BY <1>0, ConstantFacts DEF Prices
<1>2. \A p : [d EXCEPT !.price = p].price = p
  BY DEF Data
<1>3. Bumped(d).price # 0
  <2> DEFINE p == IF d.price < MaxPrice THEN d.price + 1 ELSE MaxPrice
  <2>1. Bumped(d) = [d EXCEPT !.price = p]
    BY DEF Bumped
  <2>2. p # 0
    BY <1>1
  <2> HIDE DEF p
  <2> QED
    BY <2>1, <2>2, <1>2
<1>4. \A p : LET e == [d EXCEPT !.price = p]
             IN  e.nonce = d.nonce /\ e.raw = d.raw /\ e.hash = d.hash /\ e.kind = d.kind
  BY DEF Data
<1>5. Bumped(d).nonce = d.nonce /\ Bumped(d).raw = d.raw /\ Bumped(d).hash = d.hash
      /\ Bumped(d).kind = d.kind
  BY <1>4 DEF Bumped
<1>6. make_noop(d).nonce = d.nonce /\ make_noop(d).raw = d.raw /\ make_noop(d).hash = d.hash
  BY DEF Data, make_noop
<1>7. \A h : /\ with_signed_transaction_data(d, h).nonce = d.nonce
             /\ with_signed_transaction_data(d, h).raw = h
             /\ with_signed_transaction_data(d, h).hash = h
  BY DEF Data, with_signed_transaction_data
<1> QED
  BY <1>3, <1>5, <1>6, <1>7

\* An idle worker.
LEMMA IdleType ==
    /\ NoTx \in Transactions /\ Idle \in WorkerStates /\ Handles(Idle)
    /\ Idle.pc = "idle" /\ Idle.kind = "none" /\ Idle.tx = None /\ Idle.sig = None
    /\ Idle.snap = NoTx /\ Idle.seen = "Absent"
<1>1. NoTx \in Transactions
  BY DEF NoTx, Transactions, Statuses, Data, Contents
<1>2. Idle \in WorkerStates
  BY <1>1 DEF Idle, WorkerStates, PCs
<1>3. \A t : Own(t, NoTx)
  BY DEF Own, AllOf, NoTx
<1> QED
  BY <1>1, <1>2, <1>3 DEF Idle, Handles

\* A worker that takes up transaction t, with record r, at p.
Taken(p, kind, t, r) == [Idle EXCEPT !.pc = p, !.kind = kind, !.tx = t, !.snap = r]

\* Such a worker has its type.
LEMMA TakenType ==
    ASSUME NEW p \in PCs, NEW kind \in JobKinds \cup ApiOps, NEW t \in Txs,
           NEW r \in Transactions
    PROVE  LET k == Taken(p, kind, t, r)
           IN  /\ k \in WorkerStates
               /\ k.pc = p /\ k.kind = kind /\ k.tx = t /\ k.snap = r /\ k.sig = None
               /\ k.nonce = None /\ k.seen = "Absent"
BY IdleType DEF Idle, WorkerStates, Statuses, Taken

\* The fields of a worker.
LEMMA WorkerType ==
    ASSUME Types, NEW w \in Workers
    PROVE  /\ wk[w] \in WorkerStates /\ Handles(wk[w])
           /\ wk[w].pc \in PCs /\ wk[w].snap \in Transactions
           /\ wk[w].kind \in JobKinds \cup ApiOps \cup {"none"}
           /\ wk[w].nonce \in Nonces \cup {None} /\ wk[w].sig \in Hashes \cup {None}
           /\ wk[w].seen \in Statuses \cup {"Absent"}
           /\ wk[w].snap.data \in Data /\ wk[w].snap.hashes \in Seq(Hashes)
           /\ wk[w].snap.status \in Statuses \cup {"Absent"}
           /\ ~At(w, "idle") => wk[w].tx \in Txs /\ txs[wk[w].tx] \in Transactions
<1>1. wk[w] \in WorkerStates /\ Handles(wk[w]) /\ txs \in [Txs -> Transactions]
  BY DEF Types, TypeOK
<1>2. /\ wk[w].pc \in PCs /\ wk[w].snap \in Transactions
      /\ wk[w].kind \in JobKinds \cup ApiOps \cup {"none"}
      /\ wk[w].nonce \in Nonces \cup {None} /\ wk[w].sig \in Hashes \cup {None}
      /\ wk[w].seen \in Statuses \cup {"Absent"}
  BY <1>1 DEF WorkerStates
<1>3. ~At(w, "idle") => wk[w].tx \in Txs /\ txs[wk[w].tx] \in Transactions
  BY <1>1 DEF Handles, At
<1> QED
  BY <1>1, <1>2, <1>3, RecordType

\* A worker that goes on to p.
LEMMA MovedType ==
    ASSUME Types, NEW w \in Workers, NEW p \in PCs
    PROVE  LET k == [wk[w] EXCEPT !.pc = p]
           IN  /\ k \in WorkerStates
               /\ k.pc = p /\ k.kind = wk[w].kind /\ k.tx = wk[w].tx /\ k.snap = wk[w].snap
               /\ k.sig = wk[w].sig /\ k.nonce = wk[w].nonce /\ k.seen = wk[w].seen
<1>1. wk[w] \in WorkerStates
  BY DEF Types, TypeOK
<1> QED
  BY <1>1 DEF WorkerStates

\* Queued jobs are of the transactions there are.
LEMMA JobTypes ==
    /\ \A t \in Txs : {StatusJob(t), RequestJob(t), SubmitJob(t), ResubmitJob(t), RecoverJob(t)}
                      \subseteq Jobs
    /\ \A w \in Workers : wk[w].kind \in JobKinds /\ wk[w].tx \in Txs => Job(w) \in Jobs
    /\ \A j, q : q \in Enqueued(j) => q = jobs \cup {j} \/ q = jobs
BY DEF StatusJob, RequestJob, SubmitJob, ResubmitJob, RecoverJob, Job, Jobs, JobKinds, Enqueued

\* A step that leaves a record and a worker as they should be.
LEMMA TypesLift ==
    ASSUME Types, NEW w \in Workers, NEW t \in Txs, NEW r \in Transactions,
           NEW k \in WorkerStates, Own(t, r), Handles(k),
           txs' = [txs EXCEPT ![t] = r], wk' = [wk EXCEPT ![w] = k],
           jobs' \subseteq Jobs, counter' \in Nat,
           mempool' = mempool \/ \E h \in Hashes : mempool' = mempool \cup {h},
           UNCHANGED chain, health' \in BOOLEAN, api' \subseteq ApiOps
    PROVE  Types'
<1>1. TypeOK'
  BY DEF Types, TypeOK
<1>2. \A u \in Txs : Own(u, txs[u])'
  <2> SUFFICES ASSUME NEW u \in Txs
               PROVE  Own(u, txs'[u])
    BY DEF Own
  <2>1. txs'[u] = IF u = t THEN r ELSE txs[u]
    BY DEF Types, TypeOK
  <2> QED
    BY <2>1 DEF Types
<1>3. \A v \in Workers : Handles(wk[v])'
  <2> SUFFICES ASSUME NEW v \in Workers
               PROVE  Handles(wk'[v])
    BY DEF Handles, Own
  <2>1. wk'[v] = IF v = w THEN k ELSE wk[v]
    BY DEF Types, TypeOK
  <2> QED
    BY <2>1 DEF Types
<1>4. ChainFromMempool'
  BY DEF Types, ChainFromMempool
<1> QED
  BY <1>1, <1>2, <1>3, <1>4 DEF Types

\* A step of a worker that writes no record.
LEMMA TypesMove ==
    ASSUME Types, NEW w \in Workers, NEW k \in WorkerStates, Handles(k),
           UNCHANGED txs, wk' = [wk EXCEPT ![w] = k],
           jobs' \subseteq Jobs, counter' \in Nat,
           mempool' = mempool \/ \E h \in Hashes : mempool' = mempool \cup {h},
           UNCHANGED chain, health' \in BOOLEAN, api' \subseteq ApiOps
    PROVE  Types'
<1>1. TypeOK'
  BY DEF Types, TypeOK
<1>2. \A u \in Txs : Own(u, txs[u])'
  BY DEF Types, Own
<1>3. \A v \in Workers : Handles(wk[v])'
  <2> SUFFICES ASSUME NEW v \in Workers
               PROVE  Handles(wk'[v])
    BY DEF Handles, Own
  <2>1. wk'[v] = IF v = w THEN k ELSE wk[v]
    BY DEF Types, TypeOK
  <2> QED
    BY <2>1 DEF Types
<1>4. ChainFromMempool'
  BY DEF Types, ChainFromMempool
<1> QED
  BY <1>1, <1>2, <1>3, <1>4 DEF Types

\* A patch of the status alone.
LEMMA StatusWritten ==
    ASSUME NEW t \in Txs, NEW cur \in Transactions, Own(t, cur),
           NEW s \in Statuses \cup {"Absent"}
    PROVE  LET r == WithStatus(cur, [cur EXCEPT !.status = s])
           IN  /\ r \in Transactions /\ Own(t, r)
               /\ r.data = cur.data /\ r.hashes = cur.hashes
               /\ r.status = IF FinalGuard /\ is_final_state(cur.status) THEN cur.status ELSE s
<1> DEFINE new == [cur EXCEPT !.status = s]
<1>1. /\ new \in Transactions /\ new.data = cur.data /\ new.hashes = cur.hashes
      /\ new.status = s
  BY DEF Transactions
<1>2. Own(t, new)
  BY <1>1 DEF Own
<1> HIDE DEF new
<1> QED
  BY <1>1, <1>2 DEF WithStatus, new

\* Record r of t is cur with the data of s turned into a NOOP.
NoopOf(t, cur, s, r) ==
    /\ r \in Transactions /\ Own(t, r)
    /\ r.data = make_noop(s.data) /\ r.hashes = cur.hashes /\ r.status = cur.status

\* A record turned into a NOOP.
LEMMA NoopWritten ==
    ASSUME NEW t \in Txs, NEW cur \in Transactions, NEW s \in Transactions,
           Own(t, cur), Own(t, s), NEW c \in BOOLEAN
    PROVE  NoopOf(t, cur, s, NoopUpdate(cur, s, c))
<1> DEFINE b == c \/ s.canceled
           d == make_noop(s.data)
<1>1. b \in BOOLEAN
  OBVIOUS
<1>2. d \in Data /\ d.raw = s.data.raw /\ d.hash = s.data.hash
  BY RecordType, DataType, DataFields
<1>3. NoopUpdate(cur, s, c) = [cur EXCEPT !.data = d, !.canceled = b]
  BY DEF NoopUpdate
<1> HIDE DEF b, d
<1>4. LET r == [cur EXCEPT !.data = d, !.canceled = b]
      IN  /\ r \in Transactions /\ r.data = d /\ r.hashes = cur.hashes /\ r.status = cur.status
  BY <1>1, <1>2 DEF Transactions
<1>5. Own(t, [cur EXCEPT !.data = d, !.canceled = b])
  BY <1>2, <1>4 DEF Own
<1> QED
  BY <1>3, <1>4, <1>5 DEF d, NoopOf

\* Record r of t is cur, mined under the hash h of s, unless cur was final.
CorrectedOf(t, cur, s, h, r) ==
    /\ r \in Transactions /\ Own(t, r)
    /\ FinalGuard /\ is_final_state(cur.status) => r = cur
    /\ ~(FinalGuard /\ is_final_state(cur.status)) =>
          r.status = "Mined" /\ r.hashes = cur.hashes /\ r.data = [s.data EXCEPT !.hash = h]

\* A record whose hash was corrected to h.
LEMMA CorrectedWritten ==
    ASSUME NEW t \in Txs, NEW cur \in Transactions, NEW s \in Transactions,
           Own(t, cur), Own(t, s), NEW h \in Hashes, h.tx = t
    PROVE  CorrectedOf(t, cur, s, h, Corrected(cur, s, h))
<1> DEFINE d == [s.data EXCEPT !.hash = h]
           new == [cur EXCEPT !.status = "Mined", !.data = d]
<1>0. s.data \in Data
  BY RecordType
<1>1. d \in Data
  BY <1>0, DataType
<1>2. d.raw = s.data.raw /\ d.hash = h
  BY <1>0 DEF Data
<1>3. Corrected(cur, s, h) = WithStatus(cur, new)
  BY DEF Corrected
<1> HIDE DEF d
<1>4. /\ new \in Transactions /\ new.data = d /\ new.hashes = cur.hashes
      /\ new.status = "Mined"
  BY <1>1 DEF Transactions, Statuses
<1> HIDE DEF new
<1>5. Own(t, new)
  BY <1>2, <1>4 DEF Own
<1> QED
  BY <1>3, <1>4, <1>5 DEF WithStatus, d, CorrectedOf

\* A record with status s after h, signed from data e, was added to the hashes q.
Signed(cur, s, e, q, h) ==
    [cur EXCEPT !.status = s, !.data = with_signed_transaction_data(e, h),
                !.hashes = Append(q, h)]

\* Record r of t is that one.
SignedOf(t, s, e, q, h, r) ==
    /\ r \in Transactions /\ Own(t, r)
    /\ r.data = with_signed_transaction_data(e, h)
    /\ r.hashes = Append(q, h) /\ r.status = s

\* Such a record has its type.
LEMMA SignedWritten ==
    ASSUME NEW t \in Txs, NEW cur \in Transactions, Own(t, cur), NEW s \in {"Sent", "Submitted"},
           NEW e \in Data, NEW q \in Seq(Hashes), AllOf(t, q), NEW h \in Hashes, h.tx = t
    PROVE  SignedOf(t, s, e, q, h, Signed(cur, s, e, q, h))
<1> DEFINE d == with_signed_transaction_data(e, h)
           p == Append(q, h)
           r == [cur EXCEPT !.status = s, !.data = d, !.hashes = p]
<1>1. d \in Data /\ d.raw = h /\ d.hash = h
  BY DataType, DataFields
<1>2. p \in Seq(Hashes) /\ AllOf(t, p)
  BY DEF AllOf
<1>3. r = Signed(cur, s, e, q, h)
  BY DEF Signed
<1> HIDE DEF d, p
<1>4. r \in Transactions /\ r.data = d /\ r.hashes = p /\ r.status = s
  BY <1>1, <1>2 DEF Transactions, Statuses
<1> HIDE DEF r
<1>5. Own(t, r)
  BY <1>1, <1>2, <1>4 DEF Own
<1> QED
  BY <1>3, <1>4, <1>5 DEF d, p, SignedOf

\* A handler that ends without writing.
LEMMA TypesIdle ==
    ASSUME Types, NEW w \in Workers, Done(w), UNCHANGED <<txs, chain>>,
           jobs' \subseteq Jobs, counter' \in Nat, health' \in BOOLEAN, api' \subseteq ApiOps,
           mempool' = mempool \/ \E h \in Hashes : mempool' = mempool \cup {h}
    PROVE  Types'
BY TypesMove, IdleType DEF Done

\* A handler that ends with record r of its transaction.
LEMMA TypesWrite ==
    ASSUME Types, NEW w \in Workers, Done(w), ~At(w, "idle"),
           NEW r \in Transactions, Own(wk[w].tx, r), txs' = [txs EXCEPT ![wk[w].tx] = r],
           UNCHANGED <<chain, counter, api, mempool>>,
           jobs' \subseteq Jobs, health' \in BOOLEAN
    PROVE  Types'
<1>1. wk[w].tx \in Txs
  BY WorkerType
<1>2. counter' \in Nat /\ api' \subseteq ApiOps
  BY DEF Types, TypeOK
<1> QED
  BY <1>1, <1>2, TypesLift, IdleType DEF Done

\* The variables that a step leaves alone keep their types.
LEMMA TypesRest ==
    ASSUME Types
    PROVE  /\ jobs \subseteq Jobs /\ counter \in Nat /\ health \in BOOLEAN /\ api \subseteq ApiOps
           /\ TRUE \in BOOLEAN
           /\ \A t \in Txs : txs[t] \in Transactions /\ Own(t, txs[t])
           /\ \A w \in Workers :
                ~At(w, "idle") => Own(wk[w].tx, wk[w].snap) /\ Own(wk[w].tx, txs[wk[w].tx])
BY DEF Types, TypeOK, Handles, At

\* Creation.
LEMMA TypesCreate ==
    ASSUME Types, NEW t \in Txs, CreateTransaction(t)
    PROVE  Types'
<1>1. PICK s \in {"Pending", "Failed"} : txs' = [txs EXCEPT ![t].status = s]
  BY DEF CreateTransaction
<1> DEFINE r == [txs[t] EXCEPT !.status = s]
<1>2. txs' = [txs EXCEPT ![t] = r]
  BY <1>1
<1>3. r \in Transactions /\ r.data = txs[t].data /\ r.hashes = txs[t].hashes
  <2>1. txs[t] \in Transactions
    BY TypesRest
  <2> QED
    BY <2>1 DEF Transactions, Statuses, Finals
<1> HIDE DEF r
<1>4. Own(t, r)
  BY <1>3, TypesRest DEF Own
<1>5. jobs' \subseteq Jobs
  BY TypesRest, JobTypes DEF CreateTransaction
<1>6. TypeOK'
  BY <1>2, <1>3, <1>5 DEF Types, TypeOK, CreateTransaction
<1>7. \A u \in Txs : Own(u, txs[u])'
  <2> SUFFICES ASSUME NEW u \in Txs
               PROVE  Own(u, txs'[u])
    BY DEF Own
  <2>1. txs'[u] = IF u = t THEN r ELSE txs[u]
    BY <1>2 DEF Types, TypeOK
  <2> QED
    BY <2>1, <1>4 DEF Types
<1>8. UNCHANGED <<wk, chain, mempool>>
  BY DEF CreateTransaction
<1> QED
  BY <1>6, <1>7, <1>8 DEF Types, ChainFromMempool, Handles, Own

\* Taking a job or an API call, and the loss of a process.
LEMMA TypesTake ==
    ASSUME Types, NEW w \in Workers,
           \/ \E j \in jobs : Take(w, j)
           \/ \E op \in ApiOps, t \in Txs : StartApi(w, op, t)
           \/ Crash(w)
    PROVE  Types'
<1>1. ASSUME NEW j \in jobs, Take(w, j)
      PROVE  Types'
  <2> DEFINE p == EntryPoint(j.kind)
  <2> DEFINE k == Taken(p, j.kind, j.tx, txs[j.tx])
  <2>1. j.kind \in JobKinds /\ j.tx \in Txs
    BY TypesRest DEF Jobs
  <2>2. /\ p \in PCs /\ p \notin {"presign", "sign", "resent", "idle"}
        /\ p = "request" => j.kind = "request"
        /\ p \in {"status", "nonce", "check", "act"} => j.kind \in {"status", "recover"}
        /\ j.kind = "status" => p = "status"
    BY <2>1 DEF EntryPoint, PCs, JobKinds
  <2>3. wk' = [wk EXCEPT ![w] = k]
    BY <1>1 DEF Take, Taken
  <2>4. /\ k \in WorkerStates
        /\ k.pc = p /\ k.kind = j.kind /\ k.tx = j.tx /\ k.snap = txs[j.tx] /\ k.sig = None
    BY <2>1, <2>2, TypesRest, TakenType
  <2>5. jobs' \subseteq Jobs
    BY <1>1, TypesRest DEF Take
  <2> HIDE DEF p, k
  <2>6. Own(j.tx, txs[j.tx])
    BY <2>1, TypesRest
  <2>7. Handles(k)
    BY <2>1, <2>2, <2>4, <2>6 DEF Handles
  <2> QED
    BY <1>1, <2>3, <2>4, <2>5, <2>7, TypesRest, TypesMove DEF Take
<1>2. ASSUME NEW op \in ApiOps, NEW t \in Txs, StartApi(w, op, t)
      PROVE  Types'
  <2> DEFINE k == Taken(op, op, t, txs[t])
  <2>1. op \in PCs /\ op \in {"cancel", "replace"}
    BY ConstantFacts DEF PCs
  <2>2. wk' = [wk EXCEPT ![w] = k]
    BY <1>2 DEF StartApi, Taken
  <2>3. /\ k \in WorkerStates
        /\ k.pc = op /\ k.kind = op /\ k.tx = t /\ k.snap = txs[t] /\ k.sig = None
    BY <2>1, TypesRest, TakenType
  <2>4. api' \subseteq ApiOps
    BY <1>2, TypesRest DEF StartApi
  <2> HIDE DEF k
  <2>5. Handles(k)
    <3>1. Own(t, txs[t])
      BY TypesRest
    <3> QED
      BY <2>1, <2>3, <3>1 DEF Handles
  <2> QED
    BY <1>2, <2>2, <2>3, <2>4, <2>5, TypesRest, TypesMove DEF StartApi
<1>3. ASSUME Crash(w)
      PROVE  Types'
  <2>1. jobs' \subseteq Jobs
    BY <1>3, TypesRest, WorkerType, JobTypes DEF Crash
  <2> QED
    BY <1>3, <2>1, TypesIdle, TypesRest DEF Crash
<1> QED
  BY <1>1, <1>2, <1>3

\* A handler that goes on to p.
LEMMA TypesGoto ==
    ASSUME Types, NEW w \in Workers, NEW p \in PCs, Goto(w, p), UNCHANGED <<txs, chain>>,
           ~At(w, "idle"), p \notin {"request", "presign", "resent", "status", "idle"},
           p = "sign" => wk[w].kind = "request" /\ wk[w].snap.data.nonce # None,
           p \in {"nonce", "check", "act"} => wk[w].kind \in {"status", "recover"},
           wk[w].kind = "status" => p \in {"check", "act", "nonce"},
           jobs' \subseteq Jobs, counter' \in Nat, health' \in BOOLEAN, api' \subseteq ApiOps,
           mempool' = mempool \/ \E h \in Hashes : mempool' = mempool \cup {h}
    PROVE  Types'
<1> DEFINE k == [wk[w] EXCEPT !.pc = p]
<1>1. wk' = [wk EXCEPT ![w] = k]
  BY DEF Goto
<1>2. /\ k \in WorkerStates
      /\ k.pc = p /\ k.kind = wk[w].kind /\ k.tx = wk[w].tx /\ k.snap = wk[w].snap
      /\ k.sig = wk[w].sig
  BY MovedType
<1> HIDE DEF k
<1>3. Handles(k)
  BY <1>2, WorkerType DEF Handles, At
<1> QED
  BY <1>1, <1>2, <1>3, TypesMove

\* Record cur after PreparePresign, on snapshot s with nonce n.
Presigned(cur, s, n) == [cur EXCEPT !.data = [s.data EXCEPT !.nonce = n, !.price = 1]]

\* Record r of t is cur with the data of s and nonce n.
PresignedOf(t, cur, s, n, r) ==
    /\ r \in Transactions /\ Own(t, r)
    /\ r.hashes = cur.hashes /\ r.status = cur.status
    /\ r.data.nonce = n /\ r.data.raw = s.data.raw /\ r.data.hash = s.data.hash

\* Such a record has its type.
LEMMA PresignWritten ==
    ASSUME NEW t \in Txs, NEW cur \in Transactions, NEW s \in Transactions,
           Own(t, cur), Own(t, s), NEW n \in Nonces
    PROVE  PresignedOf(t, cur, s, n, Presigned(cur, s, n))
<1> DEFINE d == [s.data EXCEPT !.nonce = n, !.price = 1]
           r == [cur EXCEPT !.data = d]
<1>1. s.data \in Data
  BY RecordType
<1>2. d \in Data
  BY <1>1, DataType
<1>3. d.nonce = n /\ d.raw = s.data.raw /\ d.hash = s.data.hash
  BY <1>1 DEF Data
<1>4. r = Presigned(cur, s, n)
  BY DEF Presigned
<1> HIDE DEF d
<1>5. r \in Transactions /\ r.data = d /\ r.hashes = cur.hashes /\ r.status = cur.status
  BY <1>2 DEF Transactions
<1> HIDE DEF r
<1>6. Own(t, r)
  BY <1>3, <1>5 DEF Own
<1> QED
  BY <1>3, <1>4, <1>5, <1>6 DEF PresignedOf

\* What PrepareSign stores: r, for a worker that is at "sign".
LEMMA SignWritten ==
    ASSUME Types, NEW w \in Workers, PrepareSign(w)
    PROVE  \E e \in Data, h \in Hashes, new \in Transactions :
              /\ e.nonce = wk[w].snap.data.nonce /\ e.nonce # None
              /\ h.tx = wk[w].tx /\ h.nonce = e.nonce
              /\ new.status = "Sent" /\ new.data = with_signed_transaction_data(e, h)
              /\ new.hashes = Append(wk[w].snap.hashes, h) /\ Own(wk[w].tx, new)
              /\ txs' = [txs EXCEPT ![wk[w].tx] = WithStatus(txs[wk[w].tx], new)]
<1> DEFINE t == wk[w].tx
           s == wk[w].snap
           e == [s.data EXCEPT !.price = 1]
           h == Sign(t, e)
           d == with_signed_transaction_data(e, h)
           new == Signed(txs[t], "Sent", e, s.hashes, h)
<1>7. txs' = [txs EXCEPT ![t] = WithStatus(txs[t], new)]
  BY Zenon DEF PrepareSign, Signed
<1>1. /\ t \in Txs /\ txs[t] \in Transactions /\ s \in Transactions /\ s.data \in Data
      /\ s.hashes \in Seq(Hashes) /\ s.data.nonce # None
  BY WorkerType DEF PrepareSign, At, Handles
<1>2. Own(t, txs[t]) /\ Own(t, s)
  BY TypesRest DEF PrepareSign, At
<1>3. e \in Data /\ e.nonce = s.data.nonce /\ e.price # 0
  <2>1. e \in Data
    BY <1>1, DataType
  <2> QED
    BY <1>1, <2>1 DEF Data
<1> HIDE DEF e
<1>4. h \in Hashes /\ h.tx = t /\ h.nonce = e.nonce
  BY <1>1, <1>3, SignType
<1> HIDE DEF h
<1>5. AllOf(t, s.hashes)
  BY <1>2 DEF Own
<1> HIDE DEF t, s
<1>6. /\ new \in Transactions /\ Own(t, new)
      /\ new.data = d /\ new.hashes = Append(s.hashes, h) /\ new.status = "Sent"
  <2>1. s.hashes \in Seq(Hashes) /\ txs[t] \in Transactions /\ "Sent" \in {"Sent", "Submitted"}
    BY <1>1
  <2>2. SignedOf(t, "Sent", e, s.hashes, h, new)
    BY <1>1, <1>2, <1>3, <1>4, <1>5, <2>1, SignedWritten
  <2> HIDE DEF new
  <2> QED
    BY <2>2 DEF SignedOf
<1> HIDE DEF new, d, t, s
<1> QED
  BY <1>1, <1>3, <1>4, <1>6, <1>7 DEF t, s, d

\* prepare_transaction.
LEMMA TypesPrepare ==
    ASSUME Types, NEW w \in Workers, Prepare(w)
    PROVE  Types'
<1>1. CASE PrepareSkip(w)
  BY <1>1, TypesIdle, TypesRest DEF PrepareSkip
<1>2. CASE PrepareError(w)
  <2>1. wk[w].kind \in JobKinds /\ wk[w].tx \in Txs
    BY <1>2, WorkerType DEF PrepareError, At, Handles, JobKinds
  <2>2. jobs' \subseteq Jobs
    BY <1>2, <2>1, JobTypes, TypesRest DEF PrepareError
  <2> QED
    BY <1>2, <2>2, TypesIdle, TypesRest DEF PrepareError
<1>3. CASE PrepareReject(w)
  <2> DEFINE t == wk[w].tx
             r == WithStatus(txs[t], [txs[t] EXCEPT !.status = "Failed"])
  <2>1. ~At(w, "idle")
    BY <1>3 DEF PrepareReject, At
  <2>2. t \in Txs /\ txs[t] \in Transactions /\ Own(t, txs[t])
    BY <2>1, WorkerType, TypesRest
  <2>3. r \in Transactions /\ Own(t, r)
    BY <2>2, StatusWritten DEF Statuses, Finals
  <2>4. txs' = [txs EXCEPT ![t] = r]
    BY <1>3 DEF PrepareReject
  <2> HIDE DEF r
  <2> QED
    BY <1>3, <2>1, <2>3, <2>4, TypesWrite, TypesRest DEF PrepareReject
<1>4. CASE PrepareNonce(w)
  <2>1. ~At(w, "idle") /\ wk[w].kind = "request"
    BY <1>4, WorkerType DEF PrepareNonce, At, Handles
  <2>2. CASE wk[w].snap.data.nonce # None
    BY <1>4, <2>1, <2>2, TypesGoto, TypesRest DEF PrepareNonce, PCs
  <2>3. CASE wk[w].snap.data.nonce = None
    <3> DEFINE k == [wk[w] EXCEPT !.nonce = counter, !.pc = "presign"]
    <3>0. counter <= MaxNonce /\ counter' = counter + 1 /\ wk' = [wk EXCEPT ![w] = k]
      BY <1>4, <2>3 DEF PrepareNonce
    <3>1. counter \in Nonces /\ counter' = counter + 1 /\ wk' = [wk EXCEPT ![w] = k]
      <4>1. counter \in Nat
        BY TypesRest
      <4> QED
        BY <3>0, <4>1, ConstantFacts DEF Nonces
    <3>2. wk[w] \in WorkerStates
      BY WorkerType
    <3>3. /\ k \in WorkerStates /\ k.pc = "presign" /\ k.nonce = counter
          /\ k.kind = wk[w].kind /\ k.tx = wk[w].tx /\ k.snap = wk[w].snap /\ k.sig = wk[w].sig
      BY <3>1, <3>2 DEF WorkerStates, PCs
    <3> HIDE DEF k
    <3>4. Handles(k)
      BY <2>1, <3>1, <3>3, WorkerType, ConstantFacts DEF Handles, At
    <3>5. counter' \in Nat
      BY <3>1, TypesRest
    <3> QED
      BY <1>4, <3>1, <3>3, <3>4, <3>5, TypesMove, TypesRest DEF PrepareNonce
  <2> QED
    BY <2>2, <2>3
<1>5. CASE PreparePresign(w)
  <2> DEFINE t == wk[w].tx
             r == Presigned(txs[t], wk[w].snap, wk[w].nonce)
             k == [wk[w] EXCEPT !.snap = r, !.pc = "sign"]
  <2>1. ~At(w, "idle") /\ wk[w].nonce \in Nonces /\ wk[w].kind = "request"
    BY <1>5, WorkerType DEF PreparePresign, At, Handles
  <2>2. /\ t \in Txs /\ txs[t] \in Transactions /\ wk[w].snap \in Transactions
        /\ wk[w] \in WorkerStates
        /\ Own(t, txs[t]) /\ Own(t, wk[w].snap)
    BY <2>1, WorkerType, TypesRest
  <2>3. r \in Transactions /\ Own(t, r) /\ r.data.nonce = wk[w].nonce
    BY <2>1, <2>2, PresignWritten DEF PresignedOf
  <2>4. txs' = [txs EXCEPT ![t] = r] /\ wk' = [wk EXCEPT ![w] = k]
    BY <1>5 DEF PreparePresign, Presigned
  <2> HIDE DEF r
  <2>5. /\ k \in WorkerStates /\ k.pc = "sign" /\ k.snap = r
        /\ k.kind = wk[w].kind /\ k.tx = t /\ k.sig = wk[w].sig
    BY <2>2, <2>3 DEF WorkerStates, PCs
  <2> HIDE DEF k
  <2>6. Handles(k)
    BY <2>1, <2>2, <2>3, <2>5, WorkerType, ConstantFacts DEF Handles, At
  <2> QED
    BY <1>5, <2>2, <2>3, <2>4, <2>5, <2>6, TypesLift, TypesRest DEF PreparePresign
<1>6. CASE PrepareSign(w)
  <2> DEFINE t == wk[w].tx
  <2>1. PICK new \in Transactions :
          Own(t, new) /\ txs' = [txs EXCEPT ![t] = WithStatus(txs[t], new)]
    BY <1>6, SignWritten
  <2>2. ~At(w, "idle")
    BY <1>6 DEF PrepareSign, At
  <2>3. t \in Txs /\ txs[t] \in Transactions /\ Own(t, txs[t])
    BY <2>2, WorkerType, TypesRest
  <2>4. WithStatus(txs[t], new) \in Transactions /\ Own(t, WithStatus(txs[t], new))
    BY <2>1, <2>3 DEF WithStatus
  <2>5. jobs' \subseteq Jobs
    BY <1>6, <2>3, JobTypes, TypesRest DEF PrepareSign
  <2> QED
    BY <1>6, <2>1, <2>2, <2>4, <2>5, TypesWrite, TypesRest DEF PrepareSign
<1> QED
  BY <1>1, <1>2, <1>3, <1>4, <1>5, <1>6 DEF Prepare

\* Record cur once submit_transaction has stored that it was sent.
SentNow(cur) == [cur EXCEPT !.status = "Submitted", !.sentAt = TRUE]

\* Such a record has its type.
LEMMA SentWritten ==
    ASSUME NEW t \in Txs, NEW cur \in Transactions, Own(t, cur)
    PROVE  LET r == SentNow(cur)
           IN  /\ r \in Transactions /\ Own(t, r)
               /\ r.data = cur.data /\ r.hashes = cur.hashes /\ r.status = "Submitted"
<1>1. LET r == SentNow(cur)
      IN  /\ r \in Transactions
          /\ r.data = cur.data /\ r.hashes = cur.hashes /\ r.status = "Submitted"
  BY DEF Transactions, SentNow, Statuses
<1> QED
  BY <1>1 DEF Own

\* A record whose resubmission was accepted.
LEMMA ResentWritten ==
    ASSUME NEW t \in Txs, NEW cur \in Transactions, NEW s \in Transactions,
           Own(t, cur), Own(t, s), NEW h \in Hashes, h.tx = t
    PROVE  LET r == Resent(cur, s, h)
           IN  /\ r \in Transactions /\ Own(t, r)
               /\ r.data = with_signed_transaction_data(Bumped(s.data), h)
               /\ r.hashes = Append(s.hashes, h) /\ r.status = "Submitted"
<1> DEFINE d == with_signed_transaction_data(Bumped(s.data), h)
           p == Append(s.hashes, h)
           r == [cur EXCEPT !.status = "Submitted", !.sentAt = TRUE, !.hashes = p, !.data = d]
<1>1. s.data \in Data /\ s.hashes \in Seq(Hashes)
  BY RecordType
<1>2. d \in Data /\ d.raw = h /\ d.hash = h
  <2> DEFINE e == Bumped(s.data)
  <2>1. e \in Data
    BY <1>1, DataType
  <2> HIDE DEF e
  <2>2. d = with_signed_transaction_data(e, h)
    BY DEF e
  <2>3. d \in Data
    BY <2>1, <2>2, DataType
  <2> QED
    BY <2>1, <2>2, <2>3, DataFields
<1>3. p \in Seq(Hashes) /\ AllOf(t, p)
  BY <1>1 DEF AllOf, Own
<1>4. r = Resent(cur, s, h)
  BY DEF Resent
<1> HIDE DEF d, p
<1>5. r \in Transactions /\ r.data = d /\ r.hashes = p /\ r.status = "Submitted"
  BY <1>2, <1>3 DEF Transactions, Statuses
<1> HIDE DEF r
<1>6. Own(t, r)
  BY <1>2, <1>3, <1>5 DEF Own
<1> QED
  BY <1>4, <1>5, <1>6 DEF d, p

\* The data that a replacement of d is signed from, and the record that stores it.
ReplacedData(d) == [Bumped(d) EXCEPT !.kind = "repl"]
Replaced(t, cur, d) ==
    [cur EXCEPT !.data =
        with_signed_transaction_data(ReplacedData(d), Sign(t, ReplacedData(d)))]

\* Such a record has its type.
LEMMA ReplaceWritten ==
    ASSUME NEW t \in Txs, NEW cur \in Transactions, Own(t, cur), NEW d \in Data, d.nonce # None
    PROVE  LET r == Replaced(t, cur, d)
           IN  /\ r \in Transactions /\ Own(t, r)
               /\ r.hashes = cur.hashes /\ r.status = cur.status
               /\ r.data.nonce = d.nonce
               /\ r.data.raw \in Hashes /\ r.data.raw.nonce = d.nonce
               /\ r.data.hash = r.data.raw
<1> DEFINE e == ReplacedData(d)
           h == Sign(t, e)
           f == with_signed_transaction_data(e, h)
           r == [cur EXCEPT !.data = f]
<1>1. Bumped(d) \in Data /\ Bumped(d).nonce = d.nonce /\ Bumped(d).price # 0
  BY DataType, DataFields
<1>2. e \in Data /\ e.nonce = d.nonce /\ e.price # 0
  BY <1>1 DEF Data, ReplacedData, Contents
<1> HIDE DEF e
<1>3. h \in Hashes /\ h.tx = t /\ h.nonce = d.nonce
  BY <1>2, SignType
<1> HIDE DEF h
<1>4. f \in Data /\ f.nonce = d.nonce /\ f.raw = h /\ f.hash = h
  <2>1. f \in Data
    BY <1>2, <1>3, DataType
  <2> QED
    BY <1>2, <2>1, DataFields
<1>5. r = Replaced(t, cur, d)
  BY DEF Replaced, h, e
<1> HIDE DEF f
<1>6. r \in Transactions /\ r.data = f /\ r.hashes = cur.hashes /\ r.status = cur.status
  BY <1>4 DEF Transactions
<1> HIDE DEF r
<1>7. Own(t, r)
  BY <1>3, <1>4, <1>6 DEF Own
<1> QED
  BY <1>3, <1>4, <1>5, <1>6, <1>7

\* What a broadcast of h and its answer o lead to.
LEMMA SendEffect ==
    ASSUME Types, NEW t \in Txs, NEW h \in Hashes, NEW o, Broadcast(h, o),
           jobs' \in IF o = "low" THEN schedule_nonce_recovery_status_check(t) ELSE {jobs},
           health' \in IF o = "high" THEN {health, TRUE} ELSE {health}
    PROVE  /\ jobs' \subseteq Jobs /\ health' \in BOOLEAN
           /\ jobs \subseteq jobs'
           /\ mempool' = mempool \/ mempool' = mempool \cup {h}
<1>1. jobs' = jobs \/ jobs' = jobs \cup {RecoverJob(t)}
  BY JobTypes DEF schedule_nonce_recovery_status_check
<1>2. RecoverJob(t) \in Jobs
  BY JobTypes
<1>3. health' \in BOOLEAN
  BY TypesRest
<1> QED
  BY <1>1, <1>2, <1>3, TypesRest DEF Broadcast

\* What submit_transaction broadcasts and what becomes of its worker.
LEMMA SubmitEffect ==
    ASSUME Types, NEW w \in Workers, Submit(w)
    PROVE  /\ ~At(w, "idle") /\ wk[w].kind # "status" /\ wk[w].snap.data.raw \in Hashes
           /\ jobs' \subseteq Jobs /\ jobs \subseteq jobs' /\ health' \in BOOLEAN
           /\ mempool' = mempool \/ mempool' = mempool \cup {wk[w].snap.data.raw}
           /\ Goto(w, "submitted") \/ Done(w)
           /\ jobs' # jobs => /\ jobs' = jobs \cup {RecoverJob(wk[w].tx)}
                              /\ wk[w].snap.data.raw.nonce < OnChainNonce
           /\ UNCHANGED <<txs, counter, chain, api>>
<1> DEFINE h == wk[w].snap.data.raw
<1>1. ~At(w, "idle") /\ wk[w].kind # "status" /\ wk[w].tx \in Txs
  BY WorkerType DEF Submit, At, Handles
<1>2. h \in Hashes
  BY WorkerType, DataType DEF Submit
<1>3. PICK o \in SendOutcomes(h) :
          /\ Broadcast(h, o)
          /\ IF o \in {"ok", "known"} THEN Goto(w, "submitted") ELSE Done(w)
          /\ jobs' \in IF o = "low" THEN schedule_nonce_recovery_status_check(wk[w].tx)
                       ELSE {jobs}
          /\ health' \in IF o = "high" THEN {health, TRUE} ELSE {health}
  BY DEF Submit
<1> HIDE DEF h
<1>4. /\ jobs' \subseteq Jobs /\ health' \in BOOLEAN /\ jobs \subseteq jobs'
      /\ mempool' = mempool \/ mempool' = mempool \cup {h}
  BY <1>1, <1>2, <1>3, SendEffect
<1>5. UNCHANGED <<txs, counter, chain, api>>
  BY DEF Submit
<1>6. Goto(w, "submitted") \/ Done(w)
  BY <1>3
<1>7. jobs' # jobs => jobs' = jobs \cup {RecoverJob(wk[w].tx)} /\ h.nonce < OnChainNonce
  BY <1>3, JobTypes DEF SendOutcomes, schedule_nonce_recovery_status_check
<1> QED
  BY <1>1, <1>2, <1>4, <1>5, <1>6, <1>7 DEF h

\* What resubmit_transaction broadcasts, h, and what becomes of its worker, k.
LEMMA ResubmitEffect ==
    ASSUME Types, NEW w \in Workers, Resubmit(w)
    PROVE  \E h \in Hashes, k \in WorkerStates :
             /\ h.tx = wk[w].tx /\ h.nonce = wk[w].snap.data.nonce
             /\ ~At(w, "idle") /\ wk[w].kind # "status" /\ wk[w].snap.data.nonce # None
             /\ wk' = [wk EXCEPT ![w] = k]
             /\ \/ k = Idle
                \/ /\ k.pc \in {"resent", "kept"} /\ k.kind = wk[w].kind /\ k.tx = wk[w].tx
                   /\ k.snap = wk[w].snap /\ k.seen = wk[w].seen
                   /\ IF k.pc = "resent" THEN k.sig = h ELSE k.sig = wk[w].sig
             /\ jobs' \subseteq Jobs /\ jobs \subseteq jobs' /\ health' \in BOOLEAN
             /\ mempool' = mempool \/ mempool' = mempool \cup {h}
             /\ mempool' # mempool => k.pc = "resent" \/ "timeout" \in Faults
             /\ jobs' # jobs => /\ jobs' = jobs \cup {RecoverJob(wk[w].tx)}
                                /\ h.nonce < OnChainNonce
             /\ UNCHANGED <<txs, counter, chain, api>>
<1> DEFINE h == Sign(wk[w].tx, Bumped(wk[w].snap.data))
<1>1. ~At(w, "idle") /\ wk[w].kind # "status" /\ wk[w].tx \in Txs
  BY WorkerType DEF Resubmit, At, Handles
<1>2. wk[w].snap.data.nonce # None
  BY DEF Resubmit
<1>3. h \in Hashes /\ h.tx = wk[w].tx /\ h.nonce = wk[w].snap.data.nonce
  <2> DEFINE d == wk[w].snap.data
  <2>1. d \in Data
    BY WorkerType
  <2>2. Bumped(d) \in Data /\ Bumped(d).nonce = d.nonce /\ Bumped(d).price # 0
    BY <2>1, DataType, DataFields
  <2> QED
    BY <1>1, <1>2, <2>1, <2>2, SignType
<1>4. PICK o \in SendOutcomes(h) :
          /\ Broadcast(h, o)
          /\ wk' = [wk EXCEPT ![w] =
                IF o = "ok" THEN [wk[w] EXCEPT !.sig = h, !.pc = "resent"]
                ELSE IF o \in {"known", "low"} THEN [wk[w] EXCEPT !.pc = "kept"]
                ELSE Idle]
          /\ jobs' \in IF o = "low" THEN schedule_nonce_recovery_status_check(wk[w].tx)
                       ELSE {jobs}
          /\ health' \in IF o = "high" THEN {health, TRUE} ELSE {health}
  BY Zenon DEF Resubmit
<1> HIDE DEF h
<1>5. /\ jobs' \subseteq Jobs /\ health' \in BOOLEAN /\ jobs \subseteq jobs'
      /\ mempool' = mempool \/ mempool' = mempool \cup {h}
  BY <1>1, <1>3, <1>4, SendEffect
<1>6. UNCHANGED <<txs, counter, chain, api>>
  BY DEF Resubmit
<1> DEFINE kr == [wk[w] EXCEPT !.sig = h, !.pc = "resent"]
           kk == [wk[w] EXCEPT !.pc = "kept"]
<1>7. \/ wk' = [wk EXCEPT ![w] = kr]
      \/ /\ wk' = [wk EXCEPT ![w] = kk] \/ wk' = [wk EXCEPT ![w] = Idle]
         /\ mempool' # mempool => "timeout" \in Faults
  BY <1>4 DEF Broadcast, SendOutcomes
<1>10. jobs' # jobs => jobs' = jobs \cup {RecoverJob(wk[w].tx)} /\ h.nonce < OnChainNonce
  BY <1>4, JobTypes DEF SendOutcomes, schedule_nonce_recovery_status_check
<1>8. wk[w] \in WorkerStates
  BY WorkerType
<1>9. /\ kr \in WorkerStates /\ kr.pc = "resent" /\ kr.kind = wk[w].kind /\ kr.tx = wk[w].tx
      /\ kr.snap = wk[w].snap /\ kr.seen = wk[w].seen /\ kr.sig = h
      /\ kk \in WorkerStates /\ kk.pc = "kept" /\ kk.kind = wk[w].kind /\ kk.tx = wk[w].tx
      /\ kk.snap = wk[w].snap /\ kk.seen = wk[w].seen /\ kk.sig = wk[w].sig
  BY <1>3, <1>8 DEF WorkerStates, PCs
<1> HIDE DEF kr, kk
<1> QED
  BY <1>1, <1>2, <1>3, <1>5, <1>6, <1>7, <1>9, <1>10, IdleType

\* submit_transaction and resubmit_transaction.
LEMMA TypesSend ==
    ASSUME Types, NEW w \in Workers, Send(w)
    PROVE  Types'
<1>1. CASE SubmitSkip(w) \/ ResubmitSkip(w)
  BY <1>1, TypesIdle, TypesRest DEF SubmitSkip, ResubmitSkip
<1>2. CASE Submit(w)
  BY <1>2, SubmitEffect, TypesGoto, TypesIdle, TypesRest DEF PCs
<1>3. CASE SubmitUpdate(w)
  <2> DEFINE t == wk[w].tx
             r == WithStatus(txs[t], SentNow(txs[t]))
  <2>1. ~At(w, "idle")
    BY <1>3 DEF SubmitUpdate, At
  <2>2. t \in Txs /\ txs[t] \in Transactions /\ Own(t, txs[t])
    BY <2>1, WorkerType, TypesRest
  <2>3. r \in Transactions /\ Own(t, r)
    BY <2>2, SentWritten DEF WithStatus
  <2>4. txs' = [txs EXCEPT ![t] = r] \/ UNCHANGED txs
    BY <1>3 DEF SubmitUpdate, SentNow
  <2> HIDE DEF r
  <2> QED
    BY <1>3, <2>1, <2>3, <2>4, TypesWrite, TypesIdle, TypesRest DEF SubmitUpdate
<1>4. CASE Resubmit(w)
  <2>1. PICK h \in Hashes, k \in WorkerStates :
             /\ h.tx = wk[w].tx /\ wk' = [wk EXCEPT ![w] = k]
             /\ ~At(w, "idle") /\ wk[w].kind # "status"
             /\ \/ k = Idle
                \/ /\ k.pc \in {"resent", "kept"} /\ k.kind = wk[w].kind /\ k.tx = wk[w].tx
                   /\ k.snap = wk[w].snap
                   /\ IF k.pc = "resent" THEN k.sig = h ELSE k.sig = wk[w].sig
             /\ jobs' \subseteq Jobs /\ health' \in BOOLEAN
             /\ mempool' = mempool \/ mempool' = mempool \cup {h}
             /\ UNCHANGED <<txs, counter, chain, api>>
    BY <1>4, ResubmitEffect
  <2>2. h # None
    BY ConstantFacts
  <2>3. Handles(k)
    BY <2>1, <2>2, WorkerType, IdleType DEF Handles, At
  <2> QED
    BY <2>1, <2>3, TypesMove, TypesRest
<1>5. CASE ResubmitUpdate(w)
  <2> DEFINE t == wk[w].tx
             new == IF At(w, "resent") THEN Resent(txs[t], wk[w].snap, wk[w].sig)
                    ELSE [txs[t] EXCEPT !.status = "Submitted"]
             r == WithStatus(txs[t], new)
  <2>1. ~At(w, "idle")
    BY <1>5 DEF ResubmitUpdate, At
  <2>2. /\ t \in Txs /\ txs[t] \in Transactions /\ Own(t, txs[t])
        /\ wk[w].snap \in Transactions /\ Own(t, wk[w].snap)
        /\ At(w, "resent") => wk[w].sig \in Hashes /\ wk[w].sig.tx = t
    BY <2>1, WorkerType, TypesRest DEF Handles, At
  <2>3. r \in Transactions /\ Own(t, r)
    <3>1. CASE At(w, "resent")
      BY <2>2, <3>1, ResentWritten DEF WithStatus
    <3>2. CASE ~At(w, "resent")
      BY <2>2, <3>2, StatusWritten DEF Statuses
    <3> QED
      BY <3>1, <3>2
  <2>4. txs' = [txs EXCEPT ![t] = r] \/ UNCHANGED txs
    BY <1>5 DEF ResubmitUpdate
  <2> HIDE DEF r
  <2> QED
    BY <1>5, <2>1, <2>3, <2>4, TypesWrite, TypesIdle, TypesRest DEF ResubmitUpdate
<1> QED
  BY <1>1, <1>2, <1>3, <1>4, <1>5 DEF Send

\* cancel_transaction and replace_transaction.
LEMMA TypesUser ==
    ASSUME Types, NEW w \in Workers, UserOp(w)
    PROVE  Types'
<1> DEFINE t == wk[w].tx
           s == wk[w].snap
<1>1. ~At(w, "idle")
  BY DEF UserOp, Cancel, Replace, At
<1>2. /\ t \in Txs /\ txs[t] \in Transactions /\ Own(t, txs[t])
      /\ s \in Transactions /\ Own(t, s) /\ s.data \in Data
  BY <1>1, WorkerType, TypesRest
<1>3. jobs' \subseteq Jobs
  BY <1>2, JobTypes, TypesRest DEF UserOp, Cancel, Replace
<1>4. CASE Cancel(w)
  <2>1. CASE s.status = "Pending"
    <3> DEFINE r == WithStatus(txs[t], [txs[t] EXCEPT !.status = "Canceled"])
    <3>1. r \in Transactions /\ Own(t, r)
      BY <1>2, StatusWritten DEF Statuses, Finals
    <3>2. txs' = [txs EXCEPT ![t] = r]
      BY <1>4, <2>1 DEF Cancel
    <3> HIDE DEF r
    <3> QED
      BY <1>1, <1>3, <1>4, <3>1, <3>2, TypesWrite, TypesRest DEF Cancel
  <2>2. CASE s.status # "Pending"
    <3> DEFINE r == NoopUpdate(txs[t], s, TRUE)
    <3>1. r \in Transactions /\ Own(t, r)
      BY <1>2, NoopWritten DEF NoopOf
    <3>2. txs' = [txs EXCEPT ![t] = r]
      BY <1>4, <2>2 DEF Cancel
    <3> HIDE DEF r
    <3> QED
      BY <1>1, <1>3, <1>4, <3>1, <3>2, TypesWrite, TypesRest DEF Cancel
  <2> QED
    BY <2>1, <2>2
<1>5. CASE Replace(w)
  <2>1. CASE s.data.nonce # None /\ CanBump(s.data)
    <3> DEFINE r == Replaced(t, txs[t], s.data)
    <3>1. r \in Transactions /\ Own(t, r)
      BY <1>2, <2>1, ReplaceWritten
    <3>2. txs' = [txs EXCEPT ![t] = r]
      BY <1>5, <2>1 DEF Replace, Replaced, ReplacedData
    <3> HIDE DEF r
    <3> QED
      BY <1>1, <1>3, <1>5, <3>1, <3>2, TypesWrite, TypesRest DEF Replace
  <2>2. CASE ~(s.data.nonce # None /\ CanBump(s.data))
    BY <1>3, <1>5, <2>2, TypesIdle, TypesRest DEF Replace
  <2> QED
    BY <2>1, <2>2
<1> QED
  BY <1>4, <1>5 DEF UserOp

\* A worker that executes a status check.
LEMMA StatusWorker ==
    ASSUME Types, NEW w \in Workers,
           At(w, "status") \/ At(w, "nonce") \/ At(w, "check") \/ At(w, "act")
    PROVE  /\ ~At(w, "idle") /\ wk[w].kind \in {"status", "recover"} /\ Job(w) \in Jobs
           /\ wk[w].tx \in Txs /\ txs[wk[w].tx] \in Transactions
           /\ wk[w].snap \in Transactions
           /\ Own(wk[w].tx, txs[wk[w].tx]) /\ Own(wk[w].tx, wk[w].snap)
<1>1. ~At(w, "idle") /\ wk[w].kind \in {"status", "recover"} /\ wk[w].tx \in Txs
  BY WorkerType DEF At, Handles
<1>2. Job(w) \in Jobs
  BY <1>1, JobTypes DEF JobKinds
<1> QED
  BY <1>1, <1>2, WorkerType, TypesRest

\* The end of a status check that returns r, and may have queued j.
LEMMA EndEffect ==
    ASSUME Types, NEW w \in Workers, NEW r, NEW j \in Jobs, Job(w) \in Jobs,
           StatusEnd(w, r) \/ StatusEndWith(w, r, j)
    PROVE  /\ Done(w) /\ jobs' \subseteq Jobs /\ jobs \subseteq jobs'
           /\ ~is_final_state(r.status) => Job(w) \in jobs'
BY TypesRest DEF StatusEnd, StatusEndWith, Keep

\* A hash found on the chain is one of the transaction's.
LEMMA HistoryFacts ==
    ASSUME NEW t \in Txs, NEW s \in Transactions, Own(t, s), NEW h \in HistoricalMined(s)
    PROVE  h \in Hashes /\ h.tx = t /\ Mined(h) /\ \E i \in DOMAIN s.hashes : s.hashes[i] = h
<1>1. s.hashes \in Seq(Hashes)
  BY RecordType
<1> QED
  BY <1>1 DEF HistoricalMined, Own, AllOf

\* A worker after check_transaction_status.
Seen(k, st, r) == [k EXCEPT !.seen = st, !.pc = "act", !.snap = r]

\* Such a worker has its type.
LEMMA SeenType ==
    ASSUME NEW k \in WorkerStates, NEW st \in Statuses \cup {"Absent"}, NEW r \in Transactions
    PROVE  LET l == Seen(k, st, r)
           IN  /\ l \in WorkerStates /\ l.pc = "act" /\ l.seen = st /\ l.snap = r
               /\ l.kind = k.kind /\ l.tx = k.tx /\ l.sig = k.sig /\ l.nonce = k.nonce
BY DEF WorkerStates, Seen, PCs

\* check_transaction_status of transaction t, from record s, saw status st and goes on with
\* record c.
Saw(t, s, st, c) ==
    \/ UNCHANGED txs /\ st = s.status /\ c = s /\ s.status \in {"Pending", "Sent"}
    \/ /\ UNCHANGED txs /\ s.data.hash \in Hashes /\ Mined(s.data.hash)
       /\ st = ReceiptStatus(s) /\ c \in {s, txs[t]}
       /\ st # s.status => c = txs[t]
    \/ UNCHANGED txs /\ s.data.hash \in Hashes /\ st = "Submitted" /\ c \in {s, txs[t]}
    \/ \E h \in HistoricalMined(s) :
         /\ txs' = [txs EXCEPT ![t] = Corrected(txs[t], s, h)]
         /\ st = Corrected(txs[t], s, h).status
         /\ c \in {s, Corrected(txs[t], s, h)}
         /\ s.status = "Submitted" /\ (st # s.status => c = Corrected(txs[t], s, h))

\* The cases of check_transaction_status.
LEMMA CheckEffect ==
    ASSUME Types, NEW w \in Workers, Check(w)
    PROVE  /\ At(w, "status") \/ At(w, "check")
           /\ wk[w].snap.status \in {"Pending", "Sent", "Submitted", "Mined"}
           /\ UNCHANGED <<jobs, counter, mempool, chain, health, api>>
           /\ \E st \in Statuses \cup {"Absent"}, c \in Transactions :
                /\ wk' = [wk EXCEPT ![w] = Seen(wk[w], st, c)] /\ Own(wk[w].tx, c)
                /\ Saw(wk[w].tx, wk[w].snap, st, c)
<1> DEFINE t == wk[w].tx
           s == wk[w].snap
           See(st, cur) == wk' = [wk EXCEPT ![w].seen = st, ![w].pc = "act",
                                            ![w].snap = IF st = s.status THEN s ELSE cur]
<1>1. At(w, "status") \/ At(w, "check")
  BY DEF Check, Checking
<1>2. /\ t \in Txs /\ txs[t] \in Transactions /\ s \in Transactions
      /\ Own(t, txs[t]) /\ Own(t, s)
  BY <1>1, StatusWorker
<1>3. s.status \in Statuses /\ s.data.hash \in Hashes \cup {None} /\ "Submitted" \in Statuses
  <2>1. s.data \in Data /\ s.status \in Statuses \cup {"Absent"}
    BY <1>2, RecordType
  <2>2. s.status # "Absent"
    BY DEF Check
  <2> QED
    BY <2>1, <2>2, DataType DEF Statuses
<1>4. \/ s.status \in {"Pending", "Sent"} /\ See(s.status, s) /\ UNCHANGED txs
      \/ /\ s.status \in {"Submitted", "Mined"} /\ s.data.hash # None /\ Mined(s.data.hash)
         /\ See(ReceiptStatus(s), txs[t]) /\ UNCHANGED txs
      \/ /\ s.status \in {"Submitted", "Mined"} /\ s.data.hash # None
         /\ \/ \E h \in HistoricalMined(s) :
                  /\ txs' = [txs EXCEPT ![t] = Corrected(txs[t], s, h)]
                  /\ See(Corrected(txs[t], s, h).status, Corrected(txs[t], s, h))
                  /\ s.status = "Submitted"
            \/ See("Submitted", txs[t]) /\ UNCHANGED txs
  BY DEF Check
<1>5. UNCHANGED <<jobs, counter, mempool, chain, health, api>>
  BY DEF Check
<1>6. ReceiptStatus(s) \in Statuses
  BY DEF ReceiptStatus, Statuses, Finals
<1>7. ASSUME NEW st, NEW cur, See(st, cur)
      PROVE  wk' = [wk EXCEPT ![w] = Seen(wk[w], st, IF st = s.status THEN s ELSE cur)]
  <2> DEFINE c == IF st = s.status THEN s ELSE cur
  <2>1. wk' = [wk EXCEPT ![w].seen = st, ![w].pc = "act", ![w].snap = c]
    BY <1>7
  <2> HIDE DEF c
  <2>2. wk \in [Workers -> WorkerStates]
    BY DEF Types, TypeOK
  <2>3. wk' = [wk EXCEPT ![w] = Seen(wk[w], st, c)]
    BY <2>1, <2>2 DEF Seen
  <2> QED
    BY <2>3 DEF c
<1> HIDE DEF See
<1>8. s.status \in {"Pending", "Sent", "Submitted", "Mined"}
  BY <1>4
<1>9. ASSUME NEW st \in Statuses \cup {"Absent"}, NEW cur \in Transactions, Own(t, cur),
             See(st, cur), Saw(t, s, st, IF st = s.status THEN s ELSE cur)
      PROVE  \E q \in Statuses \cup {"Absent"}, c \in Transactions :
                /\ wk' = [wk EXCEPT ![w] = Seen(wk[w], q, c)] /\ Own(t, c)
                /\ Saw(t, s, q, c)
  <2> DEFINE c == IF st = s.status THEN s ELSE cur
  <2>1. c \in Transactions /\ Own(t, c)
    BY <1>2, <1>9
  <2>2. wk' = [wk EXCEPT ![w] = Seen(wk[w], st, c)] /\ Saw(t, s, st, c)
    BY <1>7, <1>9
  <2> HIDE DEF c
  <2> QED
    BY <2>1, <2>2
<1>10. CASE s.status \in {"Pending", "Sent"} /\ See(s.status, s) /\ UNCHANGED txs
  <2>1. Saw(t, s, s.status, IF s.status = s.status THEN s ELSE s)
    BY <1>10 DEF Saw
  <2> QED
    BY <1>1, <1>2, <1>3, <1>5, <1>8, <1>9, <1>10, <2>1
<1>11. CASE /\ s.status \in {"Submitted", "Mined"} /\ s.data.hash # None /\ Mined(s.data.hash)
            /\ See(ReceiptStatus(s), txs[t]) /\ UNCHANGED txs
  <2>1. Saw(t, s, ReceiptStatus(s), IF ReceiptStatus(s) = s.status THEN s ELSE txs[t])
    BY <1>3, <1>11 DEF Saw
  <2> QED
    BY <1>1, <1>2, <1>5, <1>6, <1>8, <1>9, <1>11, <2>1
<1>12. ASSUME NEW h \in HistoricalMined(s),
              txs' = [txs EXCEPT ![t] = Corrected(txs[t], s, h)],
              See(Corrected(txs[t], s, h).status, Corrected(txs[t], s, h)),
              s.status = "Submitted"
       PROVE  \E q \in Statuses \cup {"Absent"}, c \in Transactions :
                 /\ wk' = [wk EXCEPT ![w] = Seen(wk[w], q, c)] /\ Own(t, c)
                 /\ Saw(t, s, q, c)
  <2> DEFINE r == Corrected(txs[t], s, h)
  <2>1. h \in Hashes /\ h.tx = t
    BY <1>2, HistoryFacts
  <2>2. r \in Transactions /\ Own(t, r)
    BY <1>2, <2>1, CorrectedWritten DEF CorrectedOf
  <2>3. r.status \in Statuses \cup {"Absent"}
    BY <2>2, RecordType
  <2>4. Saw(t, s, r.status, IF r.status = s.status THEN s ELSE r)
    BY <1>12 DEF Saw
  <2> QED
    BY <1>9, <1>12, <2>2, <2>3, <2>4
<1>13. CASE s.data.hash # None /\ See("Submitted", txs[t]) /\ UNCHANGED txs
  <2>1. Saw(t, s, "Submitted", IF "Submitted" = s.status THEN s ELSE txs[t])
    BY <1>3, <1>13 DEF Saw
  <2> QED
    BY <1>1, <1>2, <1>3, <1>5, <1>8, <1>9, <1>13, <2>1
<1> QED
  BY <1>1, <1>4, <1>5, <1>8, <1>10, <1>11, <1>12, <1>13

\* The circuit breaker's write: the record is failed, turned into a NOOP, or left alone.
LEMMA BreakerEffect ==
    ASSUME Types, NEW w \in Workers, CircuitBreaker(w)
    PROVE  LET t == wk[w].tx
               s == wk[w].snap
               f == WithStatus(txs[t], [txs[t] EXCEPT !.status = "Failed"])
               n == NoopUpdate(txs[t], s, FALSE)
           IN  /\ At(w, "status")
               /\ UNCHANGED <<counter, mempool, chain, health, api>>
               /\ \/ /\ s.status \in {"Pending", "Sent"} /\ txs' = [txs EXCEPT ![t] = f]
                     /\ s.status = "Sent" => s.data.nonce = None
                     /\ StatusEnd(w, f)
                  \/ /\ s.status = "Submitted" \/ (s.status = "Sent" /\ s.data.nonce # None)
                     /\ txs' = [txs EXCEPT ![t] = n]
                     /\ StatusEndWith(w, n, ResubmitJob(t))
                  \/ ~is_final_state(s.status) /\ UNCHANGED txs /\ StatusEnd(w, s)
<1> DEFINE t == wk[w].tx
           s == wk[w].snap
           noop == \/ s.status = "Submitted"
                   \/ s.status = "Sent" /\ s.data.nonce # None
           fail == s.status \in {"Pending", "Sent"} /\ ~noop
           r == IF fail THEN WithStatus(txs[t], [txs[t] EXCEPT !.status = "Failed"])
                ELSE IF noop THEN NoopUpdate(txs[t], s, FALSE) ELSE s
<1>1. /\ At(w, "status") /\ ~is_final_state(s.status)
      /\ txs' = IF fail \/ noop THEN [txs EXCEPT ![t] = r] ELSE txs
      /\ IF noop THEN StatusEndWith(w, r, ResubmitJob(t)) ELSE StatusEnd(w, r)
      /\ UNCHANGED <<counter, mempool, chain, health, api>>
  BY DEF CircuitBreaker
<1>2. CASE noop
  <2> DEFINE n == NoopUpdate(txs[t], s, FALSE)
  <2>1. ~fail /\ r = n
    BY <1>2
  <2>2. txs' = [txs EXCEPT ![t] = n] /\ StatusEndWith(w, n, ResubmitJob(t))
    <3> HIDE DEF r, noop, fail
    <3> QED
      BY <1>1, <1>2, <2>1
  <2>3. At(w, "status") /\ UNCHANGED <<counter, mempool, chain, health, api>>
    BY <1>1
  <2> QED
    BY <1>2, <2>2, <2>3
<1>3. CASE fail
  BY <1>1, <1>3
<1>4. CASE ~noop /\ ~fail
  BY <1>1, <1>4
<1> QED
  BY <1>2, <1>3, <1>4

\* A status check that ends with record r of its transaction.
LEMMA TypesEnd ==
    ASSUME Types, NEW w \in Workers,
           At(w, "status") \/ At(w, "nonce") \/ At(w, "check") \/ At(w, "act"),
           NEW r \in Transactions, Own(wk[w].tx, r),
           txs' = [txs EXCEPT ![wk[w].tx] = r] \/ UNCHANGED txs,
           NEW q, NEW j \in Jobs, StatusEnd(w, q) \/ StatusEndWith(w, q, j),
           UNCHANGED <<chain, counter, api, mempool>>, health' \in BOOLEAN
    PROVE  Types'
<1>1. Done(w) /\ jobs' \subseteq Jobs /\ ~At(w, "idle")
  BY StatusWorker, EndEffect
<1> QED
  BY <1>1, TypesWrite, TypesIdle, TypesRest

\* handle_status_impl.
LEMMA TypesStatus ==
    ASSUME Types, NEW w \in Workers, Status(w)
    PROVE  Types'
<1> DEFINE t == wk[w].tx
           s == wk[w].snap
           busy == At(w, "status") \/ At(w, "nonce") \/ At(w, "check") \/ At(w, "act")
<1> DEFINE failed == WithStatus(txs[t], [txs[t] EXCEPT !.status = "Failed"])
           noop == NoopUpdate(txs[t], s, FALSE)
<1>1. busy
  BY DEF Status, StatusFinal, CircuitBreaker, ReconcileHashes, ReconcileNonce, Check, CheckError,
         ActUpdate, ActPending, ActNoop, ActGap, ActResubmit, Checking, Stuck
<1>2. /\ t \in Txs /\ txs[t] \in Transactions /\ s \in Transactions
      /\ Own(t, txs[t]) /\ Own(t, s) /\ Job(w) \in Jobs
  BY <1>1, StatusWorker
<1>3. {SubmitJob(t), ResubmitJob(t), RequestJob(t)} \subseteq Jobs
  BY <1>2, JobTypes
<1>4. failed \in Transactions /\ Own(t, failed)
  BY <1>2, StatusWritten DEF Statuses, Finals
<1>5. noop \in Transactions /\ Own(t, noop)
  BY <1>2, NoopWritten DEF NoopOf
<1> HIDE DEF failed, noop
<1>6. CASE StatusFinal(w)
  BY <1>1, <1>2, <1>3, <1>6, TypesEnd, TypesRest DEF StatusFinal
<1>7. CASE CircuitBreaker(w)
  <2>1. /\ UNCHANGED <<counter, mempool, chain, health, api>>
        /\ \/ txs' = [txs EXCEPT ![t] = failed] /\ StatusEnd(w, failed)
           \/ txs' = [txs EXCEPT ![t] = noop] /\ StatusEndWith(w, noop, ResubmitJob(t))
           \/ UNCHANGED txs /\ StatusEnd(w, s)
    BY <1>7, BreakerEffect DEF failed, noop
  <2> QED
    BY <1>1, <1>2, <1>3, <1>4, <1>5, <2>1, TypesEnd, TypesRest
<1>8. CASE ReconcileHashes(w)
  <2>1. CASE Goto(w, "check") /\ UNCHANGED <<txs, jobs>>
    BY <1>1, <1>8, <2>1, StatusWorker, TypesGoto, TypesRest DEF ReconcileHashes, PCs
  <2>2. CASE Goto(w, "nonce") /\ UNCHANGED <<txs, jobs>>
    BY <1>1, <1>8, <2>2, StatusWorker, TypesGoto, TypesRest DEF ReconcileHashes, PCs
  <2>3. ASSUME NEW h \in HistoricalMined(s),
               txs' = [txs EXCEPT ![t] = Corrected(txs[t], s, h)],
               StatusEnd(w, Corrected(txs[t], s, h))
        PROVE  Types'
    <3>1. h \in Hashes /\ h.tx = t
      BY <1>2, <2>3, HistoryFacts
    <3>2. Corrected(txs[t], s, h) \in Transactions /\ Own(t, Corrected(txs[t], s, h))
      BY <1>2, <3>1, CorrectedWritten DEF CorrectedOf
    <3>3. UNCHANGED <<counter, mempool, chain, health, api>>
      BY <1>8 DEF ReconcileHashes
    <3> QED
      BY <1>1, <1>3, <2>3, <3>2, <3>3, TypesEnd, TypesRest
  <2>4. \/ (Goto(w, "check") \/ Goto(w, "nonce")) /\ UNCHANGED <<txs, jobs>>
        \/ \E h \in HistoricalMined(s) :
              /\ txs' = [txs EXCEPT ![t] = Corrected(txs[t], s, h)]
              /\ StatusEnd(w, Corrected(txs[t], s, h))
    BY <1>8 DEF ReconcileHashes
  <2> QED
    BY <2>1, <2>2, <2>3, <2>4
<1>9. CASE ReconcileNonce(w)
  <2>1. CASE Goto(w, "check") /\ UNCHANGED <<txs, jobs, health>>
    BY <1>1, <1>9, <2>1, StatusWorker, TypesGoto, TypesRest DEF ReconcileNonce, PCs
  <2>2. CASE txs' = [txs EXCEPT ![t] = failed] /\ StatusEnd(w, failed) /\ health' \in {TRUE, health}
    <3>1. health' \in BOOLEAN
      BY <2>2, TypesRest
    <3> QED
      BY <1>1, <1>3, <1>4, <1>9, <2>2, <3>1, TypesEnd DEF ReconcileNonce
  <2> QED
    BY <1>9, <2>1, <2>2 DEF ReconcileNonce, failed
<1>10. CASE Check(w)
  <2>1. PICK st \in Statuses \cup {"Absent"}, c \in Transactions :
          /\ wk' = [wk EXCEPT ![w] = Seen(wk[w], st, c)] /\ Own(t, c)
          /\ Saw(t, s, st, c)
    BY <1>10, CheckEffect
  <2> DEFINE k == Seen(wk[w], st, c)
  <2>2. /\ k \in WorkerStates /\ k.pc = "act" /\ k.snap = c
        /\ k.kind = wk[w].kind /\ k.tx = t /\ k.sig = wk[w].sig
    BY SeenType, WorkerType
  <2> HIDE DEF k
  <2>3. Handles(k)
    BY <1>1, <1>2, <2>1, <2>2, WorkerType, StatusWorker DEF Handles
  <2>4. UNCHANGED <<jobs, counter, mempool, chain, health, api>>
    BY <1>10, CheckEffect
  <2>5. CASE UNCHANGED txs
    BY <2>1, <2>2, <2>3, <2>4, <2>5, TypesMove, TypesRest DEF k
  <2>6. ASSUME NEW h \in HistoricalMined(s),
               txs' = [txs EXCEPT ![t] = Corrected(txs[t], s, h)]
        PROVE  Types'
    <3>1. h \in Hashes /\ h.tx = t
      BY <1>2, <2>6, HistoryFacts
    <3>2. Corrected(txs[t], s, h) \in Transactions /\ Own(t, Corrected(txs[t], s, h))
      BY <1>2, <3>1, CorrectedWritten DEF CorrectedOf
    <3> QED
      BY <1>2, <2>1, <2>2, <2>3, <2>4, <2>6, <3>2, TypesLift, TypesRest DEF k
  <2> QED
    BY <2>1, <2>5, <2>6 DEF Saw
<1>11. CASE CheckError(w)
  <2>1. jobs' \subseteq Jobs
    BY <1>2, <1>11, TypesRest DEF CheckError
  <2> QED
    BY <1>11, <2>1, TypesIdle, TypesRest DEF CheckError
<1>12. CASE ActUpdate(w)
  <2> DEFINE new == WithStatus(txs[t], [txs[t] EXCEPT !.status = wk[w].seen])
  <2>1. CASE s.status = wk[w].seen
    <3>1. UNCHANGED txs /\ StatusEnd(w, s)
      BY <1>12, <2>1 DEF ActUpdate
    <3> QED
      BY <1>1, <1>2, <1>3, <1>12, <3>1, TypesEnd, TypesRest DEF ActUpdate
  <2>2. CASE s.status # wk[w].seen
    <3>1. txs' = [txs EXCEPT ![t] = new] /\ StatusEnd(w, new)
      BY <1>12, <2>2 DEF ActUpdate
    <3>2. new \in Transactions /\ Own(t, new)
      <4>1. wk[w].seen \in Statuses \cup {"Absent"}
        BY WorkerType
      <4> QED
        BY <1>2, <4>1, StatusWritten
    <3> HIDE DEF new
    <3> QED
      BY <1>1, <1>3, <1>12, <3>1, <3>2, TypesEnd, TypesRest DEF ActUpdate
  <2> QED
    BY <2>1, <2>2
<1>13. CASE ActPending(w)
  <2>1. \/ txs' = [txs EXCEPT ![t] = failed] /\ StatusEnd(w, failed)
        \/ UNCHANGED txs /\ StatusEndWith(w, s, RequestJob(t))
    BY <1>13 DEF ActPending, failed
  <2> QED
    BY <1>1, <1>2, <1>3, <1>4, <1>13, <2>1, TypesEnd, TypesRest DEF ActPending
<1>14. ASSUME NEW st \in {"Sent", "Submitted"},
              ActNoop(w, st) \/ ActGap(w, st) \/ ActResubmit(w, st)
       PROVE  Types'
  <2>1. CASE ActNoop(w, st)
    <3>1. /\ txs' = [txs EXCEPT ![t] = noop]
          /\ StatusEndWith(w, noop, IF st = "Sent" THEN SubmitJob(t) ELSE ResubmitJob(t))
      BY <2>1 DEF ActNoop, noop
    <3>2. (IF st = "Sent" THEN SubmitJob(t) ELSE ResubmitJob(t)) \in Jobs
      BY <1>3
    <3> QED
      BY <1>1, <1>5, <2>1, <3>1, <3>2, TypesEnd, TypesRest DEF ActNoop
  <2>2. CASE ActGap(w, st)
    <3>1. health' \in BOOLEAN
      BY <2>2, TypesRest DEF ActGap
    <3> QED
      BY <1>1, <1>2, <1>3, <2>2, <3>1, TypesEnd DEF ActGap
  <2>3. CASE ActResubmit(w, st)
    BY <1>1, <1>2, <1>3, <2>3, TypesEnd, TypesRest DEF ActResubmit
  <2> QED
    BY <1>14, <2>1, <2>2, <2>3
<1> QED
  BY <1>6, <1>7, <1>8, <1>9, <1>10, <1>11, <1>12, <1>13, <1>14 DEF Status

\* A chain entry.
Entry(h, ok, conf) == [hash |-> h, ok |-> ok, conf |-> conf]

\* Its fields.
LEMMA EntryType ==
    ASSUME NEW h \in Hashes \cup {Other}, NEW ok \in BOOLEAN, NEW conf \in BOOLEAN
    PROVE  /\ Entry(h, ok, conf) \in Entries /\ Entry(h, ok, conf).hash = h
           /\ Entry(h, ok, conf).ok = ok /\ Entry(h, ok, conf).conf = conf
BY DEF Entry, Entries

\* The chain grows by one entry: another sender's, or one from the mempool.
LEMMA Grown ==
    ASSUME Types, (\E h \in mempool : Mine(h)) \/ OtherMined
    PROVE  \E e \in Entries :
             /\ chain' = Append(chain, e)
             /\ e.hash # Other => e.hash \in mempool /\ e.hash.nonce = Len(chain)
             /\ UNCHANGED <<txs, jobs, wk, counter, mempool, health, api>>
<1>1. mempool \subseteq Hashes
  BY DEF Types, TypeOK
<1>2. ASSUME NEW h \in mempool, Mine(h)
      PROVE  \E e \in Entries :
               /\ chain' = Append(chain, e)
               /\ e.hash # Other => e.hash \in mempool /\ e.hash.nonce = Len(chain)
               /\ UNCHANGED <<txs, jobs, wk, counter, mempool, health, api>>
  <2>1. PICK ok \in BOOLEAN : chain' = Append(chain, [hash |-> h, ok |-> ok, conf |-> FALSE])
    BY <1>2 DEF Mine
  <2>2. chain' = Append(chain, Entry(h, ok, FALSE))
    BY <2>1 DEF Entry
  <2>3. Entry(h, ok, FALSE) \in Entries /\ Entry(h, ok, FALSE).hash = h
    BY <1>1, <1>2, EntryType
  <2>4. h.nonce = Len(chain) /\ UNCHANGED <<txs, jobs, wk, counter, mempool, health, api>>
    BY <1>2 DEF Mine, OnChainNonce
  <2> QED
    BY <1>2, <2>2, <2>3, <2>4
<1>3. ASSUME OtherMined
      PROVE  \E e \in Entries :
               /\ chain' = Append(chain, e)
               /\ e.hash # Other => e.hash \in mempool /\ e.hash.nonce = Len(chain)
               /\ UNCHANGED <<txs, jobs, wk, counter, mempool, health, api>>
  <2>1. chain' = Append(chain, Entry(Other, TRUE, TRUE))
    BY <1>3 DEF OtherMined, Entry
  <2>2. Entry(Other, TRUE, TRUE) \in Entries /\ Entry(Other, TRUE, TRUE).hash = Other
    BY EntryType
  <2>3. UNCHANGED <<txs, jobs, wk, counter, mempool, health, api>>
    BY <1>3 DEF OtherMined
  <2> QED
    BY <2>1, <2>2, <2>3
<1> QED
  BY <1>2, <1>3

\* A confirmation changes no hash and no outcome.
LEMMA Confirmed ==
    ASSUME Types, NEW i \in DOMAIN chain, Confirm(i)
    PROVE  /\ chain' \in Seq(Entries) /\ DOMAIN chain' = DOMAIN chain /\ Len(chain') = Len(chain)
           /\ \A j \in DOMAIN chain : /\ chain'[j].hash = chain[j].hash
                                      /\ chain'[j].ok = chain[j].ok
                                      /\ chain[j].conf => chain'[j].conf
           /\ UNCHANGED <<txs, jobs, wk, counter, mempool, health, api>>
<1>1. chain \in Seq(Entries)
  BY DEF Types, TypeOK
<1> DEFINE e == [chain[i] EXCEPT !.conf = TRUE]
<1>2. chain' = [chain EXCEPT ![i] = e]
  BY DEF Confirm
<1>3. chain[i] \in Entries
  BY <1>1
<1>4. e \in Entries /\ e.hash = chain[i].hash /\ e.ok = chain[i].ok /\ e.conf = TRUE
  BY <1>3 DEF Entries
<1> HIDE DEF e
<1>5. chain' \in Seq(Entries) /\ Len(chain') = Len(chain)
  BY <1>1, <1>2, <1>4, ExceptSeq
<1>6. \A j \in DOMAIN chain : chain'[j] = IF j = i THEN e ELSE chain[j]
  BY <1>2
<1>7. DOMAIN chain' = DOMAIN chain
  BY <1>2
<1>8. UNCHANGED <<txs, jobs, wk, counter, mempool, health, api>>
  BY DEF Confirm
<1> QED
  BY <1>4, <1>5, <1>6, <1>7, <1>8

\* The chain, other senders and the nonce-health job.
LEMMA TypesChain ==
    ASSUME Types,
           \/ \E h \in mempool : Mine(h)
           \/ \E i \in DOMAIN chain : Confirm(i)
           \/ OtherMined \/ NonceHealth
    PROVE  Types'
<1>1. CASE (\E h \in mempool : Mine(h)) \/ OtherMined
  <2>1. PICK e \in Entries :
             /\ chain' = Append(chain, e)
             /\ e.hash # Other => e.hash \in mempool /\ e.hash.nonce = Len(chain)
             /\ UNCHANGED <<txs, jobs, wk, counter, mempool, health, api>>
    BY <1>1, Grown
  <2>2. chain \in Seq(Entries)
    BY DEF Types, TypeOK
  <2>3. TypeOK'
    BY <2>1, <2>2 DEF Types, TypeOK
  <2>4. /\ DOMAIN chain' = DOMAIN chain \cup {Len(chain) + 1}
        /\ chain'[Len(chain) + 1] = e
        /\ \A i \in DOMAIN chain : chain'[i] = chain[i]
        /\ Len(chain) \in Nat
    BY <2>1, <2>2
  <2>5. ChainFromMempool'
    <3> SUFFICES ASSUME NEW i \in DOMAIN chain', chain'[i].hash # Other
                 PROVE  chain'[i].hash \in mempool' /\ chain'[i].hash.nonce = i - 1
      BY DEF ChainFromMempool
    <3>1. CASE i \in DOMAIN chain
      BY <2>1, <2>4, <3>1 DEF Types, ChainFromMempool
    <3>2. CASE i = Len(chain) + 1
      BY <2>1, <2>4, <3>2
    <3> QED
      BY <2>4, <3>1, <3>2
  <2> QED
    BY <2>1, <2>3, <2>5 DEF Types, Own, AllOf, Handles
<1>2. ASSUME NEW i \in DOMAIN chain, Confirm(i)
      PROVE  Types'
  <2>1. TypeOK'
    BY <1>2, Confirmed DEF Types, TypeOK
  <2>2. ChainFromMempool'
    BY <1>2, Confirmed DEF Types, ChainFromMempool
  <2> QED
    BY <1>2, <2>1, <2>2, Confirmed DEF Types, Own, AllOf, Handles
<1>3. CASE NonceHealth
  <2>1. counter' \in Nat
    <3>1. chain \in Seq(Entries) /\ counter \in Nat
      BY DEF Types, TypeOK
    <3> QED
      BY <1>3, <3>1 DEF NonceHealth, OnChainNonce
  <2>2. TypeOK'
    BY <1>3, <2>1 DEF Types, TypeOK, NonceHealth
  <2> QED
    BY <1>3, <2>2 DEF Types, NonceHealth, Own, AllOf, Handles, ChainFromMempool
<1> QED
  BY <1>1, <1>2, <1>3

\* The types hold initially and are kept by every step.
LEMMA TypesInductive ==
    /\ Init => Types
    /\ Types /\ [Next]_vars => Types'
<1>1. ASSUME Init
      PROVE  Types
  <2>1. TypeOK
    <3>1. <<>> \in Seq(Entries) /\ 0 \in Nat
      OBVIOUS
    <3> QED
      BY <1>1, <3>1, IdleType DEF Init, TypeOK
  <2>2. ChainFromMempool
    BY <1>1 DEF Init, ChainFromMempool
  <2>3. \A t \in Txs : Own(t, txs[t])
    <3>1. \A t : Own(t, NoTx)
      BY DEF Own, AllOf, NoTx
    <3> QED
      BY <1>1, <3>1 DEF Init
  <2>4. \A w \in Workers : Handles(wk[w])
    BY <1>1, IdleType DEF Init
  <2> QED
    BY <2>1, <2>2, <2>3, <2>4 DEF Types
<1>2. ASSUME Types, Next
      PROVE  Types'
  BY <1>2, TypesCreate, TypesTake, TypesPrepare, TypesSend, TypesUser, TypesStatus, TypesChain
     DEF Next
<1>3. ASSUME Types, UNCHANGED vars
      PROVE  Types'
  <2>1. UNCHANGED <<txs, jobs, wk, counter, mempool, chain, health, api>>
    BY <1>3 DEF vars
  <2> QED
    BY <1>3, <2>1 DEF Types, TypeOK, Own, AllOf, Handles, ChainFromMempool
<1> QED
  BY <1>1, <1>2, <1>3

\* Every handler of an EVM transaction keeps the types of the repository, the queues and its
\* own state; in particular prepare_transaction has stored a nonce before it signs.
THEOREM TypeCorrect == Spec => []TypeOK
<1>1. Types => TypeOK
  BY DEF Types
<1> QED
  BY <1>1, TypesInductive, PTL DEF Spec

-----------------------------------------------------------------------------
(* The steps of a handler by what they write.                              *)

Writes(w, r) == txs' = [txs EXCEPT ![wk[w].tx] = r]

\* Record r is cur with status st, unless the guard of partial_update keeps cur's.
StatusOnly(cur, r, st) ==
    /\ r \in Transactions /\ r.data = cur.data /\ r.hashes = cur.hashes
    /\ r.status = IF FinalGuard /\ is_final_state(cur.status) THEN cur.status ELSE st

\* Worker w has read, or seen, that nothing was signed yet.
Unsent(w) ==
    \/ wk[w].snap.status = "Pending"
    \/ wk[w].snap.status = "Sent" /\ wk[w].snap.data.nonce = None
    \/ At(w, "act") /\ wk[w].seen = "Pending"

\* The statuses that a handler may store by themselves.
Justified(w, st) ==
    \/ st \in {"Failed", "Canceled"} /\ Unsent(w)
    \/ st = "Failed" /\ At(w, "nonce")
    \/ st = "Submitted" /\ (At(w, "submitted") \/ At(w, "kept"))
    \/ st = wk[w].seen /\ At(w, "act") /\ wk[w].snap.status # st

Leaves(w) == Done(w) /\ UNCHANGED <<txs, mempool>>

\* A nonce recovery of worker w found none of the hashes that it read on the chain.
Searched(w) ==
    LET s == wk[w].snap
    IN  /\ At(w, "status") /\ wk[w].kind = "recover"
        /\ s.data.hash # None => ~Mined(s.data.hash)
        /\ "hashrpc" \in Faults \/ (Len(s.hashes) > 1 => HistoricalMined(s) = {})

Proceeds(w) ==
    /\ \E p \in {"sign", "check", "nonce"} :
         /\ Goto(w, p)
         /\ p = "sign" => /\ At(w, "request") /\ wk[w].snap.status = "Pending"
                          /\ wk[w].snap.data.nonce # None
         /\ p = "nonce" => Searched(w)
    /\ UNCHANGED <<txs, mempool>>

Allocates(w) ==
    /\ At(w, "request") /\ wk[w].snap.status = "Pending" /\ wk[w].snap.data.nonce = None
    /\ counter <= MaxNonce
    /\ wk' = [wk EXCEPT ![w].nonce = counter, ![w].pc = "presign"]
    /\ UNCHANGED <<txs, mempool>>

SetsStatus(w) ==
    /\ Done(w) /\ UNCHANGED mempool
    /\ \E st, r : Justified(w, st) /\ StatusOnly(txs[wk[w].tx], r, st) /\ Writes(w, r)

MakesNoop(w) ==
    /\ Done(w) /\ UNCHANGED mempool
    /\ \/ wk[w].snap.status \in {"Sent", "Submitted"}
       \/ At(w, "cancel") /\ wk[w].snap.status # "Pending"
    /\ \E c \in BOOLEAN : Writes(w, NoopUpdate(txs[wk[w].tx], wk[w].snap, c))

Resends(w) ==
    /\ Done(w) /\ UNCHANGED mempool /\ At(w, "resent")
    /\ Writes(w, WithStatus(txs[wk[w].tx], Resent(txs[wk[w].tx], wk[w].snap, wk[w].sig)))

Replaces(w) ==
    /\ At(w, "replace") /\ Done(w) /\ UNCHANGED mempool /\ wk[w].snap.data.nonce # None
    /\ Writes(w, Replaced(wk[w].tx, txs[wk[w].tx], wk[w].snap.data))

Corrects(w) ==
    /\ Done(w) /\ UNCHANGED mempool
    /\ \E h \in HistoricalMined(wk[w].snap) :
         Writes(w, Corrected(txs[wk[w].tx], wk[w].snap, h))

\* A patch of the status alone is one of StatusOnly.
LEMMA StatusOnlyWritten ==
    ASSUME NEW t \in Txs, NEW cur \in Transactions, Own(t, cur),
           NEW st \in Statuses \cup {"Absent"}
    PROVE  StatusOnly(cur, WithStatus(cur, [cur EXCEPT !.status = st]), st)
BY StatusWritten DEF StatusOnly

\* Setting a status.
LEMMA Sets ==
    ASSUME Types, NEW w \in Workers, ~At(w, "idle"), Done(w), UNCHANGED mempool,
           NEW st \in Statuses \cup {"Absent"}, Justified(w, st),
           Writes(w, WithStatus(txs[wk[w].tx], [txs[wk[w].tx] EXCEPT !.status = st]))
    PROVE  SetsStatus(w)
<1> DEFINE t == wk[w].tx
<1>1. t \in Txs /\ txs[t] \in Transactions /\ Own(t, txs[t])
  BY WorkerType, TypesRest
<1>2. StatusOnly(txs[t], WithStatus(txs[t], [txs[t] EXCEPT !.status = st]), st)
  BY <1>1, StatusOnlyWritten
<1> QED
  BY <1>2 DEF SetsStatus

\* The steps of prepare_transaction.
LEMMA PrepareShapes ==
    ASSUME Types, NEW w \in Workers, Prepare(w)
    PROVE  /\ ~At(w, "idle") /\ UNCHANGED <<chain, api>>
           /\ Leaves(w) \/ Proceeds(w) \/ Allocates(w) \/ SetsStatus(w) \/ PreparePresign(w)
              \/ PrepareSign(w)
<1>1. ~At(w, "idle") /\ UNCHANGED <<chain, api>>
  BY DEF Prepare, PrepareSkip, PrepareError, PrepareReject, PrepareNonce, PreparePresign,
         PrepareSign, At
<1>2. CASE PrepareSkip(w) \/ PrepareError(w)
  BY <1>1, <1>2 DEF PrepareSkip, PrepareError, Leaves
<1>3. CASE PrepareReject(w)
  <2>1. "Failed" \in Statuses \cup {"Absent"} /\ Justified(w, "Failed")
    BY <1>3 DEF Statuses, Finals, Justified, Unsent, PrepareReject
  <2>2. /\ Done(w) /\ UNCHANGED mempool
        /\ Writes(w, WithStatus(txs[wk[w].tx], [txs[wk[w].tx] EXCEPT !.status = "Failed"]))
    BY <1>3 DEF PrepareReject, Writes
  <2> QED
    BY <1>1, <2>1, <2>2, Sets
<1>4. CASE PrepareNonce(w)
  BY <1>1, <1>4 DEF PrepareNonce, Proceeds, Allocates
<1> QED
  BY <1>1, <1>2, <1>3, <1>4 DEF Prepare

\* The steps of submit_transaction and resubmit_transaction.
LEMMA SendShapes ==
    ASSUME Types, NEW w \in Workers, Send(w)
    PROVE  /\ ~At(w, "idle") /\ UNCHANGED <<chain, api>>
           /\ Leaves(w) \/ SetsStatus(w) \/ Submit(w) \/ Resubmit(w) \/ Resends(w)
<1>1. ~At(w, "idle") /\ UNCHANGED <<chain, api>>
  BY DEF Send, SubmitSkip, Submit, SubmitUpdate, ResubmitSkip, Resubmit, ResubmitUpdate, At
<1> DEFINE t == wk[w].tx
<1>2. t \in Txs /\ txs[t] \in Transactions /\ Own(t, txs[t])
  BY <1>1, WorkerType, TypesRest
<1>3. CASE SubmitSkip(w) \/ ResubmitSkip(w)
  BY <1>1, <1>3 DEF SubmitSkip, ResubmitSkip, Leaves
<1>4. CASE SubmitUpdate(w)
  <2>1. CASE UNCHANGED txs
    BY <1>1, <1>4, <2>1 DEF SubmitUpdate, Leaves
  <2>2. CASE Writes(w, WithStatus(txs[t], SentNow(txs[t])))
    <3> DEFINE r == WithStatus(txs[t], SentNow(txs[t]))
    <3>1. StatusOnly(txs[t], r, "Submitted")
      BY <1>2, SentWritten DEF StatusOnly, WithStatus
    <3>2. Justified(w, "Submitted") /\ Done(w) /\ UNCHANGED mempool
      BY <1>4 DEF SubmitUpdate, Justified
    <3> QED
      BY <1>1, <2>2, <3>1, <3>2 DEF SetsStatus
  <2> QED
    BY <1>4, <2>1, <2>2 DEF SubmitUpdate, Writes, SentNow
<1>5. CASE ResubmitUpdate(w)
  <2>1. Done(w) /\ UNCHANGED mempool
    BY <1>5 DEF ResubmitUpdate
  <2>2. CASE UNCHANGED txs
    BY <1>1, <2>1, <2>2 DEF Leaves
  <2>3. CASE txs' # txs /\ At(w, "resent")
    BY <1>1, <1>5, <2>1, <2>3 DEF ResubmitUpdate, Resends, Writes
  <2>4. CASE txs' # txs /\ At(w, "kept")
    <3>1. Writes(w, WithStatus(txs[t], [txs[t] EXCEPT !.status = "Submitted"]))
      BY <1>5, <2>4 DEF ResubmitUpdate, Writes, At
    <3>2. Justified(w, "Submitted") /\ "Submitted" \in Statuses \cup {"Absent"}
      BY <2>4 DEF Justified, Statuses
    <3> QED
      BY <1>1, <2>1, <3>1, <3>2, Sets
  <2> QED
    BY <1>5, <2>2, <2>3, <2>4 DEF ResubmitUpdate
<1> QED
  BY <1>1, <1>3, <1>4, <1>5 DEF Send

\* The steps of cancel_transaction and replace_transaction.
LEMMA UserShapes ==
    ASSUME Types, NEW w \in Workers, UserOp(w)
    PROVE  /\ ~At(w, "idle") /\ UNCHANGED <<chain, api>>
           /\ Leaves(w) \/ SetsStatus(w) \/ MakesNoop(w) \/ Replaces(w)
<1> DEFINE t == wk[w].tx
           s == wk[w].snap
<1>1. ~At(w, "idle") /\ UNCHANGED <<chain, api>> /\ Done(w) /\ UNCHANGED mempool
  BY DEF UserOp, Cancel, Replace, At
<1>2. CASE Cancel(w) /\ s.status = "Pending"
  <2>1. Writes(w, WithStatus(txs[t], [txs[t] EXCEPT !.status = "Canceled"]))
    BY <1>2 DEF Cancel, Writes
  <2>2. Justified(w, "Canceled") /\ "Canceled" \in Statuses \cup {"Absent"}
    BY <1>2 DEF Justified, Unsent, Statuses, Finals
  <2> QED
    BY <1>1, <2>1, <2>2, Sets
<1>3. CASE Cancel(w) /\ s.status # "Pending"
  <2>1. Writes(w, NoopUpdate(txs[t], s, TRUE)) /\ At(w, "cancel")
    BY <1>3 DEF Cancel, Writes
  <2> QED
    BY <1>1, <1>3, <2>1 DEF MakesNoop
<1>4. CASE Replace(w) /\ s.data.nonce # None /\ CanBump(s.data)
  <2>1. Writes(w, Replaced(t, txs[t], s.data)) /\ At(w, "replace")
    BY <1>4 DEF Replace, Writes, Replaced, ReplacedData
  <2> QED
    BY <1>1, <1>4, <2>1 DEF Replaces
<1>5. CASE Replace(w) /\ ~(s.data.nonce # None /\ CanBump(s.data))
  BY <1>1, <1>5 DEF Replace, Leaves
<1> QED
  BY <1>1, <1>2, <1>3, <1>4, <1>5 DEF UserOp

\* The steps of a status check.
LEMMA StatusShapes ==
    ASSUME Types, NEW w \in Workers, Status(w)
    PROVE  /\ ~At(w, "idle") /\ UNCHANGED <<chain, api>>
           /\ Leaves(w) \/ Proceeds(w) \/ SetsStatus(w) \/ MakesNoop(w) \/ Corrects(w)
              \/ Check(w)
<1> DEFINE t == wk[w].tx
           s == wk[w].snap
           failed == WithStatus(txs[t], [txs[t] EXCEPT !.status = "Failed"])
<1>1. At(w, "status") \/ At(w, "nonce") \/ At(w, "check") \/ At(w, "act")
  BY DEF Status, StatusFinal, CircuitBreaker, ReconcileHashes, ReconcileNonce, Check, CheckError,
         ActUpdate, ActPending, ActNoop, ActGap, ActResubmit, Checking, Stuck
<1>2. ~At(w, "idle") /\ UNCHANGED <<chain, api>>
  BY <1>1 DEF Status, StatusFinal, CircuitBreaker, ReconcileHashes, ReconcileNonce, Check,
         CheckError, ActUpdate, ActPending, ActNoop, ActGap, ActResubmit, At
<1>3. ASSUME Done(w), UNCHANGED mempool, Writes(w, failed), Unsent(w) \/ At(w, "nonce")
      PROVE  SetsStatus(w)
  <2>1. Justified(w, "Failed") /\ "Failed" \in Statuses \cup {"Absent"}
    BY <1>3 DEF Justified, Statuses, Finals
  <2> QED
    BY <1>2, <1>3, <2>1, Sets
<1>4. \A r, j : StatusEnd(w, r) \/ StatusEndWith(w, r, j) => Done(w)
  BY DEF StatusEnd, StatusEndWith
<1>5. CASE StatusFinal(w) \/ CheckError(w)
  BY <1>2, <1>4, <1>5 DEF StatusFinal, CheckError, Leaves
<1>6. CASE CircuitBreaker(w)
  <2>1. /\ Done(w) /\ UNCHANGED mempool
        /\ \/ Writes(w, failed) /\ Unsent(w)
           \/ s.status \in {"Sent", "Submitted"} /\ Writes(w, NoopUpdate(txs[t], s, FALSE))
           \/ UNCHANGED txs
    BY <1>4, <1>6, BreakerEffect DEF Writes, Unsent
  <2> HIDE DEF failed
  <2> QED
    BY <1>2, <1>3, <2>1 DEF MakesNoop, Leaves
<1>7. CASE ReconcileHashes(w)
  BY <1>2, <1>4, <1>7 DEF ReconcileHashes, Proceeds, Searched, Corrects, Writes
<1>8. CASE ReconcileNonce(w)
  BY <1>2, <1>3, <1>4, <1>8 DEF ReconcileNonce, Proceeds, Writes
<1>9. CASE ActUpdate(w)
  <2>1. Done(w) /\ UNCHANGED mempool /\ At(w, "act")
    BY <1>4, <1>9 DEF ActUpdate
  <2>2. CASE s.status = wk[w].seen
    BY <1>2, <1>9, <2>1, <2>2 DEF ActUpdate, Leaves
  <2>3. CASE s.status # wk[w].seen
    <3>1. Writes(w, WithStatus(txs[t], [txs[t] EXCEPT !.status = wk[w].seen]))
      BY <1>9, <2>3 DEF ActUpdate, Writes
    <3>2. Justified(w, wk[w].seen) /\ wk[w].seen \in Statuses \cup {"Absent"}
      BY <2>1, <2>3, WorkerType DEF Justified
    <3> QED
      BY <1>2, <2>1, <3>1, <3>2, Sets
  <2> QED
    BY <2>2, <2>3
<1>10. CASE ActPending(w)
  BY <1>2, <1>3, <1>4, <1>10 DEF ActPending, Leaves, Writes, Unsent
<1>11. ASSUME NEW st \in {"Sent", "Submitted"},
              ActNoop(w, st) \/ ActGap(w, st) \/ ActResubmit(w, st)
       PROVE  Leaves(w) \/ MakesNoop(w)
  <2>1. CASE ActNoop(w, st)
    <3>1. Writes(w, NoopUpdate(txs[t], s, FALSE)) /\ s.status = st /\ Done(w) /\ UNCHANGED mempool
      BY <1>4, <2>1 DEF ActNoop, Stuck, Writes
    <3> QED
      BY <3>1 DEF MakesNoop
  <2>2. CASE ActGap(w, st) \/ ActResubmit(w, st)
    BY <1>4, <2>2 DEF ActGap, ActResubmit, Leaves
  <2> QED
    BY <1>11, <2>1, <2>2
<1> HIDE DEF failed
<1> QED
  BY <1>2, <1>5, <1>6, <1>7, <1>8, <1>9, <1>10, <1>11 DEF Status

\* The steps of a resubmission whose broadcast was accepted.
LEMMA ResentShapes ==
    ASSUME NEW w \in Workers, At(w, "resent"), Prepare(w) \/ Send(w) \/ UserOp(w) \/ Status(w)
    PROVE  Leaves(w) \/ Resends(w)
<1>1. ~Prepare(w) /\ ~UserOp(w)
  BY DEF Prepare, PrepareSkip, PrepareError, PrepareReject, PrepareNonce, PreparePresign,
         PrepareSign, UserOp, Cancel, Replace, At
<1>2. ~Status(w)
  BY DEF Status, StatusFinal, CircuitBreaker, ReconcileHashes, ReconcileNonce, Check,
         CheckError, ActUpdate, ActPending, ActNoop, ActGap, ActResubmit, Checking, Stuck, At
<1>3. ResubmitUpdate(w)
  BY <1>1, <1>2 DEF Send, SubmitSkip, Submit, SubmitUpdate, ResubmitSkip, Resubmit, At
<1> QED
  BY <1>3 DEF ResubmitUpdate, Resends, Leaves, Writes

\* The steps that one handler takes on its transaction.
HandlerStep(w) ==
    /\ ~At(w, "idle") /\ UNCHANGED chain
    /\ \/ Leaves(w) \/ Proceeds(w) \/ Allocates(w) \/ SetsStatus(w)
       \/ PreparePresign(w) \/ PrepareSign(w) \/ Submit(w) \/ Resubmit(w)
       \/ Resends(w) \/ MakesNoop(w) \/ Replaces(w) \/ Corrects(w) \/ Check(w)
    /\ At(w, "resent") => Leaves(w) \/ Resends(w)

\* Every step of the system by what it writes.
LEMMA Shapes ==
    ASSUME Types, Next
    PROVE  \/ \E t \in Txs : CreateTransaction(t)
           \/ \E w \in Workers :
                \/ \E j \in jobs : Take(w, j)
                \/ \E op \in ApiOps, t \in Txs : StartApi(w, op, t)
                \/ HandlerStep(w)
           \/ (\E h \in mempool : Mine(h)) \/ OtherMined
           \/ \E i \in DOMAIN chain : Confirm(i)
           \/ UNCHANGED <<txs, wk, mempool, chain>>
<1>1. ASSUME NEW w \in Workers, Crash(w)
      PROVE  ~At(w, "idle") /\ UNCHANGED chain /\ Leaves(w)
  BY <1>1 DEF Crash, Leaves
<1>2. CASE NonceHealth
  BY <1>2 DEF NonceHealth
<1>3. ASSUME NEW w \in Workers, At(w, "resent"), Prepare(w) \/ Send(w) \/ UserOp(w) \/ Status(w)
      PROVE  Leaves(w) \/ Resends(w)
  BY <1>3, ResentShapes
<1> QED
  BY <1>1, <1>2, <1>3, PrepareShapes, SendShapes, UserShapes, StatusShapes
     DEF Next, HandlerStep

-----------------------------------------------------------------------------
(* Final statuses, and what a status reports.                              *)

\* Why worker w may report status st: it tells nothing, it was reported before, or the
\* chain has a receipt of one of the hashes.
Reports(w, st) ==
    \/ st \notin {"Mined", "Confirmed"}
    \/ st \in {wk[w].snap.status, wk[w].seen, txs[wk[w].tx].status}
    \/ st = "Mined" /\ HistoricalMined(wk[w].snap) # {}
    \/ /\ wk[w].snap.data.hash \in Hashes /\ Mined(wk[w].snap.data.hash)
       /\ st = ReceiptStatus(wk[w].snap)

\* Worker w stores no status that forgets the transaction, unless that is what it saw.
Remembers(w, st) ==
    st = "Absent" => txs[wk[w].tx].status = "Absent" \/ (At(w, "act") /\ wk[w].seen = "Absent")

\* Worker w stores record r of its transaction and goes on as k.
Steps(w, r, k) ==
    /\ r \in Transactions /\ k \in WorkerStates
    /\ txs' = [txs EXCEPT ![wk[w].tx] = r] /\ wk' = [wk EXCEPT ![w] = k]

\* A failure or a cancellation that is not stored yet is stored by itself.
Tells(w, st) ==
    st \in {"Failed", "Canceled"} => st = txs[wk[w].tx].status \/ SetsStatus(w)

\* What that does to the status, and which steps lead to a verdict.
StatusKept(w, r, k) ==
    /\ Tells(w, r.status)
    /\ k.pc = "act" => Check(w)
    /\ k.pc = "nonce" => Proceeds(w)
    /\ FinalGuard /\ is_final_state(txs[wk[w].tx].status) => r.status = txs[wk[w].tx].status
    /\ Reports(w, r.status) /\ Remembers(w, r.status)
    /\ k.pc = "act" => k.seen # "Absent"
    /\ \/ k = Idle
       \/ /\ k.tx = wk[w].tx /\ Reports(w, k.seen)
          /\ k.snap.status \in {wk[w].snap.status, r.status}

\* A handler that does not write.
LEMMA NoWrite ==
    ASSUME Types, NEW w \in Workers, ~At(w, "idle"), UNCHANGED txs,
           NEW k \in WorkerStates, wk' = [wk EXCEPT ![w] = k],
           \/ k = Idle
           \/ /\ k.tx = wk[w].tx /\ k.seen = wk[w].seen /\ k.snap = wk[w].snap /\ k.pc # "act"
              /\ k.pc = "nonce" => Proceeds(w)
    PROVE  Steps(w, txs[wk[w].tx], k) /\ StatusKept(w, txs[wk[w].tx], k)
<1> DEFINE t == wk[w].tx
<1>1. t \in Txs /\ txs[t] \in Transactions /\ txs \in [Txs -> Transactions]
  BY WorkerType DEF Types, TypeOK
<1>2. txs' = [txs EXCEPT ![t] = txs[t]]
  BY <1>1
<1> QED
  BY <1>1, <1>2, IdleType DEF Steps, StatusKept, Reports, Remembers, Tells

\* A handler that writes and ends.
LEMMA LastWrite ==
    ASSUME Types, NEW w \in Workers, ~At(w, "idle"), Done(w),
           NEW r \in Transactions, Writes(w, r),
           FinalGuard /\ is_final_state(txs[wk[w].tx].status) => r.status = txs[wk[w].tx].status,
           Reports(w, r.status), Remembers(w, r.status), Tells(w, r.status)
    PROVE  Steps(w, r, Idle) /\ StatusKept(w, r, Idle)
BY IdleType DEF Steps, StatusKept, Writes, Done

\* Worker k at p.
Moved(k, p) == [k EXCEPT !.pc = p]

\* What Goto does.
LEMMA GotoEffect ==
    ASSUME Types, NEW w \in Workers, NEW p \in PCs, Goto(w, p)
    PROVE  /\ wk' = [wk EXCEPT ![w] = Moved(wk[w], p)] /\ Moved(wk[w], p) \in WorkerStates
           /\ Moved(wk[w], p).pc = p
           /\ Moved(wk[w], p).tx = wk[w].tx /\ Moved(wk[w], p).kind = wk[w].kind
           /\ Moved(wk[w], p).seen = wk[w].seen /\ Moved(wk[w], p).snap = wk[w].snap
           /\ Moved(wk[w], p).sig = wk[w].sig /\ Moved(wk[w], p).nonce = wk[w].nonce
<1>1. wk \in [Workers -> WorkerStates] /\ wk[w] \in WorkerStates
  BY DEF Types, TypeOK
<1>2. wk' = [wk EXCEPT ![w] = Moved(wk[w], p)]
  BY <1>1 DEF Goto, Moved
<1> QED
  BY <1>1, <1>2 DEF Moved, WorkerStates

\* Worker k with nonce n to be stored, and with record r to be signed.
Allocated(k, n) == [k EXCEPT !.nonce = n, !.pc = "presign"]
ToSign(k, r) == [k EXCEPT !.snap = r, !.pc = "sign"]

\* What the allocation of a nonce does.
LEMMA AllocEffect ==
    ASSUME Types, NEW w \in Workers, Allocates(w)
    PROVE  LET k == Allocated(wk[w], counter)
           IN  /\ k \in WorkerStates /\ wk' = [wk EXCEPT ![w] = k] /\ UNCHANGED <<txs, mempool>>
               /\ k.pc = "presign" /\ k.nonce = counter /\ k.kind = wk[w].kind /\ k.tx = wk[w].tx
               /\ k.snap = wk[w].snap /\ k.sig = wk[w].sig /\ k.seen = wk[w].seen
               /\ counter \in Nonces
<1>1. wk \in [Workers -> WorkerStates] /\ wk[w] \in WorkerStates /\ counter \in Nat
  BY DEF Types, TypeOK
<1>2. counter \in Nonces
  BY <1>1, ConstantFacts DEF Allocates, Nonces
<1>3. wk' = [wk EXCEPT ![w] = Allocated(wk[w], counter)] /\ UNCHANGED <<txs, mempool>>
  BY <1>1 DEF Allocates, Allocated
<1> QED
  BY <1>1, <1>2, <1>3 DEF Allocated, WorkerStates, PCs

\* What storing the nonce does.
LEMMA PresignEffect ==
    ASSUME Types, NEW w \in Workers, PreparePresign(w)
    PROVE  LET r == Presigned(txs[wk[w].tx], wk[w].snap, wk[w].nonce)
               k == ToSign(wk[w], r)
           IN  /\ r \in Transactions /\ Writes(w, r) /\ UNCHANGED mempool
               /\ r.hashes = txs[wk[w].tx].hashes /\ r.status = txs[wk[w].tx].status
               /\ r.data.nonce = wk[w].nonce /\ wk[w].nonce \in Nonces
               /\ r.data.raw = wk[w].snap.data.raw /\ r.data.hash = wk[w].snap.data.hash
               /\ k \in WorkerStates /\ wk' = [wk EXCEPT ![w] = k]
               /\ k.pc = "sign" /\ k.kind = wk[w].kind /\ k.tx = wk[w].tx /\ k.snap = r
               /\ k.sig = wk[w].sig /\ k.seen = wk[w].seen
<1> DEFINE t == wk[w].tx
           r == Presigned(txs[t], wk[w].snap, wk[w].nonce)
           k == ToSign(wk[w], r)
<1>1. ~At(w, "idle") /\ wk[w].nonce \in Nonces
  BY WorkerType DEF PreparePresign, At, Handles
<1>2. /\ t \in Txs /\ txs[t] \in Transactions /\ wk[w].snap \in Transactions
      /\ wk[w] \in WorkerStates
      /\ Own(t, txs[t]) /\ Own(t, wk[w].snap)
  BY <1>1, WorkerType, TypesRest
<1>3. /\ r \in Transactions /\ r.hashes = txs[t].hashes /\ r.status = txs[t].status
      /\ r.data.nonce = wk[w].nonce
      /\ r.data.raw = wk[w].snap.data.raw /\ r.data.hash = wk[w].snap.data.hash
  <2> DEFINE s == wk[w].snap
             n == wk[w].nonce
  <2>1. s \in Transactions /\ Own(t, s) /\ n \in Nonces /\ r = Presigned(txs[t], s, n)
    BY <1>1, <1>2
  <2> HIDE DEF s, n, t, r
  <2>2. PresignedOf(t, txs[t], s, n, r)
    BY <1>2, <2>1, PresignWritten
  <2> QED
    BY <2>2 DEF s, n, PresignedOf
<1>4. Writes(w, r) /\ wk' = [wk EXCEPT ![w] = k] /\ UNCHANGED mempool
  BY DEF PreparePresign, Presigned, ToSign, Writes
<1> HIDE DEF r
<1>5. /\ k \in WorkerStates /\ k.pc = "sign" /\ k.kind = wk[w].kind /\ k.tx = t /\ k.snap = r
      /\ k.sig = wk[w].sig /\ k.seen = wk[w].seen
  BY <1>2, <1>3 DEF ToSign, WorkerStates, PCs
<1> HIDE DEF k
<1> QED
  BY <1>1, <1>3, <1>4, <1>5 DEF r, k

\* What check_transaction_status means for statuses.
LEMMA CheckReports ==
    ASSUME Types, NEW w \in Workers, Check(w)
    PROVE  \E r, k : Steps(w, r, k) /\ StatusKept(w, r, k)
<1> DEFINE t == wk[w].tx
           s == wk[w].snap
<1>1. PICK st \in Statuses \cup {"Absent"}, c \in Transactions :
         wk' = [wk EXCEPT ![w] = Seen(wk[w], st, c)] /\ Saw(t, s, st, c)
  BY CheckEffect
<1> DEFINE k == Seen(wk[w], st, c)
<1>2. /\ t \in Txs /\ txs[t] \in Transactions /\ s \in Transactions
      /\ Own(t, txs[t]) /\ Own(t, s) /\ txs \in [Txs -> Transactions]
  BY StatusWorker, CheckEffect DEF Types, TypeOK
<1>3. k \in WorkerStates /\ k.seen = st /\ k.snap = c /\ k.tx = t /\ k.pc = "act"
  <2>1. wk[w] \in WorkerStates
    BY WorkerType
  <2> QED
    BY <2>1, SeenType
<1>4. wk' = [wk EXCEPT ![w] = k]
  BY <1>1
<1> HIDE DEF k
<1>5. CASE UNCHANGED txs /\ Reports(w, st) /\ c \in {s, txs[t]} /\ st # "Absent"
  <2>1. Steps(w, txs[t], k)
    BY <1>2, <1>3, <1>4, <1>5 DEF Steps
  <2>2. StatusKept(w, txs[t], k)
    BY <1>3, <1>5 DEF StatusKept, Reports, Remembers, Tells
  <2> QED
    BY <2>1, <2>2
<1>6. ASSUME NEW h \in HistoricalMined(s), txs' = [txs EXCEPT ![t] = Corrected(txs[t], s, h)],
             st = Corrected(txs[t], s, h).status, c \in {s, Corrected(txs[t], s, h)}
      PROVE  \E r, l : Steps(w, r, l) /\ StatusKept(w, r, l)
  <2> DEFINE r == Corrected(txs[t], s, h)
  <2>1. h \in Hashes /\ h.tx = t
    BY <1>2, <1>6, HistoryFacts
  <2>2. /\ r \in Transactions
        /\ IF FinalGuard /\ is_final_state(txs[t].status) THEN r = txs[t] ELSE r.status = "Mined"
    <3>1. CorrectedOf(t, txs[t], s, h, r)
      BY <1>2, <2>1, CorrectedWritten
    <3> HIDE DEF r, t, s
    <3> QED
      BY <3>1 DEF CorrectedOf
  <2>3. txs' = [txs EXCEPT ![t] = r] /\ st = r.status /\ c \in {s, r}
    BY <1>6
  <2> HIDE DEF r
  <2>4. Steps(w, r, k)
    BY <1>3, <1>4, <2>2, <2>3 DEF Steps
  <2>5. StatusKept(w, r, k)
    <3>1. r.status # "Absent" /\ Reports(w, r.status)
      BY <1>6, <2>2 DEF Reports, is_final_state, Finals
    <3> QED
      BY <1>3, <2>2, <2>3, <3>1 DEF StatusKept, Remembers, Tells
  <2> QED
    BY <2>4, <2>5
<1>7. ReceiptStatus(s) # "Absent"
  BY DEF ReceiptStatus
<1>8. \/ UNCHANGED txs /\ Reports(w, st) /\ c \in {s, txs[t]} /\ st # "Absent"
      \/ \E h \in HistoricalMined(s) :
           /\ txs' = [txs EXCEPT ![t] = Corrected(txs[t], s, h)]
           /\ st = Corrected(txs[t], s, h).status /\ c \in {s, Corrected(txs[t], s, h)}
  BY <1>1, <1>7 DEF Saw, Reports
<1> QED
  BY <1>5, <1>6, <1>8

\* No step of a handler leaves a final status while the guard of partial_update is there, and
\* none reports what the chain does not bear out.
LEMMA StatusEffect ==
    ASSUME Types, NEW w \in Workers, HandlerStep(w)
    PROVE  \E r, k : Steps(w, r, k) /\ StatusKept(w, r, k)
<1> DEFINE t == wk[w].tx
           s == wk[w].snap
<1>1. /\ ~At(w, "idle") /\ t \in Txs /\ txs[t] \in Transactions /\ s \in Transactions
      /\ Own(t, txs[t]) /\ Own(t, s)
  BY WorkerType, TypesRest DEF HandlerStep
<1>2. CASE Leaves(w)
  BY <1>1, <1>2, NoWrite, IdleType DEF Leaves, Done
<1>3. CASE Proceeds(w)
  <2>1. PICK p \in PCs : Goto(w, p) /\ p # "act"
    BY <1>3 DEF Proceeds, PCs
  <2> QED
    BY <1>1, <1>3, <2>1, NoWrite, GotoEffect DEF Proceeds
<1>4. CASE Allocates(w)
  BY <1>1, <1>4, NoWrite, AllocEffect
<1>5. CASE SetsStatus(w)
  <2>1. PICK st, r : Justified(w, st) /\ StatusOnly(txs[t], r, st) /\ Writes(w, r)
    BY <1>5 DEF SetsStatus
  <2>2. Reports(w, r.status) /\ Remembers(w, r.status) /\ Tells(w, r.status)
    BY <1>5, <2>1 DEF Justified, StatusOnly, Reports, Remembers, Tells
  <2> QED
    BY <1>1, <1>5, <2>1, <2>2, LastWrite DEF SetsStatus, StatusOnly
<1>6. CASE PreparePresign(w)
  <2> DEFINE r == Presigned(txs[t], s, wk[w].nonce)
             k == ToSign(wk[w], r)
  <2>1. /\ r \in Transactions /\ Writes(w, r) /\ r.status = txs[t].status /\ k \in WorkerStates
        /\ wk' = [wk EXCEPT ![w] = k] /\ k.tx = t /\ k.snap = r /\ k.seen = wk[w].seen
        /\ k.pc = "sign"
    BY <1>6, PresignEffect
  <2> HIDE DEF r, k
  <2>2. Steps(w, r, k) /\ StatusKept(w, r, k)
    BY <2>1 DEF Steps, StatusKept, Reports, Remembers, Tells, Writes
  <2> QED
    BY <2>2
<1>7. CASE PrepareSign(w)
  <2>1. PICK new \in Transactions :
          /\ new.status = "Sent"
          /\ txs' = [txs EXCEPT ![t] = WithStatus(txs[t], new)]
    BY <1>7, SignWritten
  <2> DEFINE r == WithStatus(txs[t], new)
  <2>2. /\ r \in Transactions
        /\ r.status = IF FinalGuard /\ is_final_state(txs[t].status) THEN txs[t].status ELSE "Sent"
    BY <1>1, <2>1 DEF WithStatus
  <2>3. Writes(w, r) /\ Done(w)
    BY <1>7, <2>1 DEF Writes, PrepareSign
  <2> HIDE DEF r
  <2>4. Reports(w, r.status) /\ Remembers(w, r.status) /\ Tells(w, r.status)
    BY <2>2 DEF Reports, Remembers, Tells
  <2> QED
    BY <1>1, <2>2, <2>3, <2>4, LastWrite
<1>8. CASE Submit(w)
  <2>1. UNCHANGED txs /\ (Goto(w, "submitted") \/ Done(w)) /\ "submitted" \in PCs
    BY <1>8, SubmitEffect DEF PCs
  <2>2. CASE Goto(w, "submitted")
    BY <1>1, <2>1, <2>2, NoWrite, GotoEffect
  <2>3. CASE Done(w)
    BY <1>1, <2>1, <2>3, NoWrite, IdleType DEF Done
  <2> QED
    BY <2>1, <2>2, <2>3
<1>9. CASE Resubmit(w)
  <2>1. PICK k \in WorkerStates :
          /\ wk' = [wk EXCEPT ![w] = k] /\ UNCHANGED txs
          /\ \/ k = Idle
             \/ /\ k.tx = wk[w].tx /\ k.snap = wk[w].snap /\ k.seen = wk[w].seen
                /\ k.pc \notin {"act", "nonce"}
    BY <1>9, ResubmitEffect
  <2> QED
    BY <1>1, <2>1, NoWrite
<1>10. CASE Resends(w)
  <2> DEFINE new == Resent(txs[t], s, wk[w].sig)
             r == WithStatus(txs[t], new)
  <2>1. wk[w].sig \in Hashes /\ wk[w].sig.tx = t
    BY <1>10, WorkerType DEF Resends, Handles, At
  <2>2. new \in Transactions /\ new.status = "Submitted"
    BY <1>1, <2>1, ResentWritten
  <2> HIDE DEF new
  <2>3. /\ r \in Transactions
        /\ r.status = IF FinalGuard /\ is_final_state(txs[t].status) THEN txs[t].status
                      ELSE "Submitted"
    BY <1>1, <2>2 DEF WithStatus
  <2>4. Writes(w, r) /\ Done(w)
    BY <1>10 DEF Resends, new
  <2> HIDE DEF r
  <2>5. Reports(w, r.status) /\ Remembers(w, r.status) /\ Tells(w, r.status)
    BY <2>3 DEF Reports, Remembers, Tells
  <2> QED
    BY <1>1, <2>3, <2>4, <2>5, LastWrite
<1>11. CASE MakesNoop(w)
  <2>1. PICK c \in BOOLEAN : Writes(w, NoopUpdate(txs[t], s, c))
    BY <1>11 DEF MakesNoop
  <2> DEFINE r == NoopUpdate(txs[t], s, c)
  <2>2. r \in Transactions /\ r.status = txs[t].status
    <3>1. NoopOf(t, txs[t], s, r)
      BY <1>1, NoopWritten
    <3> HIDE DEF r, t, s
    <3> QED
      BY <3>1 DEF NoopOf
  <2>3. Writes(w, r) /\ Done(w)
    BY <1>11, <2>1 DEF MakesNoop
  <2> HIDE DEF r
  <2>4. Reports(w, r.status) /\ Remembers(w, r.status) /\ Tells(w, r.status)
    BY <2>2 DEF Reports, Remembers, Tells
  <2> QED
    BY <1>1, <2>2, <2>3, <2>4, LastWrite
<1>12. CASE Replaces(w)
  <2> DEFINE r == Replaced(t, txs[t], s.data)
  <2>1. s.data \in Data /\ s.data.nonce # None
    BY <1>12, WorkerType DEF Replaces
  <2>2. r \in Transactions /\ r.status = txs[t].status
    BY <1>1, <2>1, ReplaceWritten
  <2>3. Writes(w, r) /\ Done(w)
    BY <1>12 DEF Replaces
  <2> HIDE DEF r
  <2>4. Reports(w, r.status) /\ Remembers(w, r.status) /\ Tells(w, r.status)
    BY <2>2 DEF Reports, Remembers, Tells
  <2> QED
    BY <1>1, <2>2, <2>3, <2>4, LastWrite
<1>13. CASE Corrects(w)
  <2>1. PICK h \in HistoricalMined(s) : Writes(w, Corrected(txs[t], s, h))
    BY <1>13 DEF Corrects
  <2> DEFINE r == Corrected(txs[t], s, h)
  <2>2. h \in Hashes /\ h.tx = t
    BY <1>1, <2>1, HistoryFacts
  <2>3. /\ r \in Transactions
        /\ IF FinalGuard /\ is_final_state(txs[t].status) THEN r = txs[t] ELSE r.status = "Mined"
    <3>1. CorrectedOf(t, txs[t], s, h, r)
      BY <1>1, <2>2, CorrectedWritten
    <3> HIDE DEF r, t, s
    <3> QED
      BY <3>1 DEF CorrectedOf
  <2>4. Writes(w, r) /\ Done(w)
    BY <1>13, <2>1 DEF Corrects
  <2> HIDE DEF r
  <2>5. Reports(w, r.status) /\ Remembers(w, r.status) /\ Tells(w, r.status)
    BY <2>1, <2>3 DEF Reports, Remembers, Tells
  <2> QED
    BY <1>1, <2>3, <2>4, <2>5, LastWrite
<1> QED
  BY <1>2, <1>3, <1>4, <1>5, <1>6, <1>7, <1>8, <1>9, <1>10, <1>11, <1>12, <1>13, CheckReports
     DEF HandlerStep

\* Worker w takes up a transaction, as k.
Picks(w, k) ==
    /\ At(w, "idle") /\ k \in WorkerStates /\ wk' = [wk EXCEPT ![w] = k]
    /\ UNCHANGED <<txs, mempool, chain>>
    /\ k.tx \in Txs /\ k.snap = txs[k.tx] /\ k.seen = "Absent" /\ k.sig = None
    /\ k.pc \in {"request", "submit", "resubmit", "status", "cancel", "replace"}
    /\ k.pc = "cancel" => k.snap.status \in {"Pending", "Sent", "Submitted"}
    /\ k.pc = "replace" => "replace" \in ApiOps
    /\ jobs' \subseteq jobs
    /\ k.kind = "recover" => \E j \in jobs : j.kind = "recover" /\ j.tx = k.tx
    /\ k.kind = "request" =>
          "request" \in Concurrent
          \/ \A v \in Workers : ~(wk[v].kind = "request" /\ wk[v].tx = k.tx)
    /\ k.pc = "resubmit" => k.kind = "resubmit"
    /\ k.kind = "resubmit" =>
          "resubmit" \in Concurrent
          \/ \A v \in Workers : ~(wk[v].kind = "resubmit" /\ wk[v].tx = k.tx)

\* What a worker that takes a job or starts a user's operation has read.
LEMMA PickEffect ==
    ASSUME Types, NEW w \in Workers,
           \/ \E j \in jobs : Take(w, j)
           \/ \E op \in ApiOps, t \in Txs : StartApi(w, op, t)
    PROVE  \E k : Picks(w, k)
<1>1. ASSUME NEW j \in jobs, Take(w, j)
      PROVE  \E k : Picks(w, k)
  <2> DEFINE p == EntryPoint(j.kind)
             k == Taken(p, j.kind, j.tx, txs[j.tx])
  <2>1. j.kind \in JobKinds /\ j.tx \in Txs
    BY TypesRest DEF Jobs
  <2>2. /\ p \in PCs /\ p \in {"request", "submit", "resubmit", "status"}
        /\ p = "resubmit" => j.kind = "resubmit"
    BY <2>1 DEF EntryPoint, PCs, JobKinds
  <2>3. wk' = [wk EXCEPT ![w] = k]
    BY <1>1 DEF Take, Taken
  <2>4. /\ k \in WorkerStates /\ k.seen = "Absent"
        /\ k.pc = p /\ k.kind = j.kind /\ k.tx = j.tx /\ k.snap = txs[j.tx] /\ k.sig = None
    BY <2>1, <2>2, TypesRest, TakenType
  <2>5. /\ At(w, "idle") /\ UNCHANGED <<txs, mempool, chain>> /\ jobs' \subseteq jobs
        /\ j.kind \in Concurrent
           \/ \A v \in Workers : ~(wk[v].kind = j.kind /\ wk[v].tx = j.tx)
    BY <1>1 DEF Take
  <2> HIDE DEF p, k
  <2> QED
    BY <2>1, <2>2, <2>3, <2>4, <2>5 DEF Picks
<1>2. ASSUME NEW op \in ApiOps, NEW t \in Txs, StartApi(w, op, t)
      PROVE  \E k : Picks(w, k)
  <2> DEFINE k == Taken(op, op, t, txs[t])
  <2>1. op \in PCs /\ op \in {"cancel", "replace"}
    BY ConstantFacts DEF PCs
  <2>2. wk' = [wk EXCEPT ![w] = k]
    BY <1>2 DEF StartApi, Taken
  <2>3. /\ k \in WorkerStates /\ k.seen = "Absent"
        /\ k.pc = op /\ k.kind = op /\ k.tx = t /\ k.snap = txs[t] /\ k.sig = None
    BY <2>1, TypesRest, TakenType
  <2>4. /\ At(w, "idle") /\ UNCHANGED <<txs, jobs, mempool, chain>>
        /\ txs[t].status \in {"Pending", "Sent", "Submitted"}
    BY <1>2 DEF StartApi
  <2> HIDE DEF k
  <2> QED
    BY <2>1, <2>2, <2>3, <2>4 DEF Picks
<1> QED
  BY <1>1, <1>2

\* Transaction t is stored for the first time, as r.
Stores(t, r) ==
    /\ r \in Transactions /\ txs' = [txs EXCEPT ![t] = r] /\ UNCHANGED <<wk, mempool, chain>>
    /\ r.data = txs[t].data /\ r.hashes = txs[t].hashes
    /\ txs[t].status = "Absent" /\ r.status \in {"Pending", "Failed"}
    /\ \A j \in jobs' : j \in jobs \/ j.kind # "recover"

\* What process_transaction_request stores.
LEMMA CreateEffect ==
    ASSUME Types, NEW t \in Txs, CreateTransaction(t)
    PROVE  \E r : Stores(t, r)
<1>1. PICK s \in {"Pending", "Failed"} : txs' = [txs EXCEPT ![t].status = s]
  BY DEF CreateTransaction
<1> DEFINE r == [txs[t] EXCEPT !.status = s]
<1>2. txs' = [txs EXCEPT ![t] = r]
  BY <1>1
<1>3. /\ r \in Transactions /\ r.data = txs[t].data /\ r.hashes = txs[t].hashes
      /\ r.status = s
  <2>1. txs[t] \in Transactions
    BY TypesRest
  <2> QED
    BY <2>1 DEF Transactions, Statuses, Finals
<1>4. txs[t].status = "Absent" /\ UNCHANGED <<wk, mempool, chain>>
  BY DEF CreateTransaction
<1>5. \A j \in jobs' : j \in jobs \/ j \in {StatusJob(t), RequestJob(t)}
  BY DEF CreateTransaction
<1>6. StatusJob(t).kind # "recover" /\ RequestJob(t).kind # "recover"
  BY DEF StatusJob, RequestJob
<1> HIDE DEF r
<1> QED
  BY <1>2, <1>3, <1>4, <1>5, <1>6 DEF Stores

\* The steps of the system, with the record and the worker that each one leaves.
LEMMA Effects ==
    ASSUME Types, Next
    PROVE  \/ \E t \in Txs : \E r : Stores(t, r)
           \/ \E w \in Workers : \E k : Picks(w, k)
           \/ \E w \in Workers : HandlerStep(w)
           \/ (\E h \in mempool : Mine(h)) \/ OtherMined
           \/ \E i \in DOMAIN chain : Confirm(i)
           \/ UNCHANGED <<txs, wk, mempool, chain>>
BY Shapes, PickEffect, CreateEffect

\* A final status stays, and what a handler has seen to be final is final.
LEMMA FinalStep ==
    ASSUME Types, FinalSeen, FinalGuard, [Next]_vars
    PROVE  /\ FinalSeen'
           /\ \A t \in Txs : is_final_state(txs[t].status) => txs'[t].status = txs[t].status
<1>0. /\ wk \in [Workers -> WorkerStates] /\ txs \in [Txs -> Transactions]
      /\ ~is_final_state("Absent") /\ NoTx.status = "Absent"
  BY DEF Types, TypeOK, is_final_state, Finals, NoTx
<1>1. ASSUME NEW t \in Txs, NEW r, Stores(t, r)
      PROVE  /\ FinalSeen'
             /\ \A u \in Txs : is_final_state(txs[u].status) => txs'[u].status = txs[u].status
  <2>1. \A u \in Txs : txs'[u] = IF u = t THEN r ELSE txs[u]
    BY <1>0, <1>1 DEF Stores
  <2>2. \A u \in Txs : is_final_state(txs[u].status) => txs'[u].status = txs[u].status
    BY <1>0, <1>1, <2>1 DEF Stores
  <2> QED
    BY <1>1, <2>2 DEF FinalSeen, Stores
<1>2. ASSUME NEW w \in Workers, NEW k, Picks(w, k)
      PROVE  /\ FinalSeen'
             /\ \A u \in Txs : is_final_state(txs[u].status) => txs'[u].status = txs[u].status
  <2>1. \A v \in Workers : wk'[v] = IF v = w THEN k ELSE wk[v]
    BY <1>0, <1>2 DEF Picks
  <2> QED
    BY <1>2, <2>1 DEF FinalSeen, Picks
<1>3. ASSUME NEW w \in Workers, HandlerStep(w)
      PROVE  /\ FinalSeen'
             /\ \A u \in Txs : is_final_state(txs[u].status) => txs'[u].status = txs[u].status
  <2>1. PICK r, k : Steps(w, r, k) /\ StatusKept(w, r, k)
    BY <1>3, StatusEffect
  <2> DEFINE t == wk[w].tx
  <2>2. t \in Txs
    BY <1>3, WorkerType DEF HandlerStep
  <2>3. \A u \in Txs : txs'[u] = IF u = t THEN r ELSE txs[u]
    BY <1>0, <2>1 DEF Steps
  <2>4. \A v \in Workers : wk'[v] = IF v = w THEN k ELSE wk[v]
    BY <1>0, <2>1 DEF Steps
  <2>5. \A u \in Txs : is_final_state(txs[u].status) => txs'[u].status = txs[u].status
    BY <2>1, <2>3 DEF StatusKept
  <2>6. ASSUME NEW v \in Workers, wk'[v].tx \in Txs, is_final_state(wk'[v].snap.status)
        PROVE  is_final_state(txs'[wk'[v].tx].status)
    <3>1. CASE v # w
      BY <2>4, <2>5, <2>6, <3>1 DEF FinalSeen
    <3>2. CASE v = w /\ k = Idle
      BY <1>0, <2>4, <2>6, <3>2, IdleType
    <3>3. CASE v = w /\ k.tx = t /\ k.snap.status = r.status
      BY <2>2, <2>3, <2>4, <2>6, <3>3
    <3>4. CASE v = w /\ k.tx = t /\ k.snap.status = wk[w].snap.status
      <4>1. is_final_state(txs[t].status)
        BY <2>2, <2>4, <2>6, <3>4 DEF FinalSeen
      <4> QED
        BY <2>2, <2>4, <2>5, <3>4, <4>1
    <3> QED
      BY <2>1, <3>1, <3>2, <3>3, <3>4 DEF StatusKept
  <2> QED
    BY <2>5, <2>6 DEF FinalSeen
<1>4. CASE UNCHANGED <<txs, wk>>
  BY <1>4 DEF FinalSeen
<1>5. (\E h \in mempool : Mine(h)) \/ OtherMined => UNCHANGED <<txs, wk>>
  BY DEF Mine, OtherMined
<1>6. (\E i \in DOMAIN chain : Confirm(i)) => UNCHANGED <<txs, wk>>
  BY DEF Confirm
<1>7. UNCHANGED vars => UNCHANGED <<txs, wk>>
  BY DEF vars
<1> QED
  BY <1>1, <1>2, <1>3, <1>4, <1>5, <1>6, <1>7, Effects

\* With the Redis repository no handler, however stale its snapshot, takes a transaction out
\* of a final status.
THEOREM FinalStays == FinalGuard => (Spec => FinalIsForever)
<1> SUFFICES ASSUME FinalGuard
             PROVE  Spec => FinalIsForever
  OBVIOUS
<1>1. Init => FinalSeen
  BY IdleType DEF Init, FinalSeen, NoTx, is_final_state, Finals
<1>2. Types /\ FinalSeen /\ [Next]_vars => FinalSeen'
  BY FinalStep
<1>3. Types /\ FinalSeen /\ [Next]_vars =>
        [\A t \in Txs : is_final_state(txs[t].status) => txs'[t].status = txs[t].status]_vars
  BY FinalStep
<1> QED
  BY <1>1, <1>2, <1>3, TypesInductive, PTL DEF Spec, FinalIsForever

\* What the chain bears out it bears out for good: it only grows, and a confirmation is final.
LEMMA EvidenceKept ==
    ASSUME Types, NEW t, NEW s, Evidence(chain, t, s),
           \/ UNCHANGED chain
           \/ (\E h \in mempool : Mine(h)) \/ OtherMined
           \/ \E i \in DOMAIN chain : Confirm(i)
    PROVE  Evidence(chain', t, s)
<1>1. chain \in Seq(Entries)
  BY DEF Types, TypeOK
<1>2. /\ DOMAIN chain \subseteq DOMAIN chain'
      /\ \A j \in DOMAIN chain : /\ chain'[j].hash = chain[j].hash
                                 /\ chain'[j].ok = chain[j].ok
                                 /\ chain[j].conf => chain'[j].conf
  <2>1. CASE UNCHANGED chain
    BY <2>1
  <2>2. CASE (\E h \in mempool : Mine(h)) \/ OtherMined
    <3>1. PICK e \in Entries : chain' = Append(chain, e)
      BY <2>2, Grown
    <3> QED
      BY <1>1, <3>1
  <2>3. CASE \E i \in DOMAIN chain : Confirm(i)
    BY <2>3, Confirmed
  <2> QED
    BY <2>1, <2>2, <2>3
<1> QED
  BY <1>2 DEF Evidence

\* A receipt is evidence.
LEMMA MinedEvidence ==
    ASSUME Types, NEW t \in Txs, NEW h \in Hashes, h.tx = t, Mined(h)
    PROVE  /\ Evidence(chain, t, "Mined")
           /\ h.nonce + 1 \in DOMAIN chain /\ chain[h.nonce + 1].hash = h
<1>1. chain \in Seq(Entries) /\ h.nonce \in Nat /\ h # Other
  BY ConstantFacts DEF Types, TypeOK, Nonces
<1>2. h.nonce + 1 \in DOMAIN chain /\ chain[h.nonce + 1].hash = h
  BY <1>1 DEF Mined
<1> QED
  BY <1>1, <1>2 DEF Evidence

\* A status that a handler reports is borne out when what it has read was.
LEMMA ReportsEvidence ==
    ASSUME Types, EvidenceInv, NEW w \in Workers, ~At(w, "idle"), NEW st, Reports(w, st)
    PROVE  Evidence(chain, wk[w].tx, st)
<1> DEFINE t == wk[w].tx
           s == wk[w].snap
<1>1. t \in Txs /\ s \in Transactions /\ Own(t, s) /\ s.data \in Data
  BY WorkerType, TypesRest
<1>2. CASE st \notin {"Mined", "Confirmed"}
  BY <1>2 DEF Evidence
<1>3. CASE st \in {s.status, wk[w].seen, txs[t].status}
  BY <1>1, <1>3 DEF EvidenceInv
<1>4. CASE st = "Mined" /\ HistoricalMined(s) # {}
  <2>1. PICK h \in HistoricalMined(s) : TRUE
    BY <1>4
  <2>2. h \in Hashes /\ h.tx = t /\ Mined(h)
    BY <1>1, <2>1, HistoryFacts
  <2> QED
    BY <1>1, <1>4, <2>2, MinedEvidence
<1>5. CASE s.data.hash \in Hashes /\ Mined(s.data.hash) /\ st = ReceiptStatus(s)
  <2> DEFINE h == s.data.hash
             e == chain[h.nonce + 1]
  <2>1. h \in Hashes /\ h # None
    BY <1>5, ConstantFacts
  <2>2. h.tx = t
    BY <1>1, <2>1 DEF Own
  <2>3. /\ Evidence(chain, t, "Mined")
        /\ h.nonce + 1 \in DOMAIN chain /\ e.hash = h /\ h # Other
    BY <1>1, <1>5, <2>1, <2>2, MinedEvidence, ConstantFacts
  <2>4. st = "Confirmed" => e.ok /\ e.conf
    BY <1>5 DEF ReceiptStatus
  <2> HIDE DEF h, e
  <2>5. Evidence(chain, t, "Confirmed") \/ st # "Confirmed"
    BY <2>2, <2>3, <2>4 DEF Evidence, e
  <2> QED
    BY <2>3, <2>5 DEF Evidence
<1> QED
  BY <1>2, <1>3, <1>4, <1>5 DEF Reports

\* What is reported stays borne out.
LEMMA EvidenceInductive ==
    ASSUME Types, EvidenceInv, [Next]_vars
    PROVE  EvidenceInv'
<1>0. /\ wk \in [Workers -> WorkerStates] /\ txs \in [Txs -> Transactions]
      /\ NoTx.status = "Absent" /\ \A c, t : Evidence(c, t, "Absent")
  BY DEF Types, TypeOK, Evidence, NoTx
<1>1. ASSUME NEW t \in Txs, NEW r, Stores(t, r)
      PROVE  EvidenceInv'
  <2>1. \A u \in Txs : txs'[u] = IF u = t THEN r ELSE txs[u]
    BY <1>0, <1>1 DEF Stores
  <2>2. Evidence(chain, t, r.status)
    BY <1>1 DEF Stores, Evidence
  <2> QED
    BY <1>1, <2>1, <2>2 DEF EvidenceInv, Stores
<1>2. ASSUME NEW w \in Workers, NEW k, Picks(w, k)
      PROVE  EvidenceInv'
  <2>1. \A v \in Workers : wk'[v] = IF v = w THEN k ELSE wk[v]
    BY <1>0, <1>2 DEF Picks
  <2>2. UNCHANGED <<txs, chain>>
    BY <1>2 DEF Picks
  <2>3. Evidence(chain, k.tx, k.snap.status) /\ Evidence(chain, k.tx, k.seen)
    BY <1>0, <1>2 DEF EvidenceInv, Picks
  <2> QED
    BY <2>1, <2>2, <2>3 DEF EvidenceInv
<1>3. ASSUME NEW w \in Workers, HandlerStep(w)
      PROVE  EvidenceInv'
  <2>1. PICK r, k : Steps(w, r, k) /\ StatusKept(w, r, k)
    BY <1>3, StatusEffect
  <2> DEFINE t == wk[w].tx
  <2>2. t \in Txs /\ ~At(w, "idle") /\ UNCHANGED chain
    BY <1>3, WorkerType DEF HandlerStep
  <2>3. \A u \in Txs : txs'[u] = IF u = t THEN r ELSE txs[u]
    BY <1>0, <2>1 DEF Steps
  <2>4. \A v \in Workers : wk'[v] = IF v = w THEN k ELSE wk[v]
    BY <1>0, <2>1 DEF Steps
  <2>5. Evidence(chain, t, r.status)
    BY <2>1, <2>2, ReportsEvidence DEF StatusKept
  <2>6. k.tx \in Txs => Evidence(chain, k.tx, k.snap.status) /\ Evidence(chain, k.tx, k.seen)
    <3>1. CASE k = Idle
      BY <1>0, <3>1, IdleType
    <3>2. CASE k # Idle
      <4>1. Evidence(chain, t, wk[w].snap.status)
        BY <2>2 DEF EvidenceInv
      <4>2. Evidence(chain, t, k.seen)
        BY <2>1, <2>2, <3>2, ReportsEvidence DEF StatusKept
      <4> QED
        BY <2>1, <2>5, <3>2, <4>1, <4>2 DEF StatusKept
    <3> QED
      BY <3>1, <3>2
  <2> QED
    BY <2>2, <2>3, <2>4, <2>5, <2>6 DEF EvidenceInv
<1>4. ASSUME UNCHANGED <<txs, wk>>,
             \/ UNCHANGED chain
             \/ (\E h \in mempool : Mine(h)) \/ OtherMined
             \/ \E i \in DOMAIN chain : Confirm(i)
      PROVE  EvidenceInv'
  <2>1. \A t, s : Evidence(chain, t, s) => Evidence(chain', t, s)
    BY <1>4, EvidenceKept
  <2> QED
    BY <1>4, <2>1 DEF EvidenceInv
<1>5. (\E h \in mempool : Mine(h)) \/ OtherMined => UNCHANGED <<txs, wk>>
  BY DEF Mine, OtherMined
<1>6. (\E i \in DOMAIN chain : Confirm(i)) => UNCHANGED <<txs, wk>>
  BY DEF Confirm
<1>7. UNCHANGED vars => UNCHANGED <<txs, wk, chain>>
  BY DEF vars
<1> QED
  BY <1>1, <1>2, <1>3, <1>4, <1>5, <1>6, <1>7, Effects

\* Whatever fails and however handlers interleave, a transaction that the repository calls
\* Mined or Confirmed has an entry of its own on the chain, Confirmed one that succeeded and
\* is confirmed (check_transaction_status).
THEOREM ReportsHold == Spec => []ReportedIsOnChain
<1>1. Init => EvidenceInv
  BY IdleType DEF Init, EvidenceInv, Evidence, NoTx
<1>2. Types /\ EvidenceInv /\ [Next]_vars => EvidenceInv'
  BY EvidenceInductive
<1>3. EvidenceInv => ReportedIsOnChain
  BY DEF EvidenceInv, Evidence, ReportedIsOnChain, OwnEntry
<1> QED
  BY <1>1, <1>2, <1>3, TypesInductive, PTL DEF Spec

-----------------------------------------------------------------------------
(* One nonce per transaction.                                              *)

\* What a step of worker w that leaves record r and worker k does to the nonce.
KeepsNonce(w, r, k) ==
    /\ Pinned(r, r.data.nonce)
    /\ \/ r.data.nonce = txs[wk[w].tx].data.nonce
       \/ txs[wk[w].tx].data.nonce = None /\ At(w, "presign")
    /\ k = Idle \/ (k.tx = wk[w].tx /\ k.kind = wk[w].kind /\ PinnedWorker(k, r.data.nonce))
    /\ \A h \in mempool' :
          \/ h \in mempool
          \/ h \in Hashes /\ h.tx = wk[w].tx /\ h.nonce = txs[wk[w].tx].data.nonce

\* A step keeps one nonce per transaction, a nonce that is stored stays, and a handler stays
\* with its job until it ends.
NonceStep ==
    /\ NonceInv'
    /\ \A t \in Txs : txs[t].data.nonce # None => txs'[t].data.nonce = txs[t].data.nonce
    /\ \A w \in Workers : ~At(w, "idle") =>
          \/ wk'[w] = Idle
          \/ wk'[w].kind = wk[w].kind /\ wk'[w].tx = wk[w].tx

\* Nothing has been signed for a transaction without a nonce.
LEMMA Unpinned ==
    ASSUME NEW r \in Transactions, Pinned(r, None)
    PROVE  /\ r.data.nonce = None /\ r.data.raw = None /\ r.data.hash = None /\ r.hashes = <<>>
           /\ \A n : Pinned(r, n)
<1>1. r.data \in Data /\ r.hashes \in Seq(Hashes)
  BY RecordType
<1>2. r.data.raw \in Hashes \cup {None} /\ r.data.hash \in Hashes \cup {None}
  BY <1>1, DataType
<1>3. \A h \in Hashes : h.nonce # None
  BY ConstantFacts
<1>4. r.data.nonce = None /\ r.data.raw = None /\ r.data.hash = None
  BY <1>2, <1>3 DEF Pinned
<1>5. r.hashes = <<>>
  <2>1. \A i \in DOMAIN r.hashes : r.hashes[i] \in Hashes /\ r.hashes[i].nonce = None
    BY <1>1 DEF Pinned, AllFor
  <2> DEFINE q == r.hashes
  <2>2. DOMAIN q = {} /\ q \in Seq(Hashes)
    BY <1>1, <1>3, <2>1
  <2> HIDE DEF q
  <2>3. q = <<>>
    <3>1. Len(q) = 0
      BY <2>2, LenProperties
    <3> QED
      BY <2>2, <3>1, EmptySeq
  <2> QED
    BY <2>3 DEF q
<1>6. r.status \notin {"Sent", "Submitted"}
  BY <1>4 DEF Pinned
<1> QED
  BY <1>4, <1>5, <1>6 DEF Pinned, AllFor

\* The same for a worker that does not prepare the transaction.
LEMMA UnpinnedWorker ==
    ASSUME NEW k \in WorkerStates, PinnedWorker(k, None), k.pc \notin {"request", "presign"}
    PROVE  \A n : PinnedWorker(k, n)
<1>1. k.snap \in Transactions /\ k.sig \in Hashes \cup {None}
  BY DEF WorkerStates
<1>2. \A n : Pinned(k.snap, n)
  BY <1>1, Unpinned DEF PinnedWorker
<1>3. k.sig = None
  BY <1>1, ConstantFacts DEF PinnedWorker
<1>4. /\ k.snap.data.raw = None /\ k.snap.data.nonce = None
  BY <1>1, Unpinned DEF PinnedWorker
<1> QED
  BY <1>2, <1>3, <1>4 DEF PinnedWorker

\* An idle worker holds no nonce.
LEMMA IdlePinned == \A n : PinnedWorker(Idle, n) /\ Pinned(NoTx, n)
<1>1. \A n : Pinned(NoTx, n)
  BY DEF Pinned, NoTx, AllFor
<1> QED
  BY <1>1, IdleType DEF PinnedWorker

\* A step that keeps its own transaction's nonce keeps everything else's.
LEMMA NonceLift ==
    ASSUME Types, NonceInv, NEW w \in Workers, ~At(w, "idle"), NEW r, NEW k,
           Steps(w, r, k), KeepsNonce(w, r, k)
    PROVE  NonceStep
<1> DEFINE t == wk[w].tx
           n == txs[t].data.nonce
           m == r.data.nonce
<1>0. /\ wk \in [Workers -> WorkerStates] /\ txs \in [Txs -> Transactions] /\ t \in Txs
      /\ mempool \subseteq Hashes
  BY WorkerType DEF Types, TypeOK
<1>1. \A u \in Txs : txs'[u] = IF u = t THEN r ELSE txs[u]
  BY <1>0 DEF Steps
<1>2. \A v \in Workers : wk'[v] = IF v = w THEN k ELSE wk[v]
  BY <1>0 DEF Steps
<1>3. \A u \in Txs : Pinned(txs'[u], txs'[u].data.nonce)
  BY <1>1 DEF NonceInv, KeepsNonce
<1>4. \A h \in mempool' : h.nonce = txs'[h.tx].data.nonce
  <2> SUFFICES ASSUME NEW h \in mempool'
               PROVE  h.nonce = txs'[h.tx].data.nonce
    OBVIOUS
  <2>1. CASE h \in mempool
    <3>1. h.tx \in Txs /\ h.nonce # None /\ h.nonce = txs[h.tx].data.nonce
      BY <1>0, <2>1, ConstantFacts DEF NonceInv
    <3>2. CASE h.tx = t
      BY <1>1, <3>1, <3>2 DEF KeepsNonce
    <3> QED
      BY <1>1, <3>1, <3>2
  <2>2. CASE h.tx = t /\ h.nonce = n /\ h \in Hashes
    BY <1>0, <1>1, <2>2, ConstantFacts DEF KeepsNonce
  <2> QED
    BY <2>1, <2>2 DEF KeepsNonce
<1>5. OneRequest'
  <2>1. \A v \in Workers : wk'[v].kind = "request" => wk[v].kind = "request" /\ wk'[v].tx = wk[v].tx
    BY <1>2, IdleType DEF KeepsNonce
  <2> QED
    BY <2>1 DEF OneRequest, NonceInv
<1>6. ASSUME NEW v \in Workers, wk'[v].tx \in Txs
      PROVE  PinnedWorker(wk'[v], txs'[wk'[v].tx].data.nonce)
  <2>1. CASE v = w
    BY <1>1, <1>2, <1>6, <2>1, IdlePinned DEF KeepsNonce
  <2>2. CASE v # w /\ (wk[v].tx # t \/ m = n)
    BY <1>1, <1>2, <1>6, <2>2 DEF NonceInv
  <2>3. CASE v # w /\ wk[v].tx = t /\ m # n
    <3>1. n = None /\ At(w, "presign")
      BY <2>3 DEF KeepsNonce
    <3>2. wk[v] \in WorkerStates /\ PinnedWorker(wk[v], None)
      BY <1>0, <2>3, <3>1 DEF NonceInv
    <3>3. wk[v].pc \notin {"request", "presign"}
      BY <2>3, <3>1, WorkerType DEF NonceInv, OneRequest, Handles, At
    <3> QED
      BY <1>2, <2>3, <3>2, <3>3, UnpinnedWorker
  <2> QED
    BY <2>1, <2>2, <2>3
<1>7. \A u \in Txs : txs[u].data.nonce # None => txs'[u].data.nonce = txs[u].data.nonce
  BY <1>1 DEF KeepsNonce
<1>8. \A v \in Workers : \/ wk'[v] = Idle
                         \/ wk'[v].kind = wk[v].kind /\ wk'[v].tx = wk[v].tx
  BY <1>2 DEF KeepsNonce
<1> QED
  BY <1>3, <1>4, <1>5, <1>6, <1>7, <1>8 DEF NonceInv, NonceStep

\* A handler that does not write and stays with its transaction or ends.
LEMMA NonceIdle ==
    ASSUME Types, NonceInv, NEW w \in Workers, ~At(w, "idle"), UNCHANGED txs,
           NEW k \in WorkerStates, wk' = [wk EXCEPT ![w] = k],
           k = Idle \/ (/\ k.tx = wk[w].tx /\ k.kind = wk[w].kind
                        /\ PinnedWorker(k, txs[wk[w].tx].data.nonce)),
           \A h \in mempool' :
              h \in mempool
              \/ (h \in Hashes /\ h.tx = wk[w].tx /\ h.nonce = txs[wk[w].tx].data.nonce)
    PROVE  NonceStep
<1> DEFINE t == wk[w].tx
<1>1. t \in Txs /\ txs[t] \in Transactions /\ txs \in [Txs -> Transactions]
  BY WorkerType DEF Types, TypeOK
<1>2. txs' = [txs EXCEPT ![t] = txs[t]]
  BY <1>1
<1>3. Steps(w, txs[t], k) /\ KeepsNonce(w, txs[t], k)
  BY <1>1, <1>2 DEF Steps, KeepsNonce, NonceInv
<1> QED
  BY <1>3, NonceLift

\* A handler that ends with a record for the same nonce.
LEMMA NonceWrite ==
    ASSUME Types, NonceInv, NEW w \in Workers, ~At(w, "idle"), Done(w), UNCHANGED mempool,
           NEW r \in Transactions, Writes(w, r), Pinned(r, txs[wk[w].tx].data.nonce),
           r.data.nonce = txs[wk[w].tx].data.nonce
    PROVE  NonceStep
<1>1. Steps(w, r, Idle) /\ KeepsNonce(w, r, Idle)
  BY IdleType DEF Steps, KeepsNonce, Writes, Done
<1> QED
  BY <1>1, NonceLift

\* What a handler knows of its transaction's nonce.
LEMMA NonceKnown ==
    ASSUME Types, NonceInv, NEW w \in Workers, ~At(w, "idle")
    PROVE  LET t == wk[w].tx
               n == txs[t].data.nonce
           IN  /\ t \in Txs /\ txs[t] \in Transactions /\ wk[w].snap \in Transactions
               /\ Own(t, txs[t]) /\ Own(t, wk[w].snap)
               /\ Pinned(txs[t], n) /\ Pinned(wk[w].snap, n) /\ PinnedWorker(wk[w], n)
<1>1. wk[w].tx \in Txs
  BY WorkerType
<1>2. PinnedWorker(wk[w], txs[wk[w].tx].data.nonce)
  BY <1>1 DEF NonceInv
<1>3. Pinned(txs[wk[w].tx], txs[wk[w].tx].data.nonce)
  BY <1>1 DEF NonceInv
<1>4. Pinned(wk[w].snap, txs[wk[w].tx].data.nonce)
  BY <1>2 DEF PinnedWorker
<1>5. txs[wk[w].tx] \in Transactions /\ wk[w].snap \in Transactions
  BY WorkerType
<1>6. Own(wk[w].tx, txs[wk[w].tx]) /\ Own(wk[w].tx, wk[w].snap)
  BY TypesRest
<1> QED
  BY <1>1, <1>2, <1>3, <1>4, <1>5, <1>6

\* Handlers that write nothing, prepare_transaction.
LEMMA NoncePrepare ==
    ASSUME Types, NonceInv, NEW w \in Workers, ~At(w, "idle"),
           \/ Leaves(w) \/ Proceeds(w) \/ Allocates(w) \/ PreparePresign(w) \/ PrepareSign(w)
    PROVE  NonceStep
<1> DEFINE t == wk[w].tx
           s == wk[w].snap
           n == txs[t].data.nonce
<1>1. /\ t \in Txs /\ txs[t] \in Transactions /\ s \in Transactions
      /\ Own(t, txs[t]) /\ Own(t, s)
      /\ Pinned(txs[t], n) /\ Pinned(s, n) /\ PinnedWorker(wk[w], n)
  BY NonceKnown
<1>2. CASE Leaves(w)
  BY <1>2, NonceIdle, IdleType DEF Leaves, Done
<1>3. CASE Proceeds(w)
  <2>1. PICK p \in {"sign", "check", "nonce"} : Goto(w, p)
    BY <1>3 DEF Proceeds
  <2> DEFINE k == Moved(wk[w], p)
  <2>2. /\ wk' = [wk EXCEPT ![w] = k] /\ k \in WorkerStates /\ k.pc = p
        /\ k.tx = t /\ k.kind = wk[w].kind /\ k.snap = s /\ k.sig = wk[w].sig
    BY <2>1, GotoEffect DEF PCs
  <2> HIDE DEF k
  <2>3. PinnedWorker(k, n)
    BY <1>1, <2>2 DEF PinnedWorker
  <2>4. UNCHANGED <<txs, mempool>>
    BY <1>3 DEF Proceeds
  <2> QED
    BY <2>2, <2>3, <2>4, NonceIdle
<1>4. CASE Allocates(w)
  <2> DEFINE k == Allocated(wk[w], counter)
  <2>1. /\ k \in WorkerStates /\ wk' = [wk EXCEPT ![w] = k] /\ UNCHANGED <<txs, mempool>>
        /\ k.pc = "presign" /\ k.kind = wk[w].kind /\ k.tx = t
        /\ k.snap = s /\ k.sig = wk[w].sig
    BY <1>4, AllocEffect
  <2>2. n = None
    BY <1>1, <1>4 DEF Allocates, PinnedWorker, At
  <2> HIDE DEF k
  <2>3. PinnedWorker(k, n)
    BY <1>1, <2>1, <2>2 DEF PinnedWorker
  <2> QED
    BY <2>1, <2>3, NonceIdle
<1>5. CASE PreparePresign(w)
  <2> DEFINE r == Presigned(txs[t], s, wk[w].nonce)
             k == ToSign(wk[w], r)
             m == wk[w].nonce
  <2>1. /\ r \in Transactions /\ Writes(w, r) /\ UNCHANGED mempool
        /\ r.hashes = txs[t].hashes /\ r.status = txs[t].status
        /\ r.data.nonce = m /\ m \in Nonces
        /\ r.data.raw = s.data.raw /\ r.data.hash = s.data.hash
        /\ k \in WorkerStates /\ wk' = [wk EXCEPT ![w] = k]
        /\ k.pc = "sign" /\ k.kind = wk[w].kind /\ k.tx = t /\ k.snap = r /\ k.sig = wk[w].sig
    BY <1>5, PresignEffect
  <2> HIDE DEF r, k
  <2>2. n = None /\ At(w, "presign") /\ m # None
    BY <1>1, <1>5, <2>1, ConstantFacts DEF PreparePresign, PinnedWorker, At
  <2>3. s.data.raw = None /\ s.data.hash = None /\ txs[t].hashes = <<>>
    BY <1>1, <2>2, Unpinned
  <2>4. wk[w].sig = None
    BY <1>1, <2>2, WorkerType, ConstantFacts DEF PinnedWorker
  <2>5. Pinned(r, m)
    BY <2>1, <2>2, <2>3 DEF Pinned, AllFor
  <2>6. PinnedWorker(k, m)
    BY <2>1, <2>2, <2>3, <2>4, <2>5 DEF PinnedWorker
  <2>7. Steps(w, r, k) /\ KeepsNonce(w, r, k)
    BY <2>1, <2>2, <2>5, <2>6 DEF Steps, KeepsNonce, Writes
  <2> QED
    BY <2>7, NonceLift
<1>6. CASE PrepareSign(w)
  <2>1. PICK e \in Data, h \in Hashes, new \in Transactions :
              /\ e.nonce = s.data.nonce /\ e.nonce # None
              /\ h.tx = t /\ h.nonce = e.nonce
              /\ new.status = "Sent" /\ new.data = with_signed_transaction_data(e, h)
              /\ new.hashes = Append(s.hashes, h)
              /\ txs' = [txs EXCEPT ![t] = WithStatus(txs[t], new)]
    BY <1>6, SignWritten
  <2>2. e.nonce = n
    BY <1>1, <2>1 DEF Pinned
  <2>3. new.data.nonce = n /\ new.data.raw = h /\ new.data.hash = h
    BY <2>1, <2>2, DataFields
  <2>4. s.hashes \in Seq(Hashes) /\ AllFor(n, s.hashes)
    BY <1>1, RecordType DEF Pinned
  <2>5. AllFor(n, new.hashes)
    BY <2>1, <2>2, <2>4 DEF AllFor
  <2>6. Pinned(new, n)
    BY <2>1, <2>2, <2>3, <2>5 DEF Pinned
  <2> DEFINE r == WithStatus(txs[t], new)
  <2>7. r \in Transactions /\ Pinned(r, n) /\ r.data.nonce = n
    BY <1>1, <2>1, <2>3, <2>6 DEF WithStatus
  <2>8. Writes(w, r) /\ Done(w) /\ UNCHANGED mempool
    BY <1>6, <2>1 DEF Writes, PrepareSign
  <2> HIDE DEF r
  <2> QED
    BY <2>7, <2>8, NonceWrite
<1> QED
  BY <1>2, <1>3, <1>4, <1>5, <1>6

\* submit_transaction and resubmit_transaction.
LEMMA NonceSend ==
    ASSUME Types, NonceInv, NEW w \in Workers, ~At(w, "idle"),
           Submit(w) \/ Resubmit(w) \/ Resends(w)
    PROVE  NonceStep
<1> DEFINE t == wk[w].tx
           s == wk[w].snap
           n == txs[t].data.nonce
<1>1. /\ t \in Txs /\ txs[t] \in Transactions /\ s \in Transactions
      /\ Own(t, txs[t]) /\ Own(t, s)
      /\ Pinned(txs[t], n) /\ Pinned(s, n) /\ PinnedWorker(wk[w], n)
  BY NonceKnown
<1>2. CASE Submit(w)
  <2> DEFINE h == s.data.raw
  <2>1. /\ h \in Hashes /\ UNCHANGED txs
        /\ mempool' = mempool \/ mempool' = mempool \cup {h}
    BY <1>2, SubmitEffect
  <2>2. h # None /\ h.tx = t /\ h.nonce = n
    BY <1>1, <2>1, ConstantFacts DEF Own, Pinned
  <2>3. \A g \in mempool' : g \in mempool \/ (g \in Hashes /\ g.tx = t /\ g.nonce = n)
    <3> HIDE DEF h
    <3> QED
      BY <1>2, <2>1, <2>2, SubmitEffect DEF h
  <2>4. CASE Goto(w, "submitted")
    <3> DEFINE k == Moved(wk[w], "submitted")
    <3>1. /\ wk' = [wk EXCEPT ![w] = k] /\ k \in WorkerStates /\ k.pc = "submitted"
          /\ k.tx = t /\ k.kind = wk[w].kind /\ k.snap = s /\ k.sig = wk[w].sig
      BY <2>4, GotoEffect DEF PCs
    <3> HIDE DEF k
    <3>2. PinnedWorker(k, n)
      BY <1>1, <2>2, <3>1 DEF PinnedWorker
    <3> QED
      BY <2>1, <2>3, <3>1, <3>2, NonceIdle
  <2>5. CASE Done(w)
    BY <2>1, <2>3, <2>5, NonceIdle, IdleType DEF Done
  <2> QED
    BY <1>2, <2>4, <2>5, SubmitEffect
<1>3. CASE Resubmit(w)
  <2>1. PICK h \in Hashes, k \in WorkerStates :
             /\ h.tx = t /\ h.nonce = s.data.nonce /\ s.data.nonce # None
             /\ wk' = [wk EXCEPT ![w] = k]
             /\ \/ k = Idle
                \/ /\ k.pc \in {"resent", "kept"} /\ k.kind = wk[w].kind /\ k.tx = t
                   /\ k.snap = s
                   /\ IF k.pc = "resent" THEN k.sig = h ELSE k.sig = wk[w].sig
             /\ mempool' = mempool \/ mempool' = mempool \cup {h}
             /\ UNCHANGED txs
    BY <1>3, ResubmitEffect
  <2>2. h.nonce = n
    BY <1>1, <2>1 DEF Pinned
  <2>3. \A g \in mempool' : g \in mempool \/ (g \in Hashes /\ g.tx = t /\ g.nonce = n)
    BY <2>1, <2>2
  <2>4. k # Idle => PinnedWorker(k, n)
    BY <1>1, <2>1, <2>2 DEF PinnedWorker
  <2> QED
    BY <2>1, <2>3, <2>4, NonceIdle
<1>4. CASE Resends(w)
  <2> DEFINE h == wk[w].sig
             new == Resent(txs[t], s, h)
             r == WithStatus(txs[t], new)
  <2>1. h \in Hashes /\ h.tx = t /\ h # None
    BY <1>4, WorkerType DEF Resends, Handles, At
  <2>2. h.nonce = n /\ s.data.nonce # None
    BY <1>1, <1>4, <2>1 DEF PinnedWorker, Resends, At
  <2>3. s.data.nonce = n /\ s.data \in Data /\ s.hashes \in Seq(Hashes) /\ AllFor(n, s.hashes)
    BY <1>1, <2>2, RecordType DEF Pinned
  <2>4. /\ new \in Transactions /\ new.status = "Submitted"
        /\ new.data = with_signed_transaction_data(Bumped(s.data), h)
        /\ new.hashes = Append(s.hashes, h)
    BY <1>1, <2>1, ResentWritten
  <2>5. Writes(w, r) /\ Done(w) /\ UNCHANGED mempool
    BY <1>4 DEF Resends
  <2> HIDE DEF new, h
  <2>6. AllFor(n, new.hashes)
    BY <2>1, <2>2, <2>3, <2>4 DEF AllFor
  <2>7. Bumped(s.data) \in Data /\ Bumped(s.data).nonce = n
    BY <2>3, DataType, DataFields
  <2>8. new.data.nonce = n /\ new.data.raw = h /\ new.data.hash = h
    BY <2>4, <2>7, DataFields
  <2>9. Pinned(new, n)
    BY <2>2, <2>3, <2>6, <2>8 DEF Pinned
  <2>10. r \in Transactions /\ Pinned(r, n) /\ r.data.nonce = n
    BY <1>1, <2>4, <2>8, <2>9 DEF WithStatus
  <2> HIDE DEF r
  <2> QED
    BY <2>5, <2>10, NonceWrite
<1> QED
  BY <1>2, <1>3, <1>4

\* Correcting the hash keeps the nonce: a record that has hashes has a nonce.
LEMMA CorrectedPinned ==
    ASSUME NEW t \in Txs, NEW cur \in Transactions, NEW s \in Transactions,
           Own(t, cur), Own(t, s), Pinned(cur, cur.data.nonce), Pinned(s, cur.data.nonce),
           NEW h \in HistoricalMined(s)
    PROVE  LET r == Corrected(cur, s, h)
           IN  r \in Transactions /\ Pinned(r, cur.data.nonce) /\ r.data.nonce = cur.data.nonce
<1> DEFINE r == Corrected(cur, s, h)
           n == cur.data.nonce
           d == [s.data EXCEPT !.hash = h]
<1>1. h \in Hashes /\ h.tx = t /\ \E i \in DOMAIN s.hashes : s.hashes[i] = h
  BY HistoryFacts
<1>2. CorrectedOf(t, cur, s, h, r)
  BY <1>1, CorrectedWritten
<1>3. h.nonce = n /\ s.hashes # <<>>
  BY <1>1 DEF Pinned, AllFor
<1>4. s.data.nonce = n /\ n # None
  BY <1>3 DEF Pinned
<1>5. d.nonce = s.data.nonce /\ d.raw = s.data.raw /\ d.hash = h
  <2>1. s.data \in Data
    BY RecordType
  <2> QED
    BY <2>1 DEF Data
<1> HIDE DEF r
<1>6. CASE r = cur
  BY <1>6 DEF r
<1>7. CASE r.status = "Mined" /\ r.hashes = cur.hashes /\ r.data = d
  <2>1. r.data.nonce = n /\ r.data.raw = s.data.raw /\ r.data.hash = h
    BY <1>4, <1>5, <1>7
  <2>2. Pinned(r, n)
    BY <1>3, <1>4, <1>7, <2>1 DEF Pinned
  <2> QED
    BY <1>2, <2>1, <2>2 DEF CorrectedOf, r
<1> QED
  BY <1>2, <1>6, <1>7 DEF CorrectedOf, r

\* Updates of the status, the NOOP, the replacement and the corrected hash.
LEMMA NonceUpdate ==
    ASSUME Types, NonceInv, NEW w \in Workers, ~At(w, "idle"),
           SetsStatus(w) \/ MakesNoop(w) \/ Replaces(w) \/ Corrects(w)
    PROVE  NonceStep
<1> DEFINE t == wk[w].tx
           s == wk[w].snap
           n == txs[t].data.nonce
<1>1. /\ t \in Txs /\ txs[t] \in Transactions /\ s \in Transactions
      /\ Own(t, txs[t]) /\ Own(t, s)
      /\ Pinned(txs[t], n) /\ Pinned(s, n) /\ PinnedWorker(wk[w], n)
  BY NonceKnown
<1>2. CASE SetsStatus(w)
  <2>1. PICK st, r : Justified(w, st) /\ StatusOnly(txs[t], r, st) /\ Writes(w, r)
    BY <1>2 DEF SetsStatus
  <2>2. st \in {"Sent", "Submitted"} => n # None
    <3>1. CASE At(w, "submitted")
      <4>1. s.data.raw # None /\ s.data.raw.nonce = n
        BY <1>1, <3>1 DEF PinnedWorker, Pinned, At
      <4>2. s.data.raw \in Hashes
        BY <4>1, WorkerType, DataType
      <4> QED
        BY <4>1, <4>2, ConstantFacts
    <3>2. CASE At(w, "kept")
      BY <1>1, <3>2 DEF PinnedWorker, Pinned, At
    <3>3. CASE st = wk[w].seen /\ At(w, "act")
      BY <1>1, <3>3 DEF PinnedWorker, At
    <3>4. CASE st \in {"Failed", "Canceled"}
      BY <3>4
    <3> QED
      BY <2>1, <3>1, <3>2, <3>3, <3>4 DEF Justified
  <2>3. /\ r \in Transactions /\ r.data = txs[t].data /\ r.hashes = txs[t].hashes
        /\ r.status \in {st, txs[t].status}
    BY <2>1 DEF StatusOnly
  <2>4. Pinned(r, n)
    BY <1>1, <2>2, <2>3 DEF Pinned
  <2>5. Done(w) /\ UNCHANGED mempool /\ r.data.nonce = n
    BY <1>2, <2>3 DEF SetsStatus
  <2> QED
    BY <2>1, <2>3, <2>4, <2>5, NonceWrite
<1>3. CASE MakesNoop(w)
  <2>1. PICK c \in BOOLEAN : Writes(w, NoopUpdate(txs[t], s, c))
    BY <1>3 DEF MakesNoop
  <2> DEFINE r == NoopUpdate(txs[t], s, c)
             d == s.data
  <2>2. NoopOf(t, txs[t], s, r)
    BY <1>1, NoopWritten
  <2>3. s.status \in {"Sent", "Submitted"}
    BY <1>1, <1>3 DEF MakesNoop, PinnedWorker, At
  <2>4. d.nonce = n /\ n # None /\ d \in Data
    BY <1>1, <2>3, RecordType DEF Pinned
  <2>5. Writes(w, r) /\ Done(w) /\ UNCHANGED mempool
    BY <1>3, <2>1 DEF MakesNoop
  <2> HIDE DEF r
  <2>6. r.data = make_noop(d) /\ r.hashes = txs[t].hashes /\ r \in Transactions
    BY <2>2 DEF NoopOf
  <2>7. r.data.nonce = d.nonce /\ r.data.raw = d.raw /\ r.data.hash = d.hash
    BY <2>4, <2>6, DataFields
  <2>8. Pinned(r, n)
    BY <1>1, <2>4, <2>6, <2>7 DEF Pinned
  <2> QED
    BY <2>4, <2>5, <2>6, <2>7, <2>8, NonceWrite
<1>4. CASE Replaces(w)
  <2> DEFINE d == s.data
             r == Replaced(t, txs[t], d)
  <2>1. d \in Data /\ d.nonce # None
    BY <1>4, WorkerType DEF Replaces
  <2>2. d.nonce = n
    BY <1>1, <2>1 DEF Pinned
  <2>3. /\ r \in Transactions
        /\ r.hashes = txs[t].hashes /\ r.status = txs[t].status
        /\ r.data.nonce = d.nonce
        /\ r.data.raw \in Hashes /\ r.data.raw.nonce = d.nonce
        /\ r.data.hash = r.data.raw
    BY <1>1, <2>1, ReplaceWritten
  <2>4. Writes(w, r) /\ Done(w) /\ UNCHANGED mempool
    BY <1>4 DEF Replaces
  <2> HIDE DEF r
  <2>5. Pinned(r, n)
    BY <1>1, <2>1, <2>2, <2>3 DEF Pinned
  <2> QED
    BY <2>2, <2>3, <2>4, <2>5, NonceWrite
<1>5. CASE Corrects(w)
  <2>1. PICK h \in HistoricalMined(s) : Writes(w, Corrected(txs[t], s, h))
    BY <1>5 DEF Corrects
  <2> DEFINE r == Corrected(txs[t], s, h)
  <2>2. r \in Transactions /\ Pinned(r, n) /\ r.data.nonce = n
    BY <1>1, <2>1, CorrectedPinned
  <2>3. Writes(w, r) /\ Done(w) /\ UNCHANGED mempool
    BY <1>5, <2>1 DEF Corrects
  <2> HIDE DEF r
  <2> QED
    BY <2>2, <2>3, NonceWrite
<1> QED
  BY <1>2, <1>3, <1>4, <1>5

\* check_transaction_status.
LEMMA NonceCheck ==
    ASSUME Types, NonceInv, NEW w \in Workers, Check(w)
    PROVE  NonceStep
<1> DEFINE t == wk[w].tx
           s == wk[w].snap
           n == txs[t].data.nonce
<1>0. ~At(w, "idle") /\ UNCHANGED mempool
  BY StatusWorker, CheckEffect
<1>1. /\ t \in Txs /\ txs[t] \in Transactions /\ s \in Transactions
      /\ Own(t, txs[t]) /\ Own(t, s)
      /\ Pinned(txs[t], n) /\ Pinned(s, n) /\ PinnedWorker(wk[w], n)
  BY <1>0, NonceKnown
<1>2. PICK st \in Statuses \cup {"Absent"}, c \in Transactions :
         wk' = [wk EXCEPT ![w] = Seen(wk[w], st, c)] /\ Saw(t, s, st, c)
  BY CheckEffect
<1> DEFINE k == Seen(wk[w], st, c)
<1>3. /\ k \in WorkerStates /\ k.pc = "act" /\ k.seen = st /\ k.snap = c
      /\ k.kind = wk[w].kind /\ k.tx = t /\ k.sig = wk[w].sig
  <2>1. wk[w] \in WorkerStates
    BY WorkerType
  <2> QED
    BY <2>1, SeenType
<1>4. wk' = [wk EXCEPT ![w] = k]
  BY <1>2
<1> HIDE DEF k
<1>5. s.data.hash \in Hashes => n # None
  <2>1. \A h \in Hashes : h # None /\ h.nonce # None
    BY ConstantFacts
  <2> QED
    BY <1>1, <2>1 DEF Pinned
<1>6. ASSUME Pinned(c, n), st \in {"Sent", "Submitted"} => n # None
      PROVE  PinnedWorker(k, n)
  BY <1>1, <1>3, <1>6 DEF PinnedWorker
<1>7. CASE UNCHANGED txs /\ c \in {s, txs[t]} /\ (st \in {"Sent", "Submitted"} => n # None)
  <2>1. PinnedWorker(k, n)
    BY <1>1, <1>6, <1>7
  <2> QED
    BY <1>0, <1>3, <1>4, <1>7, <2>1, NonceIdle
<1>8. ASSUME NEW h \in HistoricalMined(s), txs' = [txs EXCEPT ![t] = Corrected(txs[t], s, h)],
             st = Corrected(txs[t], s, h).status, c \in {s, Corrected(txs[t], s, h)}
      PROVE  NonceStep
  <2> DEFINE r == Corrected(txs[t], s, h)
  <2>1. r \in Transactions /\ Pinned(r, n) /\ r.data.nonce = n
    BY <1>1, CorrectedPinned
  <2>2. txs' = [txs EXCEPT ![t] = r] /\ st = r.status /\ c \in {s, r}
    BY <1>8
  <2> HIDE DEF r
  <2>3. st \in {"Sent", "Submitted"} => n # None
    BY <2>1, <2>2 DEF Pinned
  <2>4. PinnedWorker(k, n)
    BY <1>1, <1>6, <2>1, <2>2, <2>3
  <2>5. Steps(w, r, k) /\ KeepsNonce(w, r, k)
    BY <1>0, <1>3, <1>4, <2>1, <2>2, <2>4 DEF Steps, KeepsNonce
  <2> QED
    BY <1>0, <2>5, NonceLift
<1>9. ReceiptStatus(s) \notin {"Sent", "Submitted"}
  BY DEF ReceiptStatus
<1>10. s.status = "Sent" => n # None
  BY <1>1 DEF Pinned
<1>11. \/ UNCHANGED txs /\ c \in {s, txs[t]} /\ (st \in {"Sent", "Submitted"} => n # None)
       \/ \E h \in HistoricalMined(s) :
            /\ txs' = [txs EXCEPT ![t] = Corrected(txs[t], s, h)]
            /\ st = Corrected(txs[t], s, h).status /\ c \in {s, Corrected(txs[t], s, h)}
  BY <1>2, <1>5, <1>9, <1>10 DEF Saw
<1> QED
  BY <1>7, <1>8, <1>11

\* One nonce per transaction is kept by every step, if one handler prepares it at a time.
LEMMA NonceInductive ==
    ASSUME Types, NonceInv, "request" \notin Concurrent \/ OneRequest', [Next]_vars
    PROVE  NonceStep
<1>0. /\ wk \in [Workers -> WorkerStates] /\ txs \in [Txs -> Transactions]
  BY DEF Types, TypeOK
<1>1. ASSUME NEW t \in Txs, NEW r, Stores(t, r)
      PROVE  NonceStep
  <2>1. \A u \in Txs : txs'[u] = IF u = t THEN r ELSE txs[u]
    BY <1>0, <1>1 DEF Stores
  <2>2. UNCHANGED <<wk, mempool>> /\ r.data = txs[t].data
    BY <1>1 DEF Stores
  <2>3. \A u \in Txs : txs'[u].data.nonce = txs[u].data.nonce
    BY <2>1, <2>2
  <2>4. Pinned(r, txs[t].data.nonce)
    <3>1. Pinned(txs[t], txs[t].data.nonce)
      BY DEF NonceInv
    <3> QED
      BY <1>1, <3>1 DEF Stores, Pinned
  <2>5. mempool \subseteq Hashes /\ \A h \in Hashes : h.tx \in Txs
    BY ConstantFacts DEF Types, TypeOK
  <2>6. \A u \in Txs : Pinned(txs'[u], txs'[u].data.nonce)
    BY <2>1, <2>3, <2>4 DEF NonceInv
  <2> QED
    BY <2>2, <2>3, <2>5, <2>6 DEF NonceInv, OneRequest, NonceStep
<1>2. ASSUME NEW w \in Workers, NEW k, Picks(w, k)
      PROVE  NonceStep
  <2>1. \A v \in Workers : wk'[v] = IF v = w THEN k ELSE wk[v]
    BY <1>0, <1>2 DEF Picks
  <2>2. UNCHANGED <<txs, mempool>> /\ k.tx \in Txs
    BY <1>2 DEF Picks
  <2>3. PinnedWorker(k, txs[k.tx].data.nonce)
    <3>1. Pinned(k.snap, txs[k.tx].data.nonce)
      BY <1>2, <2>2 DEF NonceInv, Picks
    <3> QED
      BY <1>2, <3>1 DEF Picks, PinnedWorker
  <2>4. OneRequest'
    <3> SUFFICES ASSUME "request" \notin Concurrent,
                        NEW u \in Workers, NEW v \in Workers, wk'[u].kind = "request",
                        wk'[v].kind = "request", wk'[u].tx = wk'[v].tx
                 PROVE  u = v
      BY DEF OneRequest
    <3>1. \A x \in Workers : k.kind = "request" => ~(wk[x].kind = "request" /\ wk[x].tx = k.tx)
      BY <1>2 DEF Picks
    <3> QED
      BY <2>1, <3>1 DEF NonceInv, OneRequest
  <2>5. At(w, "idle")
    BY <1>2 DEF Picks
  <2> QED
    BY <2>1, <2>2, <2>3, <2>4, <2>5 DEF NonceInv, NonceStep
<1>3. ASSUME NEW w \in Workers, HandlerStep(w)
      PROVE  NonceStep
  BY <1>3, NoncePrepare, NonceSend, NonceUpdate, NonceCheck DEF HandlerStep
<1>4. CASE UNCHANGED <<txs, wk, mempool>>
  BY <1>4 DEF NonceInv, OneRequest, NonceStep
<1>5. (\E h \in mempool : Mine(h)) \/ OtherMined => UNCHANGED <<txs, wk, mempool>>
  BY DEF Mine, OtherMined
<1>6. (\E i \in DOMAIN chain : Confirm(i)) => UNCHANGED <<txs, wk, mempool>>
  BY DEF Confirm
<1>7. UNCHANGED vars => UNCHANGED <<txs, wk, mempool>>
  BY DEF vars
<1> QED
  BY <1>1, <1>2, <1>3, <1>4, <1>5, <1>6, <1>7, Effects

\* No transaction takes effect twice, provided that no two handlers prepare it at the same
\* time: whatever prepare, resubmit, cancel and replace sign for it, under whatever failures,
\* is for the one nonce that was stored for it.
THEOREM ExecutedOnce == "request" \notin Concurrent => (Spec => []NoDoubleExecution)
<1> SUFFICES ASSUME "request" \notin Concurrent
             PROVE  Spec => []NoDoubleExecution
  OBVIOUS
<1>1. Init => NonceInv
  <2> SUFFICES ASSUME Init
               PROVE  NonceInv
    OBVIOUS
  <2>1. OneRequest
    BY IdleType DEF Init, OneRequest
  <2>2. \A t \in Txs : Pinned(txs[t], txs[t].data.nonce)
    BY IdlePinned DEF Init
  <2>3. \A w \in Workers : wk[w].tx \in Txs => PinnedWorker(wk[w], txs[wk[w].tx].data.nonce)
    BY IdlePinned DEF Init
  <2> QED
    BY <2>1, <2>2, <2>3 DEF Init, NonceInv
<1>2. Types /\ NonceInv /\ [Next]_vars => NonceInv'
  BY NonceInductive DEF NonceStep
<1>3. Types /\ NonceInv => NoDoubleExecution
  <2> SUFFICES ASSUME Types, NonceInv, NEW t \in Txs, NEW i \in DOMAIN chain,
                      NEW j \in DOMAIN chain, OwnEntry(t, i), OwnEntry(t, j)
               PROVE  i = j
    BY DEF NoDoubleExecution
  <2>1. chain \in Seq(Entries)
    BY DEF Types, TypeOK
  <2>2. /\ chain[i].hash.nonce = txs[t].data.nonce /\ chain[i].hash.nonce = i - 1
        /\ chain[j].hash.nonce = txs[t].data.nonce /\ chain[j].hash.nonce = j - 1
    BY DEF Types, ChainFromMempool, OwnEntry, NonceInv
  <2> QED
    BY <2>1, <2>2
<1> QED
  BY <1>1, <1>2, <1>3, TypesInductive, PTL DEF Spec

-----------------------------------------------------------------------------
(* Monitoring.                                                             *)

\* Jobs and handlers are those of transactions that were stored.
Known ==
    /\ \A j \in jobs : txs[j.tx].status # "Absent"
    /\ \A w \in Workers : ~At(w, "idle") => txs[wk[w].tx].status # "Absent"
    /\ \A w \in Workers : At(w, "act") => wk[w].seen # "Absent"

\* Worker w drops no job, queues jobs of its own transaction only and, if it executes the
\* status check, goes on with it, queues it again or leaves the transaction final.
KeepsJobs(w) ==
    /\ jobs \subseteq jobs' /\ \A j \in jobs' : j \in jobs \/ j.tx = wk[w].tx
    /\ wk[w].kind = "status" =>
          \/ wk'[w].kind = "status" /\ wk'[w].tx = wk[w].tx
          \/ Job(w) \in jobs'
          \/ is_final_state(txs'[wk[w].tx].status)

\* A handler that is no status check.
LEMMA OtherJobs ==
    ASSUME Types, NEW w \in Workers, Crash(w) \/ Prepare(w) \/ Send(w) \/ UserOp(w)
    PROVE  ~At(w, "idle") /\ KeepsJobs(w)
<1> DEFINE t == wk[w].tx
<1>0. /\ RequestJob(t).tx = t /\ SubmitJob(t).tx = t /\ ResubmitJob(t).tx = t
      /\ RecoverJob(t).tx = t /\ Job(w).tx = t
  BY DEF RequestJob, SubmitJob, ResubmitJob, RecoverJob, Job
<1>1. CASE Crash(w)
  <2>1. wk[w].kind = "status" => Job(w) \in jobs'
    BY <1>1 DEF Crash, JobKinds
  <2>2. jobs' = jobs \/ jobs' = jobs \cup {Job(w)}
    BY <1>1 DEF Crash
  <2>3. ~At(w, "idle")
    BY <1>1 DEF Crash
  <2> QED
    BY <1>0, <2>1, <2>2, <2>3 DEF KeepsJobs
<1>2. ASSUME Prepare(w) \/ Send(w) \/ UserOp(w)
      PROVE  ~At(w, "idle") /\ wk[w].kind # "status"
  <2>1. wk[w].pc \notin {"idle", "status", "check", "act", "nonce"}
    BY <1>2 DEF Prepare, PrepareSkip, PrepareError, PrepareReject, PrepareNonce, PreparePresign,
         PrepareSign, Send, SubmitSkip, Submit, SubmitUpdate, ResubmitSkip, Resubmit,
         ResubmitUpdate, UserOp, Cancel, Replace, At
  <2> QED
    BY <2>1, WorkerType DEF Handles, At
<1>3. ASSUME Prepare(w) \/ Send(w) \/ UserOp(w), NEW J, jobs' = jobs \/ jobs' = jobs \cup {J},
             J.tx = t
      PROVE  ~At(w, "idle") /\ KeepsJobs(w)
  BY <1>2, <1>3 DEF KeepsJobs
<1>4. CASE Prepare(w)
  <2>1. \/ jobs' = jobs \/ jobs' = jobs \cup {Job(w)} \/ jobs' = jobs \cup {SubmitJob(t)}
    BY <1>4 DEF Prepare, PrepareSkip, PrepareError, PrepareReject, PrepareNonce, PreparePresign,
         PrepareSign, Enqueued
  <2> QED
    BY <1>0, <1>3, <1>4, <2>1
<1>5. CASE Send(w)
  <2>1. CASE SubmitSkip(w) \/ SubmitUpdate(w) \/ ResubmitSkip(w) \/ ResubmitUpdate(w)
    BY <1>0, <1>3, <1>5, <2>1 DEF SubmitSkip, SubmitUpdate, ResubmitSkip, ResubmitUpdate
  <2>2. CASE Submit(w) \/ Resubmit(w)
    <3>1. jobs' = jobs \/ jobs' = jobs \cup {RecoverJob(t)}
      BY <2>2 DEF Submit, Resubmit, schedule_nonce_recovery_status_check, Enqueued
    <3> QED
      BY <1>0, <1>3, <1>5, <3>1
  <2> QED
    BY <1>5, <2>1, <2>2 DEF Send
<1>6. CASE UserOp(w)
  <2>1. jobs' = jobs \/ jobs' = jobs \cup {ResubmitJob(t)}
    BY <1>6 DEF UserOp, Cancel, Replace, Enqueued
  <2> QED
    BY <1>0, <1>3, <1>6, <2>1
<1> QED
  BY <1>1, <1>4, <1>5, <1>6

\* A status check that ends and returns r: what it read, or what it stored.
LEMMA EndKeeps ==
    ASSUME Types, FinalSeen, FinalGuard, NEW w \in Workers, wk[w].tx \in Txs, NEW r, NEW j,
           StatusEnd(w, r) \/ (StatusEndWith(w, r, j) /\ j.tx = wk[w].tx),
           \/ UNCHANGED txs /\ r = wk[w].snap
           \/ txs' = [txs EXCEPT ![wk[w].tx] = r]
    PROVE  KeepsJobs(w)
<1>1. Job(w).tx = wk[w].tx /\ txs \in [Txs -> Transactions]
  BY DEF Job, Types, TypeOK
<1>2. jobs \subseteq jobs' /\ \A i \in jobs' : i \in jobs \/ i.tx = wk[w].tx
  BY <1>1 DEF StatusEnd, StatusEndWith, Keep
<1>3. CASE is_final_state(r.status)
  <2>1. is_final_state(txs'[wk[w].tx].status)
    BY <1>1, <1>3 DEF FinalSeen
  <2> QED
    BY <1>2, <2>1 DEF KeepsJobs
<1>4. CASE ~is_final_state(r.status)
  <2>1. Job(w) \in jobs'
    BY <1>4 DEF StatusEnd, StatusEndWith, Keep
  <2> QED
    BY <1>2, <2>1 DEF KeepsJobs
<1> QED
  BY <1>3, <1>4

\* A status check goes on until the transaction is final.
LEMMA StatusJobs ==
    ASSUME Types, FinalSeen, FinalGuard, NEW w \in Workers, Status(w)
    PROVE  ~At(w, "idle") /\ KeepsJobs(w)
<1> DEFINE t == wk[w].tx
           s == wk[w].snap
           failed == WithStatus(txs[t], [txs[t] EXCEPT !.status = "Failed"])
<1>1. At(w, "status") \/ At(w, "nonce") \/ At(w, "check") \/ At(w, "act")
  BY DEF Status, StatusFinal, CircuitBreaker, ReconcileHashes, ReconcileNonce, Check, CheckError,
         ActUpdate, ActPending, ActNoop, ActGap, ActResubmit, Checking, Stuck
<1>2. ~At(w, "idle") /\ t \in Txs /\ wk[w] \in WorkerStates
  BY <1>1, StatusWorker, WorkerType
<1>3. /\ RequestJob(t).tx = t /\ SubmitJob(t).tx = t /\ ResubmitJob(t).tx = t
      /\ RecoverJob(t).tx = t /\ Job(w).tx = t
  BY DEF RequestJob, SubmitJob, ResubmitJob, RecoverJob, Job
<1>4. ASSUME NEW p \in PCs, Goto(w, p), UNCHANGED jobs
      PROVE  KeepsJobs(w)
  <2>1. wk'[w] = Moved(wk[w], p)
    BY <1>4, GotoEffect DEF Types, TypeOK
  <2> QED
    BY <1>4, <2>1, GotoEffect DEF KeepsJobs
<1>5. CASE StatusFinal(w)
  BY <1>2, <1>5, EndKeeps DEF StatusFinal
<1>6. CASE CheckError(w)
  <2>1. jobs' = jobs \cup {Job(w)}
    BY <1>6 DEF CheckError
  <2> QED
    BY <1>2, <1>3, <2>1 DEF KeepsJobs
<1>7. CASE CircuitBreaker(w)
  <2> DEFINE n == NoopUpdate(txs[t], s, FALSE)
  <2>1. \/ txs' = [txs EXCEPT ![t] = failed] /\ StatusEnd(w, failed)
        \/ txs' = [txs EXCEPT ![t] = n] /\ StatusEndWith(w, n, ResubmitJob(t))
        \/ UNCHANGED txs /\ StatusEnd(w, s)
    BY <1>7, BreakerEffect
  <2> HIDE DEF n, failed
  <2> QED
    BY <1>2, <1>3, <2>1, EndKeeps
<1>8. CASE ReconcileHashes(w)
  <2>1. \/ \E p \in PCs : Goto(w, p) /\ UNCHANGED jobs
        \/ \E h : /\ txs' = [txs EXCEPT ![t] = Corrected(txs[t], s, h)]
                  /\ StatusEnd(w, Corrected(txs[t], s, h))
    BY <1>8 DEF ReconcileHashes, PCs
  <2> QED
    BY <1>2, <1>4, <2>1, EndKeeps
<1>9. CASE ReconcileNonce(w)
  <2>1. \/ \E p \in PCs : Goto(w, p) /\ UNCHANGED jobs
        \/ txs' = [txs EXCEPT ![t] = failed] /\ StatusEnd(w, failed)
    BY <1>9 DEF ReconcileNonce, PCs
  <2> HIDE DEF failed
  <2> QED
    BY <1>2, <1>4, <2>1, EndKeeps
<1>10. CASE Check(w)
  <2>1. PICK st \in Statuses \cup {"Absent"}, c \in Transactions :
           wk' = [wk EXCEPT ![w] = Seen(wk[w], st, c)]
    BY <1>10, CheckEffect
  <2>2. wk'[w] = Seen(wk[w], st, c)
    BY <2>1 DEF Types, TypeOK
  <2>3. wk'[w].kind = wk[w].kind /\ wk'[w].tx = t
    BY <1>2, <2>2, SeenType
  <2>4. UNCHANGED jobs
    BY <1>10, CheckEffect
  <2> QED
    BY <1>2, <2>3, <2>4 DEF KeepsJobs
<1>11. CASE ActUpdate(w)
  <2> DEFINE r == IF s.status = wk[w].seen THEN s
                  ELSE WithStatus(txs[t], [txs[t] EXCEPT !.status = wk[w].seen])
  <2>1. /\ txs' = IF s.status = wk[w].seen THEN txs ELSE [txs EXCEPT ![t] = r]
        /\ StatusEnd(w, r)
    BY <1>11 DEF ActUpdate
  <2>2. (UNCHANGED txs /\ r = s) \/ txs' = [txs EXCEPT ![t] = r]
    BY <2>1
  <2> HIDE DEF r
  <2> QED
    BY <1>2, <2>1, <2>2, EndKeeps
<1>12. CASE ActPending(w)
  <2>1. \/ txs' = [txs EXCEPT ![t] = failed] /\ StatusEnd(w, failed)
        \/ StatusEndWith(w, s, RequestJob(t)) /\ UNCHANGED txs
    BY <1>12 DEF ActPending
  <2> HIDE DEF failed
  <2> QED
    BY <1>2, <1>3, <2>1, EndKeeps
<1>13. ASSUME NEW st \in {"Sent", "Submitted"},
              ActNoop(w, st) \/ ActGap(w, st) \/ ActResubmit(w, st)
       PROVE  KeepsJobs(w)
  <2>1. CASE ActNoop(w, st)
    <3> DEFINE n == NoopUpdate(txs[t], s, FALSE)
    <3>1. /\ txs' = [txs EXCEPT ![t] = n]
          /\ StatusEndWith(w, n, SubmitJob(t)) \/ StatusEndWith(w, n, ResubmitJob(t))
      BY <2>1 DEF ActNoop
    <3> HIDE DEF n
    <3> QED
      BY <1>2, <1>3, <3>1, EndKeeps
  <2>2. CASE ActGap(w, st) \/ ActResubmit(w, st)
    BY <1>2, <1>3, <2>2, EndKeeps DEF ActGap, ActResubmit
  <2> QED
    BY <1>13, <2>1, <2>2
<1> HIDE DEF failed
<1> QED
  BY <1>2, <1>5, <1>6, <1>7, <1>8, <1>9, <1>10, <1>11, <1>12, <1>13 DEF Status

\* What a step does to the jobs: it stores a transaction with its status job (or Failed), takes
\* a job, or is one of a handler that keeps the jobs.
LEMMA JobSteps ==
    ASSUME Types, FinalSeen, FinalGuard, ~({"queue", "db"} \subseteq Faults), [Next]_vars
    PROVE  \/ \E t \in Txs : /\ \E r : Stores(t, r)
                             /\ jobs \subseteq jobs' /\ \A j \in jobs' : j \in jobs \/ j.tx = t
                             /\ StatusJob(t) \in jobs' \/ is_final_state(txs'[t].status)
           \/ \E w \in Workers : \E k :
                /\ Picks(w, k) /\ jobs' \subseteq jobs
                /\ \A j \in jobs \ jobs' : k.kind = j.kind /\ k.tx = j.tx
                /\ txs[k.tx].status = "Absent" => \E j \in jobs : j.tx = k.tx
           \/ \E w \in Workers : HandlerStep(w) /\ KeepsJobs(w)
           \/ UNCHANGED <<txs, wk, jobs>>
<1>1. ASSUME NEW t \in Txs, CreateTransaction(t)
      PROVE  /\ \E r : Stores(t, r)
             /\ jobs \subseteq jobs' /\ \A j \in jobs' : j \in jobs \/ j.tx = t
             /\ StatusJob(t) \in jobs' \/ is_final_state(txs'[t].status)
  <2>1. \E r : Stores(t, r)
    BY <1>1, CreateEffect
  <2>2. StatusJob(t).tx = t /\ RequestJob(t).tx = t /\ is_final_state("Failed")
    BY DEF StatusJob, RequestJob, is_final_state, Finals
  <2>3. CASE \E push \in BOOLEAN :
               jobs' = jobs \cup {StatusJob(t)} \cup (IF push THEN {RequestJob(t)} ELSE {})
    BY <2>1, <2>2, <2>3
  <2>4. CASE txs' = [txs EXCEPT ![t].status = "Failed"] /\ UNCHANGED jobs
    <3>1. txs \in [Txs -> Transactions] /\ txs[t] \in Transactions
      BY DEF Types, TypeOK
    <3>2. txs'[t].status = "Failed"
      BY <2>4, <3>1 DEF Transactions
    <3> QED
      BY <2>1, <2>2, <2>4, <3>2
  <2> QED
    BY <1>1, <2>3, <2>4 DEF CreateTransaction
<1>2. ASSUME NEW w \in Workers, NEW j \in jobs, Take(w, j)
      PROVE  \E k : /\ Picks(w, k) /\ jobs' \subseteq jobs
                    /\ \A i \in jobs \ jobs' : k.kind = i.kind /\ k.tx = i.tx
                    /\ txs[k.tx].status = "Absent" => \E i \in jobs : i.tx = k.tx
  <2>1. PICK k : Picks(w, k)
    BY <1>2, PickEffect
  <2>2. wk \in [Workers -> WorkerStates] /\ j.kind \in JobKinds /\ j.tx \in Txs
    BY DEF Types, TypeOK, Jobs
  <2>3. wk'[w] = k
    BY <2>1, <2>2 DEF Picks
  <2>4. wk'[w] = Taken(EntryPoint(j.kind), j.kind, j.tx, txs[j.tx])
    BY <1>2, <2>2 DEF Take, Taken
  <2>5. k.kind = j.kind /\ k.tx = j.tx
    <3>1. EntryPoint(j.kind) \in PCs /\ txs[j.tx] \in Transactions
      BY <2>2, TypesRest DEF EntryPoint, PCs, JobKinds
    <3> QED
      BY <2>2, <2>3, <2>4, <3>1, TakenType
  <2>6. jobs' = jobs \/ jobs' = jobs \ {j}
    BY <1>2 DEF Take
  <2> QED
    BY <1>2, <2>1, <2>5, <2>6
<1>3. ASSUME NEW w \in Workers, NEW op \in ApiOps, NEW t \in Txs, StartApi(w, op, t)
      PROVE  \E k : /\ Picks(w, k) /\ jobs' \subseteq jobs
                    /\ \A i \in jobs \ jobs' : k.kind = i.kind /\ k.tx = i.tx
                    /\ txs[k.tx].status = "Absent" => \E i \in jobs : i.tx = k.tx
  <2>1. PICK k : Picks(w, k)
    BY <1>3, PickEffect
  <2>2. wk \in [Workers -> WorkerStates] /\ txs[t] \in Transactions
    BY DEF Types, TypeOK
  <2>3. wk'[w] = k
    BY <2>1, <2>2 DEF Picks
  <2>4. wk'[w] = Taken(op, op, t, txs[t])
    BY <1>3, <2>2 DEF StartApi, Taken
  <2>5. k.tx = t
    <3>1. op \in PCs
      BY ConstantFacts DEF PCs
    <3> QED
      BY <2>2, <2>3, <2>4, <3>1, TakenType
  <2>6. jobs' = jobs /\ txs[t].status # "Absent"
    BY <1>3 DEF StartApi
  <2> QED
    BY <2>1, <2>5, <2>6
<1>4. ASSUME NEW w \in Workers,
             Crash(w) \/ Prepare(w) \/ Send(w) \/ UserOp(w) \/ Status(w)
      PROVE  HandlerStep(w) /\ KeepsJobs(w)
  <2>1. KeepsJobs(w)
    BY <1>4, OtherJobs, StatusJobs
  <2>2. Crash(w) => HandlerStep(w)
    BY DEF Crash, Leaves, HandlerStep
  <2> QED
    BY <1>4, <2>1, <2>2, PrepareShapes, SendShapes, UserShapes, StatusShapes, ResentShapes
       DEF HandlerStep
<1>5. ASSUME \/ \E h \in mempool : Mine(h)
             \/ \E i \in DOMAIN chain : Confirm(i)
             \/ OtherMined \/ NonceHealth \/ UNCHANGED vars
      PROVE  UNCHANGED <<txs, wk, jobs>>
  BY <1>5 DEF Mine, Confirm, OtherMined, NonceHealth, vars
<1> QED
  BY <1>1, <1>2, <1>3, <1>4, <1>5 DEF Next

\* The status check of a transaction is not lost.
LEMMA MonitoredInductive ==
    ASSUME Types, FinalSeen, Known, MonitoredUntilFinal, FinalGuard,
           ~({"queue", "db"} \subseteq Faults), [Next]_vars
    PROVE  Known' /\ MonitoredUntilFinal'
<1>0. /\ wk \in [Workers -> WorkerStates] /\ txs \in [Txs -> Transactions]
      /\ \A j \in jobs : j.tx \in Txs
  BY DEF Types, TypeOK, Jobs
<1>1. ASSUME NEW t \in Txs, NEW r, Stores(t, r),
             jobs \subseteq jobs', \A j \in jobs' : j \in jobs \/ j.tx = t,
             StatusJob(t) \in jobs' \/ is_final_state(txs'[t].status)
      PROVE  Known' /\ MonitoredUntilFinal'
  <2>1. \A u \in Txs : txs'[u] = IF u = t THEN r ELSE txs[u]
    BY <1>0, <1>1 DEF Stores
  <2>2. UNCHANGED wk /\ r.status # "Absent"
    BY <1>1 DEF Stores
  <2>3. Known'
    <3>1. \A w \in Workers : ~At(w, "idle") => wk[w].tx \in Txs
      BY WorkerType
    <3>2. \A j \in jobs' : txs'[j.tx].status # "Absent"
      BY <1>0, <1>1, <2>1, <2>2 DEF Known
    <3>3. \A w \in Workers : wk[w].pc # "idle" => txs'[wk[w].tx].status # "Absent"
      BY <2>1, <2>2, <3>1 DEF Known, At
    <3> QED
      BY <2>2, <3>2, <3>3 DEF Known, At
  <2>4. MonitoredUntilFinal'
    BY <1>1, <2>1, <2>2 DEF MonitoredUntilFinal, StatusJob
  <2> QED
    BY <2>3, <2>4
<1>2. ASSUME NEW w \in Workers, NEW k, Picks(w, k), jobs' \subseteq jobs,
             \A j \in jobs \ jobs' : k.kind = j.kind /\ k.tx = j.tx,
             txs[k.tx].status = "Absent" => \E j \in jobs : j.tx = k.tx
      PROVE  Known' /\ MonitoredUntilFinal'
  <2>1. \A v \in Workers : wk'[v] = IF v = w THEN k ELSE wk[v]
    BY <1>0, <1>2 DEF Picks
  <2>2. UNCHANGED txs /\ k.pc \notin {"idle", "act"} /\ At(w, "idle")
    BY <1>2 DEF Picks
  <2>3. Known'
    BY <1>2, <2>1, <2>2 DEF Known, At
  <2>4. wk[w].kind # "status"
    BY <2>2, WorkerType DEF Handles, At
  <2>5. \A t : StatusJob(t).kind = "status" /\ StatusJob(t).tx = t
    BY DEF StatusJob
  <2>6. MonitoredUntilFinal'
    <3> SUFFICES ASSUME NEW t \in Txs, txs[t].status # "Absent", ~is_final_state(txs[t].status)
                 PROVE  \/ StatusJob(t) \in jobs'
                        \/ \E v \in Workers : wk'[v].kind = "status" /\ wk'[v].tx = t
      BY <2>2 DEF MonitoredUntilFinal, StatusJob
    <3>1. CASE StatusJob(t) \in jobs
      BY <1>2, <2>1, <2>5, <3>1
    <3>2. ASSUME NEW v \in Workers, wk[v].kind = "status" /\ wk[v].tx = t
          PROVE  \E x \in Workers : wk'[x].kind = "status" /\ wk'[x].tx = t
      BY <2>1, <2>4, <3>2
    <3> QED
      BY <3>1, <3>2 DEF MonitoredUntilFinal
  <2> QED
    BY <2>3, <2>6
<1>3. ASSUME NEW w \in Workers, HandlerStep(w), KeepsJobs(w)
      PROVE  Known' /\ MonitoredUntilFinal'
  <2> DEFINE t == wk[w].tx
  <2>1. PICK r, k : Steps(w, r, k) /\ StatusKept(w, r, k)
    BY <1>3, StatusEffect
  <2>2. t \in Txs /\ ~At(w, "idle")
    BY <1>3, WorkerType DEF HandlerStep
  <2>3. \A u \in Txs : txs'[u] = IF u = t THEN r ELSE txs[u]
    BY <1>0, <2>1 DEF Steps
  <2>4. \A v \in Workers : wk'[v] = IF v = w THEN k ELSE wk[v]
    BY <1>0, <2>1 DEF Steps
  <2>5. r.status # "Absent"
    BY <2>1, <2>2 DEF StatusKept, Remembers, Known
  <2>6. Known'
    <3>1. \A v \in Workers : ~At(v, "idle") => wk[v].tx \in Txs
      BY WorkerType
    <3>2. \A j \in jobs' : txs'[j.tx].status # "Absent"
      BY <1>0, <1>3, <2>2, <2>3, <2>5 DEF Known, KeepsJobs
    <3>3. \A v \in Workers : wk'[v].pc # "idle" => txs'[wk'[v].tx].status # "Absent"
      BY <2>1, <2>2, <2>3, <2>4, <2>5, <3>1, IdleType DEF Known, At, StatusKept
    <3>4. \A v \in Workers : wk'[v].pc = "act" => wk'[v].seen # "Absent"
      BY <2>1, <2>4 DEF Known, At, StatusKept
    <3> QED
      BY <3>2, <3>3, <3>4 DEF Known, At
  <2>7. ASSUME NEW u \in Txs, txs'[u].status # "Absent", ~is_final_state(txs'[u].status)
        PROVE  \/ StatusJob(u) \in jobs'
               \/ \E v \in Workers : wk'[v].kind = "status" /\ wk'[v].tx = u
    <3>1. txs[u].status # "Absent" /\ ~is_final_state(txs[u].status)
      BY <2>1, <2>2, <2>3, <2>7 DEF StatusKept, Known
    <3>2. CASE StatusJob(u) \in jobs
      BY <1>3, <3>2 DEF KeepsJobs
    <3>3. ASSUME NEW v \in Workers, wk[v].kind = "status" /\ wk[v].tx = u
          PROVE  \/ StatusJob(u) \in jobs'
                 \/ \E x \in Workers : wk'[x].kind = "status" /\ wk'[x].tx = u
      <4>1. CASE v # w
        BY <2>4, <3>3, <4>1
      <4>2. CASE v = w
        <5>1. Job(w) = StatusJob(u)
          BY <3>3, <4>2 DEF Job, StatusJob
        <5> QED
          BY <1>3, <2>7, <3>3, <4>2, <5>1 DEF KeepsJobs
      <4> QED
        BY <4>1, <4>2
    <3> QED
      BY <3>1, <3>2, <3>3 DEF MonitoredUntilFinal
  <2> QED
    BY <2>6, <2>7 DEF MonitoredUntilFinal, StatusJob
<1>4. CASE UNCHANGED <<txs, wk, jobs>>
  BY <1>4 DEF Known, MonitoredUntilFinal, At, StatusJob
<1> QED
  BY <1>1, <1>2, <1>3, <1>4, JobSteps

\* With the Redis repository, and when the queue and the repository do not both fail while a
\* transaction is created, no crash, redelivery, error or stale snapshot loses the status check
\* of a transaction that is not final.
THEOREM StatusCheckKept ==
    FinalGuard /\ ~({"queue", "db"} \subseteq Faults) => (Spec => []MonitoredUntilFinal)
<1> SUFFICES ASSUME FinalGuard, ~({"queue", "db"} \subseteq Faults)
             PROVE  Spec => []MonitoredUntilFinal
  OBVIOUS
<1>1. Init => FinalSeen
  BY IdleType DEF Init, FinalSeen, NoTx, is_final_state, Finals
<1>2. Init => Known /\ MonitoredUntilFinal
  BY IdleType DEF Init, Known, MonitoredUntilFinal, At, NoTx
<1>3. Types /\ FinalSeen /\ [Next]_vars => FinalSeen'
  BY FinalStep
<1>4. Types /\ FinalSeen /\ Known /\ MonitoredUntilFinal /\ [Next]_vars =>
        Known' /\ MonitoredUntilFinal'
  BY MonitoredInductive
<1> QED
  BY <1>1, <1>2, <1>3, <1>4, TypesInductive, PTL DEF Spec

-----------------------------------------------------------------------------
(* Broadcasts and their records.                                           *)

\* No two handlers work on the same transaction at once.
Serial ==
    \A v, w \in Workers : ~At(v, "idle") /\ ~At(w, "idle") /\ wk[v].tx = wk[w].tx => v = w

\* No answer or write is lost between a broadcast and its record, and nobody asks for a
\* replacement, whose hash is not added to the hashes.
Reliable ==
    /\ FinalGuard /\ Faults \cap {"crash", "timeout", "db"} = {}
    /\ "replace" \notin ApiOps

InHashes(h, r) == \E i \in DOMAIN r.hashes : r.hashes[i] = h

\* What record r was signed with is among its hashes, and it has some when it was signed.
Recorded(r) ==
    /\ r.data.hash # None => InHashes(r.data.hash, r)
    /\ r.data.raw # None => InHashes(r.data.raw, r)
    /\ r.hashes # <<>> => r.data.hash # None
    /\ r.status \in {"Absent", "Pending"} => r.hashes = <<>>

\* What a handler knows at its place: the resubmission is recorded in an active record, a
\* check that saw Pending has read it, and an idle worker prepares nothing.
Steady(k) ==
    /\ k.pc # "replace"
    /\ k.pc = "idle" => k.kind # "request"
    /\ k.pc = "resent" => k.snap.status \in {"Sent", "Submitted"}
    /\ k.pc = "act" /\ k.seen = "Pending" => k.snap.status = "Pending"

\* Snapshots are current, and a broadcast that is not recorded is about to be.
TrackInv ==
    /\ \A t \in Txs : Recorded(txs[t])
    /\ \A w \in Workers : Steady(wk[w]) /\ (~At(w, "idle") => wk[w].snap = txs[wk[w].tx])
    /\ \A h \in mempool : \/ InHashes(h, txs[h.tx])
                          \/ \E w \in Workers : At(w, "resent") /\ wk[w].sig = h

\* Appending a hash keeps the others.
LEMMA Appended ==
    ASSUME NEW q \in Seq(Hashes), NEW h \in Hashes
    PROVE  /\ Append(q, h) # <<>>
           /\ \E i \in DOMAIN Append(q, h) : Append(q, h)[i] = h
           /\ \A g : (\E i \in DOMAIN q : q[i] = g) => \E i \in DOMAIN Append(q, h) : Append(q, h)[i] = g
<1>1. /\ Len(Append(q, h)) = Len(q) + 1 /\ Append(q, h)[Len(q) + 1] = h
      /\ \A i \in 1 .. Len(q) : Append(q, h)[i] = q[i]
      /\ Len(q) \in Nat /\ DOMAIN q = 1 .. Len(q) /\ Append(q, h) \in Seq(Hashes)
  BY AppendProperties, LenProperties
<1>2. DOMAIN Append(q, h) = 1 .. Len(q) + 1
  BY <1>1, LenProperties
<1> QED
  BY <1>1, <1>2

\* A record new that was signed as h, from record cur.
LEMMA SignedRecorded ==
    ASSUME NEW cur, cur.hashes \in Seq(Hashes), NEW h \in Hashes, NEW new,
           new.hashes = Append(cur.hashes, h), new.data.raw = h, new.data.hash = h,
           new.status \in {"Sent", "Submitted"}
    PROVE  /\ Recorded(new) /\ InHashes(h, new)
           /\ \A g : InHashes(g, cur) => InHashes(g, new)
<1> DEFINE q == cur.hashes
<1>1. h # None
  BY ConstantFacts
<1> DEFINE p == new.hashes
<1>2. /\ p # <<>> /\ InHashes(h, new)
      /\ \A g : InHashes(g, cur) => InHashes(g, new)
  <2>1. q \in Seq(Hashes) /\ p = Append(q, h)
    OBVIOUS
  <2> HIDE DEF q, p
  <2>2. /\ Append(q, h) # <<>>
        /\ \E i \in DOMAIN Append(q, h) : Append(q, h)[i] = h
        /\ \A g : (\E i \in DOMAIN q : q[i] = g)
                 => \E i \in DOMAIN Append(q, h) : Append(q, h)[i] = g
    BY <2>1, Appended
  <2>3. /\ p # <<>> /\ \E i \in DOMAIN p : p[i] = h
        /\ \A g : (\E i \in DOMAIN q : q[i] = g) => \E i \in DOMAIN p : p[i] = g
    <3> USE <2>1, <2>2
    <3>1. p # <<>>
      OBVIOUS
    <3>2. \E i \in DOMAIN p : p[i] = h
      OBVIOUS
    <3>3. \A g : (\E i \in DOMAIN q : q[i] = g) => \E i \in DOMAIN p : p[i] = g
      OBVIOUS
    <3> QED
      BY <3>1, <3>2, <3>3
  <2>4. q = cur.hashes /\ p = new.hashes
    BY DEF q, p
  <2> QED
    BY <2>3, <2>4 DEF InHashes
<1> QED
  BY <1>1, <1>2 DEF Recorded

\* A step that leaves a record with all its hashes, and a worker that has read it.
LEMMA TrackLift ==
    ASSUME Types, TrackInv, Serial, NEW w \in Workers, ~At(w, "idle"), NEW r, NEW k,
           Steps(w, r, k), Recorded(r),
           \A h : InHashes(h, txs[wk[w].tx]) => InHashes(h, r),
           At(w, "resent") => InHashes(wk[w].sig, r),
           k = Idle \/ (k.tx = wk[w].tx /\ k.snap = r /\ Steady(k)),
           \A h \in mempool' :
              \/ h \in mempool
              \/ h.tx = wk[w].tx /\ (InHashes(h, r) \/ (k.pc = "resent" /\ k.sig = h))
    PROVE  TrackInv'
<1> DEFINE t == wk[w].tx
<1>0. /\ wk \in [Workers -> WorkerStates] /\ txs \in [Txs -> Transactions] /\ t \in Txs
      /\ mempool \subseteq Hashes
  BY WorkerType DEF Types, TypeOK
<1>1. \A u \in Txs : txs'[u] = IF u = t THEN r ELSE txs[u]
  BY <1>0 DEF Steps
<1>2. \A v \in Workers : wk'[v] = IF v = w THEN k ELSE wk[v]
  BY <1>0 DEF Steps
<1>3. \A u \in Txs : Recorded(txs'[u])
  BY <1>1 DEF TrackInv
<1>4. ASSUME NEW v \in Workers
      PROVE  Steady(wk'[v]) /\ (wk'[v].pc # "idle" => wk'[v].snap = txs'[wk'[v].tx])
  <2>1. CASE v = w /\ k = Idle
    BY <1>2, <2>1, IdleType DEF Steady
  <2>2. CASE v = w /\ k # Idle
    BY <1>0, <1>1, <1>2, <2>2
  <2>3. CASE v # w
    <3>1. wk'[v] = wk[v] /\ Steady(wk[v])
      BY <1>2, <2>3 DEF TrackInv
    <3>2. ~At(v, "idle") => wk[v].tx # t /\ wk[v].tx \in Txs /\ wk[v].snap = txs[wk[v].tx]
      BY <2>3, WorkerType DEF Serial, TrackInv
    <3> QED
      BY <1>1, <3>1, <3>2 DEF At
  <2> QED
    BY <2>1, <2>2, <2>3
<1>5. ASSUME NEW h \in mempool'
      PROVE  \/ InHashes(h, txs'[h.tx])
             \/ \E v \in Workers : wk'[v].pc = "resent" /\ wk'[v].sig = h
  <2>1. CASE h.tx = t /\ (InHashes(h, r) \/ (k.pc = "resent" /\ k.sig = h))
    BY <1>0, <1>1, <1>2, <2>1
  <2>2. CASE h \in mempool /\ InHashes(h, txs[h.tx])
    <3>1. h.tx \in Txs
      BY <1>0, <2>2, ConstantFacts
    <3> QED
      BY <1>1, <2>2, <3>1
  <2>3. ASSUME NEW v \in Workers, At(v, "resent"), wk[v].sig = h
        PROVE  \/ InHashes(h, txs'[h.tx])
               \/ \E x \in Workers : wk'[x].pc = "resent" /\ wk'[x].sig = h
    <3>1. CASE v = w
      <4>1. h.tx = t
        BY <2>3, <3>1, WorkerType DEF Handles, At
      <4> QED
        BY <1>0, <1>1, <2>3, <3>1, <4>1
    <3>2. CASE v # w
      BY <1>2, <2>3, <3>2 DEF At
    <3> QED
      BY <3>1, <3>2
  <2> QED
    BY <2>1, <2>2, <2>3 DEF TrackInv
<1> QED
  BY <1>3, <1>4, <1>5 DEF TrackInv, At

\* The same for a handler that writes nothing and broadcasts nothing.
LEMMA TrackIdle ==
    ASSUME Types, TrackInv, Serial, NEW w \in Workers, ~At(w, "idle"), ~At(w, "resent"),
           UNCHANGED txs, NEW k \in WorkerStates, wk' = [wk EXCEPT ![w] = k],
           k = Idle \/ (k.tx = wk[w].tx /\ k.snap = wk[w].snap /\ Steady(k)),
           \A h \in mempool' :
              \/ h \in mempool
              \/ /\ h.tx = wk[w].tx
                 /\ InHashes(h, txs[wk[w].tx]) \/ (k.pc = "resent" /\ k.sig = h)
    PROVE  TrackInv'
<1> DEFINE t == wk[w].tx
<1>1. t \in Txs /\ txs[t] \in Transactions /\ txs \in [Txs -> Transactions]
  BY WorkerType DEF Types, TypeOK
<1>2. txs' = [txs EXCEPT ![t] = txs[t]]
  BY <1>1
<1>3. Recorded(txs[t]) /\ wk[w].snap = txs[t]
  BY <1>1 DEF TrackInv
<1>4. Steps(w, txs[t], k)
  BY <1>1, <1>2 DEF Steps
<1> QED
  BY <1>3, <1>4, TrackLift

\* The same for a handler that writes r, the last thing it does.
LEMMA TrackWrite ==
    ASSUME Types, TrackInv, Serial, NEW w \in Workers, ~At(w, "idle"), Done(w),
           UNCHANGED mempool, NEW r \in Transactions, Writes(w, r), Recorded(r),
           \A h : InHashes(h, txs[wk[w].tx]) => InHashes(h, r),
           At(w, "resent") => InHashes(wk[w].sig, r)
    PROVE  TrackInv'
<1>1. Steps(w, r, Idle)
  BY IdleType DEF Steps, Writes, Done
<1> QED
  BY <1>1, TrackLift

\* The steps of a handler when nothing is lost: no record is replaced, and a broadcast is
\* followed by its record.
LEMMA ReliableShapes ==
    ASSUME Types, TrackInv, Reliable, NEW w \in Workers,
           Prepare(w) \/ Send(w) \/ UserOp(w) \/ Status(w)
    PROVE  /\ ~At(w, "idle") /\ UNCHANGED chain
           /\ \/ Leaves(w) \/ Proceeds(w) \/ Allocates(w) \/ SetsStatus(w) \/ PreparePresign(w)
              \/ PrepareSign(w) \/ Submit(w) \/ Resubmit(w) \/ Resends(w) \/ MakesNoop(w)
              \/ Corrects(w) \/ Check(w)
           /\ At(w, "resent") => Resends(w)
<1>1. ~Replace(w)
  BY DEF Replace, TrackInv, Steady, At
<1>2. UserOp(w) => Leaves(w) \/ SetsStatus(w) \/ MakesNoop(w)
  <2> SUFFICES ASSUME Cancel(w)
               PROVE  SetsStatus(w) \/ MakesNoop(w)
    BY <1>1 DEF UserOp
  <2> DEFINE t == wk[w].tx
             s == wk[w].snap
  <2>1. ~At(w, "idle") /\ Done(w) /\ UNCHANGED mempool
    BY DEF Cancel, At
  <2>2. CASE s.status = "Pending"
    <3>1. Writes(w, WithStatus(txs[t], [txs[t] EXCEPT !.status = "Canceled"]))
      BY <2>2 DEF Cancel, Writes
    <3>2. Justified(w, "Canceled") /\ "Canceled" \in Statuses \cup {"Absent"}
      BY <2>2 DEF Justified, Unsent, Statuses, Finals
    <3> QED
      BY <2>1, <3>1, <3>2, Sets
  <2>3. CASE s.status # "Pending"
    <3>1. Writes(w, NoopUpdate(txs[t], s, TRUE)) /\ At(w, "cancel")
      BY <2>3 DEF Cancel, Writes
    <3> QED
      BY <2>1, <2>3, <3>1 DEF MakesNoop
  <2> QED
    BY <2>2, <2>3
<1>3. ASSUME At(w, "resent")
      PROVE  Resends(w)
  <2>1. ~Prepare(w) /\ ~UserOp(w)
    BY <1>3 DEF Prepare, PrepareSkip, PrepareError, PrepareReject, PrepareNonce, PreparePresign,
         PrepareSign, UserOp, Cancel, Replace, At
  <2>2. ~Status(w)
    BY <1>3 DEF Status, StatusFinal, CircuitBreaker, ReconcileHashes, ReconcileNonce, Check,
         CheckError, ActUpdate, ActPending, ActNoop, ActGap, ActResubmit, Checking, Stuck, At
  <2>3. ResubmitUpdate(w)
    BY <1>3, <2>1, <2>2 DEF Send, SubmitSkip, Submit, SubmitUpdate, ResubmitSkip, Resubmit, At
  <2>4. "db" \notin Faults
    BY DEF Reliable
  <2> QED
    BY <1>3, <2>3, <2>4 DEF ResubmitUpdate, Resends, Writes
<1> QED
  BY <1>2, <1>3, PrepareShapes, SendShapes, UserShapes, StatusShapes

\* prepare_transaction, and the handlers that write nothing.
LEMMA TrackPrepare ==
    ASSUME Types, TrackInv, Serial, NEW w \in Workers, ~At(w, "idle"), ~At(w, "resent"),
           \/ Leaves(w) \/ Proceeds(w) \/ Allocates(w) \/ PreparePresign(w) \/ PrepareSign(w)
    PROVE  TrackInv'
<1> DEFINE t == wk[w].tx
           s == wk[w].snap
<1>1. /\ t \in Txs /\ txs[t] \in Transactions /\ s = txs[t] /\ Recorded(s)
  BY WorkerType DEF TrackInv
<1>2. CASE Leaves(w)
  BY <1>2, TrackIdle, IdleType DEF Leaves, Done
<1>3. CASE Proceeds(w)
  <2>1. PICK p \in {"sign", "check", "nonce"} : Goto(w, p)
    BY <1>3 DEF Proceeds
  <2> DEFINE k == Moved(wk[w], p)
  <2>2. /\ wk' = [wk EXCEPT ![w] = k] /\ k \in WorkerStates /\ k.pc = p
        /\ k.tx = t /\ k.snap = s
    BY <2>1, GotoEffect DEF PCs
  <2> HIDE DEF k
  <2>3. Steady(k) /\ UNCHANGED <<txs, mempool>>
    BY <1>3, <2>2 DEF Steady, Proceeds
  <2> QED
    BY <2>2, <2>3, TrackIdle
<1>4. CASE Allocates(w)
  <2> DEFINE k == Allocated(wk[w], counter)
  <2>1. /\ k \in WorkerStates /\ wk' = [wk EXCEPT ![w] = k] /\ UNCHANGED <<txs, mempool>>
        /\ k.pc = "presign" /\ k.tx = t /\ k.snap = s
    BY <1>4, AllocEffect
  <2> HIDE DEF k
  <2> QED
    BY <2>1, TrackIdle DEF Steady
<1>5. CASE PreparePresign(w)
  <2> DEFINE r == Presigned(txs[t], s, wk[w].nonce)
             k == ToSign(wk[w], r)
  <2>1. /\ r \in Transactions /\ Writes(w, r) /\ UNCHANGED mempool
        /\ r.hashes = txs[t].hashes /\ r.status = txs[t].status
        /\ r.data.raw = s.data.raw /\ r.data.hash = s.data.hash
        /\ k \in WorkerStates /\ wk' = [wk EXCEPT ![w] = k]
        /\ k.pc = "sign" /\ k.tx = t /\ k.snap = r
    BY <1>5, PresignEffect
  <2> HIDE DEF r, k
  <2>2. Recorded(r) /\ \A h : InHashes(h, txs[t]) => InHashes(h, r)
    BY <1>1, <2>1 DEF Recorded, InHashes
  <2>3. Steps(w, r, k) /\ Steady(k)
    BY <2>1 DEF Steps, Writes, Steady
  <2> QED
    BY <2>1, <2>2, <2>3, TrackLift
<1>6. CASE PrepareSign(w)
  <2>1. PICK e \in Data, h \in Hashes, new \in Transactions :
              /\ new.status = "Sent" /\ new.data = with_signed_transaction_data(e, h)
              /\ new.hashes = Append(s.hashes, h)
              /\ txs' = [txs EXCEPT ![t] = WithStatus(txs[t], new)]
    BY <1>6, SignWritten
  <2>2. new.data.raw = h /\ new.data.hash = h /\ h # None
    BY <2>1, DataFields, ConstantFacts
  <2>3. txs[t].hashes \in Seq(Hashes)
    BY <1>1, WorkerType
  <2>4. Recorded(new) /\ \A g : InHashes(g, txs[t]) => InHashes(g, new)
    BY <1>1, <2>1, <2>2, <2>3, SignedRecorded
  <2> DEFINE r == WithStatus(txs[t], new)
  <2>5. r \in Transactions /\ Recorded(r) /\ \A g : InHashes(g, txs[t]) => InHashes(g, r)
    BY <1>1, <2>4 DEF WithStatus
  <2>6. Writes(w, r) /\ Done(w) /\ UNCHANGED mempool
    BY <1>6, <2>1 DEF Writes, PrepareSign
  <2> HIDE DEF r
  <2> QED
    BY <2>5, <2>6, TrackWrite
<1> QED
  BY <1>2, <1>3, <1>4, <1>5, <1>6

\* submit_transaction and resubmit_transaction: what is broadcast is recorded, or its handler
\* goes on to record it.
LEMMA TrackSend ==
    ASSUME Types, TrackInv, Serial, Reliable, NEW w \in Workers, ~At(w, "idle"),
           Submit(w) \/ Resubmit(w) \/ Resends(w)
    PROVE  TrackInv'
<1> DEFINE t == wk[w].tx
           s == wk[w].snap
<1>1. /\ t \in Txs /\ txs[t] \in Transactions /\ s = txs[t] /\ Recorded(s)
      /\ s \in Transactions /\ Own(t, s) /\ Steady(wk[w]) /\ Own(t, txs[t])
  BY WorkerType, TypesRest DEF TrackInv
<1>2. CASE Submit(w)
  <2> DEFINE h == s.data.raw
  <2>1. /\ h \in Hashes /\ UNCHANGED txs /\ ~At(w, "resent")
        /\ mempool' = mempool \/ mempool' = mempool \cup {h}
        /\ Goto(w, "submitted") \/ Done(w)
    BY <1>2, SubmitEffect DEF Submit, At
  <2>2. h # None /\ h.tx = t
    BY <1>1, <2>1, ConstantFacts DEF Own
  <2>3. InHashes(h, txs[t])
    BY <1>1, <2>2 DEF Recorded
  <2>4. \A g \in mempool' : g \in mempool \/ (g.tx = t /\ InHashes(g, txs[t]))
    <3> HIDE DEF h
    <3> QED
      BY <2>1, <2>2, <2>3
  <2>5. CASE Goto(w, "submitted")
    <3> DEFINE k == Moved(wk[w], "submitted")
    <3>1. /\ wk' = [wk EXCEPT ![w] = k] /\ k \in WorkerStates /\ k.pc = "submitted"
          /\ k.tx = t /\ k.snap = s
      BY <2>5, GotoEffect DEF PCs
    <3> HIDE DEF k
    <3>2. Steady(k)
      BY <3>1 DEF Steady
    <3> QED
      BY <2>1, <2>4, <3>1, <3>2, TrackIdle
  <2>6. CASE Done(w)
    BY <2>1, <2>4, <2>6, TrackIdle, IdleType DEF Done
  <2> QED
    BY <2>1, <2>5, <2>6
<1>3. CASE Resubmit(w)
  <2>1. PICK h \in Hashes, k \in WorkerStates :
             /\ h.tx = t /\ wk' = [wk EXCEPT ![w] = k]
             /\ \/ k = Idle
                \/ /\ k.pc \in {"resent", "kept"} /\ k.tx = t /\ k.snap = s
                   /\ IF k.pc = "resent" THEN k.sig = h ELSE k.sig = wk[w].sig
             /\ mempool' = mempool \/ mempool' = mempool \cup {h}
             /\ mempool' # mempool => k.pc = "resent" \/ "timeout" \in Faults
             /\ UNCHANGED txs
    BY <1>3, ResubmitEffect
  <2>2. ~At(w, "resent") /\ s.status \in {"Sent", "Submitted"}
    BY <1>3 DEF Resubmit, At, CanSend
  <2>3. k # Idle => Steady(k)
    BY <2>1, <2>2 DEF Steady
  <2>4. \A g \in mempool' : g \in mempool \/ (g.tx = t /\ k.pc = "resent" /\ k.sig = g)
    <3>1. "timeout" \notin Faults /\ Idle.pc # "resent"
      BY IdleType DEF Reliable
    <3> QED
      BY <2>1, <3>1
  <2> QED
    BY <2>1, <2>2, <2>3, <2>4, TrackIdle
<1>4. CASE Resends(w)
  <2> DEFINE h == wk[w].sig
             new == Resent(txs[t], s, h)
             r == WithStatus(txs[t], new)
  <2>1. h \in Hashes /\ h.tx = t
    BY <1>4, WorkerType DEF Resends, Handles, At
  <2>2. s.status \in {"Sent", "Submitted"}
    BY <1>1, <1>4 DEF Steady, Resends, At
  <2>3. r = new
    BY <1>1, <2>2 DEF WithStatus, is_final_state, Finals
  <2>4. /\ new \in Transactions /\ new.status = "Submitted"
        /\ new.data = with_signed_transaction_data(Bumped(s.data), h)
        /\ new.hashes = Append(s.hashes, h)
    BY <1>1, <2>1, ResentWritten
  <2>5. s.data \in Data /\ s.hashes \in Seq(Hashes)
    BY <1>1, RecordType
  <2>6. Writes(w, r) /\ Done(w) /\ UNCHANGED mempool
    BY <1>4 DEF Resends
  <2> HIDE DEF new, h, r
  <2>7. new.data.raw = h /\ new.data.hash = h
    <3>1. Bumped(s.data) \in Data
      BY <2>5, DataType
    <3> QED
      BY <2>4, <3>1, DataFields
  <2>8. Recorded(new) /\ InHashes(h, new) /\ \A g : InHashes(g, s) => InHashes(g, new)
    BY <2>1, <2>4, <2>5, <2>7, SignedRecorded
  <2>9. r \in Transactions /\ Recorded(r) /\ InHashes(wk[w].sig, r)
        /\ \A g : InHashes(g, txs[t]) => InHashes(g, r)
    BY <1>1, <2>3, <2>4, <2>8 DEF h
  <2> QED
    BY <2>6, <2>9, TrackWrite
<1> QED
  BY <1>2, <1>3, <1>4

\* Correcting the hash of a record to one of its hashes.
LEMMA CorrectedRecorded ==
    ASSUME NEW t \in Txs, NEW s \in Transactions, Own(t, s), Recorded(s),
           NEW h \in HistoricalMined(s)
    PROVE  LET r == Corrected(s, s, h)
           IN  /\ r \in Transactions /\ Recorded(r) /\ r.hashes = s.hashes
               /\ is_final_state(s.status) \/ r.status = "Mined" \/ ~FinalGuard
<1> DEFINE r == Corrected(s, s, h)
           d == [s.data EXCEPT !.hash = h]
<1>1. h \in Hashes /\ h.tx = t /\ InHashes(h, s)
  BY HistoryFacts DEF InHashes
<1>2. CorrectedOf(t, s, s, h, r)
  BY <1>1, CorrectedWritten
<1>3. d.raw = s.data.raw /\ d.hash = h /\ h # None
  <2>1. s.data \in Data
    BY RecordType
  <2> QED
    BY <1>1, <2>1, ConstantFacts DEF Data
<1>4. r \in Transactions /\ (r = s \/ (r.status = "Mined" /\ r.hashes = s.hashes /\ r.data = d))
  BY <1>2 DEF CorrectedOf
<1>5. is_final_state(s.status) \/ r.status = "Mined" \/ ~FinalGuard
  BY <1>2 DEF CorrectedOf
<1> HIDE DEF r, d
<1>6. Recorded(r) /\ r.hashes = s.hashes
  <2>1. CASE r.status = "Mined" /\ r.hashes = s.hashes /\ r.data = d
    <3>1. r.data.hash = h /\ r.data.raw = s.data.raw
      BY <1>3, <2>1
    <3>2. InHashes(h, r) /\ (s.data.raw # None => InHashes(s.data.raw, r))
      BY <1>1, <2>1 DEF Recorded, InHashes
    <3> QED
      BY <1>3, <2>1, <3>1, <3>2 DEF Recorded
  <2>2. CASE r = s
    BY <2>2
  <2> QED
    BY <1>4, <2>1, <2>2
<1> QED
  BY <1>4, <1>5, <1>6 DEF r

\* Updates of the status, the NOOP, the corrected hash and the check.
LEMMA TrackUpdate ==
    ASSUME Types, TrackInv, Known, Serial, Reliable, NEW w \in Workers, ~At(w, "idle"),
           ~At(w, "resent"), SetsStatus(w) \/ MakesNoop(w) \/ Corrects(w) \/ Check(w)
    PROVE  TrackInv'
<1> DEFINE t == wk[w].tx
           s == wk[w].snap
<1>1. /\ t \in Txs /\ txs[t] \in Transactions /\ s = txs[t] /\ Recorded(s)
      /\ s \in Transactions /\ Own(t, s) /\ Steady(wk[w])
  BY WorkerType, TypesRest DEF TrackInv
<1>2. CASE SetsStatus(w)
  <2>1. PICK st, r : Justified(w, st) /\ StatusOnly(txs[t], r, st) /\ Writes(w, r)
    BY <1>2 DEF SetsStatus
  <2>2. /\ r \in Transactions /\ r.data = s.data /\ r.hashes = s.hashes
        /\ r.status \in {st, s.status}
    BY <1>1, <2>1 DEF StatusOnly
  <2>3. st \in {"Absent", "Pending"} => s.status = "Pending"
    <3>1. At(w, "act") => wk[w].seen # "Absent"
      BY DEF Known
    <3> QED
      BY <1>1, <2>1, <3>1 DEF Justified, Steady, At
  <2>4. Recorded(r) /\ \A h : InHashes(h, txs[t]) => InHashes(h, r)
    BY <1>1, <2>2, <2>3 DEF Recorded, InHashes
  <2>5. Done(w) /\ UNCHANGED mempool
    BY <1>2 DEF SetsStatus
  <2> QED
    BY <2>1, <2>2, <2>4, <2>5, TrackWrite
<1>3. CASE MakesNoop(w)
  <2>1. PICK c \in BOOLEAN : Writes(w, NoopUpdate(txs[t], s, c))
    BY <1>3 DEF MakesNoop
  <2> DEFINE r == NoopUpdate(txs[t], s, c)
             d == s.data
  <2>2. NoopOf(t, txs[t], s, r)
    BY <1>1, NoopWritten
  <2>3. Writes(w, r) /\ Done(w) /\ UNCHANGED mempool
    BY <1>3, <2>1 DEF MakesNoop
  <2> HIDE DEF r
  <2>4. r.data = make_noop(d) /\ r.hashes = s.hashes /\ r \in Transactions
        /\ r.status = s.status /\ d \in Data
    BY <1>1, <2>2, RecordType DEF NoopOf
  <2>5. r.data.raw = d.raw /\ r.data.hash = d.hash
    BY <2>4, DataFields
  <2>6. Recorded(r) /\ \A h : InHashes(h, txs[t]) => InHashes(h, r)
    BY <1>1, <2>4, <2>5 DEF Recorded, InHashes
  <2> QED
    BY <2>3, <2>4, <2>6, TrackWrite
<1>4. CASE Corrects(w)
  <2>1. PICK h \in HistoricalMined(s) : Writes(w, Corrected(txs[t], s, h))
    BY <1>4 DEF Corrects
  <2> DEFINE r == Corrected(s, s, h)
  <2>2. r \in Transactions /\ Recorded(r) /\ r.hashes = s.hashes
    BY <1>1, CorrectedRecorded
  <2>3. Writes(w, r) /\ Done(w) /\ UNCHANGED mempool
    BY <1>1, <1>4, <2>1 DEF Corrects
  <2> HIDE DEF r
  <2>4. \A g : InHashes(g, txs[t]) => InHashes(g, r)
    BY <1>1, <2>2 DEF InHashes
  <2> QED
    BY <2>2, <2>3, <2>4, TrackWrite
<1>5. CASE Check(w)
  <2>1. PICK st \in Statuses \cup {"Absent"}, c \in Transactions :
           wk' = [wk EXCEPT ![w] = Seen(wk[w], st, c)] /\ Saw(t, s, st, c)
    BY <1>5, CheckEffect
  <2> DEFINE k == Seen(wk[w], st, c)
  <2>2. k \in WorkerStates /\ k.pc = "act" /\ k.seen = st /\ k.snap = c /\ k.tx = t
    <3>1. wk[w] \in WorkerStates
      BY WorkerType
    <3> QED
      BY <3>1, SeenType
  <2>3. wk' = [wk EXCEPT ![w] = k] /\ UNCHANGED mempool
    BY <1>5, <2>1, CheckEffect
  <2> HIDE DEF k
  <2>4. ASSUME UNCHANGED txs, c = s, st = "Pending" => s.status = "Pending"
        PROVE  TrackInv'
    <3>1. Steady(k)
      BY <2>2, <2>4 DEF Steady
    <3> QED
      BY <2>2, <2>3, <2>4, <3>1, TrackIdle
  <2>5. ASSUME NEW h \in HistoricalMined(s), txs' = [txs EXCEPT ![t] = Corrected(s, s, h)],
               st = Corrected(s, s, h).status, s.status = "Submitted",
               st # s.status => c = Corrected(s, s, h)
        PROVE  TrackInv'
    <3> DEFINE r == Corrected(s, s, h)
    <3>1. r \in Transactions /\ Recorded(r) /\ r.hashes = s.hashes /\ r.status = "Mined"
      BY <1>1, <2>5, CorrectedRecorded DEF Reliable, is_final_state, Finals
    <3>2. txs' = [txs EXCEPT ![t] = r] /\ st = "Mined" /\ c = r
      BY <2>5, <3>1
    <3> HIDE DEF r
    <3>3. \A g : InHashes(g, txs[t]) => InHashes(g, r)
      BY <1>1, <3>1 DEF InHashes
    <3>4. Steps(w, r, k) /\ Steady(k)
      BY <2>2, <2>3, <3>1, <3>2 DEF Steps, Steady
    <3> QED
      BY <2>2, <2>3, <3>1, <3>2, <3>3, <3>4, TrackLift
  <2>6. ReceiptStatus(s) # "Pending"
    BY DEF ReceiptStatus
  <2> QED
    BY <1>1, <2>1, <2>4, <2>5, <2>6 DEF Saw
<1> QED
  BY <1>2, <1>3, <1>4, <1>5

\* The records of what was broadcast are kept by every step.
LEMMA TrackInductive ==
    ASSUME Types, TrackInv, Known, Serial, Reliable, [Next]_vars
    PROVE  TrackInv'
<1>0. /\ wk \in [Workers -> WorkerStates] /\ txs \in [Txs -> Transactions]
      /\ mempool \subseteq Hashes /\ \A h \in Hashes : h.tx \in Txs
  BY ConstantFacts DEF Types, TypeOK
<1>1. ASSUME NEW t \in Txs, CreateTransaction(t)
      PROVE  TrackInv'
  <2>0. PICK r : Stores(t, r)
    BY <1>1, CreateEffect
  <2>1. \A u \in Txs : txs'[u] = IF u = t THEN r ELSE txs[u]
    BY <1>0, <2>0 DEF Stores
  <2>2. /\ UNCHANGED <<wk, mempool>> /\ r.data = txs[t].data /\ r.hashes = txs[t].hashes
        /\ txs[t].status = "Absent" /\ r.status \in {"Pending", "Failed"}
    BY <2>0 DEF Stores
  <2>3. Recorded(txs[t])
    BY DEF TrackInv
  <2>4. Recorded(r) /\ \A h : InHashes(h, txs[t]) => InHashes(h, r)
    BY <2>2, <2>3 DEF Recorded, InHashes
  <2>5. \A w \in Workers : ~At(w, "idle") => wk[w].tx \in Txs /\ wk[w].tx # t
    BY <2>2, WorkerType DEF Known
  <2>6. \A u \in Txs : Recorded(txs'[u])
    BY <2>1, <2>4 DEF TrackInv
  <2>7. \A w \in Workers : Steady(wk[w]) /\ (~At(w, "idle") => wk[w].snap = txs'[wk[w].tx])
    BY <2>1, <2>5 DEF TrackInv
  <2>8. \A h \in mempool : \/ InHashes(h, txs'[h.tx])
                           \/ \E w \in Workers : At(w, "resent") /\ wk[w].sig = h
    BY <1>0, <2>1, <2>4 DEF TrackInv
  <2> QED
    BY <2>2, <2>6, <2>7, <2>8 DEF TrackInv, At
<1>2. ASSUME NEW w \in Workers,
             \/ \E j \in jobs : Take(w, j)
             \/ \E op \in ApiOps, t \in Txs : StartApi(w, op, t)
      PROVE  TrackInv'
  <2>0. PICK k : Picks(w, k)
    BY <1>2, PickEffect
  <2>1. \A v \in Workers : wk'[v] = IF v = w THEN k ELSE wk[v]
    BY <1>0, <2>0 DEF Picks
  <2>2. /\ UNCHANGED <<txs, mempool>> /\ At(w, "idle") /\ k.snap = txs[k.tx]
        /\ k.pc \in {"request", "submit", "resubmit", "status", "cancel"}
    BY <2>0 DEF Picks, Reliable
  <2>3. \A v \in Workers : Steady(wk'[v])
    BY <2>1, <2>2 DEF TrackInv, Steady
  <2>4. \A v \in Workers : wk'[v].pc # "idle" => wk'[v].snap = txs[wk'[v].tx]
    BY <2>1, <2>2 DEF TrackInv, At
  <2>5. \A h \in mempool : \/ InHashes(h, txs[h.tx])
                           \/ \E v \in Workers : wk'[v].pc = "resent" /\ wk'[v].sig = h
    BY <2>1, <2>2 DEF TrackInv, At
  <2> QED
    BY <2>2, <2>3, <2>4, <2>5 DEF TrackInv, At
<1>3. ASSUME NEW w \in Workers, Prepare(w) \/ Send(w) \/ UserOp(w) \/ Status(w)
      PROVE  TrackInv'
  <2>1. /\ ~At(w, "idle")
        /\ \/ Leaves(w) \/ Proceeds(w) \/ Allocates(w) \/ SetsStatus(w) \/ PreparePresign(w)
           \/ PrepareSign(w) \/ Submit(w) \/ Resubmit(w) \/ Resends(w) \/ MakesNoop(w)
           \/ Corrects(w) \/ Check(w)
        /\ At(w, "resent") => Resends(w)
    BY <1>3, ReliableShapes
  <2> QED
    BY <2>1, TrackPrepare, TrackSend, TrackUpdate
<1>4. CASE UNCHANGED <<txs, wk, mempool>>
  BY <1>4 DEF TrackInv, At
<1>5. \A w \in Workers : ~Crash(w)
  BY DEF Crash, Reliable
<1>6. \/ \E h \in mempool : Mine(h)
      \/ \E i \in DOMAIN chain : Confirm(i)
      \/ OtherMined \/ NonceHealth \/ UNCHANGED vars
      => UNCHANGED <<txs, wk, mempool>>
  BY DEF Mine, Confirm, OtherMined, NonceHealth, vars
<1> QED
  BY <1>1, <1>2, <1>3, <1>4, <1>5, <1>6 DEF Next

-----------------------------------------------------------------------------
(* Nothing that was recorded is forgotten, whatever is lost.               *)

HasHashes(r) == \E h : InHashes(h, r)

\* What record r was signed with is among its hashes, and it has hashes once it was signed.
Kept(r) ==
    /\ r.data.hash # None => InHashes(r.data.hash, r)
    /\ r.data.raw # None => InHashes(r.data.raw, r)
    /\ r.status \in {"Absent", "Pending"} => ~HasHashes(r)
    /\ r.status \in {"Sent", "Submitted", "Mined"} => HasHashes(r)

\* The two handlers that add hashes to those that they have read.
Preparing(k) ==
    k.pc \in {"presign", "sign"} \/ (k.pc = "request" /\ k.snap.status = "Pending")
Resubmitting(k) ==
    k.pc = "resent" \/ (k.pc = "resubmit" /\ k.snap.status \in {"Sent", "Submitted"})

\* Handler k may store the status of a record that was signed.
Signs(k) ==
    \/ k.pc \in {"submitted", "kept"}
    \/ k.pc = "act" /\ k.seen \in {"Sent", "Submitted", "Mined"}

\* Handler k, whose transaction is now stored as r, has read no hash that r does not have; if
\* it is to add one, it has read them all.
Follows(k, r) ==
    /\ Kept(k.snap)
    /\ \A h : InHashes(h, k.snap) => InHashes(h, r)
    /\ k.pc # "replace"
    /\ k.pc \in {"resubmit", "resent"} => k.kind = "resubmit"
    /\ k.pc = "act" => k.seen # "Absent" /\ (k.seen = "Pending" => k.snap.status = "Pending")
    /\ Signs(k) => HasHashes(r)
    /\ Preparing(k) => ~HasHashes(r)
    /\ Resubmitting(k) => HasHashes(k.snap) /\ \A h : InHashes(h, r) => InHashes(h, k.snap)

\* A transaction is resubmitted by one handler at a time.
OneResubmit ==
    \A v, w \in Workers : wk[v].kind = "resubmit" /\ wk[w].kind = "resubmit"
                          /\ wk[v].tx = wk[w].tx => v = w

HashInv ==
    /\ \A t \in Txs : Kept(txs[t])
    /\ \A w \in Workers : ~At(w, "idle") => Follows(wk[w], txs[wk[w].tx])
    /\ OneRequest /\ OneResubmit

\* What a step does: hashes stay, a broadcast is recorded or is a resubmission's, and the
\* write that follows a resubmission records it.
HashStep ==
    /\ HashInv'
    /\ \A t \in Txs : \A h : InHashes(h, txs[t]) => InHashes(h, txs'[t])
    /\ \A h \in mempool' : \/ h \in mempool \/ InHashes(h, txs'[h.tx])
                           \/ \E w \in Workers : At(w, "resubmit") /\ wk[w].tx = h.tx
    /\ \A w \in Workers : At(w, "resent") /\ wk'[w] # wk[w] /\ txs' # txs
                          => InHashes(wk[w].sig, txs'[wk[w].tx])

\* Record r, with the hashes of cur and more, serves a handler that adds none as cur did.
LEMMA FollowsGrown ==
    ASSUME NEW k, NEW cur, NEW r, Follows(k, cur),
           \A h : InHashes(h, cur) => InHashes(h, r),
           \/ \A h : InHashes(h, r) => InHashes(h, cur)
           \/ ~Preparing(k) /\ ~Resubmitting(k)
    PROVE  Follows(k, r)
BY DEF Follows, HasHashes

\* A step that leaves a record with all its hashes, and others only if nobody else is about to
\* add to those that it has read.
LEMMA HashLift ==
    ASSUME Types, HashInv, NEW w \in Workers, ~At(w, "idle"), NEW r, NEW k,
           Steps(w, r, k), Kept(r),
           \A h : InHashes(h, txs[wk[w].tx]) => InHashes(h, r),
           k = Idle \/ (k.tx = wk[w].tx /\ k.kind = wk[w].kind /\ Follows(k, r)),
           \/ \A h : InHashes(h, r) => InHashes(h, txs[wk[w].tx])
           \/ \A v \in Workers \ {w} : ~At(v, "idle") /\ wk[v].tx = wk[w].tx
                                       => ~Preparing(wk[v]) /\ ~Resubmitting(wk[v]),
           \A h \in mempool' : \/ h \in mempool
                               \/ h.tx = wk[w].tx /\ (InHashes(h, r) \/ At(w, "resubmit")),
           At(w, "resent") => txs' = txs \/ InHashes(wk[w].sig, r)
    PROVE  HashStep
<1> DEFINE t == wk[w].tx
<1>0. /\ wk \in [Workers -> WorkerStates] /\ txs \in [Txs -> Transactions] /\ t \in Txs
  BY WorkerType DEF Types, TypeOK
<1>1. \A u \in Txs : txs'[u] = IF u = t THEN r ELSE txs[u]
  BY <1>0 DEF Steps
<1>2. \A v \in Workers : wk'[v] = IF v = w THEN k ELSE wk[v]
  BY <1>0 DEF Steps
<1>3. \A u \in Txs : Kept(txs'[u])
  BY <1>1 DEF HashInv
<1>4. ASSUME NEW v \in Workers, wk'[v].pc # "idle"
      PROVE  Follows(wk'[v], txs'[wk'[v].tx])
  <2>1. CASE v = w
    BY <1>0, <1>1, <1>2, <1>4, <2>1, IdleType
  <2>2. CASE v # w
    <3>1. /\ wk'[v] = wk[v] /\ Follows(wk[v], txs[wk[v].tx]) /\ ~At(v, "idle")
          /\ wk[v].tx \in Txs
      BY <1>2, <1>4, <2>2, WorkerType DEF HashInv, At
    <3>2. CASE wk[v].tx # t
      BY <1>1, <3>1, <3>2
    <3>3. CASE wk[v].tx = t
      BY <1>0, <1>1, <2>2, <3>1, <3>3, FollowsGrown
    <3> QED
      BY <3>2, <3>3
  <2> QED
    BY <2>1, <2>2
<1>5. \A v \in Workers : \/ wk'[v].kind = "none"
                         \/ wk'[v].kind = wk[v].kind /\ wk'[v].tx = wk[v].tx
  BY <1>2, IdleType
<1>6. OneRequest' /\ OneResubmit'
  BY <1>5 DEF HashInv, OneRequest, OneResubmit
<1>7. \A u \in Txs : \A h : InHashes(h, txs[u]) => InHashes(h, txs'[u])
  BY <1>1
<1>8. \A h \in mempool' : \/ h \in mempool \/ InHashes(h, txs'[h.tx])
                          \/ \E v \in Workers : At(v, "resubmit") /\ wk[v].tx = h.tx
  BY <1>0, <1>1
<1>9. ASSUME NEW v \in Workers, At(v, "resent"), wk'[v] # wk[v], txs' # txs
      PROVE  InHashes(wk[v].sig, txs'[wk[v].tx])
  BY <1>0, <1>1, <1>2, <1>9
<1> QED
  BY <1>3, <1>4, <1>6, <1>7, <1>8, <1>9 DEF HashStep, HashInv, At

\* The same for a handler that writes nothing.
LEMMA HashIdle ==
    ASSUME Types, HashInv, NEW w \in Workers, ~At(w, "idle"), UNCHANGED txs,
           NEW k \in WorkerStates, wk' = [wk EXCEPT ![w] = k],
           k = Idle \/ (k.tx = wk[w].tx /\ k.kind = wk[w].kind /\ Follows(k, txs[wk[w].tx])),
           \A h \in mempool' :
              \/ h \in mempool
              \/ h.tx = wk[w].tx /\ (InHashes(h, txs[wk[w].tx]) \/ At(w, "resubmit"))
    PROVE  HashStep
<1> DEFINE t == wk[w].tx
<1>1. t \in Txs /\ txs[t] \in Transactions /\ txs \in [Txs -> Transactions]
  BY WorkerType DEF Types, TypeOK
<1>2. txs' = [txs EXCEPT ![t] = txs[t]]
  BY <1>1
<1>3. Steps(w, txs[t], k) /\ Kept(txs[t])
  BY <1>1, <1>2 DEF Steps, HashInv
<1> QED
  BY <1>3, HashLift

\* The same for a handler that writes r, with the hashes that are stored, the last thing it
\* does.
LEMMA HashWrite ==
    ASSUME Types, HashInv, NEW w \in Workers, ~At(w, "idle"), ~At(w, "resent"), Done(w),
           UNCHANGED mempool, NEW r \in Transactions, Writes(w, r), Kept(r),
           r.hashes = txs[wk[w].tx].hashes
    PROVE  HashStep
<1>1. Steps(w, r, Idle)
  BY IdleType DEF Steps, Writes, Done
<1>2. \A h : InHashes(h, r) <=> InHashes(h, txs[wk[w].tx])
  BY DEF InHashes
<1> QED
  BY <1>1, <1>2, HashLift

\* What a handler has read, and the record that it may take its data from: cur's hashes and
\* the data of its snapshot s.
LEMMA KeptFrom ==
    ASSUME NEW s, NEW cur, NEW r, Kept(s), Kept(cur),
           \A h : InHashes(h, s) => InHashes(h, cur),
           r.hashes = cur.hashes, r.status = cur.status,
           r.data.raw = s.data.raw, r.data.hash = s.data.hash
    PROVE  Kept(r)
<1>1. \A h : InHashes(h, r) <=> InHashes(h, cur)
  BY DEF InHashes
<1> QED
  BY <1>1 DEF Kept, HasHashes

\* A record new, signed as h on top of the hashes of s, in place of cur unless that is final.
LEMMA KeptSigned ==
    ASSUME NEW s, NEW cur, NEW h \in Hashes, NEW new, s.hashes \in Seq(Hashes),
           new.hashes = Append(s.hashes, h), new.data.raw = h, new.data.hash = h,
           new.status \in {"Sent", "Submitted"},
           \A g : InHashes(g, cur) => InHashes(g, s)
    PROVE  /\ Kept(new) /\ InHashes(h, new)
           /\ \A g : InHashes(g, cur) => InHashes(g, new)
<1>1. /\ Recorded(new) /\ InHashes(h, new)
      /\ \A g : InHashes(g, s) => InHashes(g, new)
  BY SignedRecorded
<1> QED
  BY <1>1 DEF Kept, HasHashes

\* What a handler knows of the record of its transaction.
LEMMA HashKnown ==
    ASSUME Types, HashInv, NEW w \in Workers, ~At(w, "idle")
    PROVE  LET t == wk[w].tx
               s == wk[w].snap
           IN  /\ t \in Txs /\ txs[t] \in Transactions /\ s \in Transactions
               /\ Own(t, txs[t]) /\ Own(t, s) /\ s.hashes \in Seq(Hashes)
               /\ Kept(txs[t]) /\ Kept(s) /\ Follows(wk[w], txs[t])
               /\ \A h : InHashes(h, s) => InHashes(h, txs[t])
<1>1. wk[w].tx \in Txs /\ wk[w].snap.hashes \in Seq(Hashes)
  BY WorkerType
<1> QED
  BY <1>1, WorkerType, TypesRest DEF HashInv, Follows

\* prepare_transaction, and the handlers that write nothing.
LEMMA HashPrepare ==
    ASSUME Types, HashInv, NEW w \in Workers, ~At(w, "idle"),
           \/ Leaves(w)
           \/ ~At(w, "resent") /\ (Proceeds(w) \/ Allocates(w) \/ PreparePresign(w) \/ PrepareSign(w))
    PROVE  HashStep
<1> DEFINE t == wk[w].tx
           s == wk[w].snap
<1>1. /\ t \in Txs /\ txs[t] \in Transactions /\ s.hashes \in Seq(Hashes)
      /\ Kept(txs[t]) /\ Kept(s) /\ Follows(wk[w], txs[t])
      /\ \A h : InHashes(h, s) => InHashes(h, txs[t])
  BY HashKnown
<1>2. CASE Leaves(w)
  BY <1>2, HashIdle, IdleType DEF Leaves, Done
<1>3. CASE Proceeds(w)
  <2>1. PICK p \in {"sign", "check", "nonce"} : Goto(w, p) /\ (p = "sign" => Preparing(wk[w]))
    BY <1>3 DEF Proceeds, Preparing, At
  <2> DEFINE k == Moved(wk[w], p)
  <2>2. /\ wk' = [wk EXCEPT ![w] = k] /\ k \in WorkerStates /\ k.pc = p
        /\ k.tx = t /\ k.snap = s /\ k.kind = wk[w].kind
    BY <2>1, GotoEffect DEF PCs
  <2> HIDE DEF k
  <2>3. Follows(k, txs[t]) /\ UNCHANGED <<txs, mempool>>
    BY <1>1, <1>3, <2>1, <2>2 DEF Follows, Proceeds, Preparing, Resubmitting, Signs
  <2> QED
    BY <2>2, <2>3, HashIdle
<1>4. CASE Allocates(w)
  <2> DEFINE k == Allocated(wk[w], counter)
  <2>1. /\ k \in WorkerStates /\ wk' = [wk EXCEPT ![w] = k] /\ UNCHANGED <<txs, mempool>>
        /\ k.pc = "presign" /\ k.tx = t /\ k.snap = s /\ k.kind = wk[w].kind
    BY <1>4, AllocEffect
  <2> HIDE DEF k
  <2>2. Preparing(wk[w])
    BY <1>4 DEF Allocates, Preparing, At
  <2>3. Follows(k, txs[t])
    BY <1>1, <2>1, <2>2 DEF Follows, Preparing, Resubmitting, Signs
  <2> QED
    BY <2>1, <2>3, HashIdle
<1>5. CASE PreparePresign(w)
  <2> DEFINE r == Presigned(txs[t], s, wk[w].nonce)
             k == ToSign(wk[w], r)
  <2>1. /\ r \in Transactions /\ Writes(w, r) /\ UNCHANGED mempool
        /\ r.hashes = txs[t].hashes /\ r.status = txs[t].status
        /\ r.data.raw = s.data.raw /\ r.data.hash = s.data.hash
        /\ k \in WorkerStates /\ wk' = [wk EXCEPT ![w] = k]
        /\ k.pc = "sign" /\ k.tx = t /\ k.snap = r /\ k.kind = wk[w].kind
    BY <1>5, PresignEffect
  <2> HIDE DEF r, k
  <2>2. Kept(r) /\ \A h : InHashes(h, txs[t]) <=> InHashes(h, r)
    BY <1>1, <2>1, KeptFrom DEF InHashes
  <2>3. Preparing(wk[w]) /\ ~At(w, "resent")
    BY <1>5 DEF PreparePresign, Preparing, At
  <2>4. Follows(k, r)
    BY <1>1, <2>1, <2>2, <2>3 DEF Follows, Preparing, Resubmitting, Signs, HasHashes
  <2>5. Steps(w, r, k)
    BY <2>1 DEF Steps, Writes
  <2> QED
    BY <2>1, <2>2, <2>3, <2>4, <2>5, HashLift
<1>6. CASE PrepareSign(w)
  <2>1. PICK e \in Data, h \in Hashes, new \in Transactions :
              /\ new.status = "Sent" /\ new.data = with_signed_transaction_data(e, h)
              /\ new.hashes = Append(s.hashes, h)
              /\ txs' = [txs EXCEPT ![t] = WithStatus(txs[t], new)]
    BY <1>6, SignWritten
  <2>2. new.data.raw = h /\ new.data.hash = h
    BY <2>1, DataFields
  <2>3. Preparing(wk[w]) /\ ~At(w, "resent") /\ wk[w].kind = "request"
    BY <1>6, WorkerType DEF PrepareSign, Preparing, At, Handles
  <2>4. ~HasHashes(txs[t])
    BY <1>1, <2>3 DEF Follows
  <2>5. Kept(new) /\ \A g : InHashes(g, txs[t]) => InHashes(g, new)
    BY <1>1, <2>1, <2>2, <2>4, KeptSigned DEF HasHashes
  <2> DEFINE r == WithStatus(txs[t], new)
  <2>6. r \in Transactions /\ Kept(r) /\ \A g : InHashes(g, txs[t]) => InHashes(g, r)
    BY <1>1, <2>5 DEF WithStatus
  <2>7. Steps(w, r, Idle) /\ UNCHANGED mempool
    BY <1>6, <2>1, <2>6, IdleType DEF Steps, PrepareSign, Done
  <2> HIDE DEF r
  <2>8. ASSUME NEW v \in Workers \ {w}, ~At(v, "idle"), wk[v].tx = t
        PROVE  ~Preparing(wk[v]) /\ ~Resubmitting(wk[v])
    <3>1. Preparing(wk[v]) => wk[v].kind = "request"
      BY WorkerType DEF Preparing, Handles
    <3>2. Follows(wk[v], txs[t])
      BY <2>8 DEF HashInv
    <3> QED
      BY <2>3, <2>4, <2>8, <3>1, <3>2 DEF HashInv, OneRequest, Follows, HasHashes
  <2> QED
    BY <2>3, <2>6, <2>7, <2>8, HashLift
<1> QED
  BY <1>2, <1>3, <1>4, <1>5, <1>6

\* submit_transaction broadcasts what is recorded; resubmit_transaction records what it has
\* broadcast, if it gets that far.
LEMMA HashSend ==
    ASSUME Types, HashInv, NEW w \in Workers, ~At(w, "idle"),
           Submit(w) \/ Resubmit(w) \/ Resends(w)
    PROVE  HashStep
<1> DEFINE t == wk[w].tx
           s == wk[w].snap
<1>1. /\ t \in Txs /\ txs[t] \in Transactions /\ s \in Transactions
      /\ Own(t, txs[t]) /\ Own(t, s) /\ s.hashes \in Seq(Hashes)
      /\ Kept(txs[t]) /\ Kept(s) /\ Follows(wk[w], txs[t])
      /\ \A h : InHashes(h, s) => InHashes(h, txs[t])
  BY HashKnown
<1>2. CASE Submit(w)
  <2> DEFINE h == s.data.raw
  <2>1. /\ h \in Hashes /\ UNCHANGED txs /\ s.status \in {"Sent", "Submitted"}
        /\ mempool' = mempool \/ mempool' = mempool \cup {h}
        /\ Goto(w, "submitted") \/ Done(w)
    BY <1>2, SubmitEffect DEF Submit, CanSend
  <2>2. h # None /\ h.tx = t
    BY <1>1, <2>1, ConstantFacts DEF Own
  <2>3. InHashes(h, txs[t]) /\ HasHashes(txs[t])
    BY <1>1, <2>2 DEF Kept, HasHashes
  <2>4. \A g \in mempool' : g \in mempool \/ (g.tx = t /\ InHashes(g, txs[t]))
    <3> HIDE DEF h
    <3> QED
      BY <2>1, <2>2, <2>3
  <2>5. CASE Goto(w, "submitted")
    <3> DEFINE k == Moved(wk[w], "submitted")
    <3>1. /\ wk' = [wk EXCEPT ![w] = k] /\ k \in WorkerStates /\ k.pc = "submitted"
          /\ k.tx = t /\ k.snap = s /\ k.kind = wk[w].kind
      BY <2>5, GotoEffect DEF PCs
    <3> HIDE DEF k
    <3>2. Follows(k, txs[t])
      BY <1>1, <2>3, <3>1 DEF Follows, Preparing, Resubmitting, Signs
    <3> QED
      BY <2>1, <2>4, <3>1, <3>2, HashIdle
  <2>6. CASE Done(w)
    BY <2>1, <2>4, <2>6, HashIdle, IdleType DEF Done
  <2> QED
    BY <2>1, <2>5, <2>6
<1>3. CASE Resubmit(w)
  <2>1. PICK h \in Hashes, k \in WorkerStates :
             /\ h.tx = t /\ wk' = [wk EXCEPT ![w] = k]
             /\ \/ k = Idle
                \/ /\ k.pc \in {"resent", "kept"} /\ k.tx = t /\ k.snap = s
                   /\ k.kind = wk[w].kind
             /\ mempool' = mempool \/ mempool' = mempool \cup {h}
             /\ UNCHANGED txs
    BY <1>3, ResubmitEffect
  <2>2. At(w, "resubmit") /\ Resubmitting(wk[w])
    BY <1>3 DEF Resubmit, Resubmitting, At, CanSend
  <2>3. k # Idle => Follows(k, txs[t])
    BY <1>1, <2>1, <2>2 DEF Follows, Preparing, Resubmitting, Signs, HasHashes, At
  <2> QED
    BY <2>1, <2>2, <2>3, HashIdle
<1>4. CASE Resends(w)
  <2> DEFINE h == wk[w].sig
             new == Resent(txs[t], s, h)
             r == WithStatus(txs[t], new)
  <2>1. h \in Hashes /\ h.tx = t /\ At(w, "resent")
    BY <1>4, WorkerType DEF Resends, Handles, At
  <2>2. Resubmitting(wk[w]) /\ wk[w].kind = "resubmit"
    BY <1>1, <2>1 DEF Resubmitting, Follows, At
  <2>3. HasHashes(s) /\ \A g : InHashes(g, txs[t]) => InHashes(g, s)
    BY <1>1, <2>2 DEF Follows
  <2>4. /\ new \in Transactions /\ new.status = "Submitted"
        /\ new.data = with_signed_transaction_data(Bumped(s.data), h)
        /\ new.hashes = Append(s.hashes, h)
    BY <1>1, <2>1, ResentWritten
  <2>5. Bumped(s.data) \in Data
    BY <1>1, RecordType, DataType
  <2>6. Writes(w, r) /\ Done(w) /\ UNCHANGED mempool
    BY <1>4 DEF Resends
  <2> HIDE DEF new, h
  <2>7. new.data.raw = h /\ new.data.hash = h
    BY <2>4, <2>5, DataFields
  <2>8. Kept(new) /\ InHashes(h, new) /\ \A g : InHashes(g, txs[t]) => InHashes(g, new)
    BY <1>1, <2>1, <2>3, <2>4, <2>7, KeptSigned
  <2>9. /\ r \in Transactions /\ Kept(r) /\ \A g : InHashes(g, txs[t]) => InHashes(g, r)
        /\ r = txs[t] \/ InHashes(wk[w].sig, r)
    BY <1>1, <2>4, <2>8 DEF WithStatus, h
  <2> HIDE DEF r
  <2>10. Steps(w, r, Idle) /\ (txs' = txs \/ InHashes(wk[w].sig, r))
    <3>1. txs \in [Txs -> Transactions]
      BY DEF Types, TypeOK
    <3> QED
      BY <1>1, <2>6, <2>9, <3>1, IdleType DEF Steps, Done, Writes
  <2>11. ASSUME NEW v \in Workers \ {w}, ~At(v, "idle"), wk[v].tx = t
         PROVE  ~Preparing(wk[v]) /\ ~Resubmitting(wk[v])
    <3>1. Follows(wk[v], txs[t])
      BY <2>11 DEF HashInv
    <3>2. HasHashes(txs[t])
      BY <1>1, <2>3 DEF HasHashes
    <3>3. Resubmitting(wk[v]) => wk[v].kind = "resubmit"
      BY <3>1 DEF Resubmitting, Follows
    <3> QED
      BY <2>2, <2>11, <3>1, <3>2, <3>3 DEF HashInv, OneResubmit, Follows
  <2> QED
    BY <2>6, <2>9, <2>10, <2>11, HashLift
<1> QED
  BY <1>2, <1>3, <1>4

\* Updates of the status, the NOOP, the corrected hash and the check.
LEMMA HashUpdate ==
    ASSUME Types, HashInv, NEW w \in Workers, ~At(w, "idle"), ~At(w, "resent"),
           SetsStatus(w) \/ MakesNoop(w) \/ Corrects(w) \/ Check(w)
    PROVE  HashStep
<1> DEFINE t == wk[w].tx
           s == wk[w].snap
<1>1. /\ t \in Txs /\ txs[t] \in Transactions /\ s \in Transactions
      /\ Own(t, txs[t]) /\ Own(t, s) /\ s.hashes \in Seq(Hashes)
      /\ Kept(txs[t]) /\ Kept(s) /\ Follows(wk[w], txs[t])
      /\ \A h : InHashes(h, s) => InHashes(h, txs[t])
  BY HashKnown
<1>2. CASE SetsStatus(w)
  <2>1. PICK st, r : Justified(w, st) /\ StatusOnly(txs[t], r, st) /\ Writes(w, r)
    BY <1>2 DEF SetsStatus
  <2>2. /\ r \in Transactions /\ r.data = txs[t].data /\ r.hashes = txs[t].hashes
        /\ r.status \in {st, txs[t].status}
    BY <2>1 DEF StatusOnly
  <2>3. /\ st \notin {"Absent", "Pending"}
        /\ st \in {"Sent", "Submitted", "Mined"} => HasHashes(txs[t])
    BY <1>1, <2>1 DEF Justified, Follows, Signs, At
  <2>4. Kept(r)
    <3>1. \A h : InHashes(h, r) <=> InHashes(h, txs[t])
      BY <2>2 DEF InHashes
    <3> QED
      BY <1>1, <2>2, <2>3, <3>1 DEF Kept, HasHashes
  <2>5. Done(w) /\ UNCHANGED mempool
    BY <1>2 DEF SetsStatus
  <2> QED
    BY <2>1, <2>2, <2>4, <2>5, HashWrite
<1>3. CASE MakesNoop(w)
  <2>1. PICK c \in BOOLEAN : Writes(w, NoopUpdate(txs[t], s, c))
    BY <1>3 DEF MakesNoop
  <2> DEFINE r == NoopUpdate(txs[t], s, c)
             d == s.data
  <2>2. NoopOf(t, txs[t], s, r)
    BY <1>1, NoopWritten
  <2>3. Writes(w, r) /\ Done(w) /\ UNCHANGED mempool
    BY <1>3, <2>1 DEF MakesNoop
  <2> HIDE DEF r
  <2>4. r.data = make_noop(d) /\ r.hashes = txs[t].hashes /\ r \in Transactions
        /\ r.status = txs[t].status /\ d \in Data
    BY <1>1, <2>2, RecordType DEF NoopOf
  <2>5. r.data.raw = d.raw /\ r.data.hash = d.hash
    BY <2>4, DataFields
  <2>6. Kept(r)
    BY <1>1, <2>4, <2>5, KeptFrom
  <2> QED
    BY <2>3, <2>4, <2>6, HashWrite
<1>4. ASSUME NEW h \in HistoricalMined(s)
      PROVE  LET r == Corrected(txs[t], s, h)
             IN  /\ r \in Transactions /\ Kept(r) /\ r.hashes = txs[t].hashes
                 /\ r.status = "Mined" \/ is_final_state(r.status)
  <2> DEFINE r == Corrected(txs[t], s, h)
             d == [s.data EXCEPT !.hash = h]
  <2>1. h \in Hashes /\ h.tx = t /\ InHashes(h, s)
    BY <1>1, <1>4, HistoryFacts DEF InHashes
  <2>2. CorrectedOf(t, txs[t], s, h, r)
    BY <1>1, <2>1, CorrectedWritten
  <2>3. d.raw = s.data.raw /\ d.hash = h
    <3>1. s.data \in Data
      BY <1>1, RecordType
    <3> QED
      BY <3>1 DEF Data
  <2>4. /\ r \in Transactions
        /\ \/ r = txs[t] /\ is_final_state(r.status)
           \/ r.status = "Mined" /\ r.hashes = txs[t].hashes /\ r.data = d
    BY <2>2 DEF CorrectedOf
  <2> HIDE DEF r, d
  <2>5. CASE r.status = "Mined" /\ r.hashes = txs[t].hashes /\ r.data = d
    <3>1. \A g : InHashes(g, r) <=> InHashes(g, txs[t])
      BY <2>5 DEF InHashes
    <3>2. r.data.hash = h /\ r.data.raw = s.data.raw
      BY <2>3, <2>5
    <3>3. Kept(r)
      BY <1>1, <2>1, <2>5, <3>1, <3>2 DEF Kept, HasHashes
    <3> QED
      BY <2>4, <2>5, <3>3 DEF r
  <2> QED
    BY <1>1, <2>4, <2>5 DEF r
<1>5. CASE Corrects(w)
  <2>1. PICK h \in HistoricalMined(s) : Writes(w, Corrected(txs[t], s, h))
    BY <1>5 DEF Corrects
  <2> DEFINE r == Corrected(txs[t], s, h)
  <2>2. r \in Transactions /\ Kept(r) /\ r.hashes = txs[t].hashes
    BY <1>4
  <2>3. Writes(w, r) /\ Done(w) /\ UNCHANGED mempool
    BY <1>5, <2>1 DEF Corrects
  <2> HIDE DEF r
  <2> QED
    BY <2>2, <2>3, HashWrite
<1>6. CASE Check(w)
  <2>1. PICK st \in Statuses \cup {"Absent"}, c \in Transactions :
           wk' = [wk EXCEPT ![w] = Seen(wk[w], st, c)] /\ Saw(t, s, st, c)
    BY <1>6, CheckEffect
  <2> DEFINE k == Seen(wk[w], st, c)
  <2>2. /\ k \in WorkerStates /\ k.pc = "act" /\ k.seen = st /\ k.snap = c /\ k.tx = t
        /\ k.kind = wk[w].kind
    <3>1. wk[w] \in WorkerStates
      BY WorkerType
    <3> QED
      BY <3>1, SeenType
  <2>3. wk' = [wk EXCEPT ![w] = k] /\ UNCHANGED mempool
    BY <1>6, <2>1, CheckEffect
  <2> HIDE DEF k
  <2>4. ASSUME UNCHANGED txs, c \in {s, txs[t]}, st # "Absent",
               st = "Pending" => c.status = "Pending",
               st \in {"Sent", "Submitted", "Mined"} => HasHashes(txs[t])
        PROVE  HashStep
    <3>1. Follows(k, txs[t])
      BY <1>1, <2>2, <2>4 DEF Follows, Preparing, Resubmitting, Signs
    <3> QED
      BY <2>2, <2>3, <2>4, <3>1, HashIdle
  <2>5. ASSUME NEW h \in HistoricalMined(s), txs' = [txs EXCEPT ![t] = Corrected(txs[t], s, h)],
               st = Corrected(txs[t], s, h).status, c \in {s, Corrected(txs[t], s, h)}
        PROVE  HashStep
    <3> DEFINE r == Corrected(txs[t], s, h)
    <3>1. /\ r \in Transactions /\ Kept(r) /\ r.hashes = txs[t].hashes
          /\ r.status = "Mined" \/ is_final_state(r.status)
      BY <1>4
    <3>2. txs' = [txs EXCEPT ![t] = r] /\ st = r.status /\ c \in {s, r}
      BY <2>5
    <3> HIDE DEF r
    <3>3. \A g : InHashes(g, txs[t]) <=> InHashes(g, r)
      BY <3>1 DEF InHashes
    <3>4. Steps(w, r, k)
      BY <2>2, <2>3, <3>1, <3>2 DEF Steps
    <3>5. st \notin {"Absent", "Pending", "Sent", "Submitted"}
      BY <3>1, <3>2 DEF is_final_state, Finals
    <3>6. HasHashes(r) \/ st # "Mined"
      BY <3>1, <3>2 DEF Kept
    <3>7. Follows(k, r)
      BY <1>1, <2>2, <3>1, <3>2, <3>3, <3>5, <3>6 DEF Follows, Preparing, Resubmitting, Signs
    <3> QED
      BY <2>2, <2>3, <3>1, <3>2, <3>3, <3>4, <3>7, HashLift
  <2>6. ReceiptStatus(s) \notin {"Pending", "Absent"}
    BY DEF ReceiptStatus
  <2>7. s.data.hash \in Hashes => HasHashes(txs[t])
    BY <1>1, ConstantFacts DEF Kept, HasHashes
  <2>8. s.status = "Sent" => HasHashes(txs[t])
    BY <1>1 DEF Kept, HasHashes
  <2> QED
    BY <2>1, <2>4, <2>5, <2>6, <2>7, <2>8 DEF Saw
<1> QED
  BY <1>2, <1>3, <1>5, <1>6

\* Every step keeps the hashes, provided that one handler at a time prepares and resubmits a
\* transaction and that nobody asks for a replacement, whose hash is not added to them.
LEMMA HashInductive ==
    ASSUME Types, HashInv, {"request", "resubmit"} \cap Concurrent = {}, "replace" \notin ApiOps,
           [Next]_vars
    PROVE  HashStep
<1>0. wk \in [Workers -> WorkerStates] /\ txs \in [Txs -> Transactions]
  BY DEF Types, TypeOK
<1>1. ASSUME NEW t \in Txs, NEW r, Stores(t, r)
      PROVE  HashStep
  <2>1. \A u \in Txs : txs'[u] = IF u = t THEN r ELSE txs[u]
    BY <1>0, <1>1 DEF Stores
  <2>2. /\ UNCHANGED <<wk, mempool>> /\ r.data = txs[t].data /\ r.hashes = txs[t].hashes
        /\ txs[t].status = "Absent" /\ r.status \in {"Pending", "Failed"}
    BY <1>1 DEF Stores
  <2>3. \A h : InHashes(h, txs[t]) <=> InHashes(h, r)
    BY <2>2 DEF InHashes
  <2>4. Kept(r)
    <3>1. Kept(txs[t])
      BY DEF HashInv
    <3> QED
      BY <2>2, <2>3, <3>1 DEF Kept, HasHashes
  <2>5. ASSUME NEW w \in Workers, ~At(w, "idle")
        PROVE  Follows(wk[w], txs'[wk[w].tx])
    <3>1. Follows(wk[w], txs[wk[w].tx]) /\ wk[w].tx \in Txs
      BY <2>5, WorkerType DEF HashInv
    <3>2. CASE wk[w].tx = t
      BY <2>1, <2>3, <3>1, <3>2, FollowsGrown
    <3>3. CASE wk[w].tx # t
      BY <2>1, <3>1, <3>3
    <3> QED
      BY <3>2, <3>3
  <2>6. \A u \in Txs : Kept(txs'[u])
    BY <2>1, <2>4 DEF HashInv
  <2>7. \A u \in Txs : \A h : InHashes(h, txs[u]) => InHashes(h, txs'[u])
    BY <2>1, <2>3
  <2> QED
    BY <2>2, <2>5, <2>6, <2>7 DEF HashStep, HashInv, OneRequest, OneResubmit, At
<1>2. ASSUME NEW w \in Workers, NEW k, Picks(w, k)
      PROVE  HashStep
  <2>1. \A v \in Workers : wk'[v] = IF v = w THEN k ELSE wk[v]
    BY <1>0, <1>2 DEF Picks
  <2>2. /\ UNCHANGED <<txs, mempool>> /\ At(w, "idle") /\ k.tx \in Txs /\ k.snap = txs[k.tx]
        /\ k.pc \in {"request", "submit", "resubmit", "status", "cancel"}
        /\ k.pc = "resubmit" => k.kind = "resubmit"
    BY <1>2 DEF Picks
  <2>3. Kept(txs[k.tx])
    BY <2>2 DEF HashInv
  <2>4. Follows(k, txs[k.tx])
    BY <2>2, <2>3 DEF Follows, Kept, Preparing, Resubmitting, Signs
  <2>5. \A v \in Workers : wk'[v].pc # "idle" => Follows(wk'[v], txs[wk'[v].tx])
    BY <2>1, <2>4 DEF HashInv, At
  <2>6. /\ k.kind = "request" =>
             \A v \in Workers : ~(wk[v].kind = "request" /\ wk[v].tx = k.tx)
        /\ k.kind = "resubmit" =>
             \A v \in Workers : ~(wk[v].kind = "resubmit" /\ wk[v].tx = k.tx)
    BY <1>2 DEF Picks
  <2>7. OneRequest'
    BY <2>1, <2>6 DEF OneRequest, HashInv
  <2>8. OneResubmit'
    BY <2>1, <2>6 DEF OneResubmit, HashInv
  <2>9. \A v \in Workers : ~(At(v, "resent") /\ wk'[v] # wk[v] /\ txs' # txs)
    BY <2>2
  <2> QED
    BY <2>2, <2>5, <2>7, <2>8, <2>9 DEF HashStep, HashInv, At
<1>3. ASSUME NEW w \in Workers, HandlerStep(w)
      PROVE  HashStep
  <2>1. ~At(w, "idle") /\ (At(w, "resent") => Leaves(w) \/ Resends(w))
    BY <1>3 DEF HandlerStep
  <2>2. Follows(wk[w], txs[wk[w].tx])
    BY <2>1 DEF HashInv
  <2>3. CASE Replaces(w)
    BY <2>2, <2>3 DEF Replaces, Follows, At
  <2> QED
    BY <1>3, <2>1, <2>3, HashPrepare, HashSend, HashUpdate DEF HandlerStep
<1>4. CASE UNCHANGED <<txs, wk, mempool>>
  BY <1>4 DEF HashStep, HashInv, OneRequest, OneResubmit, At
<1>5. \/ \E h \in mempool : Mine(h)
      \/ \E i \in DOMAIN chain : Confirm(i)
      \/ OtherMined \/ UNCHANGED vars
      => UNCHANGED <<txs, wk, mempool>>
  BY DEF Mine, Confirm, OtherMined, vars
<1> QED
  BY <1>1, <1>2, <1>3, <1>4, <1>5, Effects

\* Whatever crashes, answers and writes are lost: what was recorded stays recorded while a node
\* may mine it, a submission broadcasts what is recorded, and a resubmission that gets to write
\* records what it has broadcast.  One handler at a time prepares and resubmits a transaction,
\* and nobody asks for a replacement.
THEOREM BroadcastsRecorded ==
    {"request", "resubmit"} \cap Concurrent = {} /\ "replace" \notin ApiOps
    => (Spec => NoHashForgotten)
<1> SUFFICES ASSUME {"request", "resubmit"} \cap Concurrent = {}, "replace" \notin ApiOps
             PROVE  Spec => NoHashForgotten
  OBVIOUS
<1>1. Init => HashInv
  BY IdleType DEF Init, HashInv, Kept, HasHashes, InHashes, NoTx, OneRequest, OneResubmit, At
<1>2. Types /\ HashInv /\ [Next]_vars => HashInv'
  BY HashInductive DEF HashStep
<1>3. ASSUME Types, HashInv, [Next]_vars
      PROVE  /\ \A h \in mempool' :
                   \/ Knows(txs'[h.tx], h)
                   \/ h \in mempool /\ ~Knows(txs[h.tx], h)
                   \/ h \notin mempool /\ \E w \in Workers : At(w, "resubmit") /\ wk[w].tx = h.tx
             /\ \A w \in Workers :
                   At(w, "resent") /\ wk'[w] # wk[w] /\ txs' # txs
                   => Knows(txs'[wk[w].tx], wk[w].sig)
  <2>1. HashStep
    BY <1>3, HashInductive
  <2>2. \A r, h : InHashes(h, r) => Knows(r, h)
    BY DEF Knows, InHashes
  <2>3. \A t \in Txs : \A h \in Hashes : Knows(txs[t], h) => InHashes(h, txs[t])
    BY <1>3, ConstantFacts DEF HashInv, Kept, Knows, InHashes
  <2>4. \A h \in mempool : h \in Hashes /\ h.tx \in Txs
    BY <1>3, ConstantFacts DEF Types, TypeOK
  <2> QED
    BY <2>1, <2>2, <2>3, <2>4 DEF HashStep
<1> QED
  BY <1>1, <1>2, <1>3, TypesInductive, PTL DEF Spec, NoHashForgotten

-----------------------------------------------------------------------------
(* What a failure or a cancellation reports.                               *)

\* The statuses that say that a transaction took no effect.  Failed says so only if the
\* historical hashes could be searched.
Outcomes == {"Canceled"} \cup {s \in {"Failed"} : "hashrpc" \notin Faults}

\* Chain c has passed nonce n.
Consumed(n, c) == n # None /\ n < Len(c)

\* No broadcast of t in m has taken effect on chain c, or ever will.
Dead(t, m, c) ==
    \A h \in m : h.tx = t =>
        /\ h.nonce < Len(c)
        /\ ~(c[h.nonce + 1].hash = h /\ h.kind # "noop" /\ c[h.nonce + 1].ok)

\* What a handler is about to report: the nonce recovery, that nothing was mined, and the
\* check what it has seen.
Verdict(k) ==
    \/ k.pc = "nonce" /\ "hashrpc" \notin Faults
    \/ k.pc = "act" /\ k.seen \in Outcomes

\* Reports are true, the ones to come too, and nonces are recovered once they are consumed.
OutcomeInv ==
    /\ \A t \in Txs : txs[t].status \in Outcomes => Dead(t, mempool, chain)
    /\ \A w \in Workers : Verdict(wk[w]) => Dead(wk[w].tx, mempool, chain)
    /\ \A j \in jobs : j.kind = "recover" => Consumed(txs[j.tx].data.nonce, chain)
    /\ \A w \in Workers : ~At(w, "idle") /\ wk[w].kind = "recover" =>
          Consumed(txs[wk[w].tx].data.nonce, chain)

\* What is dead stays dead: the chain only grows, and a confirmation changes no outcome.
LEMMA DeadKept ==
    ASSUME Types,
           \/ (\E h \in mempool : Mine(h)) \/ OtherMined
           \/ \E i \in DOMAIN chain : Confirm(i)
    PROVE  /\ \A t : Dead(t, mempool, chain) => Dead(t, mempool, chain')
           /\ \A n \in Nonces \cup {None} : Consumed(n, chain) => Consumed(n, chain')
<1>1. chain \in Seq(Entries) /\ mempool \subseteq Hashes /\ Len(chain) \in Nat
  BY DEF Types, TypeOK
<1>2. /\ Len(chain') \in Nat /\ Len(chain) <= Len(chain')
      /\ \A j \in 1 .. Len(chain) : chain'[j].hash = chain[j].hash /\ chain'[j].ok = chain[j].ok
  <2>1. CASE (\E h \in mempool : Mine(h)) \/ OtherMined
    <3>1. PICK e \in Entries : chain' = Append(chain, e)
      BY <2>1, Grown
    <3> QED
      BY <1>1, <3>1
  <2>2. CASE \E i \in DOMAIN chain : Confirm(i)
    BY <1>1, <2>2, Confirmed
  <2> QED
    BY <2>1, <2>2
<1>3. \A h \in mempool : h.nonce \in Nat
  BY <1>1, ConstantFacts DEF Nonces
<1>4. ASSUME NEW h \in mempool, h.nonce < Len(chain)
      PROVE  /\ h.nonce < Len(chain') /\ chain'[h.nonce + 1].hash = chain[h.nonce + 1].hash
             /\ chain'[h.nonce + 1].ok = chain[h.nonce + 1].ok
  BY <1>1, <1>2, <1>3, <1>4
<1>5. \A t : Dead(t, mempool, chain) => Dead(t, mempool, chain')
  BY <1>4 DEF Dead
<1>6. \A n \in Nonces \cup {None} : Consumed(n, chain) => Consumed(n, chain')
  BY <1>1, <1>2 DEF Consumed, Nonces
<1> QED
  BY <1>5, <1>6

\* A transaction without hashes has not been broadcast.
LEMMA DeadUnsent ==
    ASSUME Types, TrackInv, NEW t \in Txs, txs[t].hashes = <<>>,
           \A w \in Workers : At(w, "resent") => wk[w].tx # t
    PROVE  Dead(t, mempool, chain)
<1> SUFFICES ASSUME NEW h \in mempool, h.tx = t
             PROVE  FALSE
  BY DEF Dead
<1>1. ~InHashes(h, txs[t])
  BY DEF InHashes
<1>2. PICK w \in Workers : At(w, "resent") /\ wk[w].sig = h
  BY <1>1 DEF TrackInv
<1>3. wk[w].tx = t
  BY <1>2, WorkerType DEF Handles, At
<1> QED
  BY <1>2, <1>3

\* A receipt of a NOOP or of a failed transaction: its nonce is the only one of the transaction.
LEMMA DeadReceipt ==
    ASSUME Types, NonceInv, NEW t \in Txs, NEW g \in Hashes, g.tx = t, Mined(g),
           g.nonce = txs[t].data.nonce, g.kind = "noop" \/ ~chain[g.nonce + 1].ok
    PROVE  Dead(t, mempool, chain)
<1> SUFFICES ASSUME NEW h \in mempool, h.tx = t
             PROVE  /\ h.nonce < Len(chain)
                    /\ ~(chain[h.nonce + 1].hash = h /\ h.kind # "noop" /\ chain[h.nonce + 1].ok)
  BY DEF Dead
<1>1. h.nonce = g.nonce
  BY DEF NonceInv
<1> QED
  BY <1>1 DEF Mined

\* The nonce is consumed and none of the hashes was mined.
LEMMA DeadSearched ==
    ASSUME Types, NonceInv, TrackInv, NEW t \in Txs, Consumed(txs[t].data.nonce, chain),
           \A w \in Workers : At(w, "resent") => wk[w].tx # t,
           \A h : InHashes(h, txs[t]) => ~Mined(h)
    PROVE  Dead(t, mempool, chain)
<1> SUFFICES ASSUME NEW h \in mempool, h.tx = t
             PROVE  /\ h.nonce < Len(chain)
                    /\ ~(chain[h.nonce + 1].hash = h /\ h.kind # "noop" /\ chain[h.nonce + 1].ok)
  BY DEF Dead
<1>1. h.nonce = txs[t].data.nonce
  BY DEF NonceInv
<1>2. h.nonce < Len(chain)
  BY <1>1 DEF Consumed
<1>3. InHashes(h, txs[t])
  <2>1. ASSUME NEW w \in Workers, At(w, "resent"), wk[w].sig = h
        PROVE  FALSE
    BY <2>1, WorkerType DEF Handles, At
  <2> QED
    BY <2>1 DEF TrackInv
<1> QED
  BY <1>2, <1>3 DEF Mined

\* A nonce recovery is queued by a submission, or again by itself.
LEMMA Recovers ==
    ASSUME Types, NEW w \in Workers, Prepare(w) \/ Send(w) \/ UserOp(w) \/ Status(w)
    PROVE  \/ Submit(w) \/ Resubmit(w)
           \/ \A j \in jobs' : j \in jobs \/ j.kind # "recover" \/ wk[w].kind = "recover"
<1> DEFINE t == wk[w].tx
<1>1. /\ RequestJob(t).kind # "recover" /\ SubmitJob(t).kind # "recover"
      /\ ResubmitJob(t).kind # "recover" /\ Job(w).kind = wk[w].kind
  BY DEF RequestJob, SubmitJob, ResubmitJob, Job
<1>2. CASE Prepare(w)
  <2>1. jobs' = jobs \/ jobs' = jobs \cup {Job(w)} \/ jobs' = jobs \cup {SubmitJob(t)}
    BY <1>2 DEF Prepare, PrepareSkip, PrepareError, PrepareReject, PrepareNonce, PreparePresign,
         PrepareSign, Enqueued
  <2> QED
    BY <1>1, <2>1
<1>3. CASE Send(w)
  BY <1>3 DEF Send, SubmitSkip, SubmitUpdate, ResubmitSkip, ResubmitUpdate
<1>4. CASE UserOp(w)
  <2>1. jobs' = jobs \/ jobs' = jobs \cup {ResubmitJob(t)}
    BY <1>4 DEF UserOp, Cancel, Replace, Enqueued
  <2> QED
    BY <1>1, <2>1
<1>5. CASE Status(w)
  <2>1. ASSUME NEW r, NEW i, i.kind # "recover", StatusEnd(w, r) \/ StatusEndWith(w, r, i)
        PROVE  \A j \in jobs' : j \in jobs \/ j.kind # "recover" \/ wk[w].kind = "recover"
    BY <1>1, <2>1 DEF StatusEnd, StatusEndWith, Keep
  <2>2. CASE StatusFinal(w)
    BY <1>1, <2>1, <2>2 DEF StatusFinal
  <2>3. CASE CheckError(w)
    BY <1>1, <2>3 DEF CheckError
  <2>4. CASE CircuitBreaker(w)
    BY <1>1, <2>1, <2>4, BreakerEffect
  <2>5. CASE ReconcileHashes(w)
    BY <1>1, <2>1, <2>5 DEF ReconcileHashes
  <2>6. CASE ReconcileNonce(w)
    BY <1>1, <2>1, <2>6 DEF ReconcileNonce
  <2>7. CASE Check(w)
    BY <2>7, CheckEffect
  <2>8. CASE ActUpdate(w)
    BY <1>1, <2>1, <2>8 DEF ActUpdate
  <2>9. CASE ActPending(w)
    BY <1>1, <2>1, <2>9 DEF ActPending
  <2>10. ASSUME NEW st \in {"Sent", "Submitted"},
                ActNoop(w, st) \/ ActGap(w, st) \/ ActResubmit(w, st)
         PROVE  \A j \in jobs' : j \in jobs \/ j.kind # "recover" \/ wk[w].kind = "recover"
    <3>1. \E r, i : i.kind # "recover" /\ (StatusEnd(w, r) \/ StatusEndWith(w, r, i))
      BY <1>1, <2>10 DEF ActNoop, ActGap, ActResubmit
    <3> QED
      BY <2>1, <3>1
  <2> QED
    BY <1>5, <2>2, <2>3, <2>4, <2>5, <2>6, <2>7, <2>8, <2>9, <2>10 DEF Status
<1> QED
  BY <1>2, <1>3, <1>4, <1>5

\* A step of worker w that leaves record r and worker k reports nothing that is not so.
LEMMA OutcomeLift ==
    ASSUME Types, OutcomeInv, Serial, NonceStep, NEW w \in Workers, ~At(w, "idle"), NEW r, NEW k,
           Steps(w, r, k), UNCHANGED chain,
           \A h \in mempool' : h \in mempool \/ h.tx = wk[w].tx,
           \A j \in jobs' : \/ j \in jobs \/ j.kind # "recover"
                            \/ /\ j.tx = wk[w].tx
                               /\ Consumed(txs[wk[w].tx].data.nonce, chain),
           r.status \in Outcomes \/ Verdict(k) => Dead(wk[w].tx, mempool', chain)
    PROVE  OutcomeInv'
<1> DEFINE t == wk[w].tx
<1>0. /\ wk \in [Workers -> WorkerStates] /\ txs \in [Txs -> Transactions] /\ t \in Txs
      /\ \A j \in jobs : j.tx \in Txs
  BY WorkerType DEF Types, TypeOK, Jobs
<1>1. \A u \in Txs : txs'[u] = IF u = t THEN r ELSE txs[u]
  BY <1>0 DEF Steps
<1>2. \A v \in Workers : wk'[v] = IF v = w THEN k ELSE wk[v]
  BY <1>0 DEF Steps
<1>3. \A u : u # t /\ Dead(u, mempool, chain) => Dead(u, mempool', chain)
  BY DEF Dead
<1>4. \A u \in Txs : Consumed(txs[u].data.nonce, chain) => Consumed(txs'[u].data.nonce, chain)
  BY DEF NonceStep, Consumed
<1>5. \A u \in Txs : txs'[u].status \in Outcomes => Dead(u, mempool', chain)
  BY <1>1, <1>3 DEF OutcomeInv
<1>6. \A v \in Workers : v # w /\ ~At(v, "idle") => wk[v].tx # t
  BY DEF Serial
<1>7. ~Verdict(Idle)
  BY IdleType DEF Verdict
<1>8. ASSUME NEW v \in Workers, Verdict(wk'[v])
      PROVE  Dead(wk'[v].tx, mempool', chain)
  <2>1. CASE v = w
    BY <1>2, <1>7, <1>8, <2>1 DEF NonceStep
  <2>2. CASE v # w
    <3>1. ~At(v, "idle")
      BY <1>2, <1>8, <2>2 DEF Verdict, At
    <3> QED
      BY <1>2, <1>3, <1>6, <1>8, <2>2, <3>1 DEF OutcomeInv
  <2> QED
    BY <2>1, <2>2
<1>9. \A j \in jobs' : j.kind = "recover" => Consumed(txs'[j.tx].data.nonce, chain)
  BY <1>0, <1>4 DEF OutcomeInv
<1>10. ASSUME NEW v \in Workers, wk'[v].pc # "idle", wk'[v].kind = "recover"
       PROVE  Consumed(txs'[wk'[v].tx].data.nonce, chain)
  <2>1. ~At(v, "idle") /\ wk[v].kind = "recover" /\ wk'[v].tx = wk[v].tx
    BY <1>2, <1>10, IdleType DEF NonceStep, At
  <2>2. wk[v].tx \in Txs
    BY <2>1, WorkerType
  <2> QED
    BY <1>4, <2>1, <2>2 DEF OutcomeInv
<1> QED
  BY <1>5, <1>8, <1>9, <1>10 DEF OutcomeInv, At

\* Every step of a handler reports nothing that is not so.
LEMMA OutcomeHandler ==
    ASSUME Types, FinalSeen, Known, NonceInv, TrackInv, OutcomeInv, Serial, Reliable, NonceStep,
           NEW w \in Workers, Prepare(w) \/ Send(w) \/ UserOp(w) \/ Status(w)
    PROVE  OutcomeInv'
<1> DEFINE t == wk[w].tx
           s == wk[w].snap
           n == txs[t].data.nonce
<1>1. /\ ~At(w, "idle") /\ UNCHANGED chain
      /\ \/ Leaves(w) \/ Proceeds(w) \/ Allocates(w) \/ SetsStatus(w) \/ PreparePresign(w)
         \/ PrepareSign(w) \/ Submit(w) \/ Resubmit(w) \/ Resends(w) \/ MakesNoop(w)
         \/ Corrects(w) \/ Check(w)
      /\ At(w, "resent") => Resends(w)
  BY ReliableShapes
<1>2. /\ t \in Txs /\ txs[t] \in Transactions /\ s = txs[t] /\ Recorded(s) /\ Steady(wk[w])
      /\ Own(t, s) /\ Pinned(s, n)
  BY <1>1, NonceKnown DEF TrackInv
<1>3. PICK r, k : Steps(w, r, k) /\ StatusKept(w, r, k)
  BY <1>1, StatusEffect DEF HandlerStep
<1>4. \A v \in Workers : At(v, "resent") /\ ~At(w, "resent") => wk[v].tx # t
  BY <1>1 DEF Serial, At
<1>5. \A j \in jobs' : \/ j \in jobs \/ j.kind # "recover"
                       \/ j.tx = t /\ Consumed(n, chain)
  <2>1. \A j \in jobs' : j \in jobs \/ j.tx = t
    BY OtherJobs, StatusJobs DEF KeepsJobs, Reliable
  <2>2. CASE Submit(w)
    <3>1. s.data.raw \in Hashes /\ (jobs' # jobs => s.data.raw.nonce < Len(chain))
      BY <2>2, SubmitEffect DEF OnChainNonce
    <3>2. s.data.raw.nonce = n /\ n # None
      BY <1>2, <3>1, ConstantFacts DEF Pinned
    <3> QED
      BY <2>1, <3>1, <3>2 DEF Consumed
  <2>3. CASE Resubmit(w)
    <3>1. s.data.nonce # None /\ (jobs' # jobs => s.data.nonce < Len(chain))
      BY <2>3, ResubmitEffect DEF OnChainNonce
    <3> QED
      BY <1>2, <2>1, <3>1 DEF Consumed
  <2>4. CASE wk[w].kind = "recover"
    BY <1>1, <2>1, <2>4 DEF OutcomeInv
  <2> QED
    BY <2>1, <2>2, <2>3, <2>4, Recovers
<1>6. \A h \in mempool' : h \in mempool \/ h.tx = t
  <2>1. CASE Submit(w)
    <3>1. s.data.raw \in Hashes
      BY <2>1, SubmitEffect
    <3>2. s.data.raw.tx = t
      BY <1>2, <3>1, ConstantFacts DEF Own
    <3> QED
      BY <2>1, <3>2, SubmitEffect
  <2>2. CASE Resubmit(w)
    BY <2>2, ResubmitEffect
  <2>3. CASE UNCHANGED mempool
    BY <2>3
  <2>4. Submit(w) \/ Resubmit(w) \/ UNCHANGED mempool
    BY <1>1, CheckEffect DEF Leaves, Proceeds, Allocates, SetsStatus, PreparePresign, PrepareSign,
         Resends, MakesNoop, Corrects
  <2> QED
    BY <2>1, <2>2, <2>3, <2>4
<1>7. ASSUME r.status \in Outcomes \/ Verdict(k) => Dead(t, mempool', chain)
      PROVE  OutcomeInv'
  BY <1>1, <1>3, <1>5, <1>6, <1>7, OutcomeLift
<1>8. SUFFICES ASSUME r.status \in Outcomes \/ Verdict(k)
               PROVE  Dead(t, mempool', chain)
  BY <1>7
<1>9. txs'[t] = r /\ wk'[w] = k
  BY <1>2, <1>3 DEF Steps, Types, TypeOK
<1>10. CASE r.status \in Outcomes /\ r.status = s.status
  <2>1. ~Submit(w) /\ ~Resubmit(w)
    BY <1>10 DEF Submit, Resubmit, CanSend, Outcomes
  <2>2. UNCHANGED mempool
    BY <1>1, <2>1, CheckEffect DEF Leaves, Proceeds, Allocates, SetsStatus, PreparePresign,
         PrepareSign, Resends, MakesNoop, Corrects
  <2> QED
    BY <1>2, <1>10, <2>2 DEF OutcomeInv
<1>11. CASE r.status \in Outcomes /\ r.status # s.status
  <2>1. SetsStatus(w)
    BY <1>2, <1>3, <1>11 DEF StatusKept, Tells, Outcomes
  <2>2. PICK st, q : Justified(w, st) /\ StatusOnly(txs[t], q, st) /\ Writes(w, q)
    BY <2>1 DEF SetsStatus
  <2>3. q = r /\ UNCHANGED mempool
    BY <1>2, <1>9, <2>1, <2>2 DEF Writes, SetsStatus, Types, TypeOK
  <2>4. r.status = st
    BY <1>2, <1>11, <2>2, <2>3 DEF StatusOnly
  <2>5. CASE Unsent(w)
    <3>1. s.status = "Pending"
      BY <1>2, <2>5 DEF Unsent, Steady, Pinned, At
    <3>2. txs[t].hashes = <<>> /\ ~At(w, "resent")
      BY <1>2, <3>1 DEF Recorded, Steady, At
    <3> QED
      BY <1>2, <1>4, <2>3, <3>2, DeadUnsent
  <2>6. CASE (At(w, "nonce") /\ st = "Failed") \/ (At(w, "act") /\ st = wk[w].seen)
    <3>1. Verdict(wk[w])
      BY <1>11, <2>4, <2>6 DEF Verdict, Outcomes, At
    <3> QED
      BY <2>3, <3>1 DEF OutcomeInv
  <2>7. st # "Submitted"
    BY <1>11, <2>4 DEF Outcomes
  <2> QED
    BY <2>2, <2>5, <2>6, <2>7 DEF Justified
<1>12. CASE k.pc = "nonce" /\ "hashrpc" \notin Faults
  <2>1. Proceeds(w)
    BY <1>3, <1>12 DEF StatusKept
  <2>2. PICK p \in {"sign", "check", "nonce"} : Goto(w, p) /\ (p = "nonce" => Searched(w))
    BY <2>1 DEF Proceeds
  <2>3. p = "nonce"
    <3>1. wk'[w] = Moved(wk[w], p) /\ Moved(wk[w], p).pc = p
      BY <2>2, GotoEffect DEF PCs, Types, TypeOK
    <3> QED
      BY <1>9, <1>12, <3>1
  <2>4. /\ At(w, "status") /\ wk[w].kind = "recover" /\ UNCHANGED mempool
        /\ s.data.hash # None => ~Mined(s.data.hash)
        /\ Len(s.hashes) > 1 => HistoricalMined(s) = {}
    BY <1>12, <2>1, <2>2, <2>3 DEF Searched, Proceeds
  <2>5. Consumed(n, chain)
    BY <1>1, <2>4 DEF OutcomeInv
  <2>6. ASSUME NEW h, InHashes(h, s)
        PROVE  ~Mined(h)
    <3>1. s.hashes \in Seq(Hashes) /\ s.hashes # <<>>
      <4>1. s.hashes \in Seq(Hashes)
        BY WorkerType
      <4>2. DOMAIN s.hashes # {}
        BY <2>6 DEF InHashes
      <4> QED
        BY <4>1, <4>2
    <3>2. s.data.hash # None /\ InHashes(s.data.hash, s)
      BY <1>2, <3>1 DEF Recorded
    <3>3. CASE h # s.data.hash
      <4>1. PICK i \in DOMAIN s.hashes : s.hashes[i] = h
        BY <2>6 DEF InHashes
      <4>2. PICK j \in DOMAIN s.hashes : s.hashes[j] = s.data.hash
        BY <3>2 DEF InHashes
      <4>3. i # j /\ i \in 1 .. Len(s.hashes) /\ j \in 1 .. Len(s.hashes) /\ Len(s.hashes) \in Nat
        BY <3>1, <3>3, <4>1, <4>2, LenProperties
      <4>4. Len(s.hashes) > 1
        <5> DEFINE l == Len(s.hashes)
        <5> HIDE DEF l
        <5>1. i # j /\ i \in 1 .. l /\ j \in 1 .. l /\ l \in Nat
          BY <4>3 DEF l
        <5> QED
          BY <5>1 DEF l
      <4> QED
        BY <2>4, <3>3, <4>1, <4>4 DEF HistoricalMined
    <3>4. CASE h = s.data.hash
      BY <2>4, <3>2, <3>4
    <3> QED
      BY <3>3, <3>4
  <2>7. \A v \in Workers : At(v, "resent") => wk[v].tx # t
    BY <1>4, <2>4 DEF At
  <2> QED
    BY <1>2, <2>4, <2>5, <2>6, <2>7, DeadSearched
<1>13. CASE k.pc = "act" /\ k.seen \in Outcomes
  <2>1. Check(w)
    BY <1>3, <1>13 DEF StatusKept
  <2>2. PICK st \in Statuses \cup {"Absent"}, c \in Transactions :
           wk' = [wk EXCEPT ![w] = Seen(wk[w], st, c)] /\ Saw(t, s, st, c)
    BY <2>1, CheckEffect
  <2>3. k.seen = st
    <3>1. wk[w] \in WorkerStates /\ wk'[w] = Seen(wk[w], st, c)
      BY <2>2 DEF Types, TypeOK
    <3> QED
      BY <1>9, <3>1, SeenType
  <2>4. UNCHANGED mempool /\ s.status \in {"Pending", "Sent", "Submitted", "Mined"}
    BY <2>1, CheckEffect
  <2>5. ASSUME NEW h \in HistoricalMined(s)
        PROVE  Corrected(txs[t], s, h).status \notin Outcomes
    <3>1. Corrected(s, s, h).status = "Mined"
      BY <1>2, <2>4, CorrectedRecorded DEF Reliable, is_final_state, Finals
    <3> QED
      BY <1>2, <3>1 DEF Outcomes
  <2>6. s.data.hash \in Hashes /\ Mined(s.data.hash) /\ st = ReceiptStatus(s)
    BY <1>13, <2>2, <2>3, <2>4, <2>5 DEF Saw, Outcomes
  <2> DEFINE g == s.data.hash
  <2>7. g.tx = t /\ g.nonce = n
    BY <1>2, <2>6, ConstantFacts DEF Own, Pinned
  <2>8. g.kind = "noop" \/ ~chain[g.nonce + 1].ok
    BY <1>13, <2>3, <2>6 DEF ReceiptStatus, Outcomes
  <2> HIDE DEF g
  <2> QED
    BY <1>2, <2>4, <2>6, <2>7, <2>8, DeadReceipt DEF g
<1> QED
  BY <1>2, <1>8, <1>10, <1>11, <1>12, <1>13 DEF Verdict

\* Every step keeps what failures and cancellations report.
LEMMA OutcomeInductive ==
    ASSUME Types, FinalSeen, Known, NonceInv, TrackInv, OutcomeInv, Serial, Reliable, NonceStep,
           [Next]_vars
    PROVE  OutcomeInv'
<1>0. /\ wk \in [Workers -> WorkerStates] /\ txs \in [Txs -> Transactions]
      /\ \A j \in jobs : j.tx \in Txs
  BY DEF Types, TypeOK, Jobs
<1>1. ASSUME NEW t \in Txs, CreateTransaction(t)
      PROVE  OutcomeInv'
  <2>0. PICK r : Stores(t, r)
    BY <1>1, CreateEffect
  <2>1. \A u \in Txs : txs'[u] = IF u = t THEN r ELSE txs[u]
    BY <1>0, <2>0 DEF Stores
  <2>2. /\ UNCHANGED <<wk, mempool, chain>> /\ r.data = txs[t].data /\ txs[t].status = "Absent"
        /\ \A j \in jobs' : j \in jobs \/ j.kind # "recover"
    BY <2>0 DEF Stores
  <2>3. txs[t].hashes = <<>>
    BY <2>2 DEF TrackInv, Recorded
  <2>4. \A w \in Workers : At(w, "resent") => wk[w].tx # t
    BY <2>2 DEF Known, At
  <2>5. Dead(t, mempool, chain)
    BY <2>3, <2>4, DeadUnsent
  <2>6. \A u \in Txs : txs'[u].data = txs[u].data
    BY <2>1, <2>2
  <2>7. \A u \in Txs : txs'[u].status \in Outcomes => Dead(u, mempool, chain)
    BY <2>1, <2>5 DEF OutcomeInv
  <2>8. \A w \in Workers : ~At(w, "idle") => wk[w].tx \in Txs
    BY WorkerType
  <2>9. \A j \in jobs' : j.kind = "recover" => Consumed(txs'[j.tx].data.nonce, chain)
    BY <1>0, <2>2, <2>6 DEF OutcomeInv
  <2>10. \A w \in Workers : ~At(w, "idle") /\ wk[w].kind = "recover" =>
            Consumed(txs'[wk[w].tx].data.nonce, chain)
    BY <2>6, <2>8 DEF OutcomeInv
  <2> QED
    BY <2>2, <2>7, <2>9, <2>10 DEF OutcomeInv, At
<1>2. ASSUME NEW w \in Workers,
             \/ \E j \in jobs : Take(w, j)
             \/ \E op \in ApiOps, t \in Txs : StartApi(w, op, t)
      PROVE  OutcomeInv'
  <2>0. PICK k : Picks(w, k)
    BY <1>2, PickEffect
  <2>1. \A v \in Workers : wk'[v] = IF v = w THEN k ELSE wk[v]
    BY <1>0, <2>0 DEF Picks
  <2>2. /\ UNCHANGED <<txs, mempool, chain>> /\ jobs' \subseteq jobs
        /\ k.kind = "recover" => Consumed(txs[k.tx].data.nonce, chain)
    BY <2>0 DEF Picks, OutcomeInv
  <2>3. ~Verdict(k)
    BY <2>0 DEF Picks, Verdict
  <2>4. \A v \in Workers : Verdict(wk'[v]) => Dead(wk'[v].tx, mempool, chain)
    BY <2>1, <2>3 DEF OutcomeInv
  <2>5. \A v \in Workers : wk'[v].pc # "idle" /\ wk'[v].kind = "recover" =>
            Consumed(txs[wk'[v].tx].data.nonce, chain)
    BY <2>1, <2>2 DEF OutcomeInv, At
  <2> QED
    BY <2>2, <2>4, <2>5 DEF OutcomeInv, At
<1>3. ASSUME NEW w \in Workers, Prepare(w) \/ Send(w) \/ UserOp(w) \/ Status(w)
      PROVE  OutcomeInv'
  BY <1>3, OutcomeHandler
<1>4. CASE \/ (\E h \in mempool : Mine(h)) \/ OtherMined
           \/ \E i \in DOMAIN chain : Confirm(i)
  <2>1. UNCHANGED <<txs, jobs, wk, mempool>>
    BY <1>4 DEF Mine, OtherMined, Confirm
  <2>2. \A u \in Txs : txs[u].data.nonce \in Nonces \cup {None}
    <3>1. \A u \in Txs : txs[u].data \in Data
      BY <1>0, RecordType
    <3> QED
      BY <3>1, DataType
  <2>3. /\ \A u : Dead(u, mempool, chain) => Dead(u, mempool, chain')
        /\ \A n \in Nonces \cup {None} : Consumed(n, chain) => Consumed(n, chain')
    BY <1>4, DeadKept
  <2>4. \A w \in Workers : ~At(w, "idle") => wk[w].tx \in Txs
    BY WorkerType
  <2>5. \A j \in jobs : j.kind = "recover" => Consumed(txs[j.tx].data.nonce, chain')
    BY <1>0, <2>2, <2>3 DEF OutcomeInv
  <2>6. \A w \in Workers : ~At(w, "idle") /\ wk[w].kind = "recover" =>
            Consumed(txs[wk[w].tx].data.nonce, chain')
    BY <2>2, <2>3, <2>4 DEF OutcomeInv
  <2> QED
    BY <2>1, <2>3, <2>5, <2>6 DEF OutcomeInv, At
<1>5. CASE UNCHANGED <<txs, jobs, wk, mempool, chain>>
  BY <1>5 DEF OutcomeInv, At
<1>6. \A w \in Workers : ~Crash(w)
  BY DEF Crash, Reliable
<1>7. NonceHealth \/ UNCHANGED vars => UNCHANGED <<txs, jobs, wk, mempool, chain>>
  BY DEF NonceHealth, vars
<1> QED
  BY <1>1, <1>2, <1>3, <1>4, <1>5, <1>6, <1>7 DEF Next

\* A transaction that reports one of the outcomes was not executed.
LEMMA OutcomeHolds ==
    ASSUME Types, OutcomeInv, NEW st \in Outcomes
    PROVE  NotExecuted(st)
<1> SUFFICES ASSUME NEW t \in Txs, txs[t].status = st, NEW i \in DOMAIN chain, Executed(t, i)
             PROVE  FALSE
  BY DEF NotExecuted
<1>1. chain \in Seq(Entries)
  BY DEF Types, TypeOK
<1>2. /\ chain[i].hash \in mempool /\ chain[i].hash.tx = t /\ chain[i].hash.nonce = i - 1
      /\ chain[i].hash.kind # "noop" /\ chain[i].ok
  BY DEF Executed, OwnEntry, Types, ChainFromMempool
<1>3. Dead(t, mempool, chain)
  BY DEF OutcomeInv
<1>4. (i - 1) + 1 = i
  BY <1>1
<1> QED
  BY <1>2, <1>3, <1>4 DEF Dead

\* The invariants of transactions handled one at a time hold from the start.
LEMMA SerialInit ==
    ASSUME Init
    PROVE  FinalSeen /\ Known /\ MonitoredUntilFinal /\ TrackInv /\ NonceInv /\ OutcomeInv
<1>1. FinalSeen
  BY IdleType DEF Init, FinalSeen, NoTx, is_final_state, Finals
<1>2. Known /\ MonitoredUntilFinal
  BY IdleType DEF Init, Known, MonitoredUntilFinal, At, NoTx
<1>3. TrackInv
  BY IdleType DEF Init, TrackInv, Recorded, Steady, At, NoTx
<1>4. NonceInv
  <2>1. OneRequest
    BY IdleType DEF Init, OneRequest
  <2>2. \A t \in Txs : Pinned(txs[t], txs[t].data.nonce)
    BY IdlePinned DEF Init
  <2>3. \A w \in Workers : wk[w].tx \in Txs => PinnedWorker(wk[w], txs[wk[w].tx].data.nonce)
    BY IdlePinned DEF Init
  <2> QED
    BY <2>1, <2>2, <2>3 DEF Init, NonceInv
<1>5. OutcomeInv
  BY IdleType DEF Init, OutcomeInv, Verdict, Dead, At
<1> QED
  BY <1>1, <1>2, <1>3, <1>4, <1>5

\* One step of transactions handled one at a time.
LEMMA SerialStep ==
    ASSUME Types, FinalSeen, Known, MonitoredUntilFinal, TrackInv, NonceInv, OutcomeInv,
           Reliable, Serial, Serial', [Next]_vars
    PROVE  /\ FinalSeen' /\ Known' /\ MonitoredUntilFinal' /\ TrackInv' /\ NonceInv'
           /\ OutcomeInv'
<1>1. FinalGuard /\ ~({"queue", "db"} \subseteq Faults)
  BY DEF Reliable
<1>2. FinalSeen'
  BY <1>1, FinalStep
<1>3. Known' /\ MonitoredUntilFinal'
  BY <1>1, MonitoredInductive
<1>4. TrackInv'
  BY TrackInductive
<1>5. OneRequest'
  BY <1>4 DEF TrackInv, Steady, Serial, OneRequest, At
<1>6. NonceStep
  BY <1>5, NonceInductive
<1>7. OutcomeInv'
  BY <1>6, OutcomeInductive
<1> QED
  BY <1>2, <1>3, <1>4, <1>6, <1>7 DEF NonceStep

\* Under the same conditions, a transaction that is reported canceled took no effect: it had not
\* been signed, or the NOOP that took its place is what was mined.
THEOREM CanceledHarmless == Reliable => (Spec /\ []Serial => []CanceledNotExecuted)
<1> SUFFICES ASSUME Reliable
             PROVE  Spec /\ []Serial => []CanceledNotExecuted
  OBVIOUS
<1> DEFINE Inv == /\ FinalSeen /\ Known /\ MonitoredUntilFinal /\ TrackInv /\ NonceInv
                  /\ OutcomeInv
<1>1. Init => Inv
  BY SerialInit
<1>2. Types /\ Inv /\ Serial /\ Serial' /\ [Next]_vars => Inv'
  BY SerialStep
<1>3. Types /\ Inv => CanceledNotExecuted
  BY OutcomeHolds DEF Outcomes, CanceledNotExecuted
<1> HIDE DEF Inv
<1> QED
  BY <1>1, <1>2, <1>3, TypesInductive, PTL DEF Spec

\* Under the same conditions, and if the historical hashes can be searched, a transaction that
\* is reported failed took no effect: it had not been signed, it was reverted, or its nonce was
\* consumed before none of its hashes was found.
THEOREM FailedHarmless ==
    Reliable /\ "hashrpc" \notin Faults => (Spec /\ []Serial => []FailedNotExecuted)
<1> SUFFICES ASSUME Reliable, "hashrpc" \notin Faults
             PROVE  Spec /\ []Serial => []FailedNotExecuted
  OBVIOUS
<1> DEFINE Inv == /\ FinalSeen /\ Known /\ MonitoredUntilFinal /\ TrackInv /\ NonceInv
                  /\ OutcomeInv
<1>1. Init => Inv
  BY SerialInit
<1>2. Types /\ Inv /\ Serial /\ Serial' /\ [Next]_vars => Inv'
  BY SerialStep
<1>3. Types /\ Inv => FailedNotExecuted
  BY OutcomeHolds DEF Outcomes, FailedNotExecuted
<1> HIDE DEF Inv
<1> QED
  BY <1>1, <1>2, <1>3, TypesInductive, PTL DEF Spec
=============================================================================
