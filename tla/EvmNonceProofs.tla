--------------------------- MODULE EvmNonceProofs ---------------------------
(***************************************************************************)
(* Proofs about EvmNonce, for any number of transactions and nonces.       *)
(***************************************************************************)
EXTENDS EvmNonce, TLAPS

\* The steps of Next, one by one.
LEMMA NextCases ==
    ASSUME Next
    PROVE  \/ \E t \in Txs : \/ CreateTransaction(t) \/ GetAndIncrement(t)
                             \/ PersistNonce(t) \/ LoseNonce(t)
           \/ \E i \in Ids : \/ Submit(i) \/ Mine(i) \/ Outrun(i) \/ FailPending(i)
                             \/ NonceTooHigh(i) \/ ScheduleHealth(i)
           \/ \E hint \in Nonces : HealthStart(hint) \/ HealthSkip(hint)
           \/ \E f \in Fillers : CreateNoop(f)
           \/ SyncHint \/ Settle \/ SyncFloor \/ ScanSkip \/ ScanFound \/ ScanEmpty
           \/ Rewind \/ DetectGaps \/ GapTaken \/ GapOpen \/ NoopError \/ HealthDone
           \/ SyncNonce \/ HealthAbort \/ OtherMined \/ Replicate
BY DEF Next, Prepare, Advance, Health

\* The arithmetic of nonces and counts.
LEMMA NonceFacts ==
    /\ \A n \in Nonces : n \in Nat /\ n \in Counts /\ n + 1 \in Counts
    /\ \A c \in Counts : c \in Nat /\ (c <= MaxNonce => c \in Nonces /\ c + 1 \in Counts)
    /\ \A a, b \in Counts : Max2(a, b) \in Counts
    /\ \A a, b \in Counts : Max2(a, b - Chunk) \in Counts
    /\ 0 \in Nonces /\ 0 \in Counts
    /\ None \notin Nonces /\ None \notin Counts
BY NonceAssumption DEF Nonces, Counts, Max2

\* Each step keeps the types.
LEMMA TypeStep == TypeOK /\ [Next]_vars => TypeOK'
<1> SUFFICES ASSUME TypeOK, [Next]_vars
             PROVE  TypeOK'
  OBVIOUS
<1> USE NonceFacts DEF TypeOK
<1>0. Fault => faults' \in 0 .. MaxFaults
  BY NonceAssumption DEF Fault
<1>1. ASSUME NEW t \in Txs, CreateTransaction(t)
      PROVE  TypeOK'
  BY <1>1 DEF CreateTransaction, Statuses, Active
<1>2. ASSUME NEW t \in Txs, GetAndIncrement(t)
      PROVE  TypeOK'
  BY <1>2 DEF GetAndIncrement
<1>3. ASSUME NEW t \in Txs, PersistNonce(t)
      PROVE  TypeOK'
  BY <1>3 DEF PersistNonce, Ids, HealthRuns
<1>4. ASSUME NEW t \in Txs, LoseNonce(t)
      PROVE  TypeOK'
  BY <1>4, <1>0 DEF LoseNonce, HealthRuns
<1>5. ASSUME NEW i \in Ids, Submit(i) \/ Outrun(i)
      PROVE  TypeOK'
  <2>1. CASE Submit(i)
    BY <2>1 DEF Submit, update_indexes, Statuses, Active
  <2>2. CASE Outrun(i)
    <3>1. nonce[i] \in Nonces
      BY <2>2 DEF Outrun
    <3>2. jobs' \subseteq Nonces
      BY <2>2, <3>1 DEF Outrun, Schedule
    <3> QED
      BY <2>2, <3>2 DEF Outrun, update_indexes, Statuses
  <2> QED
    BY <1>5, <2>1, <2>2
<1>6. ASSUME NEW i \in Ids, Mine(i)
      PROVE  TypeOK'
  BY <1>6 DEF Mine, update_indexes, Statuses
<1>7. ASSUME NEW i \in Ids, FailPending(i)
      PROVE  TypeOK'
  BY <1>7, <1>0 DEF FailPending, update_indexes, Statuses
<1>8. ASSUME NEW i \in Ids, ScheduleHealth(i) \/ NonceTooHigh(i)
      PROVE  TypeOK'
  <2>1. nonce[i] \in Nonces
    BY <1>8 DEF ScheduleHealth, GapAhead, NonceTooHigh
  <2> QED
    BY <1>8, <2>1 DEF ScheduleHealth, NonceTooHigh, Schedule, update_indexes, repo
<1>9. ASSUME NEW hint \in Nonces, HealthStart(hint) \/ HealthSkip(hint)
      PROVE  TypeOK'
  <2>1. CASE HealthStart(hint)
    BY <2>1 DEF HealthStart, NoRun, HealthRuns, PCs, repo
  <2>2. CASE HealthSkip(hint)
    BY <2>2 DEF HealthSkip, repo
  <2> QED
    BY <1>9, <2>1, <2>2
<1>10. ASSUME NEW f \in Fillers, CreateNoop(f)
      PROVE  TypeOK'
  <2>1. PICK n \in h.gaps :
           /\ \/ status' = [status EXCEPT ![f] = "Pending"] /\ UNCHANGED faults
              \/ status' = [status EXCEPT ![f] = "Final"] /\ Fault
           /\ nonce' = [nonce EXCEPT ![f] = n]
           /\ index' = [index EXCEPT ![n] = f]
           /\ h' = [h EXCEPT !.pc = "guard", !.gaps = @ \ {n}]
    BY <1>10 DEF CreateNoop
  <2>2. n \in Nonces /\ f \in Ids
    BY DEF HealthRuns, Ids
  <2>3. h' \in HealthRuns
    BY <2>1 DEF HealthRuns, PCs
  <2>4. status' \in [Ids -> Statuses] /\ faults' \in 0 .. MaxFaults
    BY <2>1, <2>2, <1>0 DEF Statuses, Active
  <2> QED
    BY <1>10, <2>1, <2>2, <2>3, <2>4 DEF CreateNoop
<1>11. CASE SyncHint \/ Settle \/ SyncFloor \/ SyncNonce
  <2>1. CASE SyncHint
    BY <1>11, <2>1 DEF SyncHint, sync_floor, HealthRuns, PCs, repo
  <2>2. CASE Settle
    BY <1>11, <2>2 DEF Settle, HealthRuns, PCs, repo
  <2>3. CASE SyncFloor
    BY <1>11, <2>3 DEF SyncFloor, sync_floor, HealthRuns, PCs, repo
  <2>4. CASE SyncNonce
    BY <1>11, <2>4 DEF SyncNonce, sync_floor, repo
  <2> QED
    BY <1>11, <2>1, <2>2, <2>3, <2>4
<1>12. CASE ScanSkip \/ ScanFound
  <2>1. CASE ScanSkip
    BY <1>12, <2>1 DEF ScanSkip, HealthRuns, PCs, repo
  <2>2. CASE ScanFound
    <3>1. PICK n \in Seen : h' = [h EXCEPT !.pc = "cas", !.target = n + 1]
      BY <2>2 DEF ScanFound
    <3>2. n + 1 \in Counts
      BY DEF Seen
    <3> QED
      BY <2>2, <3>1, <3>2 DEF ScanFound, HealthRuns, PCs, repo
  <2> QED
    BY <1>12, <2>1, <2>2
<1>13. CASE ScanEmpty
  <2>1. ChunkStart \in Counts
    BY DEF ChunkStart, HealthRuns
  <2> QED
    BY <1>13, <2>1 DEF ScanEmpty, HealthRuns, PCs, repo
<1>14. CASE Rewind
  BY <1>14 DEF Rewind, set_if_equals, HealthRuns, PCs, repo
<1>15. CASE DetectGaps
  <2>1. Gaps \in SUBSET Nonces
    BY DEF Gaps, Scanned
  <2> QED
    BY <1>15, <2>1 DEF DetectGaps, HealthRuns, PCs, repo
<1>16. CASE GapTaken \/ GapOpen \/ NoopError
  <2>1. CASE GapTaken \/ GapOpen
    BY <2>1 DEF GapTaken, GapOpen, HealthRuns, PCs, repo
  <2>2. CASE NoopError
    <3>1. h' \in HealthRuns
      <4>1. PICK n \in h.gaps : h' = [h EXCEPT !.pc = "guard", !.gaps = @ \ {n}]
        BY <2>2 DEF NoopError
      <4> QED
        BY <4>1 DEF HealthRuns, PCs
    <3>2. faults' \in 0 .. MaxFaults
      BY <2>2, <1>0 DEF NoopError
    <3> QED
      BY <2>2, <3>1, <3>2 DEF NoopError, repo
  <2> QED
    BY <1>16, <2>1, <2>2
<1>17. CASE HealthDone
  BY <1>17 DEF HealthDone, NoRun, HealthRuns, PCs, repo
<1>18. CASE HealthAbort
  BY <1>18, <1>0 DEF HealthAbort, NoRun, HealthRuns, PCs, repo
<1>19. CASE OtherMined
  BY <1>19, <1>0 DEF OtherMined, repo
<1>20. CASE Replicate \/ UNCHANGED vars
  BY <1>20 DEF Replicate, repo, vars
<1> QED
  BY <1>1, <1>2, <1>3, <1>4, <1>5, <1>6, <1>7, <1>8, <1>9, <1>10, <1>11, <1>12, <1>13,
     <1>14, <1>15, <1>16, <1>17, <1>18, <1>19, <1>20, NextCases

\* Every reachable state is well typed: the counter never leaves 0..MaxNonce+1,
\* whatever hints and on-chain nonces the health job raises it to.
THEOREM TypeCorrect == Spec => []TypeOK
<1>1. Init => TypeOK
  BY NonceAssumption, NonceFacts DEF Init, TypeOK, Statuses, NoRun, HealthRuns, PCs
<1> QED
  BY <1>1, TypeStep, PTL DEF Spec

-----------------------------------------------------------------------------
(* The inductive invariant behind NoNonceReissued *)

\* Only preparations of user transactions hold a nonce.
HeldByTxs == \A f \in Fillers : held[f] = None

\* The index knows every stored nonce, and the counter is above all of them and
\* above every nonce that is held.
Indexed    == \A i \in Ids : nonce[i] # None => index[nonce[i]] # None
IndexBelow == \A n \in Nonces : index[n] # None => n < counter
HeldBelow  == \A t \in Txs : held[t] # None => held[t] < counter

\* From the read of the counter to the compare-and-set nothing lowers it ...
ObservedBelow == h.pc \in {"hint", "settle", "floor", "scan", "cas"} => h.observed <= counter

\* ... so a held nonce below the value read was held at the time of the read,
\* and after the settle pause there is none.
WaitedFor == h.pc \in {"hint", "settle"} =>
                \A t \in Txs : held[t] # None /\ held[t] < h.observed => t \in h.waiting
SettledDown == h.pc \in {"floor", "scan", "cas"} =>
                \A t \in Txs : held[t] # None => h.observed <= held[t]

\* What the scan has passed is empty, and so is what the rewind would free.
ScannedEmpty == h.pc = "scan" =>
                \A n \in Nonces : h.top <= n /\ n < h.observed => index[n] = None
TargetEmpty  == h.pc = "cas" =>
                \A n \in Nonces : h.target <= n /\ n < h.observed => index[n] = None

\* Gaps are filled below the counter only.
GapsBelow == h.pc \in {"guard", "fill"} => \A n \in h.gaps : n < counter

IInv ==
    /\ TypeOK /\ HeldByTxs /\ Indexed /\ IndexBelow /\ HeldBelow /\ ObservedBelow
    /\ WaitedFor /\ SettledDown /\ ScannedEmpty /\ TargetEmpty /\ GapsBelow
    /\ NoNonceReissued

\* A step that leaves nonces, counter and the health job alone, and in the index
\* at most changes who has a nonce, keeps IInv.
LEMMA QuietStep ==
    ASSUME IInv, TypeOK', UNCHANGED <<nonce, held, counter, h>>,
           \A n \in Nonces : index'[n] = None <=> index[n] = None
    PROVE  IInv'
<1>1. Indexed' /\ IndexBelow' /\ ScannedEmpty' /\ TargetEmpty'
  BY DEF IInv, TypeOK, Indexed, IndexBelow, ScannedEmpty, TargetEmpty
<1>2. HeldByTxs' /\ HeldBelow' /\ ObservedBelow' /\ WaitedFor' /\ SettledDown' /\ GapsBelow'
  BY DEF IInv, HeldByTxs, HeldBelow, ObservedBelow, WaitedFor, SettledDown, GapsBelow
<1>3. NoNonceReissued'
  BY DEF IInv, NoNonceReissued, Claims
<1> QED
  BY <1>1, <1>2, <1>3 DEF IInv

\* update_indexes only changes who has a nonce.
LEMMA TouchedIndex ==
    ASSUME IInv, NEW i \in Ids, update_indexes(i)
    PROVE  \A n \in Nonces : index'[n] = None <=> index[n] = None
<1>1. i # None
  BY NonceAssumption DEF Ids
<1>2. CASE nonce[i] = None
  BY <1>2 DEF update_indexes
<1>3. CASE nonce[i] # None
  BY <1>1, <1>3 DEF update_indexes, IInv, TypeOK, Indexed
<1> QED
  BY <1>2, <1>3

\* Allocation: the counter's value is nobody's claim, because all are below it.
LEMMA AllocateStep ==
    ASSUME IInv, TypeOK', NEW t \in Txs, GetAndIncrement(t)
    PROVE  IInv'
<1> USE NonceFacts DEF IInv, TypeOK
<1>1. counter \in Nonces /\ counter' = counter + 1 /\ held' = [held EXCEPT ![t] = counter]
      /\ UNCHANGED <<nonce, index, h>>
  BY DEF GetAndIncrement
<1>2. t \in Ids /\ t \notin Fillers
  BY NonceAssumption DEF Ids
<1>3. HeldByTxs' /\ Indexed'
  BY <1>1, <1>2 DEF HeldByTxs, Indexed, Ids
<1>a. /\ \A u \in Txs : held'[u] = IF u = t THEN counter ELSE held[u]
      /\ \A u \in Txs : held[u] # None => held[u] \in Nat
      /\ counter \in Nat /\ h.observed \in Nat
  BY <1>1, <1>2 DEF Ids, HealthRuns
<1>b. \A n \in Nonces : n \in Nat
  OBVIOUS
<1>4. IndexBelow' /\ HeldBelow'
  <2> HIDE DEF TypeOK
  <2>1. IndexBelow'
    BY <1>1, <1>a, <1>b DEF IndexBelow
  <2>2. HeldBelow'
    BY <1>1, <1>a DEF HeldBelow
  <2> QED
    BY <2>1, <2>2
<1>5. ObservedBelow' /\ WaitedFor' /\ SettledDown'
  <2> HIDE DEF TypeOK
  <2>1. ObservedBelow'
    BY <1>1, <1>a DEF ObservedBelow
  <2>2. WaitedFor'
    BY <1>1, <1>a DEF ObservedBelow, WaitedFor
  <2>3. SettledDown'
    BY <1>1, <1>a DEF ObservedBelow, SettledDown
  <2> QED
    BY <2>1, <2>2, <2>3
<1>6. ScannedEmpty' /\ TargetEmpty' /\ GapsBelow'
  BY <1>1 DEF ScannedEmpty, TargetEmpty, GapsBelow, HealthRuns
<1>7. \A u \in Txs : counter \notin Claims(u)
  BY DEF Claims, HeldBelow, IndexBelow, Indexed, Ids
<1>8. NoNonceReissued'
  <2> SUFFICES ASSUME NEW u \in Txs, NEW v \in Txs, u # v
               PROVE  Claims(u)' \cap Claims(v)' = {}
    BY DEF NoNonceReissued
  <2>1. Claims(u) \cap Claims(v) = {}
    BY DEF NoNonceReissued
  <2>2. Claims(u)' \subseteq Claims(u) \cup (IF u = t THEN {counter} ELSE {})
    BY <1>1, <1>2 DEF Claims, Ids
  <2>3. Claims(v)' \subseteq Claims(v) \cup (IF v = t THEN {counter} ELSE {})
    BY <1>1, <1>2 DEF Claims, Ids
  <2> QED
    BY <2>1, <2>2, <2>3, <1>7
<1> QED
  BY <1>3, <1>4, <1>5, <1>6, <1>8

\* Storing a held nonce adds no claim; after the settle pause it is not one the
\* rewind looks at.
LEMMA PersistStep ==
    ASSUME IInv, TypeOK', NEW t \in Txs, PersistNonce(t)
    PROVE  IInv'
<1> USE NonceFacts DEF IInv, TypeOK
<1>1. /\ held[t] \in Nonces /\ counter' = counter
      /\ nonce' = [nonce EXCEPT ![t] = held[t]]
      /\ index' = [index EXCEPT ![held[t]] = t]
      /\ held' = [held EXCEPT ![t] = None]
      /\ h' = [h EXCEPT !.waiting = @ \ {t}]
  BY DEF PersistNonce, Ids
<1>2. t \in Ids /\ t # None
  BY NonceAssumption DEF Ids
<1>3. HeldByTxs' /\ Indexed'
  BY <1>1, <1>2 DEF HeldByTxs, Indexed, Ids
<1>4. IndexBelow' /\ HeldBelow'
  BY <1>1, <1>2 DEF IndexBelow, HeldBelow, Ids
<1>5. ObservedBelow' /\ WaitedFor' /\ SettledDown' /\ GapsBelow'
  BY <1>1, <1>2 DEF ObservedBelow, WaitedFor, SettledDown, GapsBelow, HealthRuns, Ids
<1>6. ScannedEmpty' /\ TargetEmpty'
  <2>1. /\ h'.pc = h.pc /\ h'.observed = h.observed /\ h'.top = h.top /\ h'.target = h.target
        /\ h.observed \in Nat /\ held[t] \in Nat
        /\ \A n \in Nonces : n \in Nat /\ index'[n] = IF n = held[t] THEN t ELSE index[n]
    BY <1>1 DEF HealthRuns
  <2>2. h.pc \in {"scan", "cas"} => h.observed <= held[t]
    BY <1>1 DEF SettledDown
  <2> HIDE DEF TypeOK
  <2>3. ASSUME NEW n \in Nonces, h.pc \in {"scan", "cas"}, n < h.observed
        PROVE  index'[n] = index[n]
    BY <2>1, <2>2, <2>3
  <2>4. ScannedEmpty'
    BY <2>1, <2>3 DEF ScannedEmpty
  <2>5. TargetEmpty'
    BY <2>1, <2>3 DEF TargetEmpty
  <2> QED
    BY <2>4, <2>5
<1>7. NoNonceReissued'
  <2>1. \A u \in Txs : Claims(u)' \subseteq Claims(u)
    BY <1>1, <1>2 DEF Claims, Ids
  <2> QED
    BY <2>1 DEF NoNonceReissued
<1> QED
  BY <1>3, <1>4, <1>5, <1>6, <1>7

\* Losing a held nonce removes a claim.
LEMMA LoseStep ==
    ASSUME IInv, TypeOK', NEW t \in Txs, LoseNonce(t)
    PROVE  IInv'
<1> USE NonceFacts DEF IInv, TypeOK
<1>1. /\ UNCHANGED <<nonce, index, counter>>
      /\ held' = [held EXCEPT ![t] = None]
      /\ h' = [h EXCEPT !.waiting = @ \ {t}]
  BY DEF LoseNonce
<1>2. HeldByTxs' /\ Indexed' /\ IndexBelow' /\ HeldBelow'
  BY <1>1 DEF HeldByTxs, Indexed, IndexBelow, HeldBelow, Ids
<1>3. ObservedBelow' /\ WaitedFor' /\ SettledDown' /\ GapsBelow' /\ ScannedEmpty' /\ TargetEmpty'
  BY <1>1 DEF ObservedBelow, WaitedFor, SettledDown, GapsBelow, ScannedEmpty, TargetEmpty,
     HealthRuns, Ids
<1>4. NoNonceReissued'
  <2>1. \A u \in Txs : Claims(u)' \subseteq Claims(u)
    BY <1>1 DEF Claims, Ids
  <2> QED
    BY <2>1 DEF NoNonceReissued
<1> QED
  BY <1>2, <1>3, <1>4

\* A step that leaves the records alone and does not lower the counter keeps the
\* parts of IInv that are not about the health job.
LEMMA RecordsKept ==
    ASSUME IInv, TypeOK', UNCHANGED <<nonce, held, index>>, counter <= counter'
    PROVE  HeldByTxs' /\ Indexed' /\ IndexBelow' /\ HeldBelow' /\ NoNonceReissued'
<1>1. /\ counter \in Nat /\ counter' \in Nat
      /\ \A n \in Nonces : n \in Nat
      /\ \A t \in Txs : held[t] # None => held[t] \in Nat
  BY NonceFacts DEF IInv, TypeOK, Ids
<1>2. IndexBelow' /\ HeldBelow'
  BY <1>1 DEF IInv, IndexBelow, HeldBelow
<1>3. HeldByTxs' /\ Indexed'
  BY DEF IInv, HeldByTxs, Indexed
<1>4. NoNonceReissued'
  BY DEF IInv, NoNonceReissued, Claims
<1> QED
  BY <1>2, <1>3, <1>4

\* sync_floor never lowers the counter.
LEMMA FloorRaises ==
    ASSUME NEW floor \in Nat, counter \in Nat, sync_floor(floor)
    PROVE  counter <= counter'
BY DEF sync_floor, Max2

\* Nothing is left to wait for: the parts of IInv about the health job are
\* vacuous while it is not running.
LEMMA IdleStep ==
    ASSUME IInv, TypeOK', UNCHANGED <<nonce, held, index, counter>>, h' = NoRun
    PROVE  IInv'
<1>1. counter \in Nat /\ counter <= counter'
  BY NonceFacts DEF IInv, TypeOK
<1>2. h'.pc = "idle"
  BY DEF NoRun
<1>3. ObservedBelow' /\ WaitedFor' /\ SettledDown' /\ ScannedEmpty' /\ TargetEmpty' /\ GapsBelow'
  BY <1>2 DEF ObservedBelow, WaitedFor, SettledDown, ScannedEmpty, TargetEmpty, GapsBelow
<1> QED
  BY <1>1, <1>3, RecordsKept DEF IInv

\* The job reads the counter: every nonce held now is waited for.
LEMMA StartStep ==
    ASSUME IInv, TypeOK', ReadReplica = FALSE, NEW hint \in Nonces, HealthStart(hint)
    PROVE  IInv'
<1>1. /\ UNCHANGED <<nonce, held, index, counter>>
      /\ h'.pc = "hint" /\ h'.observed = counter
      /\ h'.waiting = {t \in Txs : held[t] # None}
  BY DEF HealthStart, NoRun, repo
<1>2. counter <= counter' /\ counter \in Nat
  BY <1>1, NonceFacts DEF IInv, TypeOK
<1>3. ObservedBelow' /\ WaitedFor'
  BY <1>1, <1>2 DEF ObservedBelow, WaitedFor
<1>4. SettledDown' /\ ScannedEmpty' /\ TargetEmpty' /\ GapsBelow'
  BY <1>1 DEF SettledDown, ScannedEmpty, TargetEmpty, GapsBelow
<1> QED
  BY <1>1, <1>2, <1>3, <1>4, RecordsKept DEF IInv

\* Raising the counter outside the health job.
LEMMA SyncNonceStep ==
    ASSUME IInv, TypeOK', SyncNonce
    PROVE  IInv'
<1>1. UNCHANGED <<nonce, held, index, h>> /\ sync_floor(onChain)
  BY DEF SyncNonce, repo
<1>2. /\ counter \in Nat /\ counter' \in Nat /\ h.observed \in Nat /\ onChain \in Nat
      /\ \A n \in h.gaps : n \in Nat
  BY NonceFacts DEF IInv, TypeOK, HealthRuns
<1>3. counter <= counter'
  BY <1>1, <1>2, FloorRaises
<1>4. ObservedBelow' /\ GapsBelow'
  BY <1>1, <1>2, <1>3 DEF IInv, ObservedBelow, GapsBelow
<1>5. WaitedFor' /\ SettledDown' /\ ScannedEmpty' /\ TargetEmpty'
  BY <1>1 DEF IInv, WaitedFor, SettledDown, ScannedEmpty, TargetEmpty
<1> QED
  BY <1>1, <1>3, <1>4, <1>5, RecordsKept DEF IInv

\* Raising the counter over the hint.
LEMMA SyncHintStep ==
    ASSUME IInv, TypeOK', SyncHint
    PROVE  IInv'
<1>1. /\ UNCHANGED <<nonce, held, index>> /\ sync_floor(h.hint + 1)
      /\ h.pc = "hint" /\ h'.pc = "settle"
      /\ h'.observed = h.observed /\ h'.waiting = h.waiting
  BY DEF SyncHint, At, repo, IInv, TypeOK, HealthRuns
<1>2. /\ counter \in Nat /\ counter' \in Nat /\ h.observed \in Nat /\ h.hint + 1 \in Nat
  BY NonceFacts DEF IInv, TypeOK, HealthRuns
<1>3. counter <= counter'
  BY <1>1, <1>2, FloorRaises
<1>4. ObservedBelow' /\ WaitedFor'
  BY <1>1, <1>2, <1>3 DEF IInv, ObservedBelow, WaitedFor
<1>5. SettledDown' /\ ScannedEmpty' /\ TargetEmpty' /\ GapsBelow'
  BY <1>1 DEF SettledDown, ScannedEmpty, TargetEmpty, GapsBelow
<1> QED
  BY <1>1, <1>3, <1>4, <1>5, RecordsKept DEF IInv

\* The end of the settle pause: whoever held a nonce below the value read has
\* stored it or lost it.
LEMMA SettleStep ==
    ASSUME IInv, TypeOK', Settled = TRUE, Settle
    PROVE  IInv'
<1>1. /\ UNCHANGED <<nonce, held, index, counter>>
      /\ h.pc = "settle" /\ h'.pc = "floor" /\ h.waiting = {}
      /\ h'.observed = h.observed
  BY DEF Settle, At, repo, IInv, TypeOK, HealthRuns
<1>2. /\ counter \in Nat /\ h.observed \in Nat
      /\ \A t \in Txs : held[t] # None => held[t] \in Nat
  BY NonceFacts DEF IInv, TypeOK, HealthRuns, Ids
<1>3. ObservedBelow'
  BY <1>1 DEF IInv, ObservedBelow
<1>4. SettledDown'
  BY <1>1, <1>2 DEF IInv, WaitedFor, SettledDown
<1>5. WaitedFor' /\ ScannedEmpty' /\ TargetEmpty' /\ GapsBelow'
  BY <1>1 DEF WaitedFor, ScannedEmpty, TargetEmpty, GapsBelow
<1> QED
  BY <1>1, <1>2, <1>3, <1>4, <1>5, RecordsKept DEF IInv

\* Raising the counter to the nonce on chain; the scan starts at the value read.
LEMMA SyncFloorStep ==
    ASSUME IInv, TypeOK', SyncFloor
    PROVE  IInv'
<1>1. /\ UNCHANGED <<nonce, held, index>> /\ sync_floor(h.chain)
      /\ h.pc = "floor" /\ h'.pc = "scan"
      /\ h'.observed = h.observed /\ h'.top = h.observed
  BY DEF SyncFloor, At, repo, IInv, TypeOK, HealthRuns
<1>2. /\ counter \in Nat /\ counter' \in Nat /\ h.observed \in Nat /\ h.chain \in Nat
      /\ \A n \in Nonces : n \in Nat
  BY NonceFacts DEF IInv, TypeOK, HealthRuns
<1>3. counter <= counter'
  BY <1>1, <1>2, FloorRaises
<1>4. ObservedBelow' /\ SettledDown'
  BY <1>1, <1>2, <1>3 DEF IInv, ObservedBelow, SettledDown
<1>5. ScannedEmpty'
  BY <1>1, <1>2 DEF ScannedEmpty
<1>6. WaitedFor' /\ TargetEmpty' /\ GapsBelow'
  BY <1>1 DEF WaitedFor, TargetEmpty, GapsBelow
<1> QED
  BY <1>1, <1>3, <1>4, <1>5, <1>6, RecordsKept DEF IInv

\* The scan stops at the highest nonce in use: all above it are free.
LEMMA ScanFoundStep ==
    ASSUME IInv, TypeOK', ScanFound
    PROVE  IInv'
<1>1. PICK n \in Seen : /\ \A m \in Seen : m <= n
                        /\ h' = [h EXCEPT !.pc = "cas", !.target = n + 1]
  BY DEF ScanFound
<1>2. /\ UNCHANGED <<nonce, held, index, counter>>
      /\ h.pc = "scan" /\ h'.pc = "cas"
      /\ h'.observed = h.observed /\ h'.target = n + 1
  BY <1>1 DEF ScanFound, At, repo, IInv, TypeOK, HealthRuns
<1>3. /\ counter \in Nat /\ h.observed \in Nat /\ h.top \in Nat
      /\ n \in Nonces /\ ChunkStart <= n /\ n < h.top
      /\ \A m \in Nonces : m \in Nat
      /\ ChunkStart \in Nat
  BY NonceFacts DEF IInv, TypeOK, HealthRuns, Seen, ChunkStart
<1>4. TargetEmpty'
  <2> SUFFICES ASSUME NEW m \in Nonces, n + 1 <= m, m < h.observed
               PROVE  index[m] = None
    BY <1>2 DEF TargetEmpty
  <2>1. CASE h.top <= m
    BY <1>2, <2>1 DEF IInv, ScannedEmpty
  <2>2. CASE m < h.top
    <3>1. ChunkStart <= m /\ ~(m <= n)
      BY <1>3
    <3>2. m \notin Seen
      BY <1>1, <3>1
    <3> QED
      BY <2>2, <3>1, <3>2 DEF Seen, Occupied
  <2> QED
    BY <1>3, <2>1, <2>2
<1>5. ObservedBelow' /\ SettledDown'
  BY <1>2 DEF IInv, ObservedBelow, SettledDown
<1>6. WaitedFor' /\ ScannedEmpty' /\ GapsBelow'
  BY <1>2 DEF WaitedFor, ScannedEmpty, GapsBelow
<1> QED
  BY <1>2, <1>3, <1>4, <1>5, <1>6, RecordsKept DEF IInv

\* A chunk with no nonce in use: the scan moves down, or ends at the nonce on chain.
LEMMA ScanEmptyStep ==
    ASSUME IInv, TypeOK', ScanEmpty
    PROVE  IInv'
<1>1. /\ UNCHANGED <<nonce, held, index, counter>>
      /\ h.pc = "scan" /\ Seen = {}
      /\ h'.observed = h.observed
      /\ \/ h'.pc = "cas" /\ h'.target = ChunkStart
         \/ h'.pc = "scan" /\ h'.top = ChunkStart
  BY DEF ScanEmpty, At, repo, IInv, TypeOK, HealthRuns
<1>2. /\ counter \in Nat /\ h.observed \in Nat /\ h.top \in Nat
      /\ \A m \in Nonces : m \in Nat
      /\ ChunkStart \in Nat
  BY NonceFacts DEF IInv, TypeOK, HealthRuns, ChunkStart
<1>3. ASSUME NEW m \in Nonces, ChunkStart <= m, m < h.observed
      PROVE  index[m] = None
  <2>1. CASE h.top <= m
    BY <1>1, <1>3, <2>1 DEF IInv, ScannedEmpty
  <2>2. CASE m < h.top
    BY <1>1, <1>3, <2>2 DEF Seen, Occupied
  <2> QED
    BY <1>2, <2>1, <2>2
<1>4. TargetEmpty' /\ ScannedEmpty'
  BY <1>1, <1>3 DEF TargetEmpty, ScannedEmpty
<1>5. ObservedBelow' /\ SettledDown'
  BY <1>1 DEF IInv, ObservedBelow, SettledDown
<1>6. WaitedFor' /\ GapsBelow'
  BY <1>1 DEF WaitedFor, GapsBelow
<1> QED
  BY <1>1, <1>2, <1>4, <1>5, <1>6, RecordsKept DEF IInv

\* The compare-and-set.  It lowers the counter only when the counter still has
\* the value read; then no held nonce is left, since it would be both below the
\* counter and not below the value read, and every nonce freed is unused.
LEMMA RewindStep ==
    ASSUME IInv, TypeOK', Rewind
    PROVE  IInv'
<1>1. /\ UNCHANGED <<nonce, held, index>>
      /\ h.pc = "cas" /\ h'.pc = "detect"
      /\ set_if_equals(h.observed, h.target)
  BY DEF Rewind, At, repo, IInv, TypeOK, HealthRuns
<1>2. /\ counter \in Nat /\ counter' \in Nat /\ h.observed \in Nat /\ h.target \in Nat
      /\ \A n \in Nonces : n \in Nat
      /\ \A t \in Txs : held[t] # None => held[t] \in Nat
  BY NonceFacts DEF IInv, TypeOK, HealthRuns, Ids
<1>3. /\ ObservedBelow' /\ WaitedFor' /\ SettledDown' /\ ScannedEmpty' /\ TargetEmpty'
      /\ GapsBelow'
  BY <1>1 DEF ObservedBelow, WaitedFor, SettledDown, ScannedEmpty, TargetEmpty, GapsBelow
<1>4. CASE counter' = counter
  BY <1>1, <1>2, <1>3, <1>4, RecordsKept DEF IInv
<1>5. CASE counter = h.observed /\ counter' = h.target
  <2>1. \A t \in Txs : held[t] = None
    BY <1>1, <1>2, <1>5 DEF IInv, SettledDown, HeldBelow
  <2>2. HeldBelow'
    BY <1>1, <2>1 DEF HeldBelow
  <2>3. IndexBelow'
    BY <1>1, <1>2, <1>5 DEF IInv, IndexBelow, TargetEmpty
  <2>4. HeldByTxs' /\ Indexed'
    BY <1>1 DEF IInv, HeldByTxs, Indexed
  <2>5. NoNonceReissued'
    BY <1>1 DEF IInv, NoNonceReissued, Claims
  <2> QED
    BY <1>3, <2>2, <2>3, <2>4, <2>5 DEF IInv
<1> QED
  BY <1>1, <1>4, <1>5 DEF set_if_equals

\* A region too wide to scan is left alone.
LEMMA ScanSkipStep ==
    ASSUME IInv, TypeOK', ScanSkip
    PROVE  IInv'
<1>1. UNCHANGED <<nonce, held, index, counter>> /\ h'.pc = "detect"
  BY DEF ScanSkip, repo, IInv, TypeOK, HealthRuns
<1>2. counter \in Nat /\ counter <= counter'
  BY <1>1, NonceFacts DEF IInv, TypeOK
<1>3. /\ ObservedBelow' /\ WaitedFor' /\ SettledDown' /\ ScannedEmpty' /\ TargetEmpty'
      /\ GapsBelow'
  BY <1>1 DEF ObservedBelow, WaitedFor, SettledDown, ScannedEmpty, TargetEmpty, GapsBelow
<1> QED
  BY <1>1, <1>2, <1>3, RecordsKept DEF IInv

\* A gap lies at or below a nonce in use, hence below the counter.
LEMMA GapsStep ==
    ASSUME IInv, TypeOK', DetectGaps \/ GapTaken \/ GapOpen \/ NoopError
    PROVE  IInv'
<1>1. UNCHANGED <<nonce, held, index, counter>> /\ h'.pc \in {"guard", "fill"}
  BY DEF DetectGaps, GapTaken, GapOpen, NoopError, At, repo, IInv, TypeOK, HealthRuns
<1>2. counter \in Nat /\ counter <= counter' /\ \A n \in Nonces : n \in Nat
  BY <1>1, NonceFacts DEF IInv, TypeOK
<1>3. \A n \in Gaps : n < counter
  BY <1>2 DEF Gaps, Scanned, Occupied, IInv, IndexBelow
<1>4. h'.gaps = Gaps \/ (h'.gaps \subseteq h.gaps /\ h.pc \in {"guard", "fill"})
  BY DEF DetectGaps, GapTaken, GapOpen, NoopError, At, IInv, TypeOK, HealthRuns
<1>5. GapsBelow'
  BY <1>1, <1>3, <1>4 DEF IInv, GapsBelow
<1>6. ObservedBelow' /\ WaitedFor' /\ SettledDown' /\ ScannedEmpty' /\ TargetEmpty'
  BY <1>1 DEF ObservedBelow, WaitedFor, SettledDown, ScannedEmpty, TargetEmpty
<1> QED
  BY <1>1, <1>2, <1>5, <1>6, RecordsKept DEF IInv

\* A gap-filling NOOP takes a nonce below the counter, and claims of users stay.
LEMMA NoopStep ==
    ASSUME IInv, TypeOK', NEW f \in Fillers, CreateNoop(f)
    PROVE  IInv'
<1>1. PICK n \in h.gaps :
         /\ nonce' = [nonce EXCEPT ![f] = n]
         /\ index' = [index EXCEPT ![n] = f]
         /\ h' = [h EXCEPT !.pc = "guard", !.gaps = @ \ {n}]
  BY DEF CreateNoop
<1>2. UNCHANGED <<held, counter>> /\ h.pc = "fill"
  BY DEF CreateNoop, At
<1>3. /\ n \in Nonces /\ n < counter /\ f \in Ids /\ f \notin Txs /\ f # None
  BY <1>2, NonceAssumption DEF IInv, TypeOK, HealthRuns, GapsBelow, Ids
<1>4. HeldByTxs' /\ HeldBelow'
  BY <1>2 DEF IInv, HeldByTxs, HeldBelow
<1>5. Indexed' /\ IndexBelow'
  BY <1>1, <1>2, <1>3, NonceFacts DEF IInv, TypeOK, Indexed, IndexBelow
<1>6. h'.pc = "guard" /\ h'.gaps \subseteq h.gaps
  BY <1>1 DEF IInv, TypeOK, HealthRuns
<1>7. GapsBelow'
  BY <1>2, <1>6 DEF IInv, GapsBelow
<1>8. ObservedBelow' /\ WaitedFor' /\ SettledDown' /\ ScannedEmpty' /\ TargetEmpty'
  BY <1>6 DEF ObservedBelow, WaitedFor, SettledDown, ScannedEmpty, TargetEmpty
<1>9. \A t \in Txs : Claims(t)' = Claims(t)
  BY <1>1, <1>2, <1>3 DEF IInv, TypeOK, Claims, Ids
<1>10. NoNonceReissued'
  BY <1>9 DEF IInv, NoNonceReissued
<1> QED
  BY <1>4, <1>5, <1>7, <1>8, <1>10 DEF IInv

-----------------------------------------------------------------------------
(* The theorems *)

\* With an atomic counter and a settle pause long enough, IInv is inductive.
LEMMA InductiveStep ==
    ASSUME Settled = TRUE, ReadReplica = FALSE, IInv, [Next]_vars
    PROVE  IInv'
<1>1. TypeOK'
  BY TypeStep DEF IInv
<1>2. ASSUME NEW t \in Txs, CreateTransaction(t)
      PROVE  IInv'
  BY <1>1, <1>2, QuietStep DEF CreateTransaction
<1>3. ASSUME NEW t \in Txs, GetAndIncrement(t) \/ PersistNonce(t) \/ LoseNonce(t)
      PROVE  IInv'
  BY <1>1, <1>3, AllocateStep, PersistStep, LoseStep
<1>4. ASSUME NEW i \in Ids,
             \/ Submit(i) \/ Mine(i) \/ Outrun(i) \/ FailPending(i)
             \/ NonceTooHigh(i) \/ ScheduleHealth(i)
      PROVE  IInv'
  <2>1. CASE ScheduleHealth(i)
    BY <1>1, <2>1, QuietStep DEF ScheduleHealth, repo
  <2>2. CASE Submit(i) \/ Mine(i) \/ Outrun(i) \/ FailPending(i) \/ NonceTooHigh(i)
    <3>1. update_indexes(i) /\ UNCHANGED <<nonce, held, counter, h>>
      BY <2>2 DEF Submit, Mine, Outrun, FailPending, NonceTooHigh
    <3>2. \A n \in Nonces : index'[n] = None <=> index[n] = None
      BY <3>1, TouchedIndex
    <3> QED
      BY <1>1, <3>1, <3>2, QuietStep
  <2> QED
    BY <1>4, <2>1, <2>2
<1>5. ASSUME NEW hint \in Nonces, HealthStart(hint) \/ HealthSkip(hint)
      PROVE  IInv'
  BY <1>1, <1>5, StartStep, QuietStep DEF HealthSkip, repo
<1>6. ASSUME NEW f \in Fillers, CreateNoop(f)
      PROVE  IInv'
  BY <1>1, <1>6, NoopStep
<1>7. CASE SyncHint \/ Settle \/ SyncFloor \/ SyncNonce
  BY <1>1, <1>7, SyncHintStep, SettleStep, SyncFloorStep, SyncNonceStep
<1>8. CASE ScanSkip \/ ScanFound \/ ScanEmpty \/ Rewind
  BY <1>1, <1>8, ScanSkipStep, ScanFoundStep, ScanEmptyStep, RewindStep
<1>9. CASE DetectGaps \/ GapTaken \/ GapOpen \/ NoopError
  BY <1>1, <1>9, GapsStep
<1>10. CASE HealthDone \/ HealthAbort
  BY <1>1, <1>10, IdleStep DEF HealthDone, HealthAbort, repo
<1>11. CASE OtherMined \/ Replicate \/ UNCHANGED vars
  BY <1>1, <1>11, QuietStep DEF OtherMined, Replicate, repo, vars
<1> QED
  BY <1>2, <1>3, <1>4, <1>5, <1>6, <1>7, <1>8, <1>9, <1>10, <1>11, NextCases

\* The inductive invariant holds initially.
LEMMA InductiveInit == Init => IInv
<1> SUFFICES ASSUME Init
             PROVE  IInv
  OBVIOUS
<1>1. TypeOK
  BY NonceAssumption, NonceFacts DEF Init, TypeOK, Statuses, NoRun, HealthRuns, PCs
<1>2. h.pc = "idle"
  BY DEF Init, NoRun
<1>3. ObservedBelow /\ WaitedFor /\ SettledDown /\ ScannedEmpty /\ TargetEmpty /\ GapsBelow
  BY <1>2 DEF ObservedBelow, WaitedFor, SettledDown, ScannedEmpty, TargetEmpty, GapsBelow
<1>4. HeldByTxs /\ Indexed /\ IndexBelow /\ HeldBelow
  BY DEF Init, HeldByTxs, Indexed, IndexBelow, HeldBelow, Ids
<1>5. NoNonceReissued
  BY DEF Init, NoNonceReissued, Claims, Ids
<1> QED
  BY <1>1, <1>3, <1>4, <1>5 DEF IInv

\* No two user transactions ever claim the same nonce, for any number of
\* transactions, nonces, chunk size and scan range, provided try_rewind_counter's
\* observed value comes from the primary and the settle pause outlasts the
\* preparations that held a nonce when it was read.
THEOREM NoReissue ==
    ASSUME Settled = TRUE, ReadReplica = FALSE
    PROVE  Spec => []NoNonceReissued
<1>1. IInv => NoNonceReissued
  BY DEF IInv
<1>2. IInv /\ [Next]_vars => IInv'
  BY InductiveStep
<1> QED
  BY <1>1, <1>2, InductiveInit, PTL DEF Spec

\* Under the same two conditions the counter stays above every nonce stored or
\* held, gap-filling NOOPs included, so get_and_increment only hands out new ones.
THEOREM CounterAbove ==
    ASSUME Settled = TRUE, ReadReplica = FALSE
    PROVE  Spec => []CounterAboveClaims
<1>1. IInv => CounterAboveClaims
  <2> SUFFICES ASSUME IInv, NEW i \in Ids, NEW n \in Claims(i)
               PROVE  n < counter
    BY DEF CounterAboveClaims
  <2>1. CASE n = nonce[i]
    BY <2>1 DEF Claims, IInv, TypeOK, Indexed, IndexBelow
  <2>2. CASE n = held[i]
    BY <2>2 DEF Claims, IInv, HeldByTxs, HeldBelow, Ids
  <2> QED
    BY <2>1, <2>2 DEF Claims
<1>2. IInv /\ [Next]_vars => IInv'
  BY InductiveStep
<1> QED
  BY <1>1, <1>2, InductiveInit, PTL DEF Spec

=============================================================================
