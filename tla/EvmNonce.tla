------------------------------ MODULE EvmNonce ------------------------------
(***************************************************************************)
(* The nonces of one EVM relayer: the allocation counter, the nonce index  *)
(* of the transaction repository, and the nonce-health job of              *)
(* domain/relayer/evm/nonce.rs, which lowers the counter over nonces that  *)
(* nobody uses and fills gaps with NOOP transactions, while transactions   *)
(* are being prepared and mined.                                           *)
(*                                                                         *)
(* A preparation takes a nonce from the counter and stores it later; the   *)
(* health job must not take the nonce in between for a free one.  The job  *)
(* itself runs under a per-relayer lock, so there is one at a time.        *)
(***************************************************************************)
EXTENDS Integers, FiniteSets

CONSTANTS
    Txs,          \* transactions of users
    Fillers,      \* gap-filling NOOP transactions
    None,         \* Rust's Option::None
    MaxNonce,     \* bound: nonces 0..MaxNonce
    GapRange,     \* MAX_GAP_SCAN_RANGE
    RewindRange,  \* MAX_REWIND_SCAN_RANGE
    Chunk,        \* REWIND_SCAN_CHUNK
    Settled,      \* the settle pause outlasts the preparations that were under way
    ReadReplica,  \* the counter is read from a replica, which may lag
    MaxJobs,      \* bound: queued nonce-health jobs (they are debounced per relayer)
    MaxFaults     \* bound: crashes, rejections and foreign transactions

ASSUME NonceAssumption ==
    /\ MaxNonce \in Nat /\ GapRange \in Nat /\ RewindRange \in Nat
    /\ Chunk \in Nat \ {0}
    /\ MaxJobs \in Nat /\ MaxFaults \in Nat
    /\ Settled \in BOOLEAN /\ ReadReplica \in BOOLEAN
    /\ None \notin Nat
    /\ None \notin Txs \cup Fillers
    /\ Txs \cap Fillers = {}

VARIABLES
    status,   \* status of every transaction record
    nonce,    \* nonce stored in every transaction record
    held,     \* nonce a preparation has taken from the counter and not stored yet
    index,    \* nonce index: the transaction with each nonce that was updated last
    counter,  \* transaction counter, primary
    replica,  \* transaction counter as the read replica has it
    onChain,  \* the account's nonce on chain
    jobs,     \* queued nonce-health jobs, each with its nonce hint
    h,        \* the nonce-health job being executed
    faults    \* faults so far

repo == <<status, nonce, held, index>>
vars == <<status, nonce, held, index, counter, replica, onChain, jobs, h, faults>>

Ids      == Txs \cup Fillers
Nonces   == 0 .. MaxNonce
Counts   == 0 .. MaxNonce + 1
Active   == {"Pending", "Submitted"}
Statuses == {"Absent", "Final"} \cup Active

PCs == {"idle", "hint", "settle", "floor", "scan", "cas", "detect", "guard", "fill"}

\* waiting: the preparations that held a nonce when the counter was read.
NoRun == [pc |-> "idle", hint |-> 0, observed |-> 0, chain |-> 0, top |-> 0,
          target |-> 0, gaps |-> {}, waiting |-> {}]

Max2(a, b) == IF a < b THEN b ELSE a

At(pc) == h.pc = pc

\* update_indexes, part of every update of a record: the nonce index points to the
\* record that was updated last.
update_indexes(t) ==
    index' = IF nonce[t] = None THEN index ELSE [index EXCEPT ![nonce[t]] = t]

\* schedule_relayer_nonce_health_job: the transaction's nonce is the hint.
Schedule(t) == Cardinality(jobs) < MaxJobs /\ jobs' = jobs \cup {nonce[t]}

Fault == faults < MaxFaults /\ faults' = faults + 1

-----------------------------------------------------------------------------
(* Transactions *)

CreateTransaction(t) ==
    /\ status[t] = "Absent"
    /\ status' = [status EXCEPT ![t] = "Pending"]
    /\ UNCHANGED <<nonce, held, index, counter, replica, onChain, jobs, h, faults>>

\* prepare_transaction: get_and_increment.
GetAndIncrement(t) ==
    /\ status[t] = "Pending" /\ nonce[t] = None /\ held[t] = None
    /\ counter <= MaxNonce
    /\ held' = [held EXCEPT ![t] = counter]
    /\ counter' = counter + 1
    /\ UNCHANGED <<status, nonce, index, replica, onChain, jobs, h, faults>>

\* prepare_transaction: the presign update, whatever became of the status.
PersistNonce(t) ==
    /\ held[t] # None
    /\ nonce' = [nonce EXCEPT ![t] = held[t]]
    /\ index' = [index EXCEPT ![held[t]] = t]
    /\ held' = [held EXCEPT ![t] = None]
    /\ h' = [h EXCEPT !.waiting = @ \ {t}]
    /\ UNCHANGED <<status, counter, replica, onChain, jobs, faults>>

\* The preparation fails before the update: its nonce is lost.
LoseNonce(t) ==
    /\ held[t] # None
    /\ Fault
    /\ held' = [held EXCEPT ![t] = None]
    /\ h' = [h EXCEPT !.waiting = @ \ {t}]
    /\ UNCHANGED <<status, nonce, index, counter, replica, onChain, jobs>>

\* A Pending transaction is canceled, expires or is rejected, with or without a nonce.
FailPending(t) ==
    /\ status[t] = "Pending"
    /\ Fault
    /\ status' = [status EXCEPT ![t] = "Final"]
    /\ update_indexes(t)
    /\ UNCHANGED <<nonce, held, counter, replica, onChain, jobs, h>>

\* Signed, stored and broadcast (module EvmTransaction has the steps).
Submit(t) ==
    /\ status[t] = "Pending" /\ nonce[t] # None /\ held[t] = None
    /\ status' = [status EXCEPT ![t] = "Submitted"]
    /\ update_indexes(t)
    /\ UNCHANGED <<nonce, held, counter, replica, onChain, jobs, h, faults>>

Mine(t) ==
    /\ status[t] = "Submitted" /\ nonce[t] = onChain
    /\ onChain' = onChain + 1
    /\ status' = [status EXCEPT ![t] = "Final"]
    /\ update_indexes(t)
    /\ UNCHANGED <<nonce, held, counter, replica, jobs, h, faults>>

\* The nonce went to another transaction: reconcile_tx_nonce_state reports Failed
\* and queues a health job, if it can.
Outrun(t) ==
    /\ status[t] = "Submitted" /\ nonce[t] # None /\ nonce[t] < onChain
    /\ status' = [status EXCEPT ![t] = "Final"]
    /\ Schedule(t) \/ UNCHANGED jobs
    /\ update_indexes(t)
    /\ UNCHANGED <<nonce, held, counter, replica, onChain, h, faults>>

\* A node rejected the broadcast for a nonce too high, once too often:
\* handle_nonce_too_high stores the count of retries and queues a health job.
NonceTooHigh(t) ==
    /\ status[t] \in Active /\ nonce[t] # None
    /\ onChain < nonce[t]
    /\ Schedule(t)
    /\ update_indexes(t)
    /\ UNCHANGED <<status, nonce, held, counter, replica, onChain, h, faults>>

OtherMined ==
    /\ onChain <= MaxNonce
    /\ Fault
    /\ onChain' = onChain + 1
    /\ UNCHANGED <<status, nonce, held, index, counter, replica, jobs, h>>

-----------------------------------------------------------------------------
(* The nonce index: get_nonce_occupancy, find_by_nonce *)

Occupied(n) == n \in Nonces /\ index[n] # None

is_active_nonce(n) == Occupied(n) /\ status[index[n]] \in Active

\* detect_nonce_gap_ahead: a stuck transaction finds a free nonce below its own
\* and queues the job with its nonce as the hint.
GapAhead(t) ==
    /\ nonce[t] # None
    /\ \E n \in Nonces : /\ onChain <= n /\ n < nonce[t] /\ n < onChain + GapRange
                         /\ ~is_active_nonce(n)

ScheduleHealth(t) ==
    /\ status[t] = "Submitted"
    /\ GapAhead(t)
    /\ Schedule(t)
    /\ UNCHANGED <<repo, counter, replica, onChain, h, faults>>

-----------------------------------------------------------------------------
(* The nonce-health job: handle_health_action and resolve_nonce_gaps *)

\* sync_floor: raise the counter, never lower it.
sync_floor(floor) == counter' = Max2(counter, floor)

\* Startup and re-enabling: sync_nonce.
SyncNonce ==
    /\ counter < onChain
    /\ sync_floor(onChain)
    /\ UNCHANGED <<repo, replica, onChain, jobs, h, faults>>

\* The lock is taken and the counter is read, before the settle pause.  The hint is there:
\* whoever schedules the job has a nonce.  The run ends within the lock's 60 seconds.
HealthStart(hint) ==
    /\ At("idle")
    /\ hint \in jobs
    /\ jobs' = jobs \ {hint}
    /\ h' = [NoRun EXCEPT !.pc = "hint", !.hint = hint,
                          !.observed = IF ReadReplica THEN replica ELSE counter,
                          !.waiting = {t \in Txs : held[t] # None}]
    /\ UNCHANGED <<repo, counter, replica, onChain, faults>>

\* A job taken while another one runs finds the lock taken and is dropped.
HealthSkip(hint) ==
    /\ ~At("idle")
    /\ hint \in jobs
    /\ jobs' = jobs \ {hint}
    /\ UNCHANGED <<repo, counter, replica, onChain, h, faults>>

\* Raise the counter over the hint.
Mut_HintTooHigh ==
    /\ At("hint")
    /\ sync_floor(h.hint + 2)
    /\ h' = [h EXCEPT !.pc = "settle"]
    /\ UNCHANGED <<repo, replica, onChain, jobs, faults>>

SyncHint ==
    /\ At("hint")
    /\ sync_floor(h.hint + 1)
    /\ h' = [h EXCEPT !.pc = "settle"]
    /\ UNCHANGED <<repo, replica, onChain, jobs, faults>>

\* The settle pause ends, then the nonce on chain is read.
Settle ==
    /\ At("settle")
    /\ Settled => h.waiting = {}
    /\ h' = [h EXCEPT !.pc = "floor", !.chain = onChain]
    /\ UNCHANGED <<repo, counter, replica, onChain, jobs, faults>>

SyncFloor ==
    /\ At("floor")
    /\ sync_floor(h.chain)
    /\ h' = [h EXCEPT !.pc = "scan", !.top = h.observed]
    /\ UNCHANGED <<repo, replica, onChain, jobs, faults>>

\* try_rewind_counter: from observed downwards, chunk by chunk, look for a nonce
\* that any record has, of whatever status.  A region too large is left alone.
TooWide == h.observed <= h.chain \/ h.observed - h.chain > RewindRange

ChunkStart == Max2(h.chain, h.top - Chunk)

Mut_ActiveOnly == {n \in Nonces : ChunkStart <= n /\ n < h.top /\ is_active_nonce(n)}

Seen == {n \in Nonces : ChunkStart <= n /\ n < h.top /\ Occupied(n)}

ScanSkip ==
    /\ At("scan") /\ TooWide
    /\ h' = [h EXCEPT !.pc = "detect"]
    /\ UNCHANGED <<repo, counter, replica, onChain, jobs, faults>>

ScanFound ==
    /\ At("scan") /\ ~TooWide
    /\ \E n \in Seen :
          /\ \A m \in Seen : m <= n
          /\ h' = [h EXCEPT !.pc = "cas", !.target = n + 1]
    /\ UNCHANGED <<repo, counter, replica, onChain, jobs, faults>>

ScanEmpty ==
    /\ At("scan") /\ ~TooWide /\ Seen = {}
    /\ h' = IF ChunkStart = h.chain THEN [h EXCEPT !.pc = "cas", !.target = h.chain]
                                    ELSE [h EXCEPT !.top = ChunkStart]
    /\ UNCHANGED <<repo, counter, replica, onChain, jobs, faults>>

\* set_if_equals: lower the counter if it still has the value that was read.
Mut_SetAlways(expected, value) == counter' = IF value < counter THEN value ELSE counter

set_if_equals(expected, value) ==
    counter' = IF counter = expected /\ value < expected THEN value ELSE counter

Rewind ==
    /\ At("cas")
    /\ set_if_equals(h.observed, h.target)
    /\ h' = [h EXCEPT !.pc = "detect"]
    /\ UNCHANGED <<repo, replica, onChain, jobs, faults>>

\* detect_nonce_gaps: below the highest nonce any record has, the ones no active
\* transaction has.
ScanEnd == Max2(h.chain + GapRange, h.hint + 1)

Scanned == {n \in Nonces : h.chain <= n /\ n < ScanEnd}

Mut_EmptyOnly ==
    {n \in Scanned : ~Occupied(n) /\ \E m \in Scanned : n <= m /\ Occupied(m)}

Gaps == {n \in Scanned : ~is_active_nonce(n) /\ \E m \in Scanned : n <= m /\ Occupied(m)}

DetectGaps ==
    /\ At("detect")
    /\ h' = [h EXCEPT !.pc = "guard", !.gaps = Gaps]
    /\ UNCHANGED <<repo, counter, replica, onChain, jobs, faults>>

Lowest(n) == n \in h.gaps /\ \A m \in h.gaps : n <= m

\* Look once more at the next gap.
GapTaken ==
    /\ At("guard")
    /\ \E n \in h.gaps : Lowest(n) /\ is_active_nonce(n) /\ h' = [h EXCEPT !.gaps = @ \ {n}]
    /\ UNCHANGED <<repo, counter, replica, onChain, jobs, faults>>

GapOpen ==
    /\ At("guard")
    /\ \E n \in h.gaps : Lowest(n) /\ ~is_active_nonce(n)
    /\ h' = [h EXCEPT !.pc = "fill"]
    /\ UNCHANGED <<repo, counter, replica, onChain, jobs, faults>>

\* create_gap_filling_noop: a Pending record with the nonce preset; Failed when
\* neither of its jobs could be queued.  A filler id stands for a new record
\* once its nonce is consumed, or when it failed and is tried again.
CreateNoop(f) ==
    /\ At("fill")
    /\ \E n \in h.gaps :
          /\ Lowest(n)
          /\ status[f] = "Absent" \/ (status[f] = "Final" /\ (nonce[f] < onChain \/ nonce[f] = n))
          /\ \/ status' = [status EXCEPT ![f] = "Pending"] /\ UNCHANGED faults
             \/ status' = [status EXCEPT ![f] = "Final"] /\ Fault
          /\ nonce' = [nonce EXCEPT ![f] = n]
          /\ index' = [index EXCEPT ![n] = f]
          /\ h' = [h EXCEPT !.pc = "guard", !.gaps = @ \ {n}]
    /\ UNCHANGED <<held, counter, replica, onChain, jobs>>

\* An error before the record is stored: the loop goes on with the next gap.
NoopError ==
    /\ At("fill")
    /\ Fault
    /\ \E n \in h.gaps : Lowest(n) /\ h' = [h EXCEPT !.pc = "guard", !.gaps = @ \ {n}]
    /\ UNCHANGED <<repo, counter, replica, onChain, jobs>>

HealthDone ==
    /\ At("guard") /\ h.gaps = {}
    /\ h' = NoRun
    /\ UNCHANGED <<repo, counter, replica, onChain, jobs, faults>>

\* An RPC or Redis error, or the end of the process; the lock is released and the
\* queue retries the job, unless the attempts are used up.
HealthAbort ==
    /\ ~At("idle")
    /\ Fault
    /\ h' = NoRun
    /\ jobs' \in {jobs, jobs \cup {h.hint}}
    /\ UNCHANGED <<repo, counter, replica, onChain>>

Replicate ==
    /\ ReadReplica /\ replica # counter
    /\ replica' = counter
    /\ UNCHANGED <<repo, counter, onChain, jobs, h, faults>>

-----------------------------------------------------------------------------
Init ==
    /\ status = [i \in Ids |-> "Absent"]
    /\ nonce = [i \in Ids |-> None]
    /\ held = [i \in Ids |-> None]
    /\ index = [n \in Nonces |-> None]
    /\ counter = 0 /\ replica = 0 /\ onChain = 0
    /\ jobs = {}
    /\ h = NoRun
    /\ faults = 0

Prepare(t) == GetAndIncrement(t) \/ PersistNonce(t) \/ LoseNonce(t)

Advance(i) == Submit(i) \/ Mine(i) \/ Outrun(i) \/ FailPending(i)

Health ==
    \/ SyncHint \/ Settle \/ SyncFloor \/ ScanSkip \/ ScanFound \/ ScanEmpty \/ Rewind
    \/ DetectGaps \/ GapTaken \/ GapOpen \/ NoopError \/ HealthDone
    \/ \E f \in Fillers : CreateNoop(f)

Next ==
    \/ \E t \in Txs : CreateTransaction(t) \/ Prepare(t)
    \/ \E i \in Ids : Advance(i) \/ NonceTooHigh(i) \/ ScheduleHealth(i)
    \/ \E hint \in Nonces : HealthStart(hint) \/ HealthSkip(hint)
    \/ Health
    \/ SyncNonce \/ HealthAbort \/ OtherMined \/ Replicate

Spec == Init /\ [][Next]_vars

\* Started work goes on, a stuck transaction is checked again and again, a queued
\* job is taken, and the chain mines what it can.
Fairness ==
    /\ \A t \in Txs : WF_vars(GetAndIncrement(t) \/ PersistNonce(t))
    /\ \A i \in Ids : WF_vars(Submit(i) \/ Mine(i) \/ Outrun(i)) /\ WF_vars(ScheduleHealth(i))
    /\ \A hint \in Nonces : SF_vars(HealthStart(hint))
    /\ WF_vars(Health)

FairSpec == Spec /\ Fairness

-----------------------------------------------------------------------------
(* Properties *)

HealthRuns ==
    [pc : PCs, hint : Nonces, observed : Counts, chain : Counts, top : Counts,
     target : Counts, gaps : SUBSET Nonces, waiting : SUBSET Txs]

\* Every variable has its type; in particular sync_floor, raised to a hint or to
\* the chain's nonce, never takes the counter beyond one above the highest nonce.
TypeOK ==
    /\ status \in [Ids -> Statuses]
    /\ nonce \in [Ids -> Nonces \cup {None}]
    /\ held \in [Ids -> Nonces \cup {None}]
    /\ index \in [Nonces -> Ids \cup {None}]
    /\ counter \in Counts /\ replica \in Counts /\ onChain \in Counts
    /\ jobs \subseteq Nonces
    /\ h \in HealthRuns
    /\ faults \in 0 .. MaxFaults

Claims(i) == {nonce[i], held[i]} \ {None}

\* No two transactions of users ever get the same nonce, however the health job
\* lowers the counter (get_and_increment against try_rewind_counter).
NoNonceReissued ==
    \A t, u \in Txs : t # u => Claims(t) \cap Claims(u) = {}

\* The counter is above every nonce in use, stored or taken and about to be, so
\* get_and_increment hands out a free one, also after set_if_equals lowered it.
CounterAboveClaims ==
    \A i \in Ids : \A n \in Claims(i) : n < counter

\* A broadcast transaction is not stuck behind a nonce that nobody will use:
\* the gap below it is found and filled (detect_nonce_gap_ahead, resolve_nonce_gaps).
BlockedIsResolved ==
    \A t \in Txs : status[t] = "Submitted" ~> status[t] = "Final"

=============================================================================
