# OpenZeppelin Relayer: a TLA+ development

The relayer accepts transactions over HTTP, stores them, and drives each of them
through nonce allocation, signing, broadcast, monitoring and, where needed, price
bumps, cancellation and replacement, on EVM, Solana and Stellar networks.  Its work
is done by job handlers that run concurrently, in one or several processes, over a
shared repository (Redis or in memory) and shared queues (Apalis on Redis, SQS).
Nothing ties the steps of a handler together but what it stores, so what is hard
here is what happens between the steps.  This directory models that.

All source paths below are relative to `src/src/` unless they begin with `src/`.

## Inventory

| Part | State | Operations | Interacts with | Module |
|---|---|---|---|---|
| EVM transaction life cycle, `domain/transaction/evm` | none of its own: a snapshot of the record per handler | `prepare_transaction`, `submit_transaction`, `resubmit_transaction`, `handle_status_impl`, `cancel_transaction`, `replace_transaction` | repository, counter, signer, provider, queues | `EvmTransaction` |
| EVM nonces, `domain/relayer/evm/nonce.rs`, `repositories/transaction_counter` | one counter per relayer and address, in Redis; a lock per relayer | `get_and_increment`, `sync_floor`, `set_if_equals`; `sync_nonce`, `resolve_nonce_gaps`, `try_rewind_counter`, `detect_nonce_gaps`, `create_gap_filling_noop`, `handle_health_action` | the life cycle (allocation), the repository's nonce index, the chain | `EvmNonce` |
| EVM relayer, `domain/relayer/evm/evm_relayer.rs` | relayer record: disabled, system_disabled | `process_transaction_request`, `delete_pending_transactions`, `check_health`, `initialize_relayer` | queues, repository | acceptance in `EvmTransaction` |
| Transaction repository, `repositories/transaction`; idempotent creation, `api/controllers/idempotency.rs` | record bodies, status, nonce and creation indexes, legacy sets, idempotency keys | `create`, `partial_update`, migration of legacy sets, reconciliation sweep, deletion; reserve, replay and release of a key | every handler; the cleanup cron | `TransactionRepository`, `TransactionStore` |
| Stellar life cycle, `domain/transaction/stellar` | sequence numbers, a lane gate per relayer | prepare, submit, status, gate hand-over, sequence recovery | as EVM | `StellarTransaction` |
| Solana life cycle, `domain/transaction/solana` | blockhash and signatures in the record | prepare, submit, resubmit, status | as EVM, without a counter | `SolanaTransaction` |
| Queue backends, `queues`; job handlers, `jobs/handlers`; failure counters, `jobs/status_check_context.rs` | messages with receive counts, a retry attribute, visibility; counters in the record | receive, defer, retry by copy or by visibility, batch delete, redrive; which result completes, retries or drops a job; `should_force_finalize` | every handler | `JobQueue` |
| RPC providers, `services/provider` | current and next index per selector; failures and pauses per URL | selection, retry, failover, marking | every RPC call | `RpcSelector` |
| Plugin pool, `services/plugins` | a server process and its socket, a queue, permits, a circuit breaker | execute, start, health check, restart | plugin requests of the API | `PluginPool` |
| Distributed lock and bootstrap, `utils/redis.rs`, `bootstrap` | lock keys with expiry | acquire, release; initialisation of relayers | crons, nonce health | |
| Cleanup and swap crons, `jobs/handlers` | lock | delete expired final records; token swaps | repository | deletion in `TransactionRepository` |
| Signers, gas price cache, notifications, metrics, API, configuration | caches, configuration | see the code | | |

Behaviours that are hard, and where (`PROJECT.json`, "hazards", has the lines):

* a handler reads its record once and writes later, from that snapshot;
* a nonce exists in the counter before it exists in a record;
* a broadcast happens before its hash is stored, and may succeed while an error is reported;
* queues deliver at least once, in any order, after any delay; a delivery may outlast its
  visibility, so that the next one overlaps it, and a retry is a copy that is sent before
  the original is deleted;
* the nonce-health job decides which nonces are free from an index, while preparations go on, and lowers the counter;
* a record and its indexes are written in separate round trips, while migrations and
  sweeps write the same indexes from what they read before;
* a client repeats a request while the first one is still at work, has failed or has died;
* the only guard against stale writes is the one in the Redis script of `partial_update`, for final statuses;
* a Solana transaction that may still be included must not be signed for another blockhash;
* providers are marked and paused by whoever fails, while others select;
* the requests for a plugin restart the server they share, and may be dropped while they do;
* a transaction must reach a final status whoever consumes its nonce.

Correctness, per part: the life cycles must not execute a transaction twice, must not
report an outcome that did not happen, must not leave a final status, must not lose
track of a transaction, and must end; the nonce management must not hand out a nonce
twice and must not leave a gap below a broadcast transaction; the repository must
keep indexes and bodies together and store one transaction per idempotency key; a job
must neither be lost nor repeated for ever; a call must try the providers it may
before it gives up; the plugin pool must come back after a failure of its server.

## Modules

Every module follows its code at the places where others can see an effect: a handler
is one action per call to Redis, queue or network.  `Faults` selects which failures an
instance injects and `MaxFaults` how many (`FaultSets` in `PluginPool`: the sets of failures
that may meet).  Operators named `Mut_*` are faulty
variants of the definition after them; they are used by nothing and serve to show that
the properties notice such a fault.

### EvmTransaction

`txs` is the repository, `jobs` the queues, `wk` what each worker executes (program
counter, snapshot, the signature or nonce it holds), `counter` the nonce counter,
`mempool` and `chain` the network, `health` a queued nonce-health job, `api` the user
operations still to come.

| Handler | Actions |
|---|---|
| `process_transaction_request_with_id` | `CreateTransaction` |
| taking a job, `get_by_id` | `Take` |
| `prepare_transaction` | `PrepareSkip`, `PrepareReject`, `PrepareError`, `PrepareNonce` (allocation), `PreparePresign` (store), `PrepareSign` (sign, store, queue) |
| `submit_transaction` | `SubmitSkip`, `Submit` (broadcast), `SubmitUpdate` (store) |
| `resubmit_transaction` | `ResubmitSkip`, `Resubmit` (sign, broadcast), `ResubmitUpdate` (store) |
| `cancel_transaction`, `replace_transaction` | `StartApi`, `Cancel`, `Replace` |
| `handle_status_impl` | `StatusFinal`, `CircuitBreaker`, `ReconcileHashes`, `ReconcileNonce`, `Check`, `CheckError`, then `ActUpdate`, `ActPending`, `ActNoop`, `ActGap`, `ActResubmit` |

A signed transaction is a record of its transaction, content (original, replacement
or NOOP), nonce and price; hash and raw bytes stand for the whole of it, so that the
model knows which bytes are broadcast when data and raw disagree.  Ages, balances and
gas limits decide nondeterministically.  `WithStatus` is the guard of `partial_update`;
a patch without a status passes it.  `Concurrent` names the job kinds of which two
executions may overlap.

### EvmNonce

The nonce management of one relayer, in more detail than `EvmTransaction` needs and
with the life cycle reduced to what the nonce index shows: Pending, Submitted (any
status of a broadcast transaction), Final.  `held` is a nonce between
`get_and_increment` and the presign update; `index` the nonce index, which points to
the record updated last; `h` the health job with the local variables of
`resolve_nonce_gaps` (`observed`, the on-chain nonce, the chunk being scanned, the
target, the gaps).  `Settled` says whether preparations that held a nonce when the
counter was read have ended when the settle pause is over; `ReadReplica` whether that
read may be stale.  A process that fails both to queue a NOOP's jobs and to set the
NOOP to Failed is not modelled.

### StellarTransaction

The Stellar life cycle of one relayer account.  `txs`, `jobs`, `wk`, `mempool` and
`chain` are as in `EvmTransaction`; an envelope is known by its transaction and its
sequence.  `lane` is the lane gate's map for this relayer, `counter` the sequence
counter, `newest` the transaction confirmed last, which bounds the rewind of the
counter, `sequential` the policy that turns the lane on.

| Handler | Actions |
|---|---|
| `process_transaction_request_with_id` | `CreateTransaction` |
| `prepare_transaction_impl` | `PrepareSkip`, `PrepareClaim` (lane), `PrepareSequence` (counter), `PrepareStore` (sign, store, queue), `PrepareError` |
| `sync_sequence_from_chain`, `try_rewind_sequence_counter` | `SyncFetch`, `SyncFloor`, `SyncBound`, `SyncRewind`, `SyncError` |
| `handle_prepare_failure`, `handle_submit_failure` | the sync, then `Fail` |
| `mark_as_failed`, `mark_as_expired`, `handle_stellar_success`, `handle_stellar_failed` | `Mark` |
| `enqueue_next_pending_transaction` | `FindNext`, `FindNothing`, `FindError`, `Pass` |
| `submit_transaction_impl` | `SubmitSkip`, `SubmitExpired`, `SubmitSend` (node), `SubmitStore`, `SubmitReset` |
| `handle_transaction_status_impl` | `StatusFinal`, `StatusBreaker`, `StatusOnChain`, `StatusExpired`, `StatusAgain`, `StatusWait`, `StatusError` |

Only transactions built from operations are modelled: for them the relayer chooses the
sequence.  The two queries of `try_rewind_sequence_counter` are one step: what becomes
Confirmed between them was active in the first, and what takes a sequence between them
makes the compare-and-set fail.  The node holds one envelope of an account at a time;
it recognises one that was applied, or answers with a bad sequence when it has forgotten
it (fault `forget`).  `Concurrent` names the job kinds of which two executions may overlap,
as in `EvmTransaction`.  A creation whose status check cannot be queued marks its record
Failed; when that write fails too the record stays, and nobody looks at it.  `Fault(f)`
injects a failure, each kind once and at most `MaxFaults` kinds; clocks that run out (expiry,
lifetime, circuit breaker) are among them.  `May(f)` is a condition that may hold at any time: a node that lags, an
applied transaction that fails.

### TransactionRepository, TransactionStore

The Redis repository of one relayer with the callers whose operations overlap.  `body`
has the records, `byStatus`, `byNonce` and `byCreated` the indexes, `legacy` the
unordered sets of older versions, `keys` the reserved idempotency keys, `late` the
reservations older than the in-flight window, `monitored` the transactions with a
status check.  `rq`, `up`, `mg` and `cl` are requests, updates, a migration and the
cleanup in progress, each with what it has read so far.

| Code | Actions |
|---|---|
| `create_idempotent`, `replay` | `Reserve`, `ReplayRecord`, `ReplayLookup`, `ReleaseKey`, `WindowEnds`, `KeyExpires` |
| `create` and the jobs queued after it | `CreateRecord`, `CreateIndexes`, `QueueStatusCheck`, `QueueRequest`, `CreateFails`, `MarkFailed`, `RequestCrash` |
| `partial_update` | `UpdateRecord` (script), `UpdateIndexes`, `UpdateFails` |
| migration of a legacy status set | `MigrateScan`, `MigrateFetch`, `MigrateWrite` |
| cleanup cron: reconciliation sweep, then pages of final records | `ReconcileScan`, `ReconcileFetch`, `ReconcileWrite`, `CleanupPage`, `CleanupDelete`, `CleanupFails` |

`TransactionStore` is what callers may rely on: a transaction is unborn, active, final
or removed, or void when a client was told that its key belongs to none; at most one
is stored per key until the key is forgotten.  `TransactionRepository` implements it
under the mapping `Phase`; the history variables `bound`, `denied` and `born` remember
what clients were told and change nothing else.

### SolanaTransaction

One Solana transaction, of each of three kinds: from instructions (the relayer chooses
the blockhash), a built transaction the relayer alone signs, and one with other
signers, which cannot be signed again.  A signature is known by its blockhash.  `tip`
is the newest blockhash, `net` what the cluster accepted, `chain` what became of it.
`Creation` lists how the acceptance of the request can end: with both jobs queued, with the
request lost, with the record Failed because the status check could not be queued, or left
alone because that could not be written either.

| Handler | Actions |
|---|---|
| `prepare_transaction_impl` | `PrepareSkip`, `PrepareSign`, `PrepareReject`, `PrepareError`, `PrepareStore` |
| `submit_transaction_impl` | `SubmitSkip`, `Submit` (send), `SubmitStore` |
| `resubmit_transaction_impl` | `Resubmit` (sign, send), `ResubmitStore` |
| `handle_transaction_status_impl` | `StatusFinal`, `StatusBreaker`, `StatusOnChain`, `StatusMined`, `StatusExpired`, `StatusTimeout`, `StatusPending`, `StatusYoung`, `StatusSignature` (search of earlier ones), `StatusSearched`, `StatusBlockhash` (validity), `StatusError` |
| the cluster (external) | `NewBlock`, `Process`, `Finalize`, `Fork` |

### JobQueue

One job through the SQS worker: the status check of a transaction, retried until the
transaction is final, or a job of bounded retries.  `msgs` is the queue, `wk` the
executions, `condemned` the receipts waiting for the batch delete, `rec` the record
with its failure counters, `onchain` what the chain knows.

| Code | Actions |
|---|---|
| `run_poll_loop`, `process_message` | `Receive`, `Defer`, `Timeout`, `Crash`, `Flush` |
| `handle_result` and the retry of a bounded job | `Succeed`, `Fail` |
| `transaction_status_handler`, breaker of the three networks | `StatusRead`, `StatusBreaker`, `StatusOk`, `StatusError` |
| SQS, clock, chain (external) | `Reappear`, `Redrive`, `BecomeDue`, `Advance` |

### RpcSelector

Concurrent calls of `retry_rpc_call`.  `failures` and `pause` are the health store of
the process; `next` and `current` the indexes of a selector, one per call or one for
all, which start at any provider; `calls` the local state of each call.  `Start`, `Select`, `NoProvider`,
`Answered`, `OperationFails`, `RetriesExhausted` and `NonRetriable` are its steps,
`Tick` is time.  Providers are healthy, sick (may fail), broken (no client can be
made) or disabled (weight zero).

### PluginPool

Requests that share one Node.js server behind a Unix socket.  `proc`, `socket` and
`initialized` are the server as it is and as the pool believes it to be.  No child is killed
when its handle is dropped: one whose start timed out or was dropped, or that a failing
`try_wait` made the pool forget, is an orphan (`orphans`), which replaces the socket file when
it is ready (`socket` says whose it is) and answers or exits.  `rlock` and `plock` the two mutexes, `flag` is `health_check_needed`, `breaker` the circuit
breaker with its ring buffer, `pc` where each request is, `ex` what it or a queue
worker executes, `serves` for whom.

| Code | Actions |
|---|---|
| `execute_plugin`, `should_allow_request` | `Request`, `Permit`, `Send`, `Record` |
| `ensure_started`, `start_pool_server` | `EnsureStarted`, `StartLock`, `StartProcess`, `Spawned`, `SpawnFails` |
| `ensure_started_and_healthy`, `check_and_restart_if_needed` | `Health`, `CheckProcess`, `CheckFails`, `CheckSocket`, `RestartLock` |
| `restart_internal` | `Kill`, `Cleanup`, `Uninitialize`, `Relock`, then `Spawned` |
| `spawn_queue_workers`, `execute_with_permit` | `Dequeue`, `Acquire`, `Connect`, `Respond`, `Broken`, `Backstop` |
| the timeout in `run_with_pool`, dropped futures | `Timeout`, `Abort` |
| periodic task, clock, server (the server is external) | `HealthTick`, `BackoffEnds`, `IdlePasses`, `ServerExits`, `ServerHangs`, `SocketRemoved`, `OrphanBinds`, `OrphansExit` |

The `MC` modules extend a module for TLC: with symmetry (`MCEvmTransaction`,
`MCEvmNonce`, `MCStellarTransaction`), with functions as values of constants
(`MCTransactionRepository`, `MCRpcSelector`), or as they are.  The `Proofs` modules extend
a module by theorems about it.

## Runs

| Run | Instance | Shows |
|---|---|---|
| `evm_concurrent` | one transaction, two workers, one price bump, crashes, timeouts after acceptance, failing writes | `NoDoubleExecution`, `MonitoredUntilFinal`, `ReportedIsOnChain`, `FinalIsForever`, `NoHashForgotten` |
| `evm_sequential` | one worker, bumps up to the cap and beyond, cancellation, RPC, queue and signer failures, circuit breaker, reverts, foreign use of the account | `FailedNotExecuted`, `CanceledNotExecuted` |
| `evm_liveness` | one worker, replacement, foreign use of the account, fairness | `EventuallyFinal` |
| `nonce_safety` | three transactions, four nonces, chunk of one, two faults | `NoNonceReissued`, `CounterAboveClaims` |
| `nonce_liveness` | two transactions, two nonces, two NOOPs, a lagging replica, two faults, fairness | `BlockedIsResolved` |
| `stellar_safety` | two transactions, two workers, both modes, one failure (expiry, queue, repository, conflict, restart), a lagging node | `InFlightOwnsLane`, `NoDoubleExecution`, `MonitoredUntilFinal` |
| `stellar_liveness` | two transactions, one worker, sequential mode, one failure of eleven kinds, applied transactions that fail, fairness | `EventuallySettled` |
| `repo_safety` | two requests with one key, one transaction of an older version, a worker, migration, cleanup, one failure or crash | `ImplementsStore`, `MonitoredIsListed` |
| `solana` | each kind of transaction, five blockhashes of which two are valid, three attempts, one failure of fourteen kinds, fairness | `ResubmitsExpired`, `ConfirmedSignature`, `EventuallyFinal` |
| `job_queue` | standard and FIFO, status check and bounded job, EVM and other networks, two executions at once, one failure, fairness | `Monitored`, `NotDropped`, `BreakerEnds`, `BoundedEnds` |
| `rpc_failover` | two calls, three providers, four settings, pauses, fairness | `FailsOver`, `HealthyNotBlamed`, `CallEnds` |
| `plugin_pool` | two requests, one queue worker, one permit, one place in the queue; an exit and a dropped request, a late start and the exit of its orphan, or one of a removed socket, a failing `try_wait`, a hang; fairness | `LiveHasSocket`, `Recovers`, `CallEnds`, `BreakerCloses` |

One run of each module checks the type invariant as well.

Bounds, EVM.  Everything `NoDoubleExecution` and the outcome properties are about
concerns the signatures of one transaction; the only coupling between transactions is
the counter, which `EvmNonce` covers with three of them.  Two workers are what is needed
for a stale snapshot.  `Concurrent` is empty here and in `stellar_safety`: jobs of different
kinds overlap, two deliveries of one job do not, as in the message groups of FIFO queues.
With `Concurrent = {"status"}` both runs pass as well, but take longer (3 and 7 million
states); with other kinds see below.  Two nonces let a transaction get a second one.  Prices stop
being told apart at `MaxPrice`: with the cap at two or three there is an original, a
bump at the cap and, for NOOPs, one beyond.  `MinHashesForRecovery` is 2 or 3 (also
3 in the code) so that recovery in `Check` happens within the price range.  In
`EvmNonce` the scan ranges are 2 and 3 and the chunk is 1, so that the range limits
and several chunks occur among the four nonces of the safety run; in the liveness run both
ranges are 1, so that a blocked transaction lies beyond them and is found by its hint only,
and two faults let the nonce be lost and the NOOP that fills it fail.  `MaxJobs` is 1 because triggers are
debounced per relayer; `MaxFaults` limits lost nonces, rejections, foreign
transactions and failed jobs.

Stellar.  Two transactions are needed for the lane and two workers for a stale
snapshot.  With two sequences a transaction that lost its envelope can be
signed again beside the other one; the liveness run has four, so that one failure
cannot exhaust them.  One failure at a time keeps the single causes apart; what two do
together is listed below.

Repository.  Two requests with one key and one body are a request and its repetition; a
second transaction, stored before, is what the migration moves.  Handlers write one
active status and one final one, `Sent` and `Confirmed`, at any time, which stands for
any stale view.  One worker is enough, since requests, migration and cleanup already
overlap with it.

Solana.  The window of two blockhashes among five lets a first and a second resubmission
expire; the limit of attempts (20 in the code) and the window are larger in reality, but neither
is compared with anything else.  One worker: with two, a check that has read the
record before a resubmission is stored asks about the blockhash of the attempt before
(see below).

Queue.  Two messages at a time (an original and its copy), two executions, one retry;
the breaker's limits are two in a row and two in all (in the code they depend on the
network, and the total is never below the row).  Counters stop at their limit.

RPC.  Three providers and two failovers, so that the limit and the number of providers
are met; threshold, pause and expiry of one tick, so that pauses begin and end in the
middle of a call.

Plugins.  One permit and one place in the queue make both overflow with two requests.
The ring buffer has one place, the breaker opens after one sample and closes after two
successes (100, 10 and 10 in the code), so that one failure opens it.  Failures that meet
are the ones that can make each other worse: a restart, which needs an exit, in the middle of
which a request is dropped, and an orphan, which needs a start that is late, that takes the
path and exits.  A spawn that fails and a request that is dropped while it spawns release
the same locks and may leave the same child, so that either stands for the other.  The
other failures come one at a time.

Deadlock is checked in `rpc_failover` only: elsewhere the system may rest when
everything is final, or until a client comes.

Fairness.  In `EvmTransaction`: a worker that runs a handler goes on (weak); every
queued job is taken again and again, hence in the end (strong, since another job may
occupy the worker); a transaction that stays stuck passes the age thresholds for a
resubmission and for a NOOP (strong, on the two actions: the age only grows, and the
check comes back); the chain mines a transaction that is next and confirms it; the
health job runs.  Nothing is assumed about rejections, replacement or foreign
transactions.  In `EvmNonce`: preparations, broadcasts, inclusion and the health job go
on (weak), a stuck transaction triggers the health job (weak), a queued job is taken
when the lock is free (strong); none on faults.  In `StellarTransaction`: handlers go on
(weak), every queued job is taken in the end (strong), a transaction that stays stuck
becomes old enough for the status check to prepare or submit it again (strong), and an
envelope sent again and again is applied (strong, since a node may drop it).  In
`SolanaTransaction`: handlers go on (weak), queued jobs are taken (strong), an age or a
validity period runs out and a signature on chain is found in the end (strong, since
the check comes back), what is processed is finalized (weak).  In `JobQueue`:
executions end, messages come back, become due, are redriven and deleted, the chain
advances (weak), a message that is ready again and again is received (strong); nothing
is assumed of the RPC calls a check makes.  In `RpcSelector`: a call goes on, since
every operation returns, if only by its timeout (weak).  In `PluginPool`: requests and
workers go on (strong: mutexes, semaphore and channel are first come, first served),
clients keep calling (weak), time passes (weak; idle time unless results keep coming),
the runner's timeout strikes when the server hangs; nothing is assumed of the random
draw of a half-open breaker.  Nowhere is there fairness on a failure.

## Where the code departs from its documentation

Properties of the modules that state what a comment or a document says, and that TLC
refutes in the instance given.  They are not among the runs; each takes a cfg with the
constants of the run named, changed as described.

* EVM, two executions of one request job.  `evm_sequential` with `Workers = {w1, w2}`,
  `Concurrent = {"request"}`, `Faults = {}`: `NoDoubleExecution` fails.  Both executions
  find the transaction Pending and take a nonce each
  (`domain/transaction/evm/evm_transaction.rs:788`).  `src/docs/configuration/index.mdx:239`:
  "Duplicate deliveries are possible but harmless since all handlers are idempotent."
* EVM, two executions of one resubmit job.  `evm_concurrent` with
  `Concurrent = {"resubmit"}`: `NoHashForgotten` fails.  Each adds its hash to the hashes it
  has read (`domain/transaction/evm/evm_transaction.rs:1145`), so that the second write drops
  the hash of the first.  The sentence quoted above says otherwise.
* Stellar, two executions of one request job.  `stellar_safety` with `Txs = {1}`,
  `Modes = {TRUE}`, `Concurrent = {"request", "submit", "status"}`, `Faults = {}`:
  `NoDoubleExecution` fails.  Both executions find the transaction Pending, each takes a
  sequence and signs an envelope, and both are applied.  Nothing in
  `jobs/handlers/transaction_request_handler.rs:32-110` keeps two deliveries of a Redis or a
  standard SQS queue apart; the message groups of a FIFO queue do.  Against the same
  sentence, and `queues/sqs/worker.rs:678-679`: "Duplicate deliveries are harmless because
  handlers are idempotent."
* Stellar, a node that forgets.  `stellar_safety` with `Faults = {"db", "forget"}`,
  `MaxFaults = 2`: `NoDoubleExecution` fails.  The write after an accepted submission is lost,
  the envelope is sent again when it is applied, and the bad sequence that a node answers
  which no longer knows it resets the record (`domain/transaction/stellar/submit.rs:413`).
* Stellar, creation.  `stellar_safety` with `Faults = {"db", "queue"}`, `MaxFaults = 2`:
  `MonitoredUntilFinal` fails.  The status check cannot be queued, Failed cannot be written,
  and only a warning is logged (`domain/relayer/stellar/stellar_relayer.rs:516-534`); lines
  492-494: "This ensures we never have an unmonitored transaction."
* EVM, an RPC error on a historical hash.  `evm_sequential` with
  `Faults = {"hashrpc"}`: `FailedNotExecuted` fails.  The error is skipped
  (`domain/transaction/evm/status.rs:1531`) and the comparison of nonces then declares the
  transaction Failed, against the comment at lines 889-890 of that file.
* EVM, the NOOP of a Sent transaction.  `evm_sequential` with `Faults = {}` and the action
  property `SubmitSendsRecord`: it fails.  The NOOP is queued for submission, which sends
  the stored bytes of the original (`status.rs:1383`, comment at lines 1012-1014).
* EVM nonces read from a replica.  `nonce_safety` with `ReadReplica = TRUE`:
  `NoNonceReissued` fails (`repositories/transaction_counter/transaction_counter_redis.rs:64`,
  against `domain/relayer/evm/nonce.rs:210-212`).  `BlockedIsResolved` holds all the same.
* Stellar, the lane.  `stellar_safety` with `Modes = {TRUE}`, `Faults = {"expiry"}`:
  the invariant `LaneReleased` fails.  A stale snapshot claims the lane for a transaction
  that is final (`domain/transaction/stellar/prepare/mod.rs:75`), and nobody frees it.
* Solana, resubmission.  `solana` with `Faults = {}` and the invariant
  `NoDoubleExecution`: it fails.  `handle_resubmit_or_expiration` looks for the earlier
  signatures first and asks whether the blockhash is valid second
  (`domain/transaction/solana/status.rs:629`).  A signature processed between the two
  answers, in one of the last blocks of its window, is not found; the blockhash is then
  expired, and `resubmit_transaction_impl` signs for a new one without looking again.
  Lines 337-338 say of the search: "This prevents double-execution by verifying that none
  of the previous submission attempts are already processed before resubmitting with a new
  blockhash."  Besides, every status check that comes before the resubmit job queues another
  one (line 686), and `resubmit_transaction_impl` signs for each without looking again.
* Repository, the nonce index.  `repo_safety` with `Nonces = {0}`,
  `Written = {"Failed"}`, `MaxFaults = 0`: the invariant `ActiveNonceIndexed` fails.
  The cleanup of a Failed record deletes the entry of its nonce, although the nonce was
  given to another transaction since and the entry is that one's, against the contract of
  `get_nonce_occupancy` (`repositories/transaction/mod.rs:132`).
* Plugins, needless restarts.  `plugin_pool` with `FaultSets = {{"exit"}}` and the action
  property `NoNeedlessRestart`: it fails.  A request decides to restart before it has
  `restart_lock` and does not look again (`services/plugins/pool_executor.rs:638-693`); line
  69 calls it a "Lock to prevent concurrent restarts (thundering herd)".  Under load each
  restart may set the flag that leads to the next.
* Plugins, a server that hangs.  `Recovers` without its exception for a hung server
  fails with `FaultSets = {{"hang"}}`.  The runner wraps `execute_plugin` in a timeout of T, so
  that the backstop of T + 4 s, which `constants/plugins.rs:19-24` says "catches hung Node.js
  process" and `is_dead_server_error` says "should trigger recovery", never reaches the
  breaker.
* Plugins, a server left behind.  `Recovers` without its exception for a stale socket fails
  with `FaultSets = {{"spawn", "orphan"}}`.  A child whose start timed out is not killed
  (`services/plugins/pool_executor.rs:764-831`); when it is ready it replaces the socket file of
  the server started after it (`src/plugins/lib/pool-server.ts:386`), and when it exits the file
  stays.  The server in `process` is alive and the file is there, so that
  `check_and_restart_if_needed` finds nothing wrong, while no connection succeeds.

What the runs do not claim, because the code does not keep it or the model assumes it:

* EVM: a crash, a lost answer or a failed write between the broadcast of a resubmission
  and its record leaves a hash that no record knows: `NoHashForgotten` leaves this open, and
  claims that whatever else is broadcast is on record already and stays there.  A creation
  is one step: a crash between the record and its status check leaves it unwatched, as the
  repository's entry below says.  On networks without a mempool a bump takes the market price
  (`domain/transaction/evm/price_calculator.rs:222-230`), which need not be above the last;
  `CanBump` has the other networks.  A replacement's hash is not added to the hashes.
* EVM nonces: the health job ends within the 60 seconds of its lock
  (`domain/relayer/evm/nonce.rs:604`) and has a hint, as every caller in the code gives one.
* Stellar: with the queue and the repository failing together, `handle_prepare_failure`
  hands the lane over although the record stays Sent, and `InFlightOwnsLane` is lost; so
  it is after a restart, since the lane gate lives in memory.  A status check that fails to
  look up the next transaction leaves the lane with a final one.  In
  concurrent mode two transactions signed above a lost sequence can keep each other from
  letting the counter come down.  With two workers, a submit job left over from before a
  reset sends an envelope of sequence 0 and resets the record once more, so that progress
  depends on the timing of the two queues; the liveness run has one handler at a time.
* Repository: a crash between the record and its index or its jobs leaves a record that
  nothing monitors (the comment at `domain/relayer/evm/evm_relayer.rs:252-254` excludes it).
  An update that is refused because the record is final still writes the nonce index.  An
  update that overlaps a deletion leaves residue in the creation and nonce indexes.  The
  detached task that creates a transaction may outlast the in-flight window
  (`WindowEnds` assumes it does not).  A replay may return a stored transaction whose jobs
  were never queued.  Records and indexes are read as they are; a read through the reader pool
  (`repositories/transaction/transaction_redis.rs:514`, 594, 775) may be older.
* Solana: an RPC error during the search counts as "not found".  `ResubmitsExpired` is about
  the decision to resubmit; what becomes of the job afterwards is described above.  A
  resubmission whose answer or write is lost is tracked by nobody.  A transaction Mined on an abandoned fork stays Mined (`Stranded`).  Failed and
  Expired may be reported while the last signature can still be processed.  With two
  workers a transaction may be recorded as Confirmed with another signature, and a
  resubmission may be queued on the strength of a blockhash that is no longer the stored
  one's.  The fee paid by the user goes another way
  (`domain/relayer/solana/solana_relayer.rs:596-635`), which is not modelled.
* Queue: on a FIFO queue each deferral adds to the receive count and uses up attempts.  On
  a standard queue, deliveries that overlap multiply the status check.  A Mined EVM
  transaction past the total limit stays (`PastLimit`).  A record or relayer that is not
  found completes the job.  Bounded jobs are due when they are queued, and handler and queue
  have one limit of retries; the relayer health check has 5 and 2 (`constants/worker.rs:1`, 26).
  A redrive policy on the FIFO queue of the status checks would
  end them; the recommended configuration is taken instead.
* RPC: calls that share a selector may blame a provider that works (`try_join!` in
  `services/gas/evm_gas_price.rs:369`).  With at most one retry there is no failover.  A URL
  for which no client can be made uses up failovers.  After a mark the round robin skips a
  provider.
* Plugins: a server left behind answers or exits, it does not hang; that it removes the
  socket file and listens at a new one is one step.  A full queue counts as a success for the breaker.
  The ramp of `recovery_allowance` has no effect, since the restart that begins it closes the
  breaker.  `force_close` keeps the ring buffer, so that one late failure may open the
  breaker again.

## Proofs

The theorems about a module `X` are in `XProofs`, which extends it.  They hold for all
sets of transactions, workers, calls and providers and for all bounds; from the constants
they use only the assumption named in each module (`BoundsAssumption` and
`HashAssumption`, `NonceAssumption`, `StellarAssumption`, `RepositoryAssumption`,
`SolanaAssumption`, `JobQueueAssumption`, `RpcAssumption`, `PoolAssumption`): bounds are
natural numbers, those that the code takes to be positive are, and `None` is none of the
values it stands beside.  Every run evaluates them.  A theorem under a further hypothesis
says so in its statement; each hypothesis is one of those listed above as what the code
does not keep without it.

| Module | Theorem | States | Under |
|---|---|---|---|
| `EvmTransactionProofs` | `TypeCorrect` | `TypeOK` | |
| | `FinalStays` | `FinalIsForever` | `FinalGuard` |
| | `ReportsHold` | `ReportedIsOnChain` | |
| | `ExecutedOnce` | `NoDoubleExecution` | `"request" \notin Concurrent` |
| | `StatusCheckKept` | `MonitoredUntilFinal` | `FinalGuard`; queue and repository do not both fail |
| | `BroadcastsRecorded` | `NoHashForgotten` | `{"request", "resubmit"} \cap Concurrent = {}`, `"replace" \notin ApiOps` |
| | `CanceledHarmless` | `CanceledNotExecuted` | `Serial`, `Reliable` |
| | `FailedHarmless` | `FailedNotExecuted` | `Serial`, `Reliable`, `"hashrpc" \notin Faults` |
| `EvmNonceProofs` | `TypeCorrect` | `TypeOK` | |
| | `NoReissue`, `CounterAbove` | `NoNonceReissued`, `CounterAboveClaims` | `Settled`, not `ReadReplica` |
| `StellarTransactionProofs` | `TypeCorrect` | `TypeOK` | |
| | `StatusCheckKept` | `MonitoredUntilFinal` | `OneStore`: queue and repository do not both fail |
| | `ExecutedOnce` | `NoDoubleExecution` | `Single`: requests and submissions do not overlap with themselves, no `forget` |
| | `OneInFlight` | `InFlightOwnsLane` | `OneStore`, `Single` |
| `TransactionRepositoryProofs` | `TypeCorrect` | `TypeOK` | |
| | `MonitoredListed` | `MonitoredIsListed` | |
| | `RefinesStore` | `ImplementsStore` | |
| `SolanaTransactionProofs` | `TypeCorrect` | `TypeOK` | |
| | `ConfirmedOnChain` | `ConfirmedSignature` | `Serial` |
| | `ResubmissionFollowsExpiry` | `ResubmitsExpired` | `Serial` |
| `JobQueueProofs` | `TypeCorrect` | `TypeOK` | |
| | `StatusCheckKept`, `BoundedJobKept` | `Monitored`, `NotDropped` | |
| `RpcSelectorProofs` | `TypeCorrect` | `TypeOK` | |
| | `GivesUpLast`, `WorkingNotBlamed` | `FailsOver`, `HealthyNotBlamed` | |
| `PluginPoolProofs` | `TypeCorrect` | `TypeOK` | |
| | `SocketKept` | `LiveHasSocket` | |

**Layout.**  A module has some thirty actions and most do one of a few things to the
variables an invariant looks at.  Where that pays, the proof first shows that every action
has one of a few *forms* (`HandlerStep` of EVM; `Form` and `Step` of Stellar; `JobEnd`,
`JobGoesOn` of Solana), once, with the types; every invariant is then proved per form.

**EvmTransaction.**  `Types` adds to the type that a handler works on its own
transaction's hashes and has what its place in the code needs: a nonce to presign, a stored
nonce to sign, a signature to record; and that what is mined was broadcast.

* `FinalStays`: `FinalSeen`, a handler that has read a final status works on a record
  that is final, is what carries it through the patches that are computed from the snapshot.
  `FinalGuard` is the script of the Redis repository; the in-memory one has no such guard.
* `ReportsHold`: `EvidenceInv` says of a record, of a snapshot and of a status that a
  check has seen that the chain bears it out.  The chain only grows, so that a stale
  snapshot stays true.
* `ExecutedOnce`: two entries of the chain have two nonces, so it is enough that all
  signatures of a transaction have one.  `NonceInv` says so of records, snapshots, the
  signature a handler holds and everything broadcast (`Pinned`, `PinnedWorker`), and that a
  preparation that has read no nonce is the only one, and is to store the first
  (`OneRequest`).  Two preparations of one transaction at once break it, as described above.
* `StatusCheckKept`: jobs and handlers are those of stored transactions (`Known`), and a
  handler of a status check goes on with it, queues it again or leaves the record final.
  A creation that fails to queue the check marks the record Failed, which must not fail too.
* `BroadcastsRecorded`: every failure is allowed, and handlers of all kinds overlap, but
  for two preparations or two resubmissions of one transaction; `replace` does not add its
  hash to the hashes and is left out.  `HashInv` says that a record's signature is among its
  hashes (`Kept`), that a handler has read no hash that the record does not have, and one
  that is about to add a hash has read them all (`Follows`): this is what makes its write from
  an old snapshot harmless, and it needs `OneRequest` and `OneResubmit`.
* `CanceledHarmless`, `FailedHarmless` are about one handler of a transaction at a time
  (`Serial`, as in `evm_sequential` and its one worker) and `Reliable`: the Redis guard,
  without a crash, a lost answer or a failed write between a broadcast and its record, and
  without replacement requests.  RPC, queue and signer failures, reverts, the circuit breaker
  and foreign use of the account stay.  `TrackInv` says that snapshots are current, that what
  a record was signed with is among its hashes (`Recorded`), and that a broadcast which is
  not is held by the resubmission that is about to store it.
* For both, a report must stay true, and a chain that does not
  have the transaction now may have it later.  `OutcomeInv` therefore says that a
  transaction so reported is `Dead`: each of its broadcasts has a nonce that the chain has
  passed, and did not take effect there.  This is stable, and it is why the order in
  `reconcile_tx_nonce_state` matters: a nonce recovery is queued only for a consumed nonce
  (`Consumed`), and by `TrackInv` and `NonceInv` all broadcasts have that nonce and are
  among the hashes searched.  A receipt that is found settles the transaction for the same
  reason.

**EvmNonce.**  `NoNonceReissued` is not inductive: it says nothing about the index the
scans look at nor about a job in the middle of a scan.  The invariant `IInv` adds

* `HeldByTxs`, `Indexed`: only users hold a nonce, and every stored nonce is indexed;
* `IndexBelow`, `HeldBelow`: what is indexed or held is below the counter;
* `ObservedBelow`, `WaitedFor`, `SettledDown`: until the compare-and-set nothing lowers
  the counter below the value read, a nonce held below that value belongs to a
  preparation the job waits for, and after the pause there is none;
* `ScannedEmpty`, `TargetEmpty`: what was scanned, and what the rewind would free, has
  no record;
* `GapsBelow`: gaps are filled below the counter.

The step that carries it is `RewindStep`: the compare-and-set succeeds only if nothing was
taken since the read, and then nothing at or above the target is indexed or held.  Without
`Settled` there is the residual race that the comment on `resolve_nonce_gaps` describes,
with `ReadReplica` the counterexample above.

**StellarTransaction.**

* `StatusCheckKept`: as for EVM, with the same exception for a creation; `FinalInv` (what a handler has read as final is final) and
  `PresentInv` (jobs are of stored transactions) make the check's early returns harmless.
* `ExecutedOnce`: `Out(t)` are the sequences of `t`'s envelopes that a node holds or the
  ledger has applied.  `EnvelopeInv` says that there is one at most, that a record which
  can be signed again knows it (`Known`), that a preparation works on a record without one
  (`Unsigned`), and that a submission resets its record only when nothing is out
  (`Submitting`).  It needs what `Single` states: a queue that executes one request and one
  submit job of a transaction at a time (`Exclusive`; the message groups of SQS FIFO queues
  see to it, Redis and standard queues do not), and a node that recognises an applied
  envelope.  Status checks may overlap.
* `OneInFlight`: `Owner` says that a preparation owns the lane from its claim to the store,
  and that one that gives the lane away has left the record Pending or final.  Without `OneStore` a
  preparation whose job could not be queued and whose failure could not be recorded hands
  over the lane of a record that is Sent.

**TransactionRepository.**  `StoreInv` is what an operation relies on between its calls:
what runs has its record (`BornStored`) and its key (`KeyHeld`), the in-flight window
outlasts the request (`LateEnded`), what a sweep has read still holds when it writes
(`SweepFresh`).  From it each action is a step of `TransactionStore` under `Phase`, or
leaves the phases alone.  `ListedInv` adds that a migration under way has all of the
legacy set that is stored (`MigrationComplete`) and that no handler touches a
transaction before its check is queued (`NotYetMonitored`).

**SolanaTransaction.**  `Serial` says that jobs of the transaction are executed one after
another; then a snapshot is current (`SnapCurrent`).  `ResubmissionFollowsExpiry` needs
besides that nothing is signed for a blockhash yet to come (`Past`) and that, while there may
be more attempts, none on record is newer than the stored one (`Attempts`), which rests on
what a send under way is about to store (`Signing`): then the blockhash that the check looks
at is the last to expire.  Resubmissions queued twice, delivered late or lost are all in it.

**JobQueue.**  `Kept` strengthens both properties: a job still needed has a message that
no receipt waits to delete.  A bounded job needs besides that neither way of counting its
attempts runs ahead of the deliveries (`AttemptsCounted`): otherwise it would be given up
early.

**RpcSelector.**  `GivesUpLast` rests on `Counted`: each failover is one more provider, so
that the loop ends with all of them tried or with the limit.  `WorkingNotBlamed` rests on
`Unblamed`: for a selector of its own, a call that goes on after a failure has no working
provider as its current one, which is the one `mark_current_as_failed` marks.  The
theorems are about `FairSpec` but use no fairness.

**PluginPool.**  `SocketKept` is mutual exclusion: who is between the locking and the
release of `restart_lock` holds it (`LockHeld`), and who is about to remove the socket file
or to spawn has no server to lose (`NoServer`).  An orphan replaces the file, or leaves it
behind; it never removes it for good.  `TypeCorrect` includes that permits are
never exceeded.

Every invariant of the runs, and every property that needs no fairness, is stated by a
theorem.  Left to TLC are the liveness properties `EventuallyFinal`, `EventuallySettled`,
`BlockedIsResolved`, `BreakerEnds`, `BoundedEnds`, `CallEnds`, `Recovers` and
`BreakerCloses`, which need fairness and ENABLED.

## Not modelled

Stellar transactions from XDR, fee bumps and gas abstraction; the RPC methods, swaps and
gas abstraction of the Solana and Stellar relayers; the health check of relayers and
`delete_pending_transactions`; the distributed lock and bootstrap; the Redis (Apalis),
Pub/Sub and RabbitMQ backends of the queues; of the plugins the shared socket service, the
relayer API behind it, the ts-node runner, compilation and cache, the health endpoint and
shutdown; bulk and paginated listings and the in-memory variant of the repository; signers,
the gas price cache, API and configuration, notifications and metrics: see "components" in
`PROJECT.json`.  Much of the source is tests, request parsing, encodings, client code and
configuration, without state that these properties could be about.  Within the modelled
parts: replicas for reads of records, the expiry of the health job's lock, delays between
retries, the values of prices.

## Plan

1. Proofs: `CanceledHarmless` and `FailedHarmless` where several handlers of different
   kinds work on one transaction, from `HashInv`.
2. `DistributedLock` and bootstrap: mutual exclusion up to expiry, initialisation by
   several replicas; then the health job under an expiring lock.
3. `StellarTransaction`: the other inputs (unsigned XDR, fee bumps) and a lane owned by
   several processes.
4. An abstract life cycle (status graph, at most one effect) that the three chains'
   modules implement.
5. The shared socket of the plugins, the gas price cache, the other queue backends.
