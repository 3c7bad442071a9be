# A TLA+ model of the Dogecoin → Solana block pipeline

This directory specifies, model-checks and proves properties of the
`doge_block_pipeline` service of this repository
(`src/qed_dsol_ibc_node_common`): the coordinator that commits confirmed
Dogecoin blocks to the Solana bridge one height at a time, its crash recovery,
the durable queue through which it obtains proofs, the clients and their retry
policy, the deposit trees, the first start; and the cache of the `kvq` crate.

Paths below are relative to `src/`; in `qed_dsol_ibc_node_common/src/`, `BP` is
`block_pipeline.rs`, `PQ` `proof_queue.rs`, `NR` `network_retry.rs`, `SS`
`sol_submitter.rs` and `DL` `doge_link_rpc_async.rs`; `KC` is
`kvq/src/cache/mod.rs`.

## 1. The system and its parts

| Component | State it keeps | Operations | Correct when |
| --- | --- | --- | --- |
| Coordinator (`BlockPipeline`, BP) | committed checkpoint, planned checkpoint, prepared transitions with a proof ticket | `initialize`, `poll_once`, `prepare_height`, `commit_prepared` | heights are committed in order, on the checkpoint they were prepared from; every confirmed block is committed in the end |
| Checkpoint and journal (Redis) | one checkpoint key, one journal key | four journal writes per commit, checkpoint write, journal delete, `reconcile_checkpoint_journal` | whatever the process was doing when it stopped, the next start finishes or repeats it; owed mints are never forgotten |
| Proof archive and `recover` (BP, `bin/doge_block_pipeline.rs`) | evidence directories on disk | `persist_evidence`, `recover_checkpoint_from_proof_archive` | a start-up that fails closed can be repaired |
| Durable proof queue (PQ) | job, state, attempt and result keys, queue and notify lists, leases | submit script, `wait_result`, `claim_state`, `heartbeat_state`, `complete_state`, `fail_state` | a job is queued once, answered once and only by its newest lease; the answer stays |
| Local prover (`LocalProofBackend`, `ProverDaemon`) | a child process and a request channel | start, prove, restart once, terminate | one answer per request; no answer of an old daemon |
| Network retry (`NetworkRetryPolicy`, NR) | attempt count, delay, deadline of one call | `run` | attempts and time are bounded; an operation of unknown outcome is not sent again |
| Sender client (SS) | – | `block_update` | an ambiguous outcome is never reported as success or retried blindly |
| Electrs client (DL) | – | tip, block, header range | what is fetched in several requests is one chain |
| First start (`initialize_checkpoint`, BP) | the first checkpoint, not saved before the first commit | read tip, header cache, compare with the bridge | proofs start from the state the bridge commits to |
| Witnesses, Merkle trees, frontiers (BP) | two frontiers and two optional histories in the checkpoint, buffers until finalization | `scan_manager_custody_deposits`, `build_deposit_claim_witness`, `sequential_next_leaf_siblings`, `validate_checkpoint`, ... | the trees equal the full ones at every height; the mined deposits and no others are claimed |
| Identity of jobs and provers (PQ, BP) | ELF and prover on disk, daemon identity, retained jobs and results | `compute_job_id`, `validate_for`, `into_prover_output`, `validate_prover_identity` | an accepted proof is of the pinned program, for the prepared transition |
| Configuration (BP) | – | `validate_config` | only a configuration of the deployed bridge is run |
| `kvq` | a cache over a shared store | get/set/delete, ordered lookups, `flush_simple`, `flush_changes` | the cache reads as the store would; a flush never brings back an old entry |
| `qed_dsol_bridge_core` | – (declarations of an earlier topology) | id constructors and encodings, queue traits | – |

How they interact: `initialize` reads the on-chain bridge header, loads the
checkpoint from Redis and reconciles it with the journal. `poll_once` reads the
Electrs tip, prepares up to `proof_prepare_window` heights ahead (each prepared
transition is submitted to the prover as a content-addressed job), then waits
for the proof of exactly the next height and runs `commit_prepared`: journal,
buffer upload to Solana, journal, evidence on disk, `block_update` through the
Sender, journal, mints, journal, checkpoint, journal delete. Any error ends the
process; a supervisor starts it again.

What is hard about it: a process that may stop between any two awaits, with
its state spread over Redis, the disk, Solana accounts, the Sender and the
prover; transactions that land after the process that sent them is gone;
retried calls that have already taken effect; proofs that arrive out of order;
a source chain that may be reorganised between two reads; leases that expire
under a worker that is still proving. `PROJECT.json` lists these hazards line by
line with the properties that cover them.

## 2. Modules

| Module | What it is |
| --- | --- |
| `MintLedger` | the abstract specification: blocks are committed one at a time, each makes the deposits `Conf` blocks below it payable, all of these are minted, each once, before the next block |
| `BlockPipeline` | the coordinator with Redis, disk, prover, Sender, Solana and Dogecoin around it; the properties |
| `BlockPipelineInv` | the inductive invariants of the pipeline, each a conjunction of named parts |
| `PipelineRecover` | `BlockPipeline` composed with the operator's `recover` command; the invariant behind its repair |
| `BlockPipelineProofs` | TLAPS proofs: types, ledger, what a checkpoint means, prepared heights, restarts, repair |
| `ProofService` | the abstract prover: a job is accepted once and answered at most once, for good |
| `ProofQueue`, `ProofQueueProofs` | the Redis queue and its workers, shown to implement `ProofService`; TLAPS proofs |
| `LocalProver`, `LocalProverProofs` | the in-process backend: request channel, task, gen-proof daemon; shown to implement `ProofService` within one run; TLAPS proofs |
| `NetworkRetry`, `NetworkRetryProofs` | one call of the retry policy, made by any of the three clients; TLAPS proofs |
| `MerkleTrees` | the Merkle functions over a symbolic hash, and a reference tree |
| `DepositTrees`, `DepositTreesProofs` | what `prepare_height` computes from a block, from any start height; TLAPS proofs |
| `ProofIdentity`, `ProofIdentityProofs` | what binds a proof to a program and a transition, across restarts, rebuilds and redeployments; TLAPS proofs |
| `FirstStart`, `FirstStartProofs` | building the first checkpoint from Electrs while its chain moves; TLAPS proofs |
| `KvqStore`, `KvqCache`, `KvqCacheProofs` | the in-memory store of `kvq`; the cache over it with other readers; TLAPS proofs |
| `MCBlockPipeline`, `MCDepositTrees`, `MCProofIdentity` | constants and symmetry sets for TLC; `MCBlockPipeline` is for `BlockPipeline` and `PipelineRecover` |

The modules meet at these points: `PipelineRecover` extends `BlockPipeline`
(with its invariants);
`BlockPipeline` implements `MintLedger`; `ProofQueue` and `LocalProver`
implement the `ProofService` that `BlockPipeline` is modelled with.
`DepositTrees`, `ProofIdentity` and `FirstStart` open up what `BlockPipeline`
abstracts to a payload, to a job and to a fixed start height.

### `BlockPipeline`: state and actions

`pc` is the await the process is at (`"down"` when it does not run). `cp`,
`planned`, `inflight` are the fields of `BlockPipeline`; `job`, `draft`, `seen`,
`ftip`, `got` are the locals that survive an await. `rcp` and `rjr` are the two
Redis keys and `archive` the evidence on disk. `proofs` is the prover's table,
lost with the process when the backend is local. `sol` is the bridge header with
the number of mint groups claimed for it, `mbuf` and `tbuf` the operator's two
buffer accounts, `txs` the `block_update`s in flight; `log` is a history
variable used by the refinement, and `late` one that holds the updates sent by a
process that has since been replaced by another. `doge` is the chain Electrs shows.

| Code | Actions |
| --- | --- |
| `initialize` | `Start` (reads the bridge header), `LoadCheckpoint` (loads, or builds the initial checkpoint after the two checks of `initialize_checkpoint`) |
| `reconcile_checkpoint_journal`, `plan_journal_recovery` | `ReconcileUpToDate`, `ReconcileStale` + `DiscardJournal`, `ReconcileFailClosed`, `ReconcilePromote`, `ReconcileMint` + `RecoverMintEnd`, then `RecoverSave`, `RecoverDelete` |
| `poll_once`, `prepare_height` | `FetchTip`, `FetchBlock`, `SubmitJob`, `TakeNext`, `Idle` |
| `commit_prepared` | `WaitProof`, `Journal1`, `UploadMintsBegin`, `UploadMintsEnd`, `UploadTxo`, `Journal2`, `PersistEvidence`, `PostBlockUpdate`, `SendOk`, `SendRejected`, `Journal3`, `MintGroup`, `MintRetry`, `MintEnd`, `Journal4`, `SaveCheckpoint`, `DeleteJournal` |
| any `?`, a signal, the watchdog, a crash | `Exit`; the process's memory is gone |
| external | `ProverSucceeds`, `ProverFails`, `TxLand`, `TxLost`, `TxExpire`, `MineBlock`, `Reorg` |

Data is abstracted to what the properties tell apart. A block is a number (its
hash) and a *payload*, which stands for the deposits, the pending-mint hash and
the TXO list of that block; a header is the height, the tip and the payload of
the finalized block; the Merkle frontiers and the state bytes are functions of
these and add nothing. A payload has a number of mint groups. A prepared
transition is identified by its parent and its next checkpoint, which is what
the job id and the idempotency key hash.

Modelling decisions a reader of the code may want to know:

* **One group of mints is claimed atomically**, as the on-chain tracker does it.
  `MintRetry` is a call that fails with a retryable error after the group may
  have been claimed; the next attempt counts from zero, so `MintEnd` may end the
  process although all mints are paid (`total_mints_processed` is lower than the
  number of mints). Recovery then completes the height, since
  `mint_recovery_succeeded` looks at `fully_completed` only.
* **The Sender answers by idempotency key** (external): a repeated request for an
  update that has landed is confirmed, a lost one is taken on again.
* **The start block is never reorganised away**, and the prefix up to it is fixed.
  Above it the chain may be cut at any height; a block that no longer extends the
  checkpoint ends the process ("reorg handling is out of scope").
* **`Conf <= StartHeight + 1`**: `prepare_height` computes
  `height - required_confirmations` for heights above the start; a larger value
  makes every preparation fail with an underflow error.
* **A restart waits for nothing.** `initialize` reads the bridge header once and never
  asks whether a `block_update` of the previous run can still land, so `Start` is
  enabled whenever the process is down. An update that lands after a later process
  has started has *outlived* its process (`late`, `Outlived`). The properties that
  such an update can break say so in their statement and are unconditional
  otherwise (section 4).
* The number of faults (crashes, failed calls, lost requests, bad proofs) and of
  reorganisations in a behaviour is bounded by constants.

### `ProofQueue`: state and actions

`state`, `attempt`, `result`, `queue`, `notify` are the Redis keys of a
namespace. A lease holds the time it has left; `left = 0` is
`lease_expires_ms <= now_ms`. The attempt number names the lease. `claim_state`,
`heartbeat_state`, `complete_state` and `fail_state` are the functions of the
same names, `SubmitScript` is `SUBMIT_JOB_SCRIPT`, and `ReadResult`,
`ReadState`, `Wake` are the three awaits of the `wait_result` loop. The worker
program is not in the repository. Its steps (`Claim`, `Heartbeat`, `Complete`,
`Fail`, `Abandon`, `Reclaim`) apply the lease functions atomically, as the
comments of their tests say of the worker's scripts, and are external.
A job is a height above the first checkpoint. As `poll_once` does, the coordinator
submits them in order (`Submit`), waits only for the one after its checkpoint
(`Wait`), and `Commit` moves `tip`; a height above one that failed is never
waited for.

### `LocalProver`: state and actions

`chan` is the bounded channel, `status` what each request's oneshot channel
holds, `task` and `cur` where the spawned task is, and `daemon` the child process
with the requests and lines in its pipes. `TakeRequest`, `ReadLine`, `ReadEof`,
`Deadline`, `RestartDaemon` are the steps of `run_local_job` and
`ProverDaemon::prove`; `AttemptFails` is every failure that replaces the daemon
(once), `RequestFails` a failure the daemon itself reports. What the daemon does
(`RespondsWell`, `RespondsBadly`, `Breaks`) is external. It writes one protocol
line per request.

### `NetworkRetry`: state and actions

A behaviour is one call of `run`. `Attempt` is `operation().await` with how
long it took and what came back; `Wake` the end of the sleep. A reply is a
transport error, a status whose body cannot be read, or all of it, and an error
is the set of facts the predicates ask about (`is_retryable_reqwest`,
`is_retryable_solana_client_error`, ...); `BlockUpdateAction`, `ElectrsAction`
and `BridgeAction` are the three closures. Time is counted in units (half a second
in the configurations, the code's shortest delay), an attempt
lasts at most the client's timeout, a timer fires at most `Oversleep` late.
A 202 whose body cannot be read is retried by the code; since the Sender
recognises the idempotency key this is not counted as an unknown outcome.

### `DepositTrees` and `MerkleTrees`: state and actions

One step is one attempt of `prepare_height` at the next height, for a block of
one of several shapes, an answer of Electrs under the mined header (as mined,
without transactions, truncated, swapped, or with any tail of the list
repeated), the same for the block that becomes final, and an evidence file that
may be right, wrong or about another height. A refused attempt changes nothing.
`Evaluable` is the two errors of `evaluate_claim_witness`: a deposit below its fee
and an output without a TXO index (BP 2485–2498); either makes the whole block
fail. Bitcoin's tree pairs the odd element out with itself, so some lists that
repeat a tail have the mined root (`AsMined`). The scan does not look for
repetitions, and its deposits are then listed twice; `repeated` remembers it. The
library that builds the transition is external and is not taken to refuse such
a list. A hash is its preimage, a sequence of integers
in which each inner node is bracketed. The loops of the code are recursive
functions over the number of rounds; `TreeNode` is the reference, by halves, and
is written independently of them. The guest and the bridge state are
external: the guest recomputes both old roots, `AppendBlock` extends the leaves. The
hashes of the buffers and the minted amount come from the same library (BP
2526–2535); `from_evaluation` keeps the two lists they commit to, and the check of
the one against the other (`validate_buffer_payload`) is left out.
`CapacityAssumption` says that the two trees have a place for every leaf of a full
history and for every height of the run. The code refuses an index beyond its
tree (BP 2678), so a bridge with smaller trees stops there, whatever the block.

### `ProofIdentity`: state and actions

`elf` and `genproof` are the two files on disk, which `ReplaceElf` and
`ReplaceGenProof` change under the running process; `daemon` is the running
prover with the key it reported; `jobs` and `results` are the retained Redis
keys. `Initialize` is `validate_config`, the comparison with the bridge and the
daemon's identity; `PrepareLocal`/`PrepareRedis` build and submit the job of the
next height; `WorkerAnswers` (external) files any result under the job;
`WaitResult` and `LocalProve` are the two ways an answer is checked and, if
accepted, committed. A configuration keeps the outcome of each of its path,
presence and size checks as a member of `facts`.

### `FirstStart`: state and actions

`ReadTip` and `StartRefused` are the checks of `initialize_checkpoint`;
`ReadHash(h)` and `ReadHeader(h)` the two requests of each header, all of them in
flight; `BuildCheckpoint` is `from_init_data` and the comparison of
`header_hex`, which is the configured header, with the chain; `PollTip`,
`ReadBlockHash` and `ReadBlock` read the first block. Nothing is saved, so every
failure starts over. The block the bridge was initialised at is not
reorganised away.

### `KvqStore` and `KvqCache`: state and actions

`store` is the shared `BTreeMap`, `map` the cache with its `Removed` entries.
`set`, `set_many_ref`, `delete`, `delete_many` and the adapter's versions are
one action each; `flush_simple` takes three steps, since its two writes lock the
store separately and the second fails (`FlushFails`) while another holder reads;
`flush_changes` hands its changes to the caller, who applies them later
(`ApplyChanges`). `promised` is what a plain store would hold after the same
calls. Keys are byte strings of a fixed length; typed keys are their big-endian
numbers, taken apart byte by byte (`Shifted`). `PairAssumption` keeps an answer
with a pair apart from the markers for no answer and an error.

## 3. Runs

| Run | Configuration | Checks | Result |
| --- | --- | --- | --- |
| `core` | 4 heights above the start, window 2, durable prover, 2 faults, 1 reorganisation, restarts that race with updates in flight | `TypeOK`, `CheckpointImpliesMinted`, `CrashRecoverable`, `PreparedChain`, `SafeUnlessOutlived`, `PipelineInv`, `RestartInv`, `FailClosedIsRepairable`, `LedgerRefined`, `MintBufferStable`, `EveryFinalizedBlockCommitted` | hold, 0.5 M states |
| `recover_discard` | with the `recover` command | `SafeUnlessOutlived` | **violated** (finding 1) |
| `stale_discard` | as `core`, no reorganisation | `SafeDiscard` | **violated** (finding 2) |
| `proof_queue` | 2 jobs, 2 workers, leases of 1 tick, 2 faults | `TypeOK`, `QueueExact`, `ResultFenced`, `ServiceRefined`, `EveryJobAnswered` | hold, 52 k states |
| `local_prover` | 3 requests, channel of 2, 3 faults | `TypeOK`, `InSync`, `LostDaemonReported`, `ServiceRefined`, `EveryRequestAnswered` | hold, 2.6 k states |
| `result_race` | 1 job, 1 worker | `MissingMeansMissing` | **violated** (finding 3) |
| `network_retry` | the default policy in half seconds (0.5 s doubling to 10 s, 20 attempts, 600 s, requests of 15 s), three clients | `Bounded`, `AttemptsExhaustedFirst`, `NoBlindResend` | hold, 130 k states |
| `late_attempt` | the same policy, the bridge client | `NoAttemptPastDeadline` | **violated** (finding 4) |
| `deposit_trees` | 4 blocks of 5 shapes from start heights 0, 5, 9 around a history limit of 8; trees of height 3 and 4 | `HonestBlockAccepted`, `ClaimsAreTheDeposits`, `AcceptedAsMined`, `EvidenceIsClaimed` | hold, 2 k states |
| `proof_identity` | 10 configurations, 4 builds of 3 ELFs, 2 networks, 2 changes or faults, both backends | `RightProgram`, `RightTransition`, `NoCollision` | hold, 0.3 M states |
| `first_start` | cache of 3 headers, 2 confirmations, start height set to the bridge's or not set, 3 faults | `CacheIsOneChain`, `FirstBlockIsNext`, `ProvesFromBridgeState`, `EventuallyIngests` | hold, 20 k states |
| `kvq_cache` | keys of 2 bytes below 2, 2 values, every initial store, 1 reader | `TypeOK`, `ReadsYourWrites`, `RangeIsExact`, `LeqErrsOnlyByCache`, `StoreMovesForward` | hold, 94 k states |

**Bounds.** Two payloads, one without deposits and one with two mint groups, are
enough to be caught between two groups and to confuse a buffer with that of
another height. Four heights above the start with `Conf = 1` let a block with
deposits be committed, finalized and followed by another one that reuses the
buffers, while a third is prepared ahead. Two faults allow a
crash during the recovery from a crash, and the sequence in which an update
outlives its process: a crash at the send, a restart that discards the journal,
the late landing, another crash, a start that fails closed. The local backend
and larger confirmations are left to the theorems, which hold for both
backends and every `Conf`, and to `local_prover`. `MaxMined` bounds the blocks
ever mined, replaced ones included: below the full chain a reorganisation has room
to put another block in a place already read. In `proof_queue` two faults let
a job be claimed three times; no run that checks liveness uses symmetry.
`network_retry` uses the code's own numbers (NR 5–12), counted in half seconds:
1, 20, 1200 and 30 units. In `deposit_trees` the
shapes cover blocks of one, two and three transactions (an odd Merkle level),
with no deposit, two in different transactions, two in one, one that has no
index and one below the fee; four blocks from an odd and
from an even height carry over three levels of a frontier, from heights with and
without a history, and cross a finalization of two confirmations. A history
may reach its limit of 8 leaves; then the next checkpoint is refused, and
`HonestBlockAccepted` speaks only of histories with room. Two changes in `proof_identity` let a
result of one deployment, or of one build, meet a job of another; two candidate
blocks for a height are interchangeable and a symmetry set. `first_start`
allows reorganisations as deep as the confirmations (`MaxDepth`),
between any two requests: deeper ones are out of the code's scope ("reorg
handling is out of scope"). Four keys suffice in `kvq_cache` for an ordered lookup
to have something below, between and above two entries; the writes of other
holders are left out because a cache over a store that others write promises
nothing.

**Fairness.** `BlockPipeline!Fairness`: the supervisor restarts a stopped
process; the coordinator takes its next step (its loop has no other condition
than the awaits it is at); the prover answers a queued job; a transaction that
can land lands, and one that cannot expires. Faults, mining and reorganisations
are not fair. The progress it gives, `EveryFinalizedBlockCommitted`, stops at the
three states in which the code itself waits for an operator (`Halted`): a chain
start-up cannot reconcile with, which takes an update that outlived its
process (`CrashRecoverable`); a failed proof of the next height, which the durable
queue keeps on purpose; and a reorganisation below a committed block.
`ProofQueue!Fairness`: the coordinator is restarted and its loop goes on; some
worker pops the queue; a proof ends; time passes and expired claims are put
back. Only weak fairness is used: after a restart the loop submits again
what Redis already holds, waits for the next height and commits it. A height
above a failed one gets no answer, and `EveryJobAnswered` says so.

`LocalProver!Fairness`: the task runs, and a daemon that neither hangs nor exits
answers. A deadline is a step of the task, since it is a timer.

`FirstStart!Fairness`: Dogecoin goes on mining, the supervisor restarts the
process, and its requests are answered unless they fail; failures and
reorganisations are not fair and bounded by `MaxFaults`.

Deadlock is checked in every run but `local_prover`, where the backend stops
with its process, `proof_identity`, which ends at its bounds, and
`first_start`, which ends with the first prepared block.

## 4. What the checks show

* **The ledger is never wrong.** Whatever crashes, lost requests, late
  transactions and reorganisations happen, the Solana side behaves as
  `MintLedger`: one chain, each deposit paid once, the right payload `Conf` blocks
  later, nothing accepted while mints are owed. This is also proved.
* **A durable checkpoint that agrees with the chain is fully minted**
  (`CheckpointImpliesMinted`), also proved.
* **Every stop is recoverable** (`CrashRecoverable`), **no owed mint loses its
  journal** (`SafeUnlessOutlived`) and **the mint buffer is left alone while mints are
  owed** (`MintBufferStable`), with one exception that all three name: the chain
  shows an update that landed after a later process had started (finding 2). All
  three are also proved. In the exception the ledger is still right, and a start
  that fails closed is repairable.
* **Every confirmed block is committed** (`EveryFinalizedBlockCommitted`) unless the
  code has stopped for an operator (`Halted`, section 3).
* **A start-up that fails closed can be repaired** with `recover` from the archive
  (`FailClosedIsRepairable`, also proved), except at the first height, where there is no
  checkpoint key to start from, and except when the finalized block, which the
  command reads again, was reorganised away. A reorganisation of the block the
  update adds does no harm: the tip comes from the archive. The proof is for a
  pipeline with the command; `core` checks it without.

* **Both backends are the prover the pipeline is modelled with**
  (`ServiceRefined` in `ProofQueue` and in `LocalProver`, both proved): accepted once, answered
  once, the answer never changes. The local one can end up without a daemon, but
  only after it has reported a failure, which restarts the process
  (`LostDaemonReported`); a late answer never reaches the next request
  (`InSync`). These are proved too.

* **A retried call ends** within its attempts, and within its deadline plus a late
  timer and one request (`Bounded`, also proved; finding 4 is that last request); with the default policy the HTTP clients make
  all their attempts before the deadline (`AttemptsExhaustedFirst`, proved for
  every policy whose budget is ample), and an
  unknown outcome is never sent again (`NoBlindResend`, also proved).
* **The trees are right at every height** (`HonestBlockAccepted`,
  `ClaimsAreTheDeposits`, both proved for trees of any height): the path computed from the frontier alone, the one
  computed from the history and the full tree agree; the mined deposits and no
  others are claimed, and each once unless a list that repeats its tail was
  accepted, whatever of the modelled answers Electrs gives (`AcceptedAsMined`);
  and the deposit an evidence file names is claimed (`EvidenceIsClaimed`). These
  are proved too.
* **A proof is of the right program and the right transition** (`RightProgram`,
  `RightTransition`, both proved), whatever is replaced on disk and whatever old
  result Redis still holds.
* **With the start height set, the first proof starts from the bridge's state**
  (proved for reorganisations no deeper than the confirmations) and the first block
  is ingested in the end.
* **The cache reads as a store** (`ReadsYourWrites`, `StoreMovesForward`,
  `RangeIsExact`, all proved). `LeqErrsOnlyByCache` (proved for keys of any length)
  says for every state of the cache how far an ordered lookup (`get_leq`,
  `get_leq_kv`) may be from that of a plain store: the loop at KC 188 stops at the
  smallest cached entry, so a greater cached one is passed over, or answered with
  the store's old value; and a cached removal does not hide the store's entry.
  No document of `kvq` says
  what they should return, and nothing in the repository calls them on a cache,
  so this is recorded here and not as a finding. The same holds of the flag
  `delete` returns with `proper_delete_return` (KC 393), which looks the key up
  after it has been marked as removed.

Findings, each with the run that shows it:

1. *Recover forgets mints* (`recover_discard`). `recover` writes the checkpoint
   without looking at the journal or the mints (BP 2010). The next start finds
   checkpoint and chain equal and discards the journal with the owed mints.
2. *Stale discard* (`stale_discard`). `initialize` reads the bridge header first
   (BP 934) and compares it with the checkpoint several awaits later, without
   waiting for the updates of the previous run. If one of them lands in between,
   the "safe discard" (BP 3281–3296), which "was NOT submitted" is said of, deletes
   the journal of a submitted update. The process can still redo the height with
   the same idempotency key, which resets the mint buffer while mints are owed
   from it; if it stops before the next journal write, the next start fails
   closed, and the `recover` command is the way back.
3. *Result race* (`result_race`). `wait_result` reads the result, then the state
   (PQ 689, 702). A completion in between is reported as "Completed but its
   durable result is missing". A restart finds the result, so no job is lost
   (`EveryJobAnswered`).
4. *Late attempt* (`late_attempt`). The retry loop clamps its sleep to what is left
   of the budget and then makes another attempt, at the deadline or a late timer
   after it (NR 110–115); the comment at NR 99 says "do not start a new attempt or
   sleep past the deadline".

Observations made while modelling. No run is kept for these; each is a state the
model reaches once the condition named is dropped:

* *Repeated tail* (`ClaimsAreTheDeposits` without `~repeated`). A list of transactions
  whose repeated tail leaves the Merkle root unchanged passes the checks of the
  scan (BP 2316–2324), and its deposits are listed once more. The library behind
  `evaluate_claim_witness`, the guest and the bridge program may refuse it; they
  are not in this repository.
* *A deposit that cannot be evaluated* (`HonestBlockAccepted` without `evaluable`). One
  deposit below the flat fee, or at an output without an index, makes
  `evaluate_claim_witness` fail (BP 2485–2498) and with it the preparation of the
  block, on every attempt.
* *History limit* (`HonestBlockAccepted` without `room`). A history is built for
  start heights up to 1 000 000, with one leaf more than the height (BP 2059), and
  refused above 1 000 000 leaves (BP 3598): from 999 999 and 1 000 000 no block
  can be ingested, from lower heights none after 999 999, while from higher ones
  there is no limit.
* *Unanchored start* (`ProvesFromBridgeState` without its condition on
  `start_height`). Without a start height the first state is built at the
  finalized tip of the moment. The comparison meant to refuse this looks at
  `header_hex`, which is the configured header (BP 2068), and so always passes
  while the bridge still has that header.

## 5. What is proved

`BlockPipelineProofs` proves, for every value of the constants that satisfies
`ConfigAssumption` and `NoneAssumption` (any number of payloads and groups, any
window, chain length, number of faults and reorganisations, both backends,
restarts at any time):

| Theorem | Statement |
| --- | --- |
| `TypeCorrect` | `Spec => []TypeOK` |
| `PipelineInvariant` | `Spec => []PipelineInv` |
| `DurableIsMinted` | `Spec => []CheckpointImpliesMinted` |
| `PipelineRefinesLedger` | `Spec => LedgerRefined` |
| `QueueInvariant` | `Spec => []QueueInv` |
| `PreparedInOrder` | `Spec => []PreparedChain` |
| `RestartInvariant` | `Spec => []RestartInv` |
| `EveryStopIsRecoverable` | `Spec => []CrashRecoverable` |
| `DiscardIsSafe` | `Spec => []SafeUnlessOutlived` |
| `MintBufferIsStable` | `Spec => MintBufferStable` |
| `RepairInvariant` | `RecoverSpec => []RepairInv` |
| `RepairAlwaysPossible` | `RecoverSpec => []FailClosedIsRepairable` |

The other components, each from the named assumptions of its own module: any
jobs, workers, leases and faults (`QueueAssumption`), any channel size
(`LocalAssumption`), any policy and timeouts (`RetryAssumption`), any cache size,
chain and start heights (`FirstStartAssumption`), any builds, configurations and
pinned keys (`IdentityAssumption`), keys of any length, any values, readers
and bytes (`KvqAssumption`, `PairAssumption`), any heights of the two trees, blocks,
recipients, fee, confirmations, history limit and start heights
(`TreesAssumption`, `CapacityAssumption`). Where a variable may be `None`, the
module also assumes that `None` is not one of its other values; TLC evaluates
these assumptions on the runs.

| Module | Theorem | Statement |
| --- | --- | --- |
| `ProofQueueProofs` | `QueueInvariant` | `Spec => []QueueInv` |
| | `TypeCorrect` | `Spec => []TypeOK` |
| | `QueueIsExact` | `Spec => []QueueExact` |
| | `ResultsAreFenced` | `Spec => []ResultFenced` |
| | `QueueRefinesService` | `Spec => ServiceRefined` |
| `LocalProverProofs` | `LocalInvariant` | `Spec => []LocalInv` |
| | `TypeCorrect` | `Spec => []TypeOK` |
| | `PipesInSync` | `Spec => []InSync` |
| | `LostDaemonIsReported` | `Spec => []LostDaemonReported` |
| | `LocalRefinesService` | `Spec => ServiceRefined` |
| `NetworkRetryProofs` | `RetryInvariant` | `Spec => []RetryInv` |
| | `CallBounded` | `Spec => []Bounded` |
| | `NeverResentBlindly` | `Spec => NoBlindResend` |
| | `AttemptsRunOutFirst` | `Spec => []AttemptsExhaustedFirst`, given `AmpleBudget` |
| `FirstStartProofs` | `FirstInvariant` | `Spec => []FirstInv`, given `MaxDepth <= Confirmations` |
| | `FetchedHeadersAreOneChain` | `Spec => []CacheIsOneChain`, likewise |
| | `FirstBlockFollows` | `Spec => []FirstBlockIsNext`, likewise |
| | `StartsFromBridgeState` | `Spec => []ProvesFromBridgeState`, likewise |
| `ProofIdentityProofs` | `IdentityInvariant` | `Spec => []IdentityInv` |
| | `AcceptedProgramIsRight` | `Spec => []RightProgram` |
| | `AcceptedTransitionIsRight` | `Spec => []RightTransition` |
| | `IdsNeverCollide` | `Spec => []NoCollision` |
| `KvqCacheProofs` | `CacheInvariant` | `Spec => []CacheInv` |
| | `TypeCorrect` | `Spec => []TypeOK` |
| | `CacheReadsYourWrites` | `Spec => []ReadsYourWrites` |
| | `FlushMovesForward` | `Spec => StoreMovesForward` |
| | `RangesAreExact` | `Spec => []RangeIsExact` |
| | `LeqLookup` | `Spec => []LeqErrsOnlyByCache` |
| `DepositTreesProofs` | `TreesInvariant` | `Spec => []TreesInv` |
| | `HonestBlockIsAccepted` | `Spec => []HonestBlockAccepted` |
| | `ClaimsAreExact` | `Spec => []ClaimsAreTheDeposits` |
| | `AcceptedIsMined` | `Spec => []AcceptedAsMined` |
| | `EvidenceAlwaysClaimed` | `Spec => []EvidenceIsClaimed` |

**The pipeline and the ledger.** `CheckpointImpliesMinted` is not inductive: a step
that saves a checkpoint preserves it only if the mints are known to be complete
at that point, which depends on what the journal may claim, which depends on
which updates can still land. `PipelineInv` closes this circle:

* `HeightInv`: the chain is at the durable checkpoint or one accepted update
  beyond it;
* `FlightInv`: an update in flight starts at the durable checkpoint or below it,
  so at most one can still be accepted, and only from the durable checkpoint;
* `JournalInv`: the journal describes the step beyond the durable checkpoint, or
  an earlier one, and says "minted" only of an accepted and paid header;
* `SeenInv`: the header read at start-up is the chain's, or the chain has since
  moved on from the durable checkpoint (this is the window of the stale discard: it
  costs the journal, never the ledger);
* `MemoryInv`, `JobInv`, `ProcessInv`, `ProgressInv`: what the process holds
  agrees with what is durable and with how far the commit has got;
* `LogInv`, `PendingInv`: the durable checkpoint holds exactly the commitments of
  the accepted blocks that are not finalized, so the next header's payload is the
  one `MintLedger` expects.

Lemmas `Promotion` (making the next checkpoint durable re-establishes the
invariant), `LandStep` (an update lands) and `MintStep` carry the weight; the
other actions only move the program counter or touch parts the invariant does
not mention. `PipelineRefinesLedger` then maps `TxLand` to `Commit`, the two ways
a group is claimed to `MintGroup`, and everything else to stuttering.

**Prepared heights.** `PreparedChain` says of each transition in flight that some
other one ends where it starts; when `poll_once` takes the lowest one, only the
shape of the whole window tells that the rest still starts at the new committed
checkpoint. `QueueInv` (`ChainedFlight`, `WithinWindow`) says that the heights in
flight are exactly those from the committed checkpoint to the planned one, one
transition each, each starting where the one below ends; the window's size then
is the difference of the two heights.

**Restarts.** `CrashRecoverable` looks at three things that change at different
times: the durable checkpoint, the chain and the journal. `RestartInv` divides the
updates in flight in two. One that is not in `late` is answered for by the process
that sent it, which is at its send or has stopped; the chain has not moved since
and the journal names exactly this update (`SentInv`, `Fresh`). One in `late` may
land at any time, and the chain then shows a header that has outlived its process
until the next one is accepted. `StageInv` follows the journal through the four
writes of a commit. What was read at start-up is then still the chain's header or
the chain is in the excepted state, so a discard is of a journal nobody
needs, and an upload begins only while no mint is owed, with that one exception.

**Repair.** The `recover` command makes a checkpoint durable whose mints may be
owed (finding 1), so `PipelineInv` does not hold with it and cannot be used.
`RepairInv` keeps what survives: the journal may say anything of the mints but is
still of the durable checkpoint's next height or older (`JournalShape`), and every
update in flight, and the one that moved the chain, is on disk (`ArchiveInv`).
This is shown for every action of the pipeline and for the command, with
restarts that race with updates in flight.

**The queue.** Results are fenced because attempts only grow: `LeaseInv` ties the
number of a lease, of a task and of a result to the attempt key, and a task with
the newest number is of the worker the state key names. `FaultInv` accounts for
the claims (each but the last has cost a fault), which bounds the attempts.
`ListInv` is `QueueExact` said with positions instead of a count, which the submit,
pop and reclaim steps can preserve; `QueueIsExact` counts. The refinement then
maps the submit script to `Submit`, `Complete` and `Fail` to `Answer` and all else
to stuttering.

**The local prover.** `InSync` needs to know what the pipes hold while a request is
in hand: the request or its one line (`PipeInv`), and that the request in hand is
not in the channel any more (`RequestInv`).

**Retries and the cache.** `Bounded` needs to know where the timer may be set:
never past the deadline, and never after the last attempt (`TimeInv`,
`AttemptInv`); `NoBlindResend` follows from `UnknownEnds` and the lemma
`UnknownIsFatal`, which goes through every kind of reply. `ReadsYourWrites` says
nothing while a flush is under way or changes are in the caller's hands, so
`CacheInv` adds what has been written at each step of `flush_simple` (`Written`)
and that the changes handed out, applied to the store, give the promised one
(`InHand`). `AttemptsExhaustedFirst` holds because each round costs at most a
request, the longest delay and a late timer (`PaceInv`); the hypothesis
`AmpleBudget` says that all rounds but the last fit into the budget, as they do
for the default policy (19 rounds of 25.5 s in 600 s). `RangeIsExact` follows from
the same entry-wise invariant: the two chained parts of a range read have no key
in common.

**The first start.** `FirstInv` says that whatever the process has read so far is
what Electrs would still answer, because it is *settled*: at or below the
bridge's height, or `MaxDepth` below the tip. Replies to the parallel requests are
settled since the start height is `Confirmations` below a tip that was read. The
hypothesis `MaxDepth <= Confirmations` is the code's own ("reorg handling is out of
scope") and is tight: with a reorganisation one block deeper TLC finds two
branches in one cache.

**Identities.** `RightProgram` and `RightTransition` speak of an accepted proof, so
`IdentityInv` has to follow the job and the answer through Redis: a job lies under
the digest of its fields (`WellFormed`), an answer is honest about the program and
the request it proved (`Honest`, from the external prover), and the job in hand was
prepared under the running, validated configuration (`PreparedInv`). That hashes
do not collide is part of the model (a digest is the tuple of what it hashes).

**Loops over data.** The Merkle functions and the byte encoding are loops, and what
they compute for every input is an induction. The library's induction theorems
take an operator as a parameter and cannot be used by the installed provers, so
`Induction` is proved here for a *set* of numbers: a set that holds 0 and with each
number the next one holds all of them, because otherwise the numbers it leaves
out have a least one (`LeastNumber`, from the well-foundedness of the naturals).
`Iteration` then gives each recursive function its defining equation, and a
function over a longer range agrees with the one over a shorter range
(`Agreement`). Sequences are handled by their length (`SeqInduction`).

**The trees.** `TreesInv` says that a checkpoint's frontiers are `FrontierOf` the full
trees over the leaves the bridge state has: the last leaf with the siblings on
its path in the reference tree (`TreePath`). The argument:

* `SparseIsTreePath`: the siblings computed from a history are the reference
  path, since each level of the loop is a row of the tree (`SparseRows`) and what
  lies beyond the row is an empty subtree (`EmptySubtrees`);
* `SequentialIsTreePath`: the siblings of the next leaf, computed from the frontier
  alone, are the reference path too. A level whose bit becomes 1 has on its left
  the subtree that the carry just completed, and the leaves to the right are
  still empty;
* `AppendKeepsPath`: an appended leaf changes no node beside its own path, so the
  old root and the new one are reached along the same siblings, as the guest
  requires; `PathGivesRoot` leads from a leaf to the root;
* `BitcoinPathGivesRoot`: the path of every scanned transaction leads to the root of
  the block;
* `RootTellsEnds`: two non-empty lists with the same root begin with the same
  transaction and end with the same one, so an answer that is truncated or
  swapped is refused (`OnlyAsMined`); what is left is the mined list, or it with a
  tail repeated. The repetition adds leaves that are there already, which is why
  the *set* of claimed leaves is right in either case (`SameLeaves`);
* `TxDepositsAgree`, `BlockDeposits`: what the scan and the witness pass on is, in
  order, what the reference `DepositsOf` finds in the block.

`BuffersMatch` is needed beside it: a block that becomes final is compared with
buffers kept since it was ingested, so an honest answer is only accepted if these
are the buffers of the block that was mined then, and not of a repeated list.

**Ordered lookups.** `BytesOrder` shows that the keys of two numbers compare as the
numbers do: the first byte in which they differ is the first in which the numbers
without their trailing bytes differ. With `BytesOnto` (every key is the key of a
number) a range of keys is the image of a range of numbers (`RangeBelow`), and the
last key of a set is the key of its greatest number (`GreatestKey`), the first of
its least (`LeastKey`). `CacheLeq` then says what `get_leq_kv` merges: the *least* of
the cached entries and the *greatest* of the store, of which the greater is the
answer; `LeqLookup` reads off when that is not the greatest of both together.

Each of these invariants was checked by TLC on the instances of section 3 before
it was proved.

Only model-checked:

* liveness (`EveryFinalizedBlockCommitted`, `EveryJobAnswered`,
  `EveryRequestAnswered`, `EventuallyIngests`): fairness and `ENABLED` are out of the
  proof system's reach;
* the four violations (`recover_discard`, `stale_discard`, `result_race`,
  `late_attempt`), which are single behaviours.

## 6. What is not modelled

* SHA-256, the encodings of headers, blocks, proofs and evidence files; argument
  parsing and the reading of key files.
* Height artifacts (`read_optional_height_artifact`, BP 2083) with which an operator
  may replace generated buffers, and the comparison of buffers with the hashes and
  the amount that the transition library computes (`validate_buffer_payload`, BP
  3114).
* The Wormhole, Manager, withdrawal and bridge programs beyond what
  `commit_prepared` uses of them.
* Two coordinators on the same Redis seed. Nothing in the code excludes them;
  the deployment runs one.
* Corrupt JSON under a key: start-up ends with an error (`Exit`).
* In `kvq`: the asynchronous adapters and database traits, which have no
  implementation in the repository.
* `qed_dsol_bridge_core`: its proof store and job counters (`job/proof_store.rs`,
  `job/traits.rs`) and the tree planner are commented out of their `mod.rs` and not
  compiled; the drain, history and worker queues are trait declarations without
  an implementation; `job/id.rs` is a table of constants with record
  constructors; the rest are encodings of values. None of it changes state.

## 7. Plan

Done: `MintLedger`, `BlockPipeline`, its invariant and proofs, `PipelineRecover`,
`ProofService`, `ProofQueue`, `LocalProver`, `NetworkRetry`, `MerkleTrees`,
`DepositTrees`, `ProofIdentity`, `FirstStart`, `KvqStore`, `KvqCache`, and the proofs
of section 5. Apart from section 6, every part of the code that
keeps or changes state is modelled.

All safety properties, action properties and refinements that the passing runs
check are proved for every value of the constants. What is left is what section 6
lists, and liveness, which stays with TLC.
