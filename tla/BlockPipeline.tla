--------------------------- MODULE BlockPipeline ---------------------------
(***************************************************************************)
(* The coordinator of the Dogecoin -> Solana bridge                        *)
(* (qed_dsol_ibc_node_common/src/block_pipeline.rs): start-up and journal  *)
(* recovery (initialize, reconcile_checkpoint_journal), the polling loop   *)
(* that prepares blocks ahead of the committed tip (poll_once,             *)
(* prepare_height) and the ordered commit of one height (commit_prepared). *)
(* Every await of that code that touches shared state is a step of its     *)
(* own, and the process may stop between any two of them.                  *)
(*                                                                         *)
(* External: the Dogecoin chain as Electrs shows it, the prover, the       *)
(* Sender service and the Solana bridge program, modelled as this code     *)
(* uses them.                                                              *)
(***************************************************************************)
EXTENDS Naturals, Sequences, FiniteSets

CONSTANTS
    None,               \* an absent value (Option::None, missing key)
    Payloads,           \* deposit contents a block can have
    NoDeposits,         \* the payload of a block without deposits
    GroupsOf,           \* payload -> number of mint groups
    Conf,               \* required_confirmations
    StartHeight,        \* config.start_height
    HashCacheSize,      \* PSY_DOGE_BRIDGE_BLOCK_HASH_CACHE_SIZE
    Window,             \* proof_prepare_window
    RedisBackend,       \* TRUE: durable proof queue; FALSE: local prover
    MaxTip,             \* bound: height of the Dogecoin chain
    MaxMined,           \* bound: blocks ever mined
    MaxFaults,          \* bound: crashes, failed calls, bad proofs
    MaxReorgs           \* bound: reorganisations of the Dogecoin chain

ASSUME ConfigAssumption ==
    /\ Conf \in Nat \ {0}
    /\ StartHeight \in Nat \ {0}
    /\ HashCacheSize \in Nat
    /\ Window \in Nat \ {0}
    /\ {MaxTip, MaxMined, MaxFaults, MaxReorgs} \subseteq Nat
    /\ StartHeight <= MaxTip
    /\ StartHeight <= MaxMined
    /\ Conf <= StartHeight + 1
    /\ RedisBackend \in BOOLEAN
    /\ NoDeposits \in Payloads
    /\ GroupsOf \in [Payloads -> Nat]
    /\ GroupsOf[NoDeposits] = 0

---------------------------------------------------------------------------
Heights == 0..MaxTip

\* A block hash stands for the block, so a block is its number and payload.
Block == [id : 1..MaxMined, dep : Payloads]

\* PsyBridgeHeader: the Dogecoin tip, and the payload hash of the finalized
\* block whose mints this header makes payable. The bridge starts at
\* StartHeight.
Header == [height : StartHeight..MaxTip, tip : Block, fin : Payloads]

\* pending: the commitments (BlockBufferCommitment) not yet finalized.
PipelineCheckpoint ==
    [header : Header, pending : [Heights -> Payloads \cup {None}]]

\* A prepared transition with its proof job: content-addressed by the parent
\* checkpoint and the checkpoint it produces.
PreparedTransition == [parent : PipelineCheckpoint, next : PipelineCheckpoint]

CheckpointJournal ==
    [cp : PipelineCheckpoint, fin : Payloads \cup {None},
     uploaded : BOOLEAN, sig : BOOLEAN, minted : BOOLEAN]

ProofStatus == {"queued", "valid", "failed"}

\* None is no value of the program (evaluated by TLC on every run).
ASSUME NoneAssumption ==
    None \notin Payloads \cup Block \cup Header \cup PipelineCheckpoint
                \cup PreparedTransition \cup CheckpointJournal

VARIABLES
    \* the coordinator process
    pc,        \* the await it is at; "down" when it does not run
    cp,        \* self.checkpoint
    planned,   \* self.planned_checkpoint
    inflight,  \* self.inflight: prepared transitions with a proof job
    job,       \* the transition being committed or recovered
    draft,     \* the block prepare_height has fetched
    seen,      \* the on-chain header initialize has read
    ftip,      \* finalized_tip of this poll
    got,       \* mint groups this call of the mint processing has processed
    \* Redis and the disk
    rcp,       \* the checkpoint key
    rjr,       \* the journal key
    archive,   \* evidence directories
    \* the prover (durable in Redis when RedisBackend)
    proofs,
    \* Solana
    sol,       \* [header, done]: bridge header, claimed mint groups
    log,       \* history: the blocks whose headers were accepted
    mbuf,      \* contents of the pending-mint buffer (None: incomplete)
    tbuf,      \* contents of the TXO buffer
    txs,       \* block_update requests or transactions in flight
    late,      \* history: those of txs sent by a process that has since been
               \* replaced, and the last of them to land
    \* Dogecoin
    doge, mined,
    \* bounds
    faults, reorgs

local == <<pc, cp, planned, inflight, job, draft, seen, ftip, got>>
store == <<rcp, rjr, archive>>
solana == <<sol, log, mbuf, tbuf, txs, late>>
dogecoin == <<doge, mined, reorgs>>
vars == <<local, store, proofs, solana, dogecoin, faults>>

---------------------------------------------------------------------------
(* Checkpoints *)

InitHeader ==
    [height |-> StartHeight,
     tip |-> [id |-> StartHeight, dep |-> NoDeposits],
     fin |-> NoDeposits]

\* The checkpoint initialize_checkpoint builds when Redis holds none.
InitCheckpoint == [header |-> InitHeader, pending |-> [h \in Heights |-> None]]

Height(c) == c.header.height

\* The checkpoint a process that starts now would load.
Durable == IF rcp = None THEN InitCheckpoint ELSE rcp

NoEmptyCommitment(c, h) == c.pending[h - Conf]

\* resolve_finalized_buffers: what was recorded for the height, or nothing.
FinalizedBuffers(c, h) ==
    IF c.pending[h - Conf] = None THEN NoDeposits ELSE c.pending[h - Conf]

RemovesTooEarly(c, b) ==
    [c.pending EXCEPT ![Height(c) + 1] = b.dep, ![Height(c) + 2 - Conf] = None]

\* insert the new block's commitment, remove the finalized one.
NextPending(c, b) ==
    [c.pending EXCEPT ![Height(c) + 1] = b.dep, ![Height(c) + 1 - Conf] = None]

\* The checkpoint that follows c when block b is appended.
NextCheckpoint(c, b) ==
    [header |-> [height |-> Height(c) + 1, tip |-> b,
                 fin |-> FinalizedBuffers(c, Height(c) + 1)],
     pending |-> NextPending(c, b)]

Owed == GroupsOf[sol.header.fin]

MintsComplete == sol.done = Owed

---------------------------------------------------------------------------
Init ==
    /\ pc = "down"
    /\ cp = InitCheckpoint /\ planned = InitCheckpoint
    /\ inflight = {} /\ job = None /\ draft = None
    /\ seen = InitHeader /\ ftip = 0 /\ got = 0
    /\ rcp = None /\ rjr = None /\ archive = {} /\ proofs = {}
    /\ sol = [header |-> InitHeader, done |-> 0]
    /\ log = << >> /\ mbuf = None /\ tbuf = None /\ txs = {} /\ late = {}
    /\ doge = [h \in 1..StartHeight |-> [id |-> h, dep |-> NoDeposits]]
    /\ mined = StartHeight
    /\ faults = 0 /\ reorgs = 0

\* The process ends: its memory is gone, and with the local backend its
\* prover daemon and the jobs queued to it.
Terminate ==
    /\ pc' = "down"
    /\ cp' = InitCheckpoint /\ planned' = InitCheckpoint
    /\ inflight' = {} /\ job' = None /\ draft' = None
    /\ seen' = InitHeader /\ ftip' = 0 /\ got' = 0
    /\ proofs' = IF RedisBackend THEN proofs ELSE {}

\* Only the program counter moves in the process.
Goto(to) == pc' = to /\ UNCHANGED <<cp, planned, inflight, job, draft, seen,
                                    ftip, got, proofs>>

---------------------------------------------------------------------------
(* Start-up: initialize and reconcile_checkpoint_journal *)

\* The supervisor starts the process; it reads the on-chain bridge header and
\* does not ask whether an update of its predecessor is still in flight.
Start ==
    /\ pc = "down"
    /\ pc' = "load"
    /\ seen' = sol.header
    /\ late' = late \cup txs
    /\ UNCHANGED <<cp, planned, inflight, job, draft, ftip, got>>
    /\ UNCHANGED <<store, proofs, sol, log, mbuf, tbuf, txs, dogecoin, faults>>

\* electrs_tip.saturating_sub(required_confirmations)
FinalizedTip == IF Len(doge) > Conf THEN Len(doge) - Conf ELSE 0

\* Load the checkpoint, or initialize_checkpoint when there is none.
LoadCheckpoint ==
    /\ pc = "load"
    /\ IF \/ rcp # None
          \/ StartHeight <= FinalizedTip /\ StartHeight + 1 >= HashCacheSize
       THEN /\ pc' = "reconcile"
            /\ cp' = Durable
            /\ UNCHANGED <<planned, inflight, job, draft, seen, ftip, got,
                           proofs>>
       ELSE Terminate
    /\ UNCHANGED <<store, solana, dogecoin, faults>>

PromotesUnminted(c, chain, j) ==
    IF c.header = chain
    THEN IF j = None THEN "UpToDate" ELSE "DiscardStaleJournal"
    ELSE IF \/ j = None
            \/ Height(j.cp) # Height(c) + 1
            \/ j.cp.header # chain
         THEN "FailClosed"
         ELSE "PromoteCheckpoint"

TrustsSignature(c, chain, j) ==
    IF c.header = chain \/ (j # None /\ ~j.sig)
    THEN IF j = None THEN "UpToDate" ELSE "DiscardStaleJournal"
    ELSE IF j = None \/ j.cp.header # chain THEN "FailClosed"
         ELSE IF j.minted THEN "PromoteCheckpoint" ELSE "CompleteMint"

\* plan_journal_recovery, with the check of the raw key before it.
PlanJournalRecovery(c, chain, j) ==
    IF c.header = chain
    THEN IF j = None THEN "UpToDate" ELSE "DiscardStaleJournal"
    ELSE IF \/ j = None
            \/ Height(j.cp) # Height(c) + 1
            \/ j.cp.header # chain
         THEN "FailClosed"
         ELSE IF j.minted THEN "PromoteCheckpoint"
              ELSE IF j.fin = None \/ ~j.uploaded THEN "FailClosed"
                   ELSE "CompleteMint"

Plan == PlanJournalRecovery(cp, seen, rjr)

\* BlockPipeline is built: nothing planned beyond the committed checkpoint.
Ready(c) ==
    /\ pc' = "poll"
    /\ cp' = c /\ planned' = c
    /\ inflight' = {} /\ job' = None
    /\ UNCHANGED <<draft, seen, ftip, got, proofs>>

ReconcileUpToDate ==
    /\ pc = "reconcile" /\ Plan = "UpToDate"
    /\ Ready(cp)
    /\ UNCHANGED <<store, solana, dogecoin, faults>>

ReconcileStale ==
    /\ pc = "reconcile" /\ Plan = "DiscardStaleJournal"
    /\ Goto("discard")
    /\ UNCHANGED <<store, solana, dogecoin, faults>>

DiscardJournal ==
    /\ pc = "discard"
    /\ rjr' = None
    /\ Ready(cp)
    /\ UNCHANGED <<rcp, archive, solana, dogecoin, faults>>

ReconcileFailClosed ==
    /\ pc = "reconcile" /\ Plan = "FailClosed"
    /\ Terminate
    /\ UNCHANGED <<store, solana, dogecoin, faults>>

\* Keep the journal's checkpoint in hand while recovery goes on.
Recovering(to) ==
    /\ pc' = to
    /\ job' = [parent |-> cp, next |-> rjr.cp]
    /\ got' = 0
    /\ UNCHANGED <<cp, planned, inflight, draft, seen, ftip, proofs>>

ReconcilePromote ==
    /\ pc = "reconcile" /\ Plan = "PromoteCheckpoint"
    /\ Recovering("recsave")
    /\ UNCHANGED <<store, solana, dogecoin, faults>>

\* Mint processing is called only for a non-empty commitment.
ReconcileMint ==
    /\ pc = "reconcile" /\ Plan = "CompleteMint"
    /\ Recovering(IF GroupsOf[rjr.fin] = 0 THEN "recsave" ELSE "recmint")
    /\ UNCHANGED <<store, solana, dogecoin, faults>>

AssumesMinted ==
    /\ pc = "recmint"
    /\ Goto("recsave")
    /\ UNCHANGED <<store, solana, dogecoin, faults>>

\* mint_recovery_succeeded: only fully_completed counts here.
RecoverMintEnd ==
    /\ pc = "recmint" /\ MintsComplete
    /\ Goto("recsave")
    /\ UNCHANGED <<store, solana, dogecoin, faults>>

RecoverSave ==
    /\ pc = "recsave"
    /\ rcp' = job.next
    /\ Goto("recdel")
    /\ UNCHANGED <<rjr, archive, solana, dogecoin, faults>>

\* Delete the journal, then assert_checkpoint_matches_chain.
RecoverDelete ==
    /\ pc = "recdel"
    /\ rjr' = None
    /\ IF job.next.header = seen THEN Ready(job.next) ELSE Terminate
    /\ UNCHANGED <<rcp, archive, solana, dogecoin, faults>>

---------------------------------------------------------------------------
(* poll_once: prepare ahead, then take the next height in order *)

FetchTip ==
    /\ pc = "poll"
    /\ pc' = "prepare"
    /\ ftip' = FinalizedTip
    /\ UNCHANGED <<cp, planned, inflight, job, draft, seen, got>>
    /\ UNCHANGED <<store, proofs, solana, dogecoin, faults>>

StopsOneShort == Cardinality(inflight) < Window /\ Height(planned) + 1 < ftip

\* The while condition of poll_once.
MayPrepare == Cardinality(inflight) < Window /\ Height(planned) < ftip

\* First Electrs read of prepare_height; the block must extend the tip.
FetchBlock ==
    /\ pc = "prepare" /\ MayPrepare
    /\ LET h == Height(planned) + 1
       IN  IF h <= Len(doge) /\ doge[h - 1] = planned.header.tip
           THEN /\ pc' = "finalize"
                /\ draft' = doge[h]
                /\ UNCHANGED <<cp, planned, inflight, job, seen, ftip, got,
                               proofs>>
           ELSE Terminate
    /\ UNCHANGED <<store, solana, dogecoin, faults>>

\* The commitment of the finalized block, read from Electrs again, must agree
\* with the one recorded when the block was prepared.
FinalizedBlockAgrees(c, h) ==
    LET f == h - Conf
    IN  c.pending[f] # None => f <= Len(doge) /\ doge[f].dep = c.pending[f]

Enqueue(j) ==
    IF \E p \in proofs : p.job = j
    THEN proofs
    ELSE proofs \cup {[job |-> j, st |-> "queued"]}

\* Second Electrs read, next checkpoint, submission of the proof job.
SubmitJob ==
    /\ pc = "finalize"
    /\ LET h == Height(planned) + 1
           j == [parent |-> planned, next |-> NextCheckpoint(planned, draft)]
       IN  IF FinalizedBlockAgrees(planned, h)
           THEN /\ pc' = "prepare"
                /\ planned' = j.next
                /\ inflight' = inflight \cup {j}
                /\ proofs' = Enqueue(j)
                /\ draft' = None
                /\ UNCHANGED <<cp, job, seen, ftip, got>>
           ELSE Terminate
    /\ UNCHANGED <<store, solana, dogecoin, faults>>

TakesAny(j) == TRUE

\* inflight.remove(&(checkpoint.height + 1))
IsNext(j) == Height(j.next) = Height(cp) + 1

TakeNext(j) ==
    /\ pc = "prepare" /\ ~MayPrepare
    /\ IsNext(j)
    /\ pc' = "wait"
    /\ job' = j
    /\ inflight' = inflight \ {j}
    /\ UNCHANGED <<cp, planned, draft, seen, ftip, got>>
    /\ UNCHANGED <<store, proofs, solana, dogecoin, faults>>

Idle ==
    /\ pc = "prepare" /\ ~MayPrepare
    /\ \A j \in inflight : ~IsNext(j)
    /\ Goto("poll")
    /\ UNCHANGED <<store, solana, dogecoin, faults>>

---------------------------------------------------------------------------
(* commit_prepared *)

\* The proof is in. It is used only when it binds this transition and the
\* transition extends the committed checkpoint; anything else ends the process.
WaitProof(p) ==
    /\ pc = "wait"
    /\ p.job = job /\ p.st # "queued"
    /\ IF /\ p.st = "valid"
          /\ Height(job.next) = Height(cp) + 1
          /\ job.parent = cp
       THEN Goto("journal1")
       ELSE Terminate
    /\ UNCHANGED <<store, solana, dogecoin, faults>>

\* The journal written at each stage of the commit.
JournalOf(j, uploaded, sig, minted) ==
    [cp |-> j.next, fin |-> j.next.header.fin,
     uploaded |-> uploaded, sig |-> sig, minted |-> minted]

WriteJournal(from, to, j) ==
    /\ pc = from
    /\ rjr' = j
    /\ Goto(to)
    /\ UNCHANGED <<rcp, archive, solana, dogecoin, faults>>

Journal1 == WriteJournal("journal1", "upload", JournalOf(job, FALSE, FALSE, FALSE))

\* setup_pending_mints_buffer: resets the buffer and fills it.
UploadMintsBegin ==
    /\ pc = "upload"
    /\ mbuf' = None
    /\ Goto("fill")
    /\ UNCHANGED <<store, sol, log, tbuf, txs, late, dogecoin, faults>>

UploadMintsEnd ==
    /\ pc = "fill"
    /\ mbuf' = job.next.header.fin
    /\ Goto("txo")
    /\ UNCHANGED <<store, sol, log, tbuf, txs, late, dogecoin, faults>>

UploadTxo ==
    /\ pc = "txo"
    /\ tbuf' = job.next.header.fin
    /\ Goto("journal2")
    /\ UNCHANGED <<store, sol, log, mbuf, txs, late, dogecoin, faults>>

SkipsJournal2 == pc = "journal2" /\ Goto("evidence")
                 /\ UNCHANGED <<store, solana, dogecoin, faults>>
Journal2 == WriteJournal("journal2", "evidence", JournalOf(job, TRUE, FALSE, FALSE))

NoEvidence ==
    pc = "evidence" /\ Goto("send")
    /\ UNCHANGED <<store, solana, dogecoin, faults>>

PersistEvidence ==
    /\ pc = "evidence"
    /\ archive' = archive \cup {job}
    /\ Goto("send")
    /\ UNCHANGED <<rcp, rjr, solana, dogecoin, faults>>

\* sender.block_update: the Sender takes the request on (again, if it was
\* lost) as long as the chain does not yet show its outcome.
PostBlockUpdate ==
    /\ pc = "send"
    /\ job \notin txs /\ sol.header = job.parent.header
    /\ txs' = txs \cup {job}
    /\ UNCHANGED <<sol, log, mbuf, tbuf, late>>
    /\ UNCHANGED <<local, store, proofs, dogecoin, faults>>

TakesQueuedAsDone ==
    /\ pc = "send" /\ job \in txs
    /\ Goto("journal3")
    /\ UNCHANGED <<store, solana, dogecoin, faults>>

\* The Sender confirms the update of this idempotency key.
SendOk ==
    /\ pc = "send" /\ sol.header = job.next.header
    /\ Goto("journal3")
    /\ UNCHANGED <<store, solana, dogecoin, faults>>

\* The chain moved elsewhere: the update can never be accepted.
SendRejected ==
    /\ pc = "send" /\ sol.header \notin {job.parent.header, job.next.header}
    /\ Terminate
    /\ UNCHANGED <<store, solana, dogecoin, faults>>

Journal3 == WriteJournal("journal3", "mint", JournalOf(job, TRUE, TRUE, FALSE))

\* One group of process_remaining_pending_mints_groups, live or in recovery.
\* The on-chain tracker skips claimed groups.
MintGroup ==
    /\ pc \in {"mint", "recmint"}
    /\ ~MintsComplete /\ mbuf = sol.header.fin
    /\ sol' = [sol EXCEPT !.done = @ + 1]
    /\ got' = got + 1
    /\ UNCHANGED <<pc, cp, planned, inflight, job, draft, seen, ftip>>
    /\ UNCHANGED <<store, proofs, log, mbuf, tbuf, txs, late, dogecoin, faults>>

ReuploadsOnRetry ==
    /\ pc = "mint" /\ faults < MaxFaults /\ faults' = faults + 1
    /\ mbuf' = None
    /\ Goto("fill")
    /\ UNCHANGED <<store, sol, log, tbuf, txs, late, dogecoin>>

\* A retryable error: the call starts over and counts from zero; the group it
\* was working on may have been claimed.
MintRetry ==
    /\ pc \in {"mint", "recmint"}
    /\ faults < MaxFaults /\ faults' = faults + 1
    /\ \/ /\ got > 0
          /\ UNCHANGED sol
       \/ /\ ~MintsComplete /\ mbuf = sol.header.fin
          /\ sol' = [sol EXCEPT !.done = @ + 1]
    /\ got' = 0
    /\ UNCHANGED <<pc, cp, planned, inflight, job, draft, seen, ftip>>
    /\ UNCHANGED <<store, proofs, log, mbuf, tbuf, txs, late, dogecoin>>

\* process_finalized_mints: completed, and this call processed every mint.
MintEnd ==
    /\ pc = "mint" /\ MintsComplete
    /\ IF got = GroupsOf[job.next.header.fin]
       THEN /\ pc' = "journal4"
            /\ got' = 0
            /\ UNCHANGED <<cp, planned, inflight, job, draft, seen, ftip,
                           proofs>>
       ELSE Terminate
    /\ UNCHANGED <<store, solana, dogecoin, faults>>

Journal4 == WriteJournal("journal4", "save", JournalOf(job, TRUE, TRUE, TRUE))

SaveCheckpoint ==
    /\ pc = "save"
    /\ rcp' = job.next
    /\ cp' = job.next
    /\ pc' = "delete"
    /\ UNCHANGED <<planned, inflight, job, draft, seen, ftip, got>>
    /\ UNCHANGED <<rjr, archive, proofs, solana, dogecoin, faults>>

\* Delete the journal; the evidence manifest is marked minted.
DeleteJournal ==
    /\ pc = "delete"
    /\ rjr' = None
    /\ pc' = "poll"
    /\ job' = None
    /\ UNCHANGED <<cp, planned, inflight, draft, seen, ftip, got>>
    /\ UNCHANGED <<rcp, archive, proofs, solana, dogecoin, faults>>

---------------------------------------------------------------------------
(* Failures, and the external systems *)

\* SIGTERM, a crash, the watchdog, or any await that returns an error.
Exit ==
    /\ pc # "down"
    /\ faults < MaxFaults /\ faults' = faults + 1
    /\ Terminate
    /\ UNCHANGED <<store, solana, dogecoin>>

\* External: the prover answers a queued job.
ProverAnswers(p, st) ==
    /\ p.st = "queued"
    /\ proofs' = (proofs \ {p}) \cup {[p EXCEPT !.st = st]}
    /\ UNCHANGED <<local, store, solana, dogecoin>>

ProverSucceeds(p) == ProverAnswers(p, "valid") /\ UNCHANGED faults

ProverFails(p) ==
    /\ faults < MaxFaults /\ faults' = faults + 1
    /\ ProverAnswers(p, "failed")

\* External: the program checks the proof against its current header and the
\* buffers against the new one.
Acceptable(t) ==
    /\ sol.header = t.parent.header
    /\ mbuf = t.next.header.fin /\ tbuf = t.next.header.fin

TxLand(t) ==
    /\ Acceptable(t)
    /\ sol' = [header |-> t.next.header, done |-> 0]
    /\ log' = Append(log, t.next.header.tip)
    /\ txs' = txs \ {t} /\ late' = late \cap txs
    /\ UNCHANGED <<mbuf, tbuf>>
    /\ UNCHANGED <<local, store, proofs, dogecoin, faults>>

\* External: a request or transaction is lost; or it can no longer succeed.
TxLost(t) ==
    /\ Acceptable(t)
    /\ faults < MaxFaults /\ faults' = faults + 1
    /\ txs' = txs \ {t} /\ late' = late \ {t}
    /\ UNCHANGED <<sol, log, mbuf, tbuf>>
    /\ UNCHANGED <<local, store, proofs, dogecoin>>

TxExpire(t) ==
    /\ ~Acceptable(t)
    /\ txs' = txs \ {t} /\ late' = late \ {t}
    /\ UNCHANGED <<sol, log, mbuf, tbuf>>
    /\ UNCHANGED <<local, store, proofs, dogecoin, faults>>

\* External: Dogecoin. The start block itself is never reorganised away.
MineBlock(d) ==
    /\ Len(doge) < MaxTip /\ mined < MaxMined
    /\ mined' = mined + 1
    /\ doge' = Append(doge, [id |-> mined + 1, dep |-> d])
    /\ UNCHANGED reorgs
    /\ UNCHANGED <<local, store, proofs, solana, faults>>

Reorg(h) ==
    /\ reorgs < MaxReorgs /\ reorgs' = reorgs + 1
    /\ StartHeight <= h /\ h < Len(doge)
    /\ doge' = SubSeq(doge, 1, h)
    /\ UNCHANGED mined
    /\ UNCHANGED <<local, store, proofs, solana, faults>>

---------------------------------------------------------------------------
Initialize ==
    \/ LoadCheckpoint
    \/ ReconcileUpToDate \/ ReconcileStale \/ DiscardJournal
    \/ ReconcileFailClosed \/ ReconcilePromote \/ ReconcileMint
    \/ RecoverMintEnd \/ RecoverSave \/ RecoverDelete

PollOnce ==
    \/ FetchTip \/ FetchBlock \/ SubmitJob \/ Idle
    \/ \E j \in inflight : TakeNext(j)

CommitPrepared ==
    \/ \E p \in proofs : WaitProof(p)
    \/ Journal1 \/ UploadMintsBegin \/ UploadMintsEnd \/ UploadTxo
    \/ Journal2 \/ PersistEvidence
    \/ PostBlockUpdate \/ SendOk \/ SendRejected
    \/ Journal3 \/ MintGroup \/ MintEnd
    \/ Journal4 \/ SaveCheckpoint \/ DeleteJournal

Coordinator == Initialize \/ PollOnce \/ CommitPrepared

Environment ==
    \/ Exit \/ MintRetry
    \/ \E p \in proofs : ProverSucceeds(p) \/ ProverFails(p)
    \/ \E t \in txs : TxLand(t) \/ TxLost(t) \/ TxExpire(t)
    \/ \E d \in Payloads : MineBlock(d)
    \/ \E h \in Heights : Reorg(h)

Next == Start \/ Coordinator \/ Environment

Spec == Init /\ [][Next]_vars

\* The supervisor restarts the process, the process keeps executing, the
\* prover answers, and transactions land or expire.
Fairness ==
    /\ WF_vars(Start)
    /\ WF_vars(Coordinator)
    /\ WF_vars(\E p \in proofs : ProverSucceeds(p))
    /\ WF_vars(\E t \in txs : TxLand(t))
    /\ WF_vars(\E t \in txs : TxExpire(t))

FairSpec == Spec /\ Fairness

---------------------------------------------------------------------------
(* Properties *)

Option(S) == S \cup {None}

PcValues ==
    {"down", "load", "reconcile", "discard", "recmint", "recsave", "recdel",
     "poll", "prepare", "finalize", "wait", "journal1", "upload", "fill",
     "txo", "journal2", "evidence", "send", "journal3", "mint", "journal4",
     "save", "delete"}

ProcessTypeOK ==
    /\ pc \in PcValues
    /\ cp \in PipelineCheckpoint /\ planned \in PipelineCheckpoint
    /\ inflight \in SUBSET PreparedTransition
    /\ job \in Option(PreparedTransition)
    /\ draft \in Option(Block)
    /\ seen \in Header
    /\ ftip \in Heights
    /\ got \in Nat
    /\ proofs \in SUBSET [job : PreparedTransition, st : ProofStatus]

StoreTypeOK ==
    /\ rcp \in Option(PipelineCheckpoint)
    /\ rjr \in Option(CheckpointJournal)
    /\ archive \in SUBSET PreparedTransition

SolanaTypeOK ==
    /\ sol \in [header : Header, done : Nat]
    /\ log \in Seq(Block)
    /\ mbuf \in Option(Payloads) /\ tbuf \in Option(Payloads)
    /\ txs \in SUBSET PreparedTransition /\ late \in SUBSET PreparedTransition

DogecoinTypeOK ==
    /\ doge \in Seq(Block) /\ Len(doge) \in StartHeight..MaxTip
    /\ mined \in StartHeight..MaxMined
    /\ reorgs \in 0..MaxReorgs

\* Every variable holds a value of its kind: heights stay between the start
\* and the top of the chain, journals and prepared transitions are whole.
TypeOK ==
    ProcessTypeOK /\ StoreTypeOK /\ SolanaTypeOK /\ DogecoinTypeOK
    /\ faults \in 0..MaxFaults

\* A checkpoint that agrees with the chain is only ever durable once the
\* deposits its header made payable are all minted: a restart at that
\* checkpoint resumes with the next block and never looks back
\* (commit_prepared saves last; recovery saves after the mints).
CheckpointImpliesMinted == Durable.header = sol.header => MintsComplete

\* Discarding a "stale" journal at start-up never throws away the only record
\* of mints that are still owed: what reconcile_checkpoint_journal says of it
\* ("the last block_update was NOT submitted", a safe discard).
SafeDiscard == pc = "discard" => MintsComplete

\* The chain shows an update that outlived its process: it landed after a
\* later process had read the header and planned its recovery from it.
Outlived == \E t \in late : t.next.header = sol.header

\* The discard is safe in every other case: through every crash, retry,
\* partial mint and reorganisation, the journal of a header whose mints are
\* owed is thrown away only when that header landed behind the back of the
\* process that discards.
SafeUnlessOutlived == pc = "discard" => MintsComplete \/ Outlived

\* The Solana side only ever sees what MintLedger allows, through every crash,
\* late transaction and reorganisation: the headers accepted are one chain,
\* each makes exactly the deposits of the block Conf below it payable, and
\* none is accepted before the mints of the one before it are complete.
Ledger == INSTANCE MintLedger WITH chain <- log, done <- sol.done,
                                   Blocks <- Block
LedgerRefined == Ledger!Spec

\* While mints are owed, the one buffer they are read from is not touched
\* (upload_finalized_buffers reuses the same account for every height), unless
\* the header they belong to outlived its process: the redo of that height then
\* resets the buffer under them.
MintBufferStable == [][~MintsComplete /\ mbuf' # mbuf => Outlived]_vars

\* Whenever the process stops, the next start can reconcile: the chain never
\* advances past the durable checkpoint without a usable journal for exactly
\* that header. The one exception is an update that outlived its process: it
\* may land after the restart has discarded or replaced its journal.
FailsClosed == PlanJournalRecovery(Durable, sol.header, rjr) = "FailClosed"
CrashRecoverable == FailsClosed => Outlived

\* poll_once prepares an unbroken chain of heights above the committed one and
\* takes them in order, so the fingerprint and height checks with which
\* commit_prepared starts can never fail in a live process.
InOrder(j) ==
    \/ j.parent = cp
    \/ \E i \in inflight \cup (IF job = None THEN {} ELSE {job}) : i.next = j.parent
PreparedChain ==
    /\ pc = "wait" => job.parent = cp
    /\ \A j \in inflight : InOrder(j)
    /\ pc \in {"poll", "prepare", "finalize"} =>
         Height(planned) = Height(cp) + Cardinality(inflight)

\* The three states in which the code waits for an operator: a chain it cannot
\* reconcile with (by CrashRecoverable, only after an update outlived its
\* process); a failed or unusable proof of the next transition, kept in Redis;
\* a Dogecoin reorganisation deeper than the confirmations.
Halted ==
    \/ pc = "down" /\ FailsClosed
    \/ RedisBackend /\ \E p \in proofs : p.st = "failed" /\ p.job.parent = Durable
    \/ \E c \in {Durable.header, sol.header} :
         c.height > Len(doge) \/ doge[c.height] # c.tip

\* The durable checkpoint catches up with the confirmed chain again and again
\* (so every block that stays confirmed is covered and, by
\* CheckpointImpliesMinted, what it finalized is paid), through crashes, lost
\* requests, failed proofs and reorganisations, unless the bridge has halted.
EveryFinalizedBlockCommitted ==
    []<>(Height(Durable) >= FinalizedTip \/ Halted)

=============================================================================
