------------------------- MODULE BlockPipelineProofs -------------------------
(***************************************************************************)
(* Proofs about BlockPipeline for every configuration: typing, the         *)
(* inductive invariant PipelineInv, and from it CheckpointImpliesMinted    *)
(* and the refinement of MintLedger; that poll_once prepares an unbroken   *)
(* chain of heights; that every stop of the process can be recovered from  *)
(* when the supervisor waits for the updates in flight; and that, when it  *)
(* does not, the `recover` command can repair what start-up refuses.       *)
(***************************************************************************)
EXTENDS PipelineRecover, FiniteSetTheorems, TLAPS

---------------------------------------------------------------------------
(* Types of the values the actions build *)

\* The initial header and checkpoint are values of their kinds.
LEMMA InitTypes ==
    /\ InitHeader \in Header
    /\ InitCheckpoint \in PipelineCheckpoint
    /\ Height(InitCheckpoint) = StartHeight
BY ConfigAssumption
DEF InitHeader, InitCheckpoint, Header, PipelineCheckpoint, Block, Heights, Height

\* A checkpoint's header and pending map.
LEMMA CheckpointFields ==
    ASSUME NEW c \in PipelineCheckpoint
    PROVE  /\ c.header \in Header
           /\ Height(c) \in Heights /\ Height(c) \in Nat /\ Height(c) >= StartHeight
           /\ c.header.fin \in Payloads /\ c.header.tip \in Block
           /\ c.pending \in [Heights -> Payloads \cup {None}]
           /\ c # None
BY NoneAssumption, ConfigAssumption DEF PipelineCheckpoint, Header, Heights, Height

\* What is finalized at the next height is a payload.
LEMMA FinalizedBuffersType ==
    ASSUME NEW c \in PipelineCheckpoint, Height(c) < MaxTip
    PROVE  FinalizedBuffers(c, Height(c) + 1) \in Payloads
<1>1. Height(c) + 1 - Conf \in Heights
  BY CheckpointFields, ConfigAssumption DEF Heights
<1> QED
  BY <1>1, CheckpointFields, ConfigAssumption DEF FinalizedBuffers

\* Appending a block to a checkpoint below the top yields a checkpoint.
LEMMA NextCheckpointType ==
    ASSUME NEW c \in PipelineCheckpoint, NEW b \in Block,
           Height(c) < MaxTip
    PROVE  /\ NextCheckpoint(c, b) \in PipelineCheckpoint
           /\ Height(NextCheckpoint(c, b)) = Height(c) + 1
<1> DEFINE n == NextCheckpoint(c, b)
<1>1. Height(c) + 1 \in StartHeight..MaxTip
  BY CheckpointFields, ConfigAssumption DEF Heights
<1>2. NextPending(c, b) \in [Heights -> Payloads \cup {None}]
  BY CheckpointFields DEF NextPending, Block
<1>3. [height |-> Height(c) + 1, tip |-> b,
       fin |-> FinalizedBuffers(c, Height(c) + 1)] \in Header
  BY <1>1, FinalizedBuffersType DEF Header
<1> QED
  BY <1>2, <1>3 DEF NextCheckpoint, PipelineCheckpoint, Height

\* Pairs of checkpoints are prepared transitions, and the other way round.
LEMMA TransitionFields ==
    /\ \A a, b \in PipelineCheckpoint :
         [parent |-> a, next |-> b] \in PreparedTransition
    /\ \A j \in PreparedTransition :
         /\ j.parent \in PipelineCheckpoint /\ j.next \in PipelineCheckpoint
         /\ j # None
BY NoneAssumption DEF PreparedTransition

\* The journal a commit writes is a journal.
LEMMA JournalType ==
    ASSUME NEW j \in PreparedTransition, NEW u \in BOOLEAN, NEW s \in BOOLEAN,
           NEW m \in BOOLEAN
    PROVE  /\ JournalOf(j, u, s, m) \in CheckpointJournal
           /\ JournalOf(j, u, s, m) # None
<1>1. JournalOf(j, u, s, m) \in CheckpointJournal
  BY TransitionFields, CheckpointFields DEF JournalOf, CheckpointJournal
<1> QED
  BY <1>1, NoneAssumption

\* A journal's fields.
LEMMA JournalFields ==
    ASSUME NEW j \in CheckpointJournal
    PROVE  /\ j.cp \in PipelineCheckpoint
           /\ j.minted \in BOOLEAN /\ j.uploaded \in BOOLEAN
           /\ j # None
BY NoneAssumption DEF CheckpointJournal

\* The checkpoint the next start would load is a checkpoint.
LEMMA DurableType == StoreTypeOK => Durable \in PipelineCheckpoint
BY InitTypes DEF StoreTypeOK, Durable, Option

---------------------------------------------------------------------------
(* Typing *)

TypeInv == TypeOK /\ ProcessInv

\* The initial state is typed.
LEMMA InitTypeInv == Init => TypeInv
<1> SUFFICES ASSUME Init PROVE TypeInv
  OBVIOUS
<1>1. ProcessTypeOK /\ ProcessInv
  BY InitTypes, ConfigAssumption
  DEF Init, ProcessTypeOK, PcValues, Option, Heights, ProcessInv, JobPcs, CommitPcs
<1>2. StoreTypeOK
  BY DEF Init, StoreTypeOK, Option
<1>3. SolanaTypeOK
  BY InitTypes DEF Init, SolanaTypeOK, Option
<1>4. DogecoinTypeOK /\ faults \in 0..MaxFaults
  <2>1. doge \in Seq(Block) /\ Len(doge) = StartHeight
    BY ConfigAssumption DEF Init, Block
  <2> QED
    BY <2>1, ConfigAssumption DEF Init, DogecoinTypeOK
<1> QED
  BY <1>1, <1>2, <1>3, <1>4 DEF TypeInv, TypeOK

\* A process that ends leaves a typed, empty process behind.
LEMMA TerminateType ==
    ASSUME ProcessTypeOK, Terminate
    PROVE  ProcessTypeOK' /\ ProcessInv'
BY InitTypes, ConfigAssumption
DEF Terminate, ProcessTypeOK, ProcessInv, PcValues, Option, JobPcs, CommitPcs, Heights

\* Moving between program points that keep their job keeps the types.
LEMMA GotoType ==
    ASSUME ProcessTypeOK, ProcessInv, NEW to \in PcValues \ {"finalize"},
           Goto(to), to \in JobPcs => job # None
    PROVE  ProcessTypeOK' /\ ProcessInv'
BY DEF Goto, ProcessTypeOK, ProcessInv

\* A start-up that is done, with the checkpoint it settled on.
LEMMA ReadyType ==
    ASSUME ProcessTypeOK, NEW c \in PipelineCheckpoint, Ready(c)
    PROVE  ProcessTypeOK' /\ ProcessInv'
BY DEF Ready, ProcessTypeOK, ProcessInv, PcValues, Option, JobPcs, CommitPcs

\* Steps of initialize and reconcile_checkpoint_journal keep the types.
LEMMA InitializeType ==
    ASSUME TypeInv, Initialize
    PROVE  TypeInv'
<1> USE DEF TypeInv, TypeOK
<1>0. UNCHANGED <<solana, dogecoin, faults>>
  BY DEF Initialize, LoadCheckpoint, ReconcileUpToDate, ReconcileStale,
         DiscardJournal, ReconcileFailClosed, ReconcilePromote, ReconcileMint,
         RecoverMintEnd, RecoverSave, RecoverDelete
<1>1. SolanaTypeOK' /\ DogecoinTypeOK' /\ (faults \in 0..MaxFaults)'
  BY <1>0 DEF solana, dogecoin, SolanaTypeOK, DogecoinTypeOK
<1>2. ASSUME NEW to \in {"recsave", "recmint"}, Recovering(to), rjr # None
      PROVE  ProcessTypeOK' /\ ProcessInv'
  <2>1. [parent |-> cp, next |-> rjr.cp] \in PreparedTransition
    BY <1>2, JournalFields, TransitionFields DEF ProcessTypeOK, StoreTypeOK, Option
  <2> QED
    BY <1>2, <2>1, TransitionFields
    DEF Recovering, ProcessTypeOK, ProcessInv, PcValues, Option
<1>3. pc \in {"recsave", "recmint", "recdel"} =>
        job.next \in PipelineCheckpoint /\ job # None
  BY TransitionFields
  DEF ProcessTypeOK, ProcessInv, Option, JobPcs, CommitPcs
<1>4. CASE LoadCheckpoint
  <2>1. StoreTypeOK'
    BY <1>4 DEF LoadCheckpoint, store, StoreTypeOK
  <2>2. CASE Terminate
    BY <1>1, <2>1, <2>2, TerminateType
  <2>3. CASE pc' = "reconcile" /\ cp' = Durable
             /\ UNCHANGED <<planned, inflight, job, draft, seen, ftip, got, proofs>>
    BY <1>1, <2>1, <2>3, DurableType
    DEF ProcessTypeOK, ProcessInv, PcValues, JobPcs, CommitPcs
  <2> QED
    BY <1>4, <2>2, <2>3 DEF LoadCheckpoint
<1>5. CASE ReconcileUpToDate
  BY <1>1, <1>5, ReadyType
  DEF ReconcileUpToDate, store, StoreTypeOK, ProcessTypeOK
<1>6. CASE ReconcileStale
  BY <1>1, <1>6, GotoType
  DEF ReconcileStale, store, StoreTypeOK, PcValues, JobPcs, CommitPcs
<1>7. CASE DiscardJournal
  BY <1>1, <1>7, ReadyType
  DEF DiscardJournal, StoreTypeOK, Option, ProcessTypeOK
<1>8. CASE ReconcileFailClosed
  BY <1>1, <1>8, TerminateType DEF ReconcileFailClosed, store, StoreTypeOK
<1>9. CASE ReconcilePromote
  <2>1. rjr # None
    BY <1>9 DEF ReconcilePromote, Plan, PlanJournalRecovery
  <2> QED
    BY <1>1, <1>2, <1>9, <2>1 DEF ReconcilePromote, store, StoreTypeOK
<1>10. CASE ReconcileMint
  <2>1. rjr # None
    BY <1>10 DEF ReconcileMint, Plan, PlanJournalRecovery
  <2>2. Recovering("recsave") \/ Recovering("recmint")
    BY <1>10 DEF ReconcileMint
  <2> QED
    BY <1>1, <1>2, <1>10, <2>1, <2>2 DEF ReconcileMint, store, StoreTypeOK
<1>11. CASE RecoverMintEnd
  BY <1>1, <1>3, <1>11, GotoType DEF RecoverMintEnd, store, StoreTypeOK, PcValues
<1>12. CASE RecoverSave
  BY <1>1, <1>3, <1>12, GotoType DEF RecoverSave, StoreTypeOK, PcValues, Option
<1>13. CASE RecoverDelete
  BY <1>1, <1>3, <1>13, ReadyType, TerminateType
  DEF RecoverDelete, StoreTypeOK, Option
<1> QED
  BY <1>4, <1>5, <1>6, <1>7, <1>8, <1>9, <1>10, <1>11, <1>12, <1>13 DEF Initialize

\* Steps of poll_once keep the types.
LEMMA PollOnceType ==
    ASSUME TypeInv, PollOnce
    PROVE  TypeInv'
<1> USE DEF TypeInv, TypeOK
<1>0. UNCHANGED <<store, solana, dogecoin, faults>>
  BY DEF PollOnce, FetchTip, FetchBlock, SubmitJob, TakeNext, Idle
<1>1. StoreTypeOK' /\ SolanaTypeOK' /\ DogecoinTypeOK' /\ (faults \in 0..MaxFaults)'
  BY <1>0 DEF store, solana, dogecoin, StoreTypeOK, SolanaTypeOK, DogecoinTypeOK
<1>2. CASE FetchTip
  <2>1. FinalizedTip \in Heights
    BY ConfigAssumption DEF FinalizedTip, Heights, DogecoinTypeOK
  <2> QED
    BY <1>1, <1>2, <2>1
    DEF FetchTip, ProcessTypeOK, ProcessInv, PcValues, JobPcs, CommitPcs
<1>3. CASE FetchBlock
  <2>1. Height(planned) < MaxTip /\ Height(planned) \in Nat
        /\ Height(planned) >= StartHeight
    BY <1>3, CheckpointFields, ConfigAssumption
    DEF FetchBlock, MayPrepare, ProcessTypeOK, Heights
  <2>2. Height(planned) + 1 <= Len(doge) => doge[Height(planned) + 1] \in Block
    BY <2>1, ConfigAssumption DEF DogecoinTypeOK
  <2>3. CASE Terminate
    BY <1>1, <2>3, TerminateType
  <2>4. CASE /\ Height(planned) + 1 <= Len(doge)
             /\ pc' = "finalize" /\ draft' = doge[Height(planned) + 1]
             /\ UNCHANGED <<cp, planned, inflight, job, seen, ftip, got, proofs>>
    <3>1. ProcessTypeOK'
      BY <2>2, <2>4 DEF ProcessTypeOK, PcValues, Option
    <3>2. ProcessInv'
      BY <2>1, <2>2, <2>4, NoneAssumption DEF ProcessInv, JobPcs, CommitPcs, Height
    <3> QED
      BY <1>1, <3>1, <3>2
  <2> QED
    BY <1>3, <2>3, <2>4 DEF FetchBlock
<1>4. CASE SubmitJob
  <2> DEFINE j == [parent |-> planned, next |-> NextCheckpoint(planned, draft)]
  <2>1. j \in PreparedTransition /\ j.next \in PipelineCheckpoint
    BY <1>4, NextCheckpointType, TransitionFields
    DEF SubmitJob, ProcessTypeOK, ProcessInv, Option
  <2>2. Enqueue(j) \in SUBSET [job : PreparedTransition, st : ProofStatus]
    BY <2>1 DEF Enqueue, ProcessTypeOK, ProofStatus
  <2>3. CASE Terminate
    BY <1>1, <2>3, TerminateType
  <2>4. CASE /\ pc' = "prepare" /\ planned' = j.next
             /\ inflight' = inflight \cup {j}
             /\ proofs' = Enqueue(j)
             /\ draft' = None
             /\ UNCHANGED <<cp, job, seen, ftip, got>>
    BY <1>1, <2>1, <2>2, <2>4
    DEF ProcessTypeOK, ProcessInv, PcValues, Option, JobPcs, CommitPcs
  <2> QED
    BY <1>4, <2>3, <2>4 DEF SubmitJob
<1>5. CASE \E j \in inflight : TakeNext(j)
  BY <1>1, <1>5, TransitionFields
  DEF TakeNext, ProcessTypeOK, ProcessInv, PcValues, Option
<1>6. CASE Idle
  BY <1>1, <1>6, GotoType DEF Idle, PcValues, JobPcs, CommitPcs
<1> QED
  BY <1>2, <1>3, <1>4, <1>5, <1>6 DEF PollOnce

\* Steps of commit_prepared keep the types.
LEMMA CommitPreparedType ==
    ASSUME TypeInv, CommitPrepared
    PROVE  TypeInv'
<1> USE DEF TypeInv, TypeOK
<1>0. UNCHANGED <<dogecoin, faults>>
  BY DEF CommitPrepared, WaitProof, WriteJournal, Journal1, UploadMintsBegin,
         UploadMintsEnd, UploadTxo, Journal2, PersistEvidence, PostBlockUpdate,
         SendOk, SendRejected, Journal3, MintGroup, MintEnd, Journal4,
         SaveCheckpoint, DeleteJournal
<1>1. DogecoinTypeOK' /\ (faults \in 0..MaxFaults)'
  BY <1>0 DEF dogecoin, DogecoinTypeOK
<1>2. pc \in JobPcs =>
        /\ job # None /\ job \in PreparedTransition
        /\ job.next \in PipelineCheckpoint
        /\ job.next.header.fin \in Payloads
  BY TransitionFields, CheckpointFields DEF ProcessTypeOK, ProcessInv, Option
<1>3. ASSUME NEW from \in JobPcs, NEW to \in JobPcs \cap PcValues,
             NEW u \in BOOLEAN, NEW g \in BOOLEAN, NEW m \in BOOLEAN,
             WriteJournal(from, to, JournalOf(job, u, g, m))
      PROVE  TypeInv'
  <2>1. pc = from /\ Goto(to) /\ rjr' = JournalOf(job, u, g, m)
        /\ UNCHANGED <<rcp, archive, solana>>
    BY <1>3 DEF WriteJournal
  <2>2. ProcessTypeOK' /\ ProcessInv'
    BY <1>2, <2>1, GotoType DEF JobPcs, CommitPcs
  <2>3. StoreTypeOK'
    BY <1>2, <2>1, JournalType DEF StoreTypeOK, Option
  <2>4. SolanaTypeOK'
    BY <2>1 DEF solana, SolanaTypeOK
  <2> QED
    BY <1>1, <2>2, <2>3, <2>4
<1>4. CASE \E p \in proofs : WaitProof(p)
  <2>1. pc = "wait" /\ (Goto("journal1") \/ Terminate) /\ UNCHANGED <<store, solana>>
    BY <1>4 DEF WaitProof
  <2>2. ProcessTypeOK' /\ ProcessInv'
    BY <1>2, <2>1, GotoType, TerminateType DEF JobPcs, CommitPcs, PcValues
  <2> QED
    BY <1>1, <2>1, <2>2 DEF store, solana, StoreTypeOK, SolanaTypeOK
<1>5. CASE Journal1 \/ Journal2 \/ Journal3 \/ Journal4
  BY <1>3, <1>5
  DEF Journal1, Journal2, Journal3, Journal4, JobPcs, CommitPcs, PcValues
<1>6. CASE UploadMintsBegin \/ UploadMintsEnd \/ UploadTxo
  <2>1. /\ pc \in {"upload", "fill", "txo"}
        /\ Goto("fill") \/ Goto("txo") \/ Goto("journal2")
        /\ UNCHANGED <<store, sol, log, txs>>
    BY <1>6 DEF UploadMintsBegin, UploadMintsEnd, UploadTxo
  <2>2. pc \in JobPcs
    BY <2>1 DEF JobPcs, CommitPcs
  <2>3. ProcessTypeOK' /\ ProcessInv'
    BY <1>2, <2>1, <2>2, GotoType DEF PcValues
  <2>4. SolanaTypeOK'
    BY <1>2, <1>6, <2>1, <2>2
    DEF UploadMintsBegin, UploadMintsEnd, UploadTxo, SolanaTypeOK, Option
  <2> QED
    BY <1>1, <2>1, <2>3, <2>4 DEF store, StoreTypeOK
<1>7. CASE PersistEvidence
  <2>1. pc \in JobPcs
    BY <1>7 DEF PersistEvidence, JobPcs, CommitPcs
  <2>2. ProcessTypeOK' /\ ProcessInv'
    BY <1>2, <1>7, <2>1, GotoType DEF PersistEvidence, PcValues
  <2> QED
    BY <1>1, <1>2, <1>7, <2>1, <2>2
    DEF PersistEvidence, StoreTypeOK, solana, SolanaTypeOK
<1>8. CASE PostBlockUpdate
  <2>1. pc \in JobPcs
    BY <1>8 DEF PostBlockUpdate, JobPcs, CommitPcs
  <2>2. ProcessTypeOK' /\ ProcessInv'
    BY <1>8 DEF PostBlockUpdate, local, ProcessTypeOK, ProcessInv
  <2> QED
    BY <1>1, <1>2, <1>8, <2>1, <2>2
    DEF PostBlockUpdate, store, StoreTypeOK, SolanaTypeOK
<1>9. CASE SendOk
  <2>1. pc \in JobPcs
    BY <1>9 DEF SendOk, JobPcs, CommitPcs
  <2>2. ProcessTypeOK' /\ ProcessInv'
    BY <1>2, <1>9, <2>1, GotoType DEF SendOk, PcValues
  <2> QED
    BY <1>1, <1>9, <2>2 DEF SendOk, store, solana, StoreTypeOK, SolanaTypeOK
<1>10. CASE SendRejected
  BY <1>1, <1>10, TerminateType
  DEF SendRejected, store, solana, StoreTypeOK, SolanaTypeOK
<1>11. CASE MintGroup
  <2>1. ProcessTypeOK' /\ ProcessInv'
    BY <1>11 DEF MintGroup, ProcessTypeOK, ProcessInv
  <2>2. SolanaTypeOK'
    BY <1>11 DEF MintGroup, SolanaTypeOK
  <2> QED
    BY <1>1, <1>11, <2>1, <2>2 DEF MintGroup, store, StoreTypeOK
<1>12. CASE MintEnd
  <2>1. CASE Terminate
    BY <1>1, <1>12, <2>1, TerminateType
    DEF MintEnd, store, solana, StoreTypeOK, SolanaTypeOK
  <2>2. CASE pc' = "journal4" /\ got' = 0
             /\ UNCHANGED <<cp, planned, inflight, job, draft, seen, ftip, proofs>>
    <3>1. pc \in JobPcs
      BY <1>12 DEF MintEnd, JobPcs, CommitPcs
    <3>2. ProcessTypeOK' /\ ProcessInv'
      BY <1>2, <2>2, <3>1 DEF ProcessTypeOK, ProcessInv, PcValues
    <3> QED
      BY <1>1, <1>12, <3>2 DEF MintEnd, store, solana, StoreTypeOK, SolanaTypeOK
  <2> QED
    BY <1>12, <2>1, <2>2 DEF MintEnd
<1>13. CASE SaveCheckpoint
  <2>1. pc \in JobPcs
    BY <1>13 DEF SaveCheckpoint, JobPcs, CommitPcs
  <2>2. ProcessTypeOK' /\ ProcessInv'
    BY <1>2, <1>13, <2>1 DEF SaveCheckpoint, ProcessTypeOK, ProcessInv, PcValues
  <2> QED
    BY <1>1, <1>2, <1>13, <2>1, <2>2
    DEF SaveCheckpoint, StoreTypeOK, Option, solana, SolanaTypeOK
<1>14. CASE DeleteJournal
  <2>1. ProcessTypeOK' /\ ProcessInv'
    BY <1>14
    DEF DeleteJournal, ProcessTypeOK, ProcessInv, PcValues, Option, JobPcs, CommitPcs
  <2> QED
    BY <1>1, <1>14, <2>1
    DEF DeleteJournal, StoreTypeOK, Option, solana, SolanaTypeOK
<1> QED
  BY <1>4, <1>5, <1>6, <1>7, <1>8, <1>9, <1>10, <1>11, <1>12, <1>13, <1>14
  DEF CommitPrepared

\* Failures and the external systems keep the types.
LEMMA EnvironmentType ==
    ASSUME TypeInv, Start \/ Environment
    PROVE  TypeInv'
<1> USE DEF TypeInv, TypeOK
<1>1. CASE Start
  BY <1>1
  DEF Start, ProcessTypeOK, ProcessInv, StoreTypeOK, SolanaTypeOK, DogecoinTypeOK,
      store, solana, dogecoin, PcValues, JobPcs, CommitPcs
<1>2. CASE Exit
  BY <1>2, TerminateType, ConfigAssumption
  DEF Exit, store, solana, dogecoin, StoreTypeOK, SolanaTypeOK, DogecoinTypeOK
<1>3. CASE MintRetry
  <2>1. ProcessTypeOK' /\ ProcessInv'
    BY <1>3 DEF MintRetry, ProcessTypeOK, ProcessInv
  <2>2. SolanaTypeOK'
    BY <1>3 DEF MintRetry, SolanaTypeOK
  <2> QED
    BY <1>3, <2>1, <2>2, ConfigAssumption
    DEF MintRetry, store, dogecoin, StoreTypeOK, DogecoinTypeOK
<1>4. ASSUME NEW p \in proofs, NEW st \in ProofStatus, ProverAnswers(p, st)
      PROVE  ProcessTypeOK' /\ ProcessInv' /\ StoreTypeOK' /\ SolanaTypeOK'
             /\ DogecoinTypeOK'
  <2>1. [p EXCEPT !.st = st] \in [job : PreparedTransition, st : ProofStatus]
    BY DEF ProcessTypeOK
  <2> QED
    BY <1>4, <2>1
    DEF ProverAnswers, local, store, solana, dogecoin, ProcessTypeOK, ProcessInv,
        StoreTypeOK, SolanaTypeOK, DogecoinTypeOK
<1>5. CASE \E p \in proofs : ProverSucceeds(p) \/ ProverFails(p)
  BY <1>4, <1>5, ConfigAssumption DEF ProverSucceeds, ProverFails, ProofStatus
<1>6. CASE \E t \in txs : TxLand(t) \/ TxLost(t) \/ TxExpire(t)
  <2>1. PICK t \in txs : TxLand(t) \/ TxLost(t) \/ TxExpire(t)
    BY <1>6
  <2>2. UNCHANGED <<local, store, proofs, dogecoin>> /\ (faults \in 0..MaxFaults)'
    BY <2>1, ConfigAssumption DEF TxLand, TxLost, TxExpire
  <2>3. t.next.header \in Header /\ t.next.header.tip \in Block
    BY TransitionFields, CheckpointFields DEF SolanaTypeOK
  <2>4. SolanaTypeOK'
    <3>1. txs' \subseteq txs /\ late' \subseteq late
      BY <2>1 DEF TxLand, TxLost, TxExpire
    <3>2. sol' \in [header : Header, done : Nat] /\ log' \in Seq(Block)
          /\ UNCHANGED <<mbuf, tbuf>>
      BY <2>1, <2>3 DEF TxLand, TxLost, TxExpire, SolanaTypeOK
    <3> QED
      BY <3>1, <3>2 DEF SolanaTypeOK
  <2> QED
    BY <2>2, <2>4
    DEF local, store, dogecoin, ProcessTypeOK, ProcessInv, StoreTypeOK, DogecoinTypeOK
<1>7. CASE (\E d \in Payloads : MineBlock(d)) \/ (\E h \in Heights : Reorg(h))
  <2>1. UNCHANGED <<local, store, proofs, solana, faults>>
    BY <1>7 DEF MineBlock, Reorg
  <2>2. CASE \E d \in Payloads : MineBlock(d)
    <3>1. PICK d \in Payloads : MineBlock(d)
      BY <2>2
    <3>2. [id |-> mined + 1, dep |-> d] \in Block
      BY <3>1, ConfigAssumption DEF MineBlock, Block, DogecoinTypeOK
    <3> QED
      BY <2>1, <3>1, <3>2, ConfigAssumption
      DEF MineBlock, DogecoinTypeOK, local, store, solana, ProcessTypeOK, ProcessInv,
          StoreTypeOK, SolanaTypeOK
  <2>3. CASE \E h \in Heights : Reorg(h)
    <3>1. PICK h \in Heights : Reorg(h)
      BY <2>3
    <3>2. doge' \in Seq(Block) /\ Len(doge') = h
      BY <3>1, ConfigAssumption DEF Reorg, DogecoinTypeOK, Heights
    <3> QED
      BY <2>1, <3>1, <3>2, ConfigAssumption
      DEF Reorg, Heights, DogecoinTypeOK, local, store, solana, ProcessTypeOK,
          ProcessInv, StoreTypeOK, SolanaTypeOK
  <2> QED
    BY <1>7, <2>2, <2>3
<1> QED
  BY <1>1, <1>2, <1>3, <1>5, <1>6, <1>7 DEF Environment

\* Every step keeps the types.
LEMMA NextTypeInv ==
    ASSUME TypeInv, [Next]_vars
    PROVE  TypeInv'
<1>1. CASE UNCHANGED vars
  BY <1>1
  DEF vars, local, store, solana, dogecoin, TypeInv, TypeOK, ProcessTypeOK,
      ProcessInv, StoreTypeOK, SolanaTypeOK, DogecoinTypeOK
<1> QED
  BY <1>1, InitializeType, PollOnceType, CommitPreparedType, EnvironmentType
  DEF Next, Coordinator

\* The model is typed: every step of the coordinator, of the prover, of Solana
\* and of Dogecoin leaves a well-formed state (in particular a journal or a
\* prepared transition is never half-built, and heights stay in range).
THEOREM TypeCorrect == Spec => []TypeOK
<1>1. Init => TypeInv
  BY InitTypeInv
<1>2. TypeInv /\ [Next]_vars => TypeInv'
  BY NextTypeInv
<1>3. TypeInv => TypeOK
  BY DEF TypeInv
<1> QED
  BY <1>1, <1>2, <1>3, PTL DEF Spec

---------------------------------------------------------------------------
(* The inductive invariant *)

\* A transition that extends its parent is one block higher.
LEMMA ExtendsHeight ==
    ASSUME NEW j, Extends(j)
    PROVE  /\ Height(j.next) = Height(j.parent) + 1
           /\ j.next.header =
                NextCheckpoint(j.parent, j.next.header.tip).header
BY DEF Extends, NextCheckpoint, Height

\* The job in hand is a transition between two checkpoints.
LEMMA JobType ==
    ASSUME ProcessTypeOK, ProcessInv, pc \in JobPcs
    PROVE  /\ job \in PreparedTransition
           /\ job.parent \in PipelineCheckpoint /\ job.next \in PipelineCheckpoint
BY TransitionFields DEF ProcessTypeOK, ProcessInv, Option

\* What relates the chain to the durable checkpoint alone.
ChainInv == HeightInv /\ LogInv /\ PendingInv /\ CheckpointImpliesMinted

\* Facts about the chain and the durable checkpoint survive every step that
\* touches neither.
LEMMA ChainFrame ==
    ASSUME ChainInv, UNCHANGED <<rcp, sol, log>>
    PROVE  ChainInv' /\ Durable' = Durable
BY DEF ChainInv, HeightInv, LogInv, PendingInv, CheckpointImpliesMinted,
       MintsComplete, Owed, Durable, Ledger!Owed

\* Updates in flight: none is added and the durable checkpoint stays.
LEMMA FlightFrame ==
    ASSUME FlightInv, UNCHANGED rcp, txs' \subseteq txs
    PROVE  FlightInv'
BY DEF FlightInv, Durable

\* The journal: neither it, nor the checkpoint, nor the chain changes; or it
\* is deleted.
LEMMA JournalFrame ==
    ASSUME JournalInv, UNCHANGED <<rcp, sol>>, rjr' \in {rjr, None}
    PROVE  JournalInv'
BY DEF JournalInv, Durable, MintsComplete, Owed

\* The height of the chain is that of the durable checkpoint or one more.
LEMMA ChainHeight ==
    ASSUME HeightInv
    PROVE  \/ sol.header = Durable.header /\ sol.header.height = Height(Durable)
           \/ sol.header.height = Height(Durable) + 1
BY DEF HeightInv, NextCheckpoint, Height

\* Promotion of the accepted and paid header in hand to the durable
\* checkpoint, in commit_prepared or in recovery.
LEMMA Promotion ==
    ASSUME TypeInv, ChainInv, FlightInv, JournalInv,
           pc \in JobPcs, job.parent = Durable, Extends(job),
           sol.header = job.next.header, MintsComplete,
           rcp' = job.next, UNCHANGED <<rjr, sol, log, txs>>
    PROVE  /\ ChainInv' /\ FlightInv' /\ JournalInv'
           /\ Durable' = job.next
<1> DEFINE H == Height(Durable)
           b == job.next.header.tip
<1>1. job.next \in PipelineCheckpoint /\ job.next # None
  BY JobType, CheckpointFields DEF TypeInv, TypeOK
<1>2. Durable' = job.next
  BY <1>1 DEF Durable
<1>3. Durable \in PipelineCheckpoint /\ H \in Nat /\ H >= StartHeight
      /\ Durable.pending \in [Heights -> Payloads \cup {None}]
  BY DurableType, CheckpointFields DEF TypeInv, TypeOK
<1>4. Height(job.next) = H + 1 /\ sol.header.height = H + 1
      /\ H + 1 \in Heights
  BY <1>1, ExtendsHeight, CheckpointFields DEF Height
<1>5. HeightInv' /\ CheckpointImpliesMinted' /\ LogInv'
  BY <1>2
  DEF HeightInv, CheckpointImpliesMinted, ChainInv, LogInv, MintsComplete, Owed,
      Ledger!Owed
<1>6. FlightInv'
  <2> SUFFICES ASSUME NEW t \in txs
               PROVE  Extends(t) /\ Height(t.parent) < Height(job.next)
    BY <1>2 DEF FlightInv, Extends
  <2>1. Height(t.parent) \in Nat
    BY TransitionFields, CheckpointFields DEF TypeInv, TypeOK, SolanaTypeOK
  <2> QED
    BY <1>3, <1>4, <2>1 DEF FlightInv
<1>7. JournalInv'
  <2> SUFFICES ASSUME rjr # None PROVE JournalInv'
    BY DEF JournalInv
  <2>1. Height(rjr.cp) \in Nat /\ Height(rjr.cp) <= H + 1
    BY JournalFields, CheckpointFields DEF JournalInv, TypeInv, TypeOK, StoreTypeOK, Option
  <2> QED
    BY <1>2, <1>3, <1>4, <2>1 DEF JournalInv, MintsComplete, Owed
<1>8. PendingInv'
  <2>1. job.next.pending = NextPending(Durable, b)
    BY DEF Extends, NextCheckpoint
  <2>2. log[H + 1 - StartHeight] = b /\ Len(log) = H + 1 - StartHeight
    BY <1>3, <1>4, ConfigAssumption
    DEF ChainInv, LogInv, TypeInv, TypeOK, SolanaTypeOK
  <2> SUFFICES ASSUME NEW h \in Heights
               PROVE  job.next.pending[h] =
                        IF StartHeight < h /\ h <= H + 1 /\ H + 1 < h + Conf
                        THEN log[h - StartHeight].dep ELSE None
    BY <1>2, <1>4 DEF PendingInv
  <2>3. Durable.pending[h] =
          IF StartHeight < h /\ h <= H /\ H < h + Conf
          THEN log[h - StartHeight].dep ELSE None
    BY DEF ChainInv, PendingInv
  <2>4. CASE h = H + 1
    <3>1. H + 1 # H + 1 - Conf
      BY <1>3, ConfigAssumption
    <3>2. job.next.pending[h] = b.dep
      BY <1>3, <2>1, <2>4, <3>1 DEF NextPending
    <3>3. StartHeight < h /\ h <= H + 1 /\ H + 1 < h + Conf
      BY <1>3, <2>4, ConfigAssumption
    <3>4. log[h - StartHeight] = b
      BY <1>3, <2>2, <2>4, ConfigAssumption
    <3> QED
      BY <3>2, <3>3, <3>4
  <2>5. CASE h = H + 1 - Conf
    <3>1. job.next.pending[h] = None
      BY <1>3, <2>1, <2>5 DEF NextPending
    <3>2. ~(H + 1 < h + Conf)
      BY <1>3, <2>5, ConfigAssumption
    <3> QED
      BY <3>1, <3>2
  <2>6. CASE h # H + 1 /\ h # H + 1 - Conf
    <3>1. job.next.pending[h] = Durable.pending[h]
      BY <1>3, <2>1, <2>6 DEF NextPending
    <3>2. h \in Nat
      BY DEF Heights
    <3>3. (h <= H + 1 /\ H + 1 < h + Conf) <=> (h <= H /\ H < h + Conf)
      BY <1>3, <2>6, <3>2, ConfigAssumption
    <3> QED
      BY <2>3, <3>1, <3>3
  <2> QED
    BY <2>4, <2>5, <2>6
<1> QED
  BY <1>2, <1>5, <1>6, <1>7, <1>8 DEF ChainInv

\* A transaction that lands extends the durable checkpoint, and the header it
\* replaces is paid: nothing older can be accepted any more.
LEMMA LandingStart ==
    ASSUME PipelineInv, NEW t \in txs, Acceptable(t)
    PROVE  /\ t.parent = Durable /\ sol.header = Durable.header
           /\ MintsComplete
           /\ Extends(t) /\ t.next \in PipelineCheckpoint
           /\ Height(t.next) = Height(Durable) + 1
<1>1. t.parent \in PipelineCheckpoint /\ t.next \in PipelineCheckpoint
  BY TransitionFields DEF PipelineInv, TypeOK, SolanaTypeOK
<1>2. Height(t.parent) \in Nat /\ Height(Durable) \in Nat
  BY <1>1, DurableType, CheckpointFields DEF PipelineInv, TypeOK
<1>3. sol.header.height = Height(t.parent)
  BY DEF Acceptable, Height
<1>4. t.parent = Durable
  BY <1>2, <1>3, ChainHeight DEF PipelineInv, FlightInv
<1> QED
  BY <1>1, <1>4, ExtendsHeight
  DEF Acceptable, PipelineInv, FlightInv, CheckpointImpliesMinted

\* The finalized payload a landing header carries is the one of the block
\* Conf positions below it in the accepted chain.
LEMMA LandingOwes ==
    ASSUME PipelineInv, sol.header = Durable.header, NEW b \in Block
    PROVE  GroupsOf[FinalizedBuffers(Durable, Height(Durable) + 1)] =
             Ledger!Owed(Append(log, b))
<1> DEFINE H == Height(Durable)
           L == Len(log)
           f == H + 1 - Conf
<1>1. log \in Seq(Block) /\ L \in Nat
  BY DEF PipelineInv, TypeOK, SolanaTypeOK
<1>2. Durable \in PipelineCheckpoint /\ H \in Nat /\ H \in Heights
  BY DurableType, CheckpointFields DEF PipelineInv, TypeOK
<1>3. H = StartHeight + L
  BY DEF PipelineInv, LogInv, Height
<1>4. f \in Heights /\ f <= H /\ H < f + Conf
  BY <1>2, <1>3, <1>1, ConfigAssumption DEF Heights
<1>5. Durable.pending[f] =
        IF StartHeight < f THEN log[f - StartHeight].dep ELSE None
  BY <1>4 DEF PipelineInv, PendingInv
<1>6. Len(Append(log, b)) = L + 1
  BY <1>1
<1>7. CASE L + 1 > Conf
  <2>1. StartHeight < f /\ f - StartHeight = L + 1 - Conf
        /\ L + 1 - Conf \in 1..L
    BY <1>1, <1>3, <1>7, ConfigAssumption
  <2>2. Append(log, b)[L + 1 - Conf] = log[L + 1 - Conf]
    BY <1>1, <2>1
  <2> HIDE DEF L
  <2>3. log[L + 1 - Conf] \in Block
    BY <1>1, <2>1 DEF L
  <2>6. log[L + 1 - Conf].dep \in Payloads
    BY <2>3 DEF Block
  <2>4. Durable.pending[f] = log[L + 1 - Conf].dep
    BY <1>5, <2>1
  <2>5. FinalizedBuffers(Durable, H + 1) = log[L + 1 - Conf].dep
    BY <1>2, <2>4, <2>6, NoneAssumption, ConfigAssumption DEF FinalizedBuffers
  <2> QED
    BY <1>1, <1>6, <1>7, <2>2, <2>5, ConfigAssumption DEF Ledger!Owed
<1>8. CASE ~(L + 1 > Conf)
  <2>1. ~(StartHeight < f)
    BY <1>1, <1>3, <1>8, ConfigAssumption
  <2>2. FinalizedBuffers(Durable, H + 1) = NoDeposits
    BY <1>2, <1>5, <2>1, ConfigAssumption DEF FinalizedBuffers
  <2> QED
    BY <1>6, <1>8, <2>2, ConfigAssumption DEF Ledger!Owed
<1> QED
  BY <1>7, <1>8

\* What relates the process to the chain and to the durable checkpoint.
LocalInv == JobInv /\ MemoryInv /\ SeenInv /\ ProgressInv

\* A process that is gone is in no conflict with anything.
LEMMA TerminateInv ==
    ASSUME PipelineInv, Terminate, UNCHANGED sol
    PROVE  LocalInv'
BY DEF PipelineInv, LocalInv, Terminate, JobInv, MemoryInv, SeenInv, ProgressInv,
       MintsComplete, Owed, JobPcs, CommitPcs, StartPcs, SubmittedPcs, MintedPcs

\* Moving the program counter: what the new point claims of the job, of the
\* checkpoint in memory and of the chain has to hold already.
LEMMA GotoInv ==
    ASSUME PipelineInv, NEW to, Goto(to), UNCHANGED <<rcp, sol>>,
           to \in JobPcs => pc \in JobPcs,
           to \in CommitPcs \cup {"recmint", "recsave"} => job.parent = Durable,
           to # "recdel",
           to \notin {"down", "load"} => cp = Durable,
           to \in StartPcs => pc \in StartPcs,
           to \in SubmittedPcs => sol.header = job.next.header,
           to \in MintedPcs => MintsComplete
    PROVE  LocalInv'
<1>1. UNCHANGED <<cp, inflight, job, seen>> /\ pc' = to /\ Durable' = Durable
  BY DEF Goto, Durable
<1>2. JobInv' /\ MemoryInv'
  BY <1>1 DEF PipelineInv, JobInv, MemoryInv, Extends
<1>3. SeenInv' /\ ProgressInv'
  BY <1>1 DEF PipelineInv, SeenInv, ProgressInv, MintsComplete, Owed
<1> QED
  BY <1>2, <1>3 DEF LocalInv

\* The job of a commit or of a recovery: it extends the durable checkpoint by
\* one block.
LEMMA JobFacts ==
    ASSUME PipelineInv, pc \in CommitPcs \cup {"recmint", "recsave"}
    PROVE  /\ pc \in JobPcs
           /\ Extends(job) /\ job.parent = Durable /\ cp = Durable
           /\ job \in PreparedTransition /\ job.next \in PipelineCheckpoint
           /\ Durable \in PipelineCheckpoint
           /\ Height(Durable) \in Nat /\ Height(job.next) = Height(Durable) + 1
           /\ job.next = NextCheckpoint(Durable, job.next.header.tip)
<1>1. pc \in JobPcs /\ pc \notin {"down", "load", "recdel"}
  BY DEF JobPcs, CommitPcs
<1>2. Extends(job) /\ job.parent = Durable /\ cp = Durable
  BY <1>1 DEF PipelineInv, JobInv, MemoryInv
<1>3. job \in PreparedTransition /\ job.next \in PipelineCheckpoint
  BY <1>1, JobType DEF PipelineInv, TypeOK
<1>4. Durable \in PipelineCheckpoint /\ Height(Durable) \in Nat
  BY DurableType, CheckpointFields DEF PipelineInv, TypeOK
<1> QED
  BY <1>1, <1>2, <1>3, <1>4, ExtendsHeight DEF Extends

\* Writing the journal of the job at any stage of the commit.
LEMMA JournalWritten ==
    ASSUME PipelineInv, pc \in CommitPcs,
           NEW u \in BOOLEAN, NEW s \in BOOLEAN, NEW m \in BOOLEAN,
           rjr' = JournalOf(job, u, s, m), UNCHANGED <<rcp, sol>>,
           m => sol.header = job.next.header /\ MintsComplete
    PROVE  JournalInv'
<1>1. /\ rjr'.cp = job.next /\ rjr'.fin = job.next.header.fin /\ rjr'.minted = m
  BY DEF JournalOf
<1>2. Durable' = Durable /\ MintsComplete' = MintsComplete
  BY DEF Durable, MintsComplete, Owed
<1>3. Height(job.next) = job.next.header.height
  BY DEF Height
<1>4. m => Height(job.next) <= sol.header.height
  BY <1>3, JobFacts
<1> QED
  BY <1>1, <1>2, <1>4, JobFacts DEF JournalInv

\* The part of the state that a step which writes neither Redis nor the chain
\* leaves alone.
LEMMA Frame ==
    ASSUME PipelineInv, UNCHANGED <<rcp, rjr, sol, log, txs>>
    PROVE  ChainInv' /\ FlightInv' /\ JournalInv'
BY ChainFrame, FlightFrame, JournalFrame DEF PipelineInv, ChainInv

\* Paying one more group: it can only be owed beyond the durable checkpoint,
\* and no journal calls this header minted yet.
LEMMA MintStep ==
    ASSUME PipelineInv, ~MintsComplete, sol' = [sol EXCEPT !.done = @ + 1],
           UNCHANGED <<pc, cp, inflight, job, seen, rcp, rjr, log, txs>>
    PROVE  LocalInv' /\ ChainInv' /\ FlightInv' /\ JournalInv'
<1>1. sol \in [header : Header, done : Nat]
  BY DEF PipelineInv, TypeOK, SolanaTypeOK
<1>2. sol'.header = sol.header /\ sol'.done = sol.done + 1
  BY <1>1
<1>3. Owed \in Nat /\ Owed' = Owed /\ Durable' = Durable
  BY <1>1, <1>2, ConfigAssumption DEF Owed, Header, Durable
<1>4. Durable.header # sol.header
  BY DEF PipelineInv, CheckpointImpliesMinted
<1>5. ChainInv'
  BY <1>2, <1>3, <1>4
  DEF PipelineInv, ChainInv, HeightInv, LogInv, PendingInv, CheckpointImpliesMinted,
      Ledger!Owed
<1>6. FlightInv'
  BY FlightFrame DEF PipelineInv
<1>7. JournalInv'
  BY <1>2, <1>3 DEF PipelineInv, JournalInv
<1>8. JobInv' /\ MemoryInv' /\ SeenInv'
  BY <1>2, <1>3 DEF PipelineInv, JobInv, MemoryInv, SeenInv, Extends
<1>9. ProgressInv'
  <2>1. sol'.done <= Owed'
    BY <1>1, <1>2, <1>3 DEF PipelineInv, ProgressInv, MintsComplete
  <2> QED
    BY <1>2, <2>1 DEF PipelineInv, ProgressInv
<1> QED
  BY <1>5, <1>6, <1>7, <1>8, <1>9 DEF LocalInv

\* A block_update lands, whoever is running and wherever it is.
LEMMA LandStep ==
    ASSUME PipelineInv, NEW t \in txs, TxLand(t)
    PROVE  LocalInv' /\ ChainInv' /\ FlightInv' /\ JournalInv'
<1> DEFINE H == Height(Durable)
<1>1. /\ t.parent = Durable /\ sol.header = Durable.header /\ MintsComplete
      /\ Extends(t) /\ t.next \in PipelineCheckpoint /\ Height(t.next) = H + 1
  BY LandingStart DEF TxLand
<1>2. /\ sol' = [header |-> t.next.header, done |-> 0]
      /\ log' = Append(log, t.next.header.tip)
      /\ UNCHANGED <<pc, cp, inflight, job, seen, rcp, rjr>>
      /\ txs' \subseteq txs
  BY DEF TxLand, local, store
<1>3. sol'.header = t.next.header /\ sol'.done = 0 /\ Durable' = Durable
  BY <1>2 DEF Durable
<1>4. Durable \in PipelineCheckpoint /\ H \in Nat /\ H >= StartHeight
      /\ sol.header.height = H /\ t.next.header.height = H + 1
  BY <1>1, DurableType, CheckpointFields DEF PipelineInv, TypeOK, Height
<1>5. log \in Seq(Block) /\ Len(log) \in Nat /\ t.next.header.tip \in Block
      /\ H = StartHeight + Len(log)
  BY <1>1, <1>4, CheckpointFields DEF PipelineInv, LogInv, TypeOK, SolanaTypeOK
<1>6. HeightInv' /\ CheckpointImpliesMinted'
  <2>1. t.next.header = NextCheckpoint(Durable, t.next.header.tip).header
    BY <1>1, ExtendsHeight
  <2>2. Durable.header # t.next.header
    BY <1>1, <1>4 DEF Height
  <2> QED
    BY <1>3, <2>1, <2>2 DEF HeightInv, CheckpointImpliesMinted
<1>7. LogInv'
  <2>1. Owed' = GroupsOf[FinalizedBuffers(Durable, H + 1)]
    BY <1>1, <1>3 DEF Owed, Extends, NextCheckpoint
  <2>2. Owed' = Ledger!Owed(log')
    BY <1>1, <1>2, <1>5, <2>1, LandingOwes
  <2>3. Len(log') = Len(log) + 1 /\ log'[Len(log')] = t.next.header.tip
    BY <1>2, <1>5
  <2>4. sol'.header.height = StartHeight + Len(log')
    BY <1>3, <1>4, <1>5, <2>3, ConfigAssumption
  <2> QED
    BY <1>3, <2>2, <2>3, <2>4 DEF LogInv, Ledger!Owed
<1>8. PendingInv'
  <2> SUFFICES ASSUME NEW h \in Heights, StartHeight < h, h <= H
               PROVE  log'[h - StartHeight] = log[h - StartHeight]
    BY <1>3 DEF PipelineInv, PendingInv
  <2>1. h - StartHeight \in 1..Len(log)
    BY <1>5, ConfigAssumption DEF Heights
  <2> QED
    BY <1>2, <1>5, <2>1
<1>9. FlightInv'
  BY <1>2, FlightFrame DEF PipelineInv
<1>10. JournalInv'
  <2> SUFFICES ASSUME rjr # None PROVE JournalInv'
    BY <1>2 DEF JournalInv
  <2>1. Height(rjr.cp) \in Nat
    BY JournalFields, CheckpointFields DEF PipelineInv, TypeOK, StoreTypeOK, Option
  <2>2. rjr.minted => Height(rjr.cp) <= H
    BY <1>4 DEF PipelineInv, JournalInv
  <2>3. rjr.cp.header = t.next.header => Height(rjr.cp) = H + 1
    BY <1>4 DEF Height
  <2> QED
    BY <1>2, <1>3, <1>4, <2>1, <2>2, <2>3 DEF PipelineInv, JournalInv
<1>11. pc \notin SubmittedPcs
  <2> SUFFICES ASSUME pc \in SubmittedPcs PROVE FALSE
    OBVIOUS
  <2>1. pc \in CommitPcs \cup {"recmint", "recsave"}
    BY DEF SubmittedPcs, CommitPcs
  <2>2. Height(job.next) = H + 1 /\ sol.header = job.next.header
    BY <2>1, JobFacts DEF PipelineInv, ProgressInv
  <2> QED
    BY <1>4, <2>2 DEF Height
<1>12. ProgressInv'
  <2>1. Owed' \in Nat
    BY <1>1, <1>3, CheckpointFields, ConfigAssumption DEF Owed
  <2> QED
    BY <1>2, <1>3, <1>11, <2>1 DEF ProgressInv, SubmittedPcs, MintedPcs
<1>13. JobInv' /\ MemoryInv' /\ SeenInv'
  BY <1>1, <1>2, <1>3 DEF PipelineInv, JobInv, MemoryInv, SeenInv, Extends
<1> QED
  BY <1>6, <1>7, <1>8, <1>9, <1>10, <1>12, <1>13 DEF LocalInv, ChainInv

\* Steps of the prover, of Dogecoin or of the network that touch none of the
\* variables the invariant speaks of.
LEMMA OutsideStep ==
    ASSUME PipelineInv, txs' \subseteq txs,
           UNCHANGED <<pc, cp, inflight, job, seen, rcp, rjr, sol, log>>
    PROVE  LocalInv' /\ ChainInv' /\ FlightInv' /\ JournalInv'
<1>1. ChainInv' /\ FlightInv' /\ JournalInv' /\ Durable' = Durable
  BY ChainFrame, FlightFrame, JournalFrame DEF PipelineInv, ChainInv
<1>2. JobInv' /\ MemoryInv'
  BY <1>1 DEF PipelineInv, JobInv, MemoryInv, Extends
<1>3. SeenInv' /\ ProgressInv'
  BY <1>1 DEF PipelineInv, SeenInv, ProgressInv, MintsComplete, Owed
<1> QED
  BY <1>1, <1>2, <1>3 DEF LocalInv

\* The process is in its polling loop, with the durable checkpoint in memory.
LEMMA PollInv ==
    ASSUME PipelineInv, pc' \in {"poll", "prepare", "finalize"},
           cp' = Durable', UNCHANGED sol,
           \A j \in inflight' : Extends(j)
    PROVE  LocalInv'
<1>1. JobInv' /\ MemoryInv'
  BY DEF JobInv, MemoryInv, Extends, JobPcs, CommitPcs
<1>2. SeenInv' /\ ProgressInv'
  BY DEF PipelineInv, SeenInv, ProgressInv, MintsComplete, Owed, StartPcs,
         SubmittedPcs, MintedPcs
<1> QED
  BY <1>1, <1>2 DEF LocalInv

\* Recovery is planned only for the header the chain is at, one block beyond
\* the durable checkpoint; "minted" in the journal can be believed.
LEMMA RecoveryPlanned ==
    ASSUME PipelineInv, pc = "reconcile",
           Plan \in {"PromoteCheckpoint", "CompleteMint"}
    PROVE  /\ rjr # None
           /\ rjr.cp = NextCheckpoint(cp, rjr.cp.header.tip)
           /\ rjr.cp.header = sol.header
           /\ Plan = "PromoteCheckpoint" => MintsComplete
           /\ GroupsOf[rjr.fin] = 0 => MintsComplete
<1>1. cp = Durable /\ seen \in {sol.header, Durable.header}
  BY DEF PipelineInv, MemoryInv, SeenInv, StartPcs
<1>2. /\ cp.header # seen /\ rjr # None /\ rjr.cp.header = seen
      /\ Height(rjr.cp) = Height(cp) + 1
      /\ Plan = "PromoteCheckpoint" => rjr.minted
  BY DEF Plan, PlanJournalRecovery
<1>3. seen = sol.header
  BY <1>1, <1>2
<1>4. rjr.fin = rjr.cp.header.fin
      /\ rjr.cp = NextCheckpoint(cp, rjr.cp.header.tip)
  BY <1>1, <1>2 DEF PipelineInv, JournalInv
<1>5. Plan = "PromoteCheckpoint" => MintsComplete
  BY <1>2, <1>3 DEF PipelineInv, JournalInv
<1>6. GroupsOf[rjr.fin] = 0 => MintsComplete
  <2>1. sol.done \in Nat
    BY DEF PipelineInv, TypeOK, SolanaTypeOK
  <2>2. Owed = GroupsOf[rjr.fin] /\ sol.done <= Owed
    BY <1>2, <1>3, <1>4 DEF Owed, PipelineInv, ProgressInv
  <2> QED
    BY <2>1, <2>2 DEF MintsComplete
<1> QED
  BY <1>2, <1>3, <1>4, <1>5, <1>6

\* Start-up and journal recovery.
LEMMA InitializeInv ==
    ASSUME PipelineInv, Initialize
    PROVE  LocalInv' /\ ChainInv' /\ FlightInv' /\ JournalInv'
<1>1. \A j \in inflight : Extends(j)
  BY DEF PipelineInv, JobInv
<1>2. CASE LoadCheckpoint
  <2>1. ChainInv' /\ FlightInv' /\ JournalInv' /\ UNCHANGED <<rcp, sol>>
    BY <1>2, Frame DEF LoadCheckpoint, store, solana
  <2>2. CASE Terminate
    BY <2>1, <2>2, TerminateInv
  <2>3. CASE pc' = "reconcile" /\ cp' = Durable /\ UNCHANGED <<inflight, job, seen>>
    <3>1. JobInv' /\ MemoryInv'
      BY <1>1, <2>1, <2>3 DEF JobInv, MemoryInv, Extends, JobPcs, CommitPcs, Durable
    <3>2. SeenInv' /\ ProgressInv'
      BY <1>2, <2>1, <2>3
      DEF LoadCheckpoint, PipelineInv, SeenInv, ProgressInv, MintsComplete, Owed,
          StartPcs, SubmittedPcs, MintedPcs, Durable
    <3> QED
      BY <2>1, <3>1, <3>2 DEF LocalInv
  <2> QED
    BY <1>2, <2>2, <2>3 DEF LoadCheckpoint
<1>3. CASE ReconcileUpToDate
  <2>1. ChainInv' /\ FlightInv' /\ JournalInv'
    BY <1>3, Frame DEF ReconcileUpToDate, store, solana
  <2>2. cp = Durable /\ Durable' = Durable /\ UNCHANGED sol
    BY <1>3 DEF ReconcileUpToDate, PipelineInv, MemoryInv, Durable, store, solana
  <2> QED
    BY <1>3, <2>1, <2>2, PollInv DEF ReconcileUpToDate, Ready
<1>4. CASE ReconcileStale
  <2>1. ChainInv' /\ FlightInv' /\ JournalInv' /\ UNCHANGED <<rcp, sol>>
    BY <1>4, Frame DEF ReconcileStale, store, solana
  <2>2. cp = Durable /\ pc \in StartPcs
    BY <1>4 DEF ReconcileStale, PipelineInv, MemoryInv, StartPcs
  <2> QED
    BY <1>4, <2>1, <2>2, GotoInv
    DEF ReconcileStale, JobPcs, CommitPcs, SubmittedPcs, MintedPcs
<1>5. CASE DiscardJournal
  <2>1. UNCHANGED <<rcp, sol, log, txs>> /\ rjr' = None /\ Ready(cp)
    BY <1>5 DEF DiscardJournal, solana
  <2>2. ChainInv' /\ FlightInv' /\ JournalInv' /\ Durable' = Durable
    BY <2>1, ChainFrame, FlightFrame, JournalFrame DEF PipelineInv, ChainInv
  <2>3. cp = Durable
    BY <1>5 DEF DiscardJournal, PipelineInv, MemoryInv
  <2> QED
    BY <2>1, <2>2, <2>3, PollInv DEF Ready
<1>6. CASE ReconcileFailClosed
  BY <1>6, Frame, TerminateInv DEF ReconcileFailClosed, store, solana
<1>7. ASSUME NEW to \in {"recmint", "recsave"}, Recovering(to),
             pc = "reconcile", Plan \in {"PromoteCheckpoint", "CompleteMint"},
             to = "recsave" => MintsComplete,
             UNCHANGED <<store, solana>>
      PROVE  LocalInv' /\ ChainInv' /\ FlightInv' /\ JournalInv'
  <2>1. ChainInv' /\ FlightInv' /\ JournalInv' /\ UNCHANGED <<rcp, sol>>
    BY <1>7, Frame DEF store, solana
  <2>2. pc' = to /\ job' = [parent |-> cp, next |-> rjr.cp]
        /\ UNCHANGED <<cp, inflight, seen>>
    BY <1>7 DEF Recovering
  <2>3. job'.parent = cp /\ job'.next = rjr.cp /\ cp = Durable /\ Durable' = Durable
    BY <1>7, <2>1, <2>2 DEF PipelineInv, MemoryInv, Durable
  <2>4. rjr.cp = NextCheckpoint(cp, rjr.cp.header.tip) /\ rjr.cp.header = sol.header
    BY <1>7, RecoveryPlanned
  <2>5. JobInv' /\ MemoryInv'
    <3>1. Extends(job')
      BY <2>3, <2>4 DEF Extends
    <3>2. \A j \in inflight' : Extends(j)
      BY <1>1, <2>2
    <3> QED
      BY <1>7, <2>2, <2>3, <3>1, <3>2 DEF JobInv, MemoryInv, Extends
  <2>6. SeenInv' /\ ProgressInv'
    <3>1. MintsComplete' = MintsComplete /\ Owed' = Owed
      BY <2>1 DEF MintsComplete, Owed
    <3> QED
      BY <1>7, <2>1, <2>2, <2>3, <2>4, <3>1
      DEF PipelineInv, SeenInv, ProgressInv, StartPcs, MintedPcs
  <2> QED
    BY <2>1, <2>5, <2>6 DEF LocalInv
<1>8. CASE ReconcilePromote
  BY <1>7, <1>8, RecoveryPlanned DEF ReconcilePromote
<1>9. CASE ReconcileMint
  BY <1>7, <1>9, RecoveryPlanned DEF ReconcileMint
<1>10. CASE RecoverMintEnd
  <2>1. ChainInv' /\ FlightInv' /\ JournalInv' /\ UNCHANGED <<rcp, sol>>
    BY <1>10, Frame DEF RecoverMintEnd, store, solana
  <2>2. pc = "recmint" /\ pc \in JobPcs /\ pc \in StartPcs /\ pc \in SubmittedPcs
    BY <1>10 DEF RecoverMintEnd, JobPcs, StartPcs, SubmittedPcs
  <2>3. cp = Durable /\ job.parent = Durable /\ sol.header = job.next.header
    BY <2>2, JobFacts DEF PipelineInv, ProgressInv
  <2> QED
    BY <1>10, <2>1, <2>2, <2>3, GotoInv DEF RecoverMintEnd
<1>11. CASE RecoverSave
  <2>1. pc = "recsave" /\ rcp' = job.next /\ UNCHANGED <<rjr, sol, log, txs>>
        /\ pc' = "recdel" /\ UNCHANGED <<inflight, job>>
    BY <1>11 DEF RecoverSave, solana, Goto
  <2>2. pc \in JobPcs /\ job.parent = Durable /\ Extends(job)
    BY <2>1, JobFacts
  <2>3. sol.header = job.next.header /\ MintsComplete
    BY <2>1 DEF PipelineInv, ProgressInv, SubmittedPcs, MintedPcs
  <2>4. ChainInv' /\ FlightInv' /\ JournalInv' /\ Durable' = job.next
    BY <2>1, <2>2, <2>3, Promotion DEF PipelineInv, TypeInv, ChainInv
  <2>5. JobInv' /\ MemoryInv'
    BY <1>1, <2>1, <2>2, <2>4 DEF JobInv, MemoryInv, Extends, CommitPcs
  <2>6. SeenInv' /\ ProgressInv'
    BY <2>1
    DEF PipelineInv, SeenInv, ProgressInv, MintsComplete, Owed, StartPcs,
        SubmittedPcs, MintedPcs
  <2> QED
    BY <2>4, <2>5, <2>6 DEF LocalInv
<1>12. CASE RecoverDelete
  <2>1. UNCHANGED <<rcp, sol, log, txs>> /\ rjr' = None /\ pc = "recdel"
        /\ (Ready(job.next) \/ Terminate)
    BY <1>12 DEF RecoverDelete, solana
  <2>2. ChainInv' /\ FlightInv' /\ JournalInv' /\ Durable' = Durable
    BY <2>1, ChainFrame, FlightFrame, JournalFrame DEF PipelineInv, ChainInv
  <2>3. job.next = Durable
    BY <2>1 DEF PipelineInv, MemoryInv
  <2> QED
    BY <2>1, <2>2, <2>3, PollInv, TerminateInv DEF Ready
<1> QED
  BY <1>2, <1>3, <1>4, <1>5, <1>6, <1>8, <1>9, <1>10, <1>11, <1>12 DEF Initialize

\* Preparing ahead and taking the next height.
LEMMA PollOnceInv ==
    ASSUME PipelineInv, PollOnce
    PROVE  LocalInv' /\ ChainInv' /\ FlightInv' /\ JournalInv'
<1>1. UNCHANGED <<store, solana>>
  BY DEF PollOnce, FetchTip, FetchBlock, SubmitJob, Idle, TakeNext
<1>2. ChainInv' /\ FlightInv' /\ JournalInv' /\ UNCHANGED <<rcp, sol>>
  BY <1>1, Frame DEF store, solana
<1>3. cp = Durable /\ Durable' = Durable /\ \A j \in inflight : Extends(j)
  BY <1>2
  DEF PollOnce, FetchTip, FetchBlock, SubmitJob, Idle, TakeNext, PipelineInv,
      MemoryInv, JobInv, Durable
<1>4. CASE Terminate
  BY <1>2, <1>4, TerminateInv
<1>5. CASE pc' \in {"poll", "prepare", "finalize"} /\ UNCHANGED <<cp, inflight>>
  BY <1>2, <1>3, <1>5, PollInv
<1>6. CASE SubmitJob /\ ~Terminate
  <2> DEFINE j == [parent |-> planned, next |-> NextCheckpoint(planned, draft)]
  <2>1. pc' = "prepare" /\ inflight' = inflight \cup {j} /\ UNCHANGED cp
    BY <1>6 DEF SubmitJob
  <2>2. Extends(j)
    BY DEF Extends, NextCheckpoint
  <2> QED
    BY <1>2, <1>3, <2>1, <2>2, PollInv
<1>7. CASE \E j \in inflight : TakeNext(j)
  <2>1. PICK j \in inflight : TakeNext(j)
    BY <1>7
  <2>2. pc' = "wait" /\ job' = j /\ inflight' \subseteq inflight /\ UNCHANGED cp
    BY <2>1 DEF TakeNext
  <2>3. JobInv' /\ MemoryInv'
    BY <1>3, <2>2 DEF JobInv, MemoryInv, Extends, CommitPcs
  <2>4. SeenInv' /\ ProgressInv'
    BY <1>2, <2>2
    DEF PipelineInv, SeenInv, ProgressInv, MintsComplete, Owed, StartPcs,
        SubmittedPcs, MintedPcs
  <2> QED
    BY <1>2, <2>3, <2>4 DEF LocalInv
<1> QED
  BY <1>4, <1>5, <1>6, <1>7 DEF PollOnce, FetchTip, FetchBlock, Idle, Goto

\* The ordered commit of one height.
LEMMA CommitPreparedInv ==
    ASSUME PipelineInv, CommitPrepared
    PROVE  LocalInv' /\ ChainInv' /\ FlightInv' /\ JournalInv'
<1>1. \A j \in inflight : Extends(j)
  BY DEF PipelineInv, JobInv
<1>2. ASSUME NEW from \in CommitPcs, NEW to \in CommitPcs, pc = from,
             NEW u \in BOOLEAN, NEW s \in BOOLEAN, NEW m \in BOOLEAN,
             WriteJournal(from, to, JournalOf(job, u, s, m)),
             m => MintsComplete /\ sol.header = job.next.header,
             to \in SubmittedPcs => sol.header = job.next.header,
             to \in MintedPcs => MintsComplete
      PROVE  LocalInv' /\ ChainInv' /\ FlightInv' /\ JournalInv'
  <2>1. /\ rjr' = JournalOf(job, u, s, m) /\ Goto(to)
        /\ UNCHANGED <<rcp, sol, log, txs>>
    BY <1>2 DEF WriteJournal, solana
  <2>2. ChainInv' /\ FlightInv'
    BY <2>1, ChainFrame, FlightFrame DEF PipelineInv, ChainInv
  <2>3. JournalInv'
    BY <1>2, <2>1, JournalWritten
  <2>4. job.parent = Durable /\ cp = Durable /\ pc \in JobPcs
    BY <1>2, JobFacts
  <2>5. to \notin StartPcs /\ to # "recdel"
    BY <1>2 DEF CommitPcs, StartPcs
  <2>6. LocalInv'
    BY <1>2, <2>1, <2>4, <2>5, GotoInv
  <2> QED
    BY <2>2, <2>3, <2>6
<1>3. ASSUME NEW to \in CommitPcs, pc \in CommitPcs, Goto(to),
             UNCHANGED <<rcp, rjr, sol, log, txs>>,
             to \in SubmittedPcs => sol.header = job.next.header,
             to \in MintedPcs => MintsComplete
      PROVE  LocalInv' /\ ChainInv' /\ FlightInv' /\ JournalInv'
  <2>1. job.parent = Durable /\ cp = Durable /\ pc \in JobPcs
    BY <1>3, JobFacts
  <2>2. to \notin StartPcs /\ to # "recdel"
    BY <1>3 DEF CommitPcs, StartPcs
  <2> QED
    BY <1>3, <2>1, <2>2, GotoInv, Frame
<1>4. CASE \E p \in proofs : WaitProof(p)
  <2>1. pc = "wait" /\ pc \in JobPcs /\ UNCHANGED <<rcp, rjr, sol, log, txs>>
        /\ ((Goto("journal1") /\ job.parent = cp) \/ Terminate)
    BY <1>4 DEF WaitProof, JobPcs, store, solana
  <2>2. cp = Durable
    BY <2>1 DEF PipelineInv, MemoryInv
  <2> QED
    BY <2>1, <2>2, GotoInv, TerminateInv, Frame
    DEF StartPcs, SubmittedPcs, MintedPcs
<1>5. CASE Journal1 \/ Journal2
  BY <1>2, <1>5
  DEF Journal1, Journal2, WriteJournal, CommitPcs, SubmittedPcs, MintedPcs
<1>6. CASE Journal3
  <2>1. pc = "journal3" /\ sol.header = job.next.header
    BY <1>6 DEF Journal3, WriteJournal, PipelineInv, ProgressInv, SubmittedPcs
  <2> QED
    BY <1>2, <1>6, <2>1 DEF Journal3, CommitPcs, MintedPcs
<1>7. CASE Journal4
  <2>1. pc = "journal4" /\ sol.header = job.next.header /\ MintsComplete
    BY <1>7
    DEF Journal4, WriteJournal, PipelineInv, ProgressInv, SubmittedPcs, MintedPcs
  <2> QED
    BY <1>2, <1>7, <2>1 DEF Journal4, CommitPcs
<1>8. CASE UploadMintsBegin \/ UploadMintsEnd \/ UploadTxo \/ PersistEvidence
  BY <1>3, <1>8
  DEF UploadMintsBegin, UploadMintsEnd, UploadTxo, PersistEvidence, store, solana,
      CommitPcs, SubmittedPcs, MintedPcs
<1>9. CASE PostBlockUpdate
  <2>1. /\ pc = "send" /\ txs' = txs \cup {job}
        /\ UNCHANGED <<pc, cp, inflight, job, seen, rcp, rjr, sol, log>>
    BY <1>9 DEF PostBlockUpdate, local, store
  <2>2. ChainInv' /\ JournalInv' /\ Durable' = Durable
    BY <2>1, ChainFrame, JournalFrame DEF PipelineInv, ChainInv
  <2>3. Extends(job) /\ job.parent = Durable
    BY <2>1, JobFacts DEF CommitPcs
  <2>4. FlightInv'
    BY <2>1, <2>2, <2>3 DEF PipelineInv, FlightInv, Extends
  <2>5. JobInv' /\ MemoryInv'
    BY <2>1, <2>2 DEF PipelineInv, JobInv, MemoryInv, Extends
  <2>6. SeenInv' /\ ProgressInv'
    BY <2>1, <2>2 DEF PipelineInv, SeenInv, ProgressInv, MintsComplete, Owed
  <2> QED
    BY <2>2, <2>4, <2>5, <2>6 DEF LocalInv
<1>10. CASE SendOk
  BY <1>3, <1>10 DEF SendOk, store, solana, CommitPcs, MintedPcs
<1>11. CASE SendRejected
  BY <1>11, Frame, TerminateInv DEF SendRejected, store, solana
<1>12. CASE MintGroup
  BY <1>12, MintStep DEF MintGroup, store
<1>13. CASE MintEnd
  <2>1. pc = "mint" /\ pc \in CommitPcs /\ pc \in SubmittedPcs /\ MintsComplete
        /\ UNCHANGED <<rcp, rjr, sol, log, txs>>
    BY <1>13 DEF MintEnd, CommitPcs, SubmittedPcs, store, solana
  <2>2. CASE Terminate
    BY <2>1, <2>2, Frame, TerminateInv
  <2>3. CASE pc' = "journal4" /\ UNCHANGED <<cp, inflight, job, seen>>
    <3>1. job.parent = Durable /\ cp = Durable /\ Extends(job) /\ Durable' = Durable
      BY <2>1, JobFacts DEF Durable
    <3>2. JobInv' /\ MemoryInv'
      BY <1>1, <2>3, <3>1 DEF JobInv, MemoryInv, Extends
    <3>3. SeenInv' /\ ProgressInv'
      BY <2>1, <2>3
      DEF PipelineInv, SeenInv, ProgressInv, MintsComplete, Owed, StartPcs
    <3> QED
      BY <2>1, <3>2, <3>3, Frame DEF LocalInv
  <2> QED
    BY <1>13, <2>2, <2>3 DEF MintEnd
<1>14. CASE SaveCheckpoint
  <2>1. pc = "save" /\ rcp' = job.next /\ UNCHANGED <<rjr, sol, log, txs>>
        /\ pc' = "delete" /\ cp' = job.next /\ UNCHANGED <<inflight, job>>
    BY <1>14 DEF SaveCheckpoint, solana
  <2>2. pc \in JobPcs /\ job.parent = Durable /\ Extends(job)
    BY <2>1, JobFacts DEF CommitPcs
  <2>3. sol.header = job.next.header /\ MintsComplete
    BY <2>1 DEF PipelineInv, ProgressInv, SubmittedPcs, MintedPcs
  <2>4. ChainInv' /\ FlightInv' /\ JournalInv' /\ Durable' = job.next
    BY <2>1, <2>2, <2>3, Promotion DEF PipelineInv, TypeInv, ChainInv
  <2>5. JobInv' /\ MemoryInv'
    BY <1>1, <2>1, <2>2, <2>4 DEF JobInv, MemoryInv, Extends, CommitPcs
  <2>6. SeenInv' /\ ProgressInv'
    BY <2>1
    DEF PipelineInv, SeenInv, ProgressInv, MintsComplete, Owed, StartPcs,
        SubmittedPcs, MintedPcs
  <2> QED
    BY <2>4, <2>5, <2>6 DEF LocalInv
<1>15. CASE DeleteJournal
  <2>1. UNCHANGED <<rcp, sol, log, txs, cp, inflight>> /\ rjr' = None
        /\ pc = "delete" /\ pc' = "poll"
    BY <1>15 DEF DeleteJournal, solana
  <2>2. ChainInv' /\ FlightInv' /\ JournalInv' /\ Durable' = Durable
    BY <2>1, ChainFrame, FlightFrame, JournalFrame DEF PipelineInv, ChainInv
  <2>3. cp = Durable
    BY <2>1 DEF PipelineInv, MemoryInv
  <2> QED
    BY <1>1, <2>1, <2>2, <2>3, PollInv
<1> QED
  BY <1>4, <1>5, <1>6, <1>7, <1>8, <1>9, <1>10, <1>11, <1>12, <1>13, <1>14, <1>15
  DEF CommitPrepared

\* Restarts, failures and the external systems.
LEMMA EnvironmentInv ==
    ASSUME PipelineInv, Start \/ Environment
    PROVE  LocalInv' /\ ChainInv' /\ FlightInv' /\ JournalInv'
<1>1. CASE Start
  <2>1. ChainInv' /\ FlightInv' /\ JournalInv' /\ UNCHANGED <<rcp, sol>>
    BY <1>1, Frame DEF Start, store, solana
  <2>2. pc' = "load" /\ seen' = sol.header /\ UNCHANGED inflight
    BY <1>1 DEF Start
  <2>3. JobInv' /\ MemoryInv'
    BY <2>2 DEF PipelineInv, JobInv, MemoryInv, Extends, JobPcs, CommitPcs
  <2>4. SeenInv' /\ ProgressInv'
    BY <2>1, <2>2
    DEF PipelineInv, SeenInv, ProgressInv, MintsComplete, Owed, SubmittedPcs, MintedPcs
  <2> QED
    BY <2>1, <2>3, <2>4 DEF LocalInv
<1>2. CASE Exit
  BY <1>2, Frame, TerminateInv DEF Exit, store, solana
<1>3. CASE MintRetry
  <2>1. UNCHANGED <<pc, cp, inflight, job, seen, rcp, rjr, log, txs>>
    BY <1>3 DEF MintRetry, store
  <2>2. CASE UNCHANGED sol
    BY <2>1, <2>2, OutsideStep
  <2>3. CASE ~MintsComplete /\ sol' = [sol EXCEPT !.done = @ + 1]
    BY <2>1, <2>3, MintStep
  <2> QED
    BY <1>3, <2>2, <2>3, Zenon DEF MintRetry
<1>4. CASE \E p \in proofs : ProverSucceeds(p) \/ ProverFails(p)
  BY <1>4, OutsideStep
  DEF ProverSucceeds, ProverFails, ProverAnswers, local, store, solana
<1>5. CASE \E t \in txs : TxLand(t)
  BY <1>5, LandStep
<1>6. CASE \E t \in txs : TxLost(t) \/ TxExpire(t)
  BY <1>6, OutsideStep DEF TxLost, TxExpire, local, store
<1>7. CASE (\E d \in Payloads : MineBlock(d)) \/ (\E h \in Heights : Reorg(h))
  BY <1>7, OutsideStep DEF MineBlock, Reorg, local, store, solana
<1> QED
  BY <1>1, <1>2, <1>3, <1>4, <1>5, <1>6, <1>7 DEF Environment

\* The first start of the bridge.
LEMMA InitInv == Init => PipelineInv
<1> SUFFICES ASSUME Init PROVE PipelineInv
  OBVIOUS
<1>1. TypeOK /\ ProcessInv
  BY InitTypeInv DEF TypeInv
<1>2. Durable = InitCheckpoint /\ sol.header = InitHeader /\ sol.done = 0
      /\ InitCheckpoint.header = InitHeader
  BY DEF Init, Durable, InitCheckpoint
<1>3. Owed = 0 /\ MintsComplete
  BY <1>2, ConfigAssumption DEF Owed, MintsComplete, InitHeader
<1>4. HeightInv /\ CheckpointImpliesMinted
  BY <1>2, <1>3 DEF HeightInv, CheckpointImpliesMinted
<1>5. LogInv
  BY <1>2, <1>3, ConfigAssumption DEF Init, LogInv, InitHeader, Ledger!Owed
<1>6. PendingInv
  <2> SUFFICES ASSUME NEW h \in Heights
               PROVE  /\ InitCheckpoint.pending[h] = None
                      /\ ~(StartHeight < h /\ h <= Height(InitCheckpoint))
    BY <1>2 DEF PendingInv
  <2> QED
    BY InitTypes, ConfigAssumption DEF InitCheckpoint, Heights
<1>7. JobInv /\ MemoryInv /\ FlightInv /\ SeenInv /\ JournalInv
  BY DEF Init, JobInv, MemoryInv, FlightInv, SeenInv, JournalInv, JobPcs, CommitPcs,
         StartPcs
<1>8. ProgressInv
  BY <1>2, <1>3 DEF Init, ProgressInv, SubmittedPcs, MintedPcs
<1> QED
  BY <1>1, <1>4, <1>5, <1>6, <1>7, <1>8 DEF PipelineInv

\* Every step keeps the inductive invariant.
LEMMA NextInv ==
    ASSUME PipelineInv, [Next]_vars
    PROVE  PipelineInv'
<1>1. TypeInv'
  BY NextTypeInv DEF TypeInv, PipelineInv
<1>2. CASE UNCHANGED vars
  BY <1>2, OutsideStep, <1>1
  DEF vars, local, store, solana, PipelineInv, TypeInv, LocalInv, ChainInv
<1>3. CASE Next
  <2>1. LocalInv' /\ ChainInv' /\ FlightInv' /\ JournalInv'
    BY <1>3, InitializeInv, PollOnceInv, CommitPreparedInv, EnvironmentInv
    DEF Next, Coordinator
  <2> QED
    BY <1>1, <2>1 DEF PipelineInv, TypeInv, LocalInv, ChainInv
<1> QED
  BY <1>2, <1>3

\* The inductive invariant holds for every number of confirmations, window,
\* payload set, proof backend and restart policy: the chain is never more than
\* one block_update away from the durable checkpoint, the journal describes
\* exactly that update or an older one, and the pending commitments are those
\* of the accepted blocks.
THEOREM PipelineInvariant == Spec => []PipelineInv
<1>1. Init => PipelineInv
  BY InitInv
<1>2. PipelineInv /\ [Next]_vars => PipelineInv'
  BY NextInv
<1> QED
  BY <1>1, <1>2, PTL DEF Spec

\* A checkpoint that Redis holds and that agrees with the on-chain header is
\* only ever there when the mints that header made payable are complete, also
\* when a block_update lands long after the process that sent it has stopped.
THEOREM DurableIsMinted == Spec => []CheckpointImpliesMinted
<1>1. PipelineInv => CheckpointImpliesMinted
  BY DEF PipelineInv
<1> QED
  BY <1>1, PipelineInvariant, PTL

---------------------------------------------------------------------------
(* Refinement of MintLedger *)

\* Every step is a step of the ledger or leaves it alone.
LEMMA LedgerStep ==
    ASSUME PipelineInv, [Next]_vars
    PROVE  [Ledger!Next]_<<log, sol.done>>
<1>1. sol \in [header : Header, done : Nat] /\ Owed \in Nat
      /\ Owed = Ledger!Owed(log) /\ sol.done <= Owed
  BY ConfigAssumption
  DEF PipelineInv, LogInv, ProgressInv, TypeOK, SolanaTypeOK, Owed, Header
<1>2. ASSUME ~MintsComplete, sol' = [sol EXCEPT !.done = @ + 1], UNCHANGED log
      PROVE  Ledger!MintGroup
  <2>1. sol'.done = sol.done + 1
    BY <1>1, <1>2
  <2> QED
    BY <1>1, <1>2, <2>1 DEF MintsComplete, Ledger!MintGroup
<1>3. CASE MintGroup \/ MintRetry
  BY <1>2, <1>3 DEF MintGroup, MintRetry, Ledger!Next
<1>4. CASE \E t \in txs : TxLand(t)
  <2>1. PICK t \in txs : TxLand(t)
    BY <1>4
  <2>2. MintsComplete /\ t.next.header.tip \in Block
    BY <2>1, LandingStart, CheckpointFields DEF TxLand
  <2>3. sol'.done = 0 /\ log' = Append(log, t.next.header.tip)
    BY <2>1 DEF TxLand
  <2>4. Ledger!Commit(t.next.header.tip)
    BY <1>1, <2>2, <2>3 DEF Ledger!Commit, MintsComplete
  <2> QED
    BY <2>2, <2>4 DEF Ledger!Next
<1>5. CASE Initialize \/ PollOnce \/ Start \/ UNCHANGED vars
  <2>1. UNCHANGED <<sol, log>>
    BY <1>5
    DEF Initialize, LoadCheckpoint, ReconcileUpToDate, ReconcileStale,
        DiscardJournal, ReconcileFailClosed, ReconcilePromote, ReconcileMint,
        RecoverMintEnd, RecoverSave, RecoverDelete, PollOnce, FetchTip, FetchBlock,
        SubmitJob, Idle, TakeNext, Start, vars, solana
  <2> QED
    BY <2>1
<1>6. CASE CommitPrepared /\ ~MintGroup
  <2>1. UNCHANGED <<sol, log>>
    BY <1>6
    DEF CommitPrepared, WaitProof, Journal1, UploadMintsBegin, UploadMintsEnd,
        UploadTxo, Journal2, PersistEvidence, PostBlockUpdate, SendOk, SendRejected,
        Journal3, MintEnd, Journal4, SaveCheckpoint, DeleteJournal, WriteJournal,
        solana
  <2> QED
    BY <2>1
<1>7. CASE Environment /\ ~MintRetry /\ ~ \E t \in txs : TxLand(t)
  <2>1. UNCHANGED <<sol, log>>
    BY <1>7
    DEF Environment, Exit, ProverSucceeds, ProverFails, ProverAnswers, TxLost,
        TxExpire, MineBlock, Reorg, solana
  <2> QED
    BY <2>1
<1> QED
  BY <1>3, <1>4, <1>5, <1>6, <1>7 DEF Next, Coordinator

\* The pipeline implements MintLedger: through every crash, late transaction,
\* failed proof and reorganisation the accepted headers form one chain, each
\* makes payable exactly the deposits of the block Conf below it, each group is
\* paid once, and no header is accepted before the previous one is fully paid.
THEOREM PipelineRefinesLedger == Spec => LedgerRefined
<1>1. Init => Ledger!Init
  BY DEF Init, Ledger!Init
<1>2. PipelineInv /\ [Next]_vars => [Ledger!Next]_<<log, sol.done>>
  BY LedgerStep
<1> QED
  BY <1>1, <1>2, PipelineInvariant, PTL DEF Spec, LedgerRefined, Ledger!Spec

---------------------------------------------------------------------------
(* What poll_once prepares ahead *)

\* Nothing is in flight, and a process that is running plans from where it is.
LEMMA QueueEmpty ==
    ASSUME inflight' = {}, pc' \notin TakenPcs, pc' # "finalize",
           pc' \in LivePcs => planned' = cp' /\ cp' \in PipelineCheckpoint
    PROVE  QueueInv'
<1>1. IsFiniteSet(inflight') /\ Cardinality(inflight') = 0
  BY FS_EmptySet
<1>2. WithinWindow'
  BY <1>1, ConfigAssumption DEF WithinWindow
<1>3. ASSUME pc' \in LivePcs PROVE ChainedFlight'
  <2>1. Base' = cp' /\ planned' = cp'
    BY <1>3 DEF Base
  <2>2. Height(cp') \in Nat
    BY <1>3, CheckpointFields
  <2>3. Height(planned)' = Height(Base)' + Cardinality(inflight')
    BY <1>1, <2>1, <2>2 DEF Height
  <2> QED
    BY <2>1, <2>3 DEF ChainedFlight
<1> QED
  BY <1>1, <1>2, <1>3 DEF QueueInv

\* The process ends.
LEMMA TerminateQueue ==
    ASSUME Terminate
    PROVE  QueueInv'
BY QueueEmpty DEF Terminate, TakenPcs, CommitPcs, LivePcs

\* Start-up is over.
LEMMA ReadyQueue ==
    ASSUME NEW c \in PipelineCheckpoint, Ready(c)
    PROVE  QueueInv'
BY QueueEmpty DEF Ready, TakenPcs, CommitPcs

\* A step that leaves the queue, and what it is based on, alone.
LEMMA QueueFrame ==
    ASSUME QueueInv, UNCHANGED <<planned, inflight>>,
           pc' \in LivePcs <=> pc \in LivePcs,
           pc \in LivePcs => Base' = Base,
           pc' \in TakenPcs => job'.parent = cp',
           pc' = "finalize" => Cardinality(inflight) < Window
    PROVE  QueueInv'
<1>1. pc \in LivePcs => ChainedFlight'
  BY DEF QueueInv, ChainedFlight
<1>2. WithinWindow'
  BY DEF QueueInv, WithinWindow
<1> QED
  BY <1>1, <1>2 DEF QueueInv

\* A step of a start-up or of a stopped process.
LEMMA StartingQueue ==
    ASSUME QueueInv, pc \notin LivePcs, pc' \notin LivePcs, UNCHANGED inflight
    PROVE  QueueInv'
<1>1. inflight' = {}
  BY DEF QueueInv
<1> QED
  BY <1>1, QueueEmpty DEF LivePcs

\* A step within the commit of a height.
LEMMA CommitQueue ==
    ASSUME QueueInv, pc \in TakenPcs, pc' \in TakenPcs,
           UNCHANGED <<cp, planned, inflight, job>>
    PROVE  QueueInv'
<1>1. Base' = Base
  BY DEF Base
<1>2. pc \in LivePcs /\ pc' \in LivePcs /\ pc' # "finalize"
  BY DEF LivePcs, TakenPcs, CommitPcs
<1>3. job'.parent = cp'
  BY DEF QueueInv
<1> QED
  BY <1>1, <1>2, <1>3, QueueFrame

\* SubmitJob adds the transition that follows the planned checkpoint.
LEMMA SubmitQueue ==
    ASSUME PipelineInv, QueueInv, SubmitJob, ~Terminate
    PROVE  QueueInv'
<1> DEFINE j == [parent |-> planned, next |-> NextCheckpoint(planned, draft)]
<1>1. /\ pc = "finalize" /\ pc' = "prepare" /\ planned' = j.next
      /\ inflight' = inflight \cup {j} /\ UNCHANGED <<cp, job>>
  BY DEF SubmitJob
<1>2. Height(j.next) = Height(planned) + 1 /\ Height(planned) \in Nat
  BY CheckpointFields DEF NextCheckpoint, Height, PipelineInv, TypeOK, ProcessTypeOK
<1>3. ChainedFlight /\ IsFiniteSet(inflight) /\ Cardinality(inflight) < Window
  BY <1>1 DEF QueueInv, LivePcs, WithinWindow
<1>4. Base = cp /\ Base' = cp /\ Height(cp) \in Nat
  BY <1>1, CheckpointFields
  DEF Base, TakenPcs, CommitPcs, PipelineInv, TypeOK, ProcessTypeOK
<1>5. \A i \in inflight : Height(i.next) \in Nat /\ Height(i.next) <= Height(planned)
  BY <1>3, TransitionFields, CheckpointFields
  DEF ChainedFlight, PipelineInv, TypeOK, ProcessTypeOK
<1>6. j \notin inflight
  BY <1>2, <1>5
<1> HIDE DEF j
<1>7. /\ Cardinality(inflight) \in Nat /\ IsFiniteSet(inflight')
      /\ Cardinality(inflight') = Cardinality(inflight) + 1
  BY <1>1, <1>3, <1>6, FS_AddElement, FS_CardinalityType
<1>8. Height(planned') = Height(cp) + Cardinality(inflight')
  BY <1>1, <1>2, <1>3, <1>4, <1>7 DEF ChainedFlight
<1>9. Height(cp) <= Height(planned)
  BY <1>2, <1>3, <1>4, <1>7 DEF ChainedFlight
<1>10. \A i \in inflight' : Height(cp) < Height(i.next) /\ Height(i.next) <= Height(planned')
  BY <1>1, <1>2, <1>3, <1>4, <1>5, <1>9 DEF ChainedFlight
<1>11. \A i \in inflight' : i.parent = cp \/ \E k \in inflight' : k.next = i.parent
  <2>1. j.parent = planned
    BY DEF j
  <2> QED
    BY <1>1, <1>3, <1>4, <2>1 DEF ChainedFlight
<1>12. \A i, k \in inflight' : Height(i.next) = Height(k.next) => i = k
  BY <1>1, <1>2, <1>3, <1>5 DEF ChainedFlight
<1>13. \E k \in inflight' : k.next = planned'
  BY <1>1
<1>14. Height(planned)' = Height(planned') /\ Height(Base)' = Height(cp)
  BY <1>4 DEF Height
<1>15. ChainedFlight'
  BY <1>4, <1>8, <1>10, <1>11, <1>12, <1>13, <1>14 DEF ChainedFlight
<1>16. Cardinality(inflight') <= Window
  BY <1>3, <1>7, ConfigAssumption
<1> QED
  BY <1>1, <1>7, <1>15, <1>16 DEF QueueInv, WithinWindow, LivePcs, TakenPcs, CommitPcs

\* TakeNext: the transition it takes starts at the committed checkpoint, and
\* what stays in flight builds on it.
LEMMA TakeQueue ==
    ASSUME PipelineInv, QueueInv, NEW j \in inflight, TakeNext(j)
    PROVE  QueueInv'
<1>1. /\ pc = "prepare" /\ pc' = "wait" /\ job' = j
      /\ inflight' = inflight \ {j} /\ UNCHANGED <<cp, planned>>
      /\ Height(j.next) = Height(cp) + 1
  BY DEF TakeNext, IsNext
<1>2. ChainedFlight /\ IsFiniteSet(inflight) /\ Cardinality(inflight) <= Window
  BY <1>1 DEF QueueInv, LivePcs, WithinWindow
<1>3. Base = cp /\ Base' = j.next /\ Height(cp) \in Nat /\ Height(planned) \in Nat
  BY <1>1, CheckpointFields
  DEF Base, TakenPcs, CommitPcs, PipelineInv, TypeOK, ProcessTypeOK
<1>4. \A i \in inflight : /\ Height(i.next) \in Nat /\ Height(i.parent) \in Nat
                          /\ Height(i.next) = Height(i.parent) + 1
  <2> SUFFICES ASSUME NEW i \in inflight
               PROVE  /\ Height(i.next) \in Nat /\ Height(i.parent) \in Nat
                      /\ Height(i.next) = Height(i.parent) + 1
    OBVIOUS
  <2>1. i \in PreparedTransition /\ Extends(i)
    BY DEF PipelineInv, TypeOK, ProcessTypeOK, JobInv
  <2> QED
    BY <2>1, TransitionFields, CheckpointFields, ExtendsHeight
<1>5. j.parent = cp
  <2>1. ASSUME NEW i \in inflight, i.next = j.parent PROVE FALSE
    BY <1>1, <1>2, <1>3, <1>4, <2>1 DEF ChainedFlight
  <2> QED
    BY <1>2, <1>3, <2>1 DEF ChainedFlight
<1>6. \A i \in inflight : i # j => Height(i.next) > Height(j.next)
  BY <1>1, <1>2, <1>3, <1>4 DEF ChainedFlight
<1>7. /\ Cardinality(inflight) \in Nat /\ IsFiniteSet(inflight')
      /\ Cardinality(inflight') = Cardinality(inflight) - 1
  BY <1>1, <1>2, FS_RemoveElement, FS_CardinalityType
<1>8. Height(planned') = Height(j.next) + Cardinality(inflight')
  BY <1>1, <1>2, <1>3, <1>4, <1>7 DEF ChainedFlight
<1>9. \E i \in inflight : i.next = planned
  BY <1>1, <1>2, <1>3, <1>4 DEF ChainedFlight
<1>10. planned' = j.next \/ \E i \in inflight' : i.next = planned'
  BY <1>1, <1>9
<1>11. ASSUME NEW i \in inflight'
       PROVE  i.parent = j.next \/ \E k \in inflight' : k.next = i.parent
  <2>1. i \in inflight /\ i # j
    BY <1>1, <1>11
  <2>2. i.parent # cp
    BY <1>1, <1>3, <1>4, <1>6, <2>1
  <2> QED
    BY <1>1, <1>2, <1>3, <2>1, <2>2 DEF ChainedFlight
<1>12. \A i \in inflight' : Height(j.next) < Height(i.next) /\ Height(i.next) <= Height(planned')
  BY <1>1, <1>2, <1>4, <1>6 DEF ChainedFlight
<1>13. \A i, k \in inflight' : Height(i.next) = Height(k.next) => i = k
  BY <1>1, <1>2 DEF ChainedFlight
<1>14. Height(planned)' = Height(planned') /\ Height(Base)' = Height(j.next)
  BY <1>3 DEF Height
<1>15. ChainedFlight'
  BY <1>3, <1>8, <1>10, <1>11, <1>12, <1>13, <1>14 DEF ChainedFlight
<1>16. Cardinality(inflight') <= Window
  BY <1>2, <1>7, ConfigAssumption
<1> QED
  BY <1>1, <1>5, <1>7, <1>15, <1>16 DEF QueueInv, WithinWindow, LivePcs, TakenPcs, CommitPcs

\* Every step keeps the queue in order.
LEMMA NextQueue ==
    ASSUME PipelineInv, QueueInv, [Next]_vars
    PROVE  QueueInv'
<1> USE DEF LivePcs, TakenPcs, CommitPcs
<1>1. CASE UNCHANGED vars
  <2>1. UNCHANGED <<pc, cp, planned, inflight, job>>
    BY <1>1 DEF vars, local
  <2> QED
    BY <2>1 DEF QueueInv, ChainedFlight, WithinWindow, Base, Height
<1>2. CASE Start
  BY <1>2, StartingQueue DEF Start
<1>3. CASE Initialize
  <2>1. pc \notin LivePcs
    BY <1>3
    DEF Initialize, LoadCheckpoint, ReconcileUpToDate, ReconcileStale,
        DiscardJournal, ReconcileFailClosed, ReconcilePromote, ReconcileMint,
        RecoverMintEnd, RecoverSave, RecoverDelete
  <2>2. cp \in PipelineCheckpoint
    BY DEF PipelineInv, TypeOK, ProcessTypeOK
  <2>3. CASE LoadCheckpoint \/ ReconcileStale \/ ReconcileFailClosed
             \/ ReconcilePromote \/ ReconcileMint \/ RecoverMintEnd \/ RecoverSave
    BY <2>1, <2>3, StartingQueue, TerminateQueue
    DEF LoadCheckpoint, ReconcileStale, ReconcileFailClosed, ReconcilePromote,
        ReconcileMint, RecoverMintEnd, RecoverSave, Recovering, Goto
  <2>4. CASE ReconcileUpToDate \/ DiscardJournal
    BY <2>2, <2>4, ReadyQueue DEF ReconcileUpToDate, DiscardJournal
  <2>5. CASE RecoverDelete
    <3>1. job.next \in PipelineCheckpoint
      BY <2>5, JobType DEF RecoverDelete, PipelineInv, TypeOK, JobPcs
    <3> QED
      BY <2>5, <3>1, ReadyQueue, TerminateQueue DEF RecoverDelete
  <2> QED
    BY <1>3, <2>3, <2>4, <2>5 DEF Initialize
<1>4. CASE Terminate
  BY <1>4, TerminateQueue
<1>5. CASE PollOnce /\ ~Terminate
  <2>1. CASE FetchTip \/ FetchBlock \/ Idle
    <3>1. /\ pc \in {"poll", "prepare"} /\ pc' \in {"poll", "prepare", "finalize"}
          /\ UNCHANGED <<cp, planned, inflight, job>>
          /\ pc' = "finalize" => Cardinality(inflight) < Window
      BY <1>5, <2>1 DEF FetchTip, FetchBlock, Idle, Goto, MayPrepare
    <3> QED
      BY <3>1, QueueFrame DEF Base
  <2>2. CASE SubmitJob
    BY <1>5, <2>2, SubmitQueue
  <2>3. CASE \E j \in inflight : TakeNext(j)
    BY <2>3, TakeQueue
  <2> QED
    BY <1>5, <2>1, <2>2, <2>3 DEF PollOnce
<1>6. CASE CommitPrepared /\ ~Terminate
  <2>1. CASE SaveCheckpoint \/ DeleteJournal
    BY <2>1, QueueFrame DEF SaveCheckpoint, DeleteJournal, Base
  <2>2. CASE MintGroup
    <3>1. UNCHANGED <<pc, cp, planned, inflight, job>> /\ pc \in {"mint", "recmint"}
      BY <2>2 DEF MintGroup
    <3> QED
      BY <3>1, CommitQueue, StartingQueue
  <2>3. CASE CommitPrepared /\ ~SaveCheckpoint /\ ~DeleteJournal /\ ~MintGroup
    <3>1. pc \in TakenPcs /\ pc' \in TakenPcs /\ UNCHANGED <<cp, planned, inflight, job>>
      BY <1>6, <2>3
      DEF CommitPrepared, WaitProof, Journal1, UploadMintsBegin, UploadMintsEnd,
          UploadTxo, Journal2, PersistEvidence, PostBlockUpdate, SendOk,
          SendRejected, Journal3, MintEnd, Journal4, WriteJournal, Goto, local
    <3> QED
      BY <3>1, CommitQueue
  <2> QED
    BY <1>6, <2>1, <2>2, <2>3
<1>7. CASE Environment /\ ~Terminate
  <2>1. UNCHANGED <<pc, cp, planned, inflight, job>>
    BY <1>7
    DEF Environment, Exit, MintRetry, ProverSucceeds, ProverFails, ProverAnswers,
        TxLand, TxLost, TxExpire, MineBlock, Reorg, local
  <2> QED
    BY <2>1 DEF QueueInv, ChainedFlight, WithinWindow, Base, Height
<1> QED
  BY <1>1, <1>2, <1>3, <1>4, <1>5, <1>6, <1>7 DEF Next, Coordinator

\* What is prepared ahead is, at every moment, an unbroken chain of heights from
\* the committed checkpoint to the planned one, one transition per height and
\* at most Window (proof_prepare_window) of them, however far behind the
\* Dogecoin tip the process is and wherever it stopped before.
THEOREM QueueInvariant == Spec => []QueueInv
<1>1. Init => QueueInv
  BY FS_EmptySet, ConfigAssumption
  DEF Init, QueueInv, WithinWindow, LivePcs, TakenPcs, CommitPcs
<1>2. PipelineInv /\ QueueInv /\ [Next]_vars => QueueInv'
  BY NextQueue
<1> QED
  BY <1>1, <1>2, PipelineInvariant, PTL DEF Spec

\* The transition taken for commit always starts at the committed checkpoint,
\* so the fingerprint and height checks at the top of commit_prepared cannot
\* fail in a live process, for any window and any chain.
THEOREM PreparedInOrder == Spec => []PreparedChain
<1>1. ASSUME PipelineInv, QueueInv PROVE PreparedChain
  <2>1. pc = "wait" => job.parent = cp
    BY <1>1 DEF QueueInv, TakenPcs
  <2>2. ASSUME NEW j \in inflight PROVE InOrder(j)
    <3>1. ChainedFlight
      BY <1>1, <2>2 DEF QueueInv
    <3>2. CASE pc \in TakenPcs
      <4>1. job # None /\ Base = job.next
        BY <1>1, <3>2 DEF PipelineInv, ProcessInv, JobPcs, TakenPcs, Base
      <4> QED
        BY <2>2, <3>1, <4>1 DEF ChainedFlight, InOrder
    <3>3. CASE pc \notin TakenPcs
      BY <2>2, <3>1, <3>3 DEF ChainedFlight, InOrder, Base
    <3> QED
      BY <3>2, <3>3
  <2>3. pc \in {"poll", "prepare", "finalize"} =>
          Height(planned) = Height(cp) + Cardinality(inflight)
    BY <1>1 DEF QueueInv, ChainedFlight, LivePcs, TakenPcs, CommitPcs, Base
  <2> QED
    BY <2>1, <2>2, <2>3 DEF PreparedChain
<1> QED
  BY <1>1, PipelineInvariant, QueueInvariant, PTL

---------------------------------------------------------------------------
(* Restarts, with updates of earlier processes still in flight *)

\* Recovery has a way on when the chain is at the checkpoint.
LEMMA SettledPlan ==
    ASSUME NEW c, NEW chain, NEW j, c.header = chain
    PROVE  PlanJournalRecovery(c, chain, j) # "FailClosed"
BY DEF PlanJournalRecovery

\* ... and when the journal is the one of the update the chain has accepted,
\* written after the buffers were uploaded.
LEMMA SentPlan ==
    ASSUME NEW c \in PipelineCheckpoint, NEW t \in PreparedTransition,
           NEW s \in BOOLEAN, NEW m \in BOOLEAN,
           Height(t.next) = Height(c) + 1
    PROVE  PlanJournalRecovery(c, t.next.header, JournalOf(t, TRUE, s, m)) # "FailClosed"
<1> DEFINE j == JournalOf(t, TRUE, s, m)
<1>1. j # None /\ j.cp = t.next /\ j.fin = t.next.header.fin /\ j.uploaded
  BY JournalType DEF JournalOf
<1>2. j.fin # None
  BY <1>1, TransitionFields, CheckpointFields, NoneAssumption
<1> QED
  BY <1>1, <1>2 DEF PlanJournalRecovery

\* The updates in flight, when the process is where it has none of its own: a
\* step that adds none and leaves the header alone.
LEMMA LateOnly ==
    ASSUME SentInv, txs \subseteq late, UNCHANGED <<txs, late>>,
           sol'.header = sol.header
    PROVE  SentInv'
BY DEF SentInv

\* A process that ends leaves the store and the chain as they are.
LEMMA TerminateRestart ==
    ASSUME RestartInv, Terminate, UNCHANGED <<rcp, rjr, sol, txs, late>>
    PROVE  RestartInv'
<1>1. Durable' = Durable /\ pc' = "down" /\ Outlived' = Outlived
  BY DEF Durable, Terminate, Outlived
<1>2. SentInv' /\ StageInv'
  BY <1>1 DEF RestartInv, SentInv, Fresh, At, StageInv
<1>3. CrashRecoverable'
  BY <1>1 DEF RestartInv, CrashRecoverable, FailsClosed
<1> QED
  BY <1>1, <1>2, <1>3 DEF RestartInv, StartPcs, SettledPcs

\* A step that ends where the chain agrees with the durable checkpoint, or an
\* update has outlived its process, and nothing of this process is in flight.
LEMMA SettledRestart ==
    ASSUME At(Durable)', SentInv',
           pc' \in SettledPcs \ {"evidence", "discard"}
    PROVE  RestartInv'
<1>1. CrashRecoverable'
  BY SettledPlan DEF CrashRecoverable, FailsClosed, At
<1>2. StageInv'
  BY DEF StageInv, SettledPcs
<1> QED
  BY <1>1, <1>2 DEF RestartInv, SettledPcs, StartPcs

\* A step that leaves store and chain alone and stays within start-up, or goes
\* where the chain has not moved.
LEMMA StartingRestart ==
    ASSUME RestartInv, pc \notin {"down", "send"},
           pc' \in {"reconcile", "discard", "recmint", "recsave"},
           pc' = "discard" => At(Durable),
           pc \in StartPcs, UNCHANGED <<seen, rcp, rjr, sol, txs, late>>
    PROVE  RestartInv'
<1>1. Durable' = Durable /\ Outlived' = Outlived
  BY DEF Durable, Outlived
<1>2. SentInv' /\ StageInv'
  BY <1>1, LateOnly DEF RestartInv, SentInv, StageInv
<1>3. CrashRecoverable'
  BY <1>1 DEF RestartInv, CrashRecoverable, FailsClosed
<1> QED
  BY <1>1, <1>2, <1>3 DEF RestartInv, StartPcs, SettledPcs, At

\* The commit beyond the upload: the journal is the one this point has, and it
\* is usable whether the update has landed or not.
LEMMA StagedRestart ==
    ASSUME PipelineInv, RestartInv, pc \in CommitPcs,
           pc' \in {"evidence", "send", "journal3", "mint", "journal4", "save"},
           UNCHANGED <<job, rcp, sol, txs, late>>, StageInv',
           At(Durable) \/ sol.header = job.next.header,
           pc' = "evidence" => At(Durable),
           txs \subseteq late
    PROVE  RestartInv'
<1>1. Durable' = Durable /\ Outlived' = Outlived
  BY DEF Durable, Outlived
<1>2. Durable \in PipelineCheckpoint /\ job \in PreparedTransition
      /\ Height(job.next) = Height(Durable) + 1
  BY JobFacts
<1>3. \E s, m \in BOOLEAN : rjr' = JournalOf(job, TRUE, s, m)
  BY DEF StageInv
<1>4. CrashRecoverable'
  BY <1>1, <1>2, <1>3, SettledPlan, SentPlan DEF CrashRecoverable, FailsClosed, At
<1>5. SentInv'
  BY LateOnly DEF RestartInv
<1> QED
  BY <1>1, <1>4, <1>5 DEF RestartInv, StartPcs, SettledPcs, At

\* Start-up keeps the recovery invariant: it decides on the header the chain
\* still has, so what it discards or promotes is settled, or an update of an
\* earlier process has landed since.
LEMMA InitializeRestart ==
    ASSUME PipelineInv, RestartInv, Initialize
    PROVE  RestartInv'
<1>1. pc \in {"load", "reconcile", "discard", "recmint", "recsave", "recdel"}
      /\ UNCHANGED <<sol, txs, late>>
  BY DEF Initialize, LoadCheckpoint, ReconcileUpToDate, ReconcileStale,
         DiscardJournal, ReconcileFailClosed, ReconcilePromote, ReconcileMint,
         RecoverMintEnd, RecoverSave, RecoverDelete, solana
<1>2. SentInv' /\ Outlived' = Outlived
  BY <1>1, LateOnly DEF RestartInv, SentInv, Outlived
<1>3. pc = "reconcile" => cp = Durable /\ (seen = sol.header \/ Outlived)
  BY DEF PipelineInv, MemoryInv, RestartInv, StartPcs
<1>4. ASSUME Terminate, UNCHANGED <<rcp, rjr>>
      PROVE  RestartInv'
  BY <1>1, <1>4, TerminateRestart
<1>5. CASE LoadCheckpoint /\ ~Terminate
  BY <1>1, <1>5, StartingRestart DEF LoadCheckpoint, StartPcs, store
<1>6. CASE ReconcileUpToDate
  <2>1. At(Durable)
    BY <1>3, <1>6 DEF ReconcileUpToDate, Plan, PlanJournalRecovery, At
  <2>2. Durable' = Durable /\ pc' = "poll"
    BY <1>6 DEF ReconcileUpToDate, Ready, store, Durable
  <2> QED
    BY <1>1, <1>2, <2>1, <2>2, SettledRestart DEF SettledPcs, At
<1>7. CASE ReconcileStale
  <2>1. At(Durable)
    BY <1>3, <1>7 DEF ReconcileStale, Plan, PlanJournalRecovery, At
  <2> QED
    BY <1>1, <1>7, <2>1, StartingRestart DEF ReconcileStale, Goto, StartPcs, store
<1>8. CASE DiscardJournal
  <2>1. At(Durable) /\ Durable' = Durable /\ pc' = "poll"
    BY <1>8 DEF DiscardJournal, Ready, RestartInv, SettledPcs, Durable
  <2> QED
    BY <1>1, <1>2, <2>1, SettledRestart DEF SettledPcs, At
<1>9. CASE ReconcilePromote \/ ReconcileMint
  BY <1>1, <1>9, StartingRestart
  DEF ReconcilePromote, ReconcileMint, Recovering, StartPcs, store
<1>10. CASE RecoverMintEnd
  BY <1>1, <1>10, StartingRestart DEF RecoverMintEnd, Goto, StartPcs, store
<1>11. CASE RecoverSave
  <2>1. pc = "recsave" /\ rcp' = job.next /\ pc' = "recdel"
    BY <1>11 DEF RecoverSave, Goto
  <2>2. job.next \in PipelineCheckpoint
    BY <2>1, JobFacts
  <2>3. Durable' = job.next
    BY <2>1, <2>2, CheckpointFields DEF Durable
  <2>4. sol.header = job.next.header
    BY <2>1 DEF PipelineInv, ProgressInv, SubmittedPcs
  <2> QED
    BY <1>1, <1>2, <2>1, <2>3, <2>4, SettledRestart DEF SettledPcs, At
<1>12. CASE RecoverDelete
  <2>1. pc = "recdel" /\ At(Durable) /\ Durable' = Durable
        /\ pc' \in {"poll", "down"} /\ rjr' = None
    BY <1>12 DEF RecoverDelete, Ready, Terminate, RestartInv, SettledPcs, Durable
  <2>2. CASE pc' = "poll"
    BY <1>1, <1>2, <2>1, <2>2, SettledRestart DEF SettledPcs, At
  <2>3. CASE pc' = "down"
    <3>1. CrashRecoverable'
      BY <1>1, <1>2, <2>1, SettledPlan DEF CrashRecoverable, FailsClosed, At
    <3> QED
      BY <1>2, <2>3, <3>1 DEF RestartInv, StageInv, StartPcs, SettledPcs
  <2> QED
    BY <2>1, <2>2, <2>3
<1>13. CASE LoadCheckpoint /\ Terminate
  BY <1>4, <1>13 DEF LoadCheckpoint, store
<1>14. CASE ReconcileFailClosed
  BY <1>4, <1>14 DEF ReconcileFailClosed, store
<1> QED
  BY <1>5, <1>6, <1>7, <1>8, <1>9, <1>10, <1>11, <1>12, <1>13, <1>14 DEF Initialize

\* The commit of a height keeps the recovery invariant.
LEMMA CommitRestart ==
    ASSUME PipelineInv, RestartInv, CommitPrepared
    PROVE  RestartInv'
<1>1. ASSUME Terminate, UNCHANGED <<rcp, rjr, sol, txs, late>>
      PROVE  RestartInv'
  BY <1>1, TerminateRestart
<1>2. pc \in {"journal1", "upload", "fill", "txo", "journal2", "evidence", "wait",
              "delete"} => At(Durable) /\ txs \subseteq late
  BY DEF RestartInv, SettledPcs, SentInv
<1>3. pc \in {"journal3", "mint", "journal4", "save"} =>
        sol.header = job.next.header /\ txs \subseteq late
  BY DEF PipelineInv, ProgressInv, SubmittedPcs, RestartInv, SentInv
<1>4. ASSUME UNCHANGED <<sol, txs, late>>, txs \subseteq late
      PROVE  SentInv' /\ Outlived' = Outlived
  BY <1>4, LateOnly DEF RestartInv, Outlived
<1>5. CASE \E p \in proofs : WaitProof(p)
  <2>1. /\ pc = "wait" /\ UNCHANGED <<rcp, rjr, sol, txs, late>>
        /\ Goto("journal1") \/ Terminate
    BY <1>5 DEF WaitProof, store, solana
  <2>2. CASE Goto("journal1")
    BY <1>2, <1>4, <2>1, <2>2, SettledRestart DEF Goto, SettledPcs, Durable, At
  <2> QED
    BY <1>1, <2>1, <2>2
<1>6. CASE Journal1 \/ UploadMintsBegin \/ UploadMintsEnd \/ UploadTxo
  <2>1. /\ pc \in {"journal1", "upload", "fill", "txo"}
        /\ pc' \in {"upload", "fill", "txo", "journal2"}
        /\ UNCHANGED <<rcp, sol, txs, late>>
    BY <1>6
    DEF Journal1, UploadMintsBegin, UploadMintsEnd, UploadTxo, WriteJournal, Goto,
        store, solana
  <2> QED
    BY <1>2, <1>4, <2>1, SettledRestart DEF SettledPcs, Durable, At
<1>7. CASE Journal2 \/ PersistEvidence
  <2>1. /\ pc \in {"journal2", "evidence"} /\ pc' \in {"evidence", "send"}
        /\ UNCHANGED <<job, rcp, sol, txs, late>>
        /\ rjr' = JournalOf(job, TRUE, FALSE, FALSE)
    BY <1>7
    DEF Journal2, PersistEvidence, WriteJournal, Goto, solana, RestartInv, StageInv
  <2>2. StageInv'
    BY <2>1 DEF StageInv, JournalOf
  <2> QED
    BY <1>2, <2>1, <2>2, StagedRestart DEF CommitPcs
<1>8. CASE PostBlockUpdate
  <2>1. /\ pc = "send" /\ txs' = txs \cup {job} /\ sol.header = job.parent.header
        /\ UNCHANGED <<pc, seen, job, rcp, rjr, sol, late>>
    BY <1>8 DEF PostBlockUpdate, local, store
  <2>2. job.parent = Durable /\ job.next.header # sol.header
    <3>1. /\ job.parent = Durable
          /\ Height(Durable) \in Nat /\ Height(job.next) = Height(Durable) + 1
      BY <2>1, JobFacts DEF CommitPcs
    <3> QED
      BY <2>1, <3>1 DEF Height
  <2>3. rjr = JournalOf(job, TRUE, FALSE, FALSE)
    BY <2>1 DEF RestartInv, StageInv
  <2>4. Durable' = Durable /\ Outlived' = Outlived
    BY <2>1 DEF Durable, Outlived
  <2>5. SentInv'
    <3>1. ASSUME NEW t \in txs \ late PROVE Fresh(t)'
      BY <2>1, <2>4, <3>1 DEF RestartInv, SentInv, Fresh, At, JournalOf
    <3>2. Fresh(job)'
      BY <2>1, <2>2, <2>3, <2>4 DEF Fresh, At, JournalOf
    <3> QED
      BY <2>1, <2>2, <3>1, <3>2 DEF RestartInv, SentInv
  <2>6. CrashRecoverable'
    BY <2>1, <2>4 DEF RestartInv, CrashRecoverable, FailsClosed
  <2>7. StageInv'
    BY <2>1, <2>3 DEF StageInv, JournalOf
  <2> QED
    BY <2>1, <2>5, <2>6, <2>7 DEF RestartInv, StartPcs, SettledPcs
<1>9. CASE SendOk
  <2>1. /\ pc = "send" /\ pc' = "journal3" /\ sol.header = job.next.header
        /\ UNCHANGED <<job, rcp, rjr, sol, txs, late>>
    BY <1>9 DEF SendOk, Goto, store, solana
  <2>2. txs \subseteq late
    BY <2>1 DEF RestartInv, SentInv, Fresh
  <2>3. StageInv'
    BY <2>1 DEF RestartInv, StageInv, JournalOf
  <2> QED
    BY <2>1, <2>2, <2>3, StagedRestart DEF CommitPcs
<1>10. CASE SendRejected
  BY <1>1, <1>10 DEF SendRejected, store, solana
<1>11. CASE Journal3 \/ Journal4
  <2>1. /\ pc \in {"journal3", "journal4"} /\ UNCHANGED <<job, rcp, sol, txs, late>>
        /\ pc' \in {"mint", "save"}
        /\ rjr' = JournalOf(job, TRUE, TRUE, pc = "journal4")
        /\ pc' = "save" <=> pc = "journal4"
    BY <1>11 DEF Journal3, Journal4, WriteJournal, Goto, solana
  <2>2. StageInv'
    BY <2>1 DEF StageInv, JournalOf
  <2> QED
    BY <1>3, <2>1, <2>2, StagedRestart DEF CommitPcs
<1>12. CASE MintGroup
  <2>1. UNCHANGED <<pc, seen, job, rcp, rjr, txs, late>> /\ pc \in {"mint", "recmint"}
        /\ sol' = [sol EXCEPT !.done = @ + 1]
    BY <1>12 DEF MintGroup, store
  <2>2. sol'.header = sol.header
    BY <2>1 DEF PipelineInv, TypeOK, SolanaTypeOK
  <2>3. Durable' = Durable /\ Outlived' = Outlived
    BY <2>1, <2>2 DEF Durable, Outlived
  <2>4. SentInv'
    BY <2>1, <2>2, LateOnly DEF RestartInv, SentInv
  <2> QED
    BY <2>1, <2>2, <2>3, <2>4
    DEF RestartInv, At, StageInv, CrashRecoverable, FailsClosed, JournalOf
<1>13. CASE MintEnd
  <2>1. /\ pc = "mint" /\ UNCHANGED <<rcp, rjr, sol, txs, late>>
        /\ (pc' = "journal4" /\ UNCHANGED job) \/ Terminate
    BY <1>13 DEF MintEnd, store, solana
  <2>2. CASE pc' = "journal4" /\ UNCHANGED job
    <3>1. StageInv'
      BY <2>1, <2>2 DEF RestartInv, StageInv, JournalOf
    <3> QED
      BY <1>3, <2>1, <2>2, <3>1, StagedRestart DEF CommitPcs
  <2> QED
    BY <1>1, <2>1, <2>2
<1>14. CASE SaveCheckpoint
  <2>1. pc = "save" /\ rcp' = job.next /\ pc' = "delete" /\ UNCHANGED <<sol, txs, late>>
    BY <1>14 DEF SaveCheckpoint, solana
  <2>2. job.next \in PipelineCheckpoint
    BY <2>1, JobFacts DEF CommitPcs
  <2>3. Durable' = job.next
    BY <2>1, <2>2, CheckpointFields DEF Durable
  <2> QED
    BY <1>3, <1>4, <2>1, <2>3, SettledRestart DEF SettledPcs, At
<1>15. CASE DeleteJournal
  <2>1. pc = "delete" /\ pc' = "poll" /\ UNCHANGED <<rcp, sol, txs, late>>
    BY <1>15 DEF DeleteJournal, solana
  <2> QED
    BY <1>2, <1>4, <2>1, SettledRestart DEF SettledPcs, Durable, At
<1> QED
  BY <1>5, <1>6, <1>7, <1>8, <1>9, <1>10, <1>11, <1>12, <1>13, <1>14, <1>15
  DEF CommitPrepared

\* An update lands. When it is late, it has outlived its process; otherwise the
\* process that sent it is at its send or gone, and the journal it left names
\* exactly the header the chain now has.
LEMMA LandRestart ==
    ASSUME PipelineInv, RestartInv, NEW t \in txs, TxLand(t)
    PROVE  RestartInv'
<1>1. /\ sol'.header = t.next.header /\ txs' = txs \ {t} /\ late' = late \cap txs
      /\ UNCHANGED <<pc, seen, job, rcp, rjr>>
  BY DEF TxLand, local, store
<1>2. /\ t.parent = Durable /\ Extends(t) /\ Height(Durable) \in Nat
      /\ Height(t.next) = Height(Durable) + 1 /\ t \in PreparedTransition
      /\ Durable \in PipelineCheckpoint /\ Durable' = Durable
  BY <1>1, LandingStart, DurableType, CheckpointFields
  DEF TxLand, PipelineInv, TypeOK, SolanaTypeOK, Durable
<1>3. StageInv'
  BY <1>1 DEF RestartInv, StageInv, JournalOf
<1>4. ASSUME NEW u \in txs' PROVE u.next.header # sol'.header
  <2>1. u \in txs /\ u # t /\ u \in PreparedTransition /\ Extends(u)
        /\ (u.parent = Durable \/ Height(u.parent) < Height(Durable))
    BY <1>1, <1>4 DEF PipelineInv, TypeOK, SolanaTypeOK, FlightInv
  <2>2. CASE u.parent = Durable
    <3>1. u.next.header = t.next.header => u.next = t.next
      BY <1>2, <2>1, <2>2 DEF Extends
    <3>2. u = [parent |-> u.parent, next |-> u.next]
          /\ t = [parent |-> t.parent, next |-> t.next]
      BY <1>2, <2>1 DEF PreparedTransition
    <3> QED
      BY <1>1, <1>2, <2>1, <2>2, <3>1, <3>2
  <2>3. CASE Height(u.parent) < Height(Durable)
    <3>1. Height(u.next) = Height(u.parent) + 1 /\ Height(u.parent) \in Nat
      BY <2>1, ExtendsHeight, TransitionFields, CheckpointFields
    <3> QED
      BY <1>1, <1>2, <2>3, <3>1 DEF Height
  <2> QED
    BY <2>1, <2>2, <2>3
<1>5. CASE t \in late
  <2>1. Outlived'
    BY <1>1, <1>5 DEF Outlived
  <2>2. SentInv'
    <3>1. ASSUME NEW u \in txs' \ late' PROVE Fresh(u)'
      <4>1. Fresh(u)
        BY <1>1, <3>1 DEF RestartInv, SentInv
      <4> QED
        BY <1>1, <1>2, <2>1, <4>1 DEF Fresh, At, JournalOf
    <3> QED
      BY <1>1, <1>4, <3>1 DEF RestartInv, SentInv
  <2> QED
    BY <1>3, <2>1, <2>2 DEF RestartInv, At, CrashRecoverable
<1>6. CASE t \notin late
  <2>1. pc \in {"down", "send"} /\ Fresh(t)
    BY <1>6 DEF RestartInv, SentInv
  <2>2. txs' \subseteq late'
    <3>1. ASSUME NEW u \in txs \ late PROVE u = t
      <4>1. Fresh(u)
        BY <3>1 DEF RestartInv, SentInv
      <4>2. u.parent = t.parent /\ JournalOf(u, TRUE, FALSE, FALSE) =
                                   JournalOf(t, TRUE, FALSE, FALSE)
        BY <2>1, <4>1 DEF Fresh
      <4>3. u.next = t.next
        BY <4>2 DEF JournalOf
      <4> QED
        BY <4>2, <4>3 DEF PipelineInv, TypeOK, SolanaTypeOK, PreparedTransition
    <3> QED
      BY <1>1, <3>1
  <2>3. SentInv'
    BY <1>1, <1>4, <2>2 DEF SentInv
  <2>4. CrashRecoverable'
    BY <1>1, <1>2, <2>1, SentPlan DEF CrashRecoverable, FailsClosed, Fresh
  <2> QED
    BY <1>1, <1>3, <2>1, <2>3, <2>4 DEF RestartInv, StartPcs, SettledPcs
<1> QED
  BY <1>5, <1>6

\* A step that touches neither the process's position nor the store nor the
\* header, and adds no update.
LEMMA OutsideRestart ==
    ASSUME RestartInv, txs' \subseteq txs, late \ late' \subseteq txs \ txs',
           late' \subseteq late, sol'.header = sol.header,
           UNCHANGED <<pc, seen, job, rcp, rjr>>
    PROVE  RestartInv'
<1>1. Durable' = Durable
  BY DEF Durable
<1>2. Outlived' = Outlived
  <2>1. ASSUME NEW t \in late, t.next.header = sol.header PROVE t \in late'
    BY <2>1 DEF RestartInv, SentInv
  <2> QED
    BY <2>1 DEF Outlived
<1>3. SentInv'
  <2>1. ASSUME NEW t \in txs' \ late' PROVE Fresh(t)'
    <3>1. Fresh(t)
      BY <2>1 DEF RestartInv, SentInv
    <3> QED
      BY <1>1, <1>2, <3>1 DEF Fresh, At, JournalOf
  <2> QED
    BY <2>1 DEF RestartInv, SentInv
<1>4. StageInv' /\ CrashRecoverable'
  BY <1>1, <1>2 DEF RestartInv, StageInv, CrashRecoverable, FailsClosed, JournalOf
<1> QED
  BY <1>1, <1>2, <1>3, <1>4 DEF RestartInv, At

\* Every step keeps the recovery invariant.
LEMMA NextRestart ==
    ASSUME PipelineInv, RestartInv, [Next]_vars
    PROVE  RestartInv'
<1>1. CASE UNCHANGED vars
  BY <1>1, OutsideRestart DEF vars, local, store, solana
<1>2. CASE Start
  <2>1. /\ pc' = "load" /\ seen' = sol.header /\ late' = late \cup txs
        /\ UNCHANGED <<rcp, rjr, sol, txs>>
    BY <1>2 DEF Start, store
  <2>2. CrashRecoverable'
    BY <2>1 DEF RestartInv, CrashRecoverable, FailsClosed, Outlived, Durable
  <2> QED
    BY <2>1, <2>2 DEF RestartInv, SentInv, StageInv, SettledPcs
<1>3. CASE PollOnce
  <2>1. /\ pc \in {"poll", "prepare", "finalize"}
        /\ pc' \in {"down", "poll", "prepare", "finalize", "wait"}
        /\ pc' = "down" => Terminate
        /\ UNCHANGED <<rcp, rjr, sol, txs, late>>
    BY <1>3
    DEF PollOnce, FetchTip, FetchBlock, SubmitJob, TakeNext, Idle, Goto, Terminate,
        store, solana
  <2>2. At(Durable)' /\ SentInv'
    BY <2>1, LateOnly DEF RestartInv, SettledPcs, SentInv, Durable, At, Outlived
  <2>3. CASE pc' = "down"
    BY <2>1, <2>3, TerminateRestart
  <2>4. CASE pc' # "down"
    BY <2>1, <2>2, <2>4, SettledRestart DEF SettledPcs
  <2> QED
    BY <2>3, <2>4
<1>4. CASE Exit
  BY <1>4, TerminateRestart DEF Exit, store, solana
<1>5. CASE MintRetry
  <2>1. UNCHANGED <<pc, seen, job, rcp, rjr, txs, late>>
    BY <1>5 DEF MintRetry, store
  <2>2. sol'.header = sol.header
    BY <1>5 DEF MintRetry, PipelineInv, TypeOK, SolanaTypeOK
  <2> QED
    BY <2>1, <2>2, OutsideRestart
<1>6. CASE \E t \in txs : TxLand(t)
  BY <1>6, LandRestart
<1>7. CASE \E t \in txs : TxLost(t) \/ TxExpire(t)
  <2>1. PICK t \in txs : TxLost(t) \/ TxExpire(t)
    BY <1>7
  <2>2. /\ txs' = txs \ {t} /\ late' = late \ {t}
        /\ UNCHANGED <<pc, seen, job, rcp, rjr, sol>>
    BY <2>1 DEF TxLost, TxExpire, local, store
  <2> QED
    BY <2>1, <2>2, OutsideRestart
<1>8. CASE \/ \E p \in proofs : ProverSucceeds(p) \/ ProverFails(p)
           \/ \E d \in Payloads : MineBlock(d)
           \/ \E h \in Heights : Reorg(h)
  BY <1>8, OutsideRestart
  DEF ProverSucceeds, ProverFails, ProverAnswers, MineBlock, Reorg,
      local, store, solana
<1> QED
  BY <1>1, <1>2, <1>3, <1>4, <1>5, <1>6, <1>7, <1>8, InitializeRestart, CommitRestart
  DEF Next, Coordinator, Environment

\* The inductive invariant of restarts: where the chain can be at each program
\* point, what the journal then says, and which updates can still be in flight,
\* also when the process was started while an update of its predecessor was.
THEOREM RestartInvariant == Spec => []RestartInv
<1>1. Init => RestartInv
  <2> SUFFICES ASSUME Init PROVE RestartInv
    OBVIOUS
  <2>1. Durable.header = sol.header
    BY DEF Init, Durable, InitCheckpoint
  <2>2. CrashRecoverable
    BY <2>1, SettledPlan DEF CrashRecoverable, FailsClosed
  <2> QED
    BY <2>1, <2>2 DEF Init, RestartInv, SentInv, StageInv, StartPcs, SettledPcs
<1>2. PipelineInv /\ RestartInv /\ [Next]_vars => RestartInv'
  BY NextRestart
<1> QED
  BY <1>1, <1>2, PipelineInvariant, PTL DEF Spec

\* Wherever the process stops, in the commit, in a recovery or in the recovery
\* from that one, and whether or not its update lands while it is down, the next
\* start finds a checkpoint, or a journal it can finish: plan_journal_recovery
\* fails closed only at a header that landed after a later process had started.
THEOREM EveryStopIsRecoverable == Spec => []CrashRecoverable
<1>1. RestartInv => CrashRecoverable
  BY DEF RestartInv
<1> QED
  BY <1>1, RestartInvariant, PTL

\* A journal that start-up discards as stale is the only record of mints that
\* are owed only when their header landed after this start-up had read the
\* chain; in every other case the chain is still at the checkpoint.
THEOREM DiscardIsSafe == Spec => []SafeUnlessOutlived
<1>1. PipelineInv /\ RestartInv => SafeUnlessOutlived
  BY DEF PipelineInv, RestartInv, SettledPcs, At, SafeUnlessOutlived,
         CheckpointImpliesMinted
<1> QED
  BY <1>1, PipelineInvariant, RestartInvariant, PTL

\* The pending-mint buffer is rewritten only while nothing is owed from it: no
\* step between the acceptance of a header and its last mint touches it, not
\* even after a restart, unless that header outlived the process that sent it.
THEOREM MintBufferIsStable == Spec => MintBufferStable
<1>1. ASSUME PipelineInv, RestartInv, [Next]_vars, ~MintsComplete, ~Outlived
      PROVE  mbuf' = mbuf
  <2>1. pc \notin SettledPcs
    BY <1>1 DEF PipelineInv, RestartInv, At, CheckpointImpliesMinted
  <2>2. ~UploadMintsBegin /\ ~UploadMintsEnd
    BY <2>1 DEF UploadMintsBegin, UploadMintsEnd, SettledPcs
  <2>3. CASE Initialize \/ PollOnce \/ Start \/ UNCHANGED vars
    BY <2>3
    DEF Initialize, LoadCheckpoint, ReconcileUpToDate, ReconcileStale,
        DiscardJournal, ReconcileFailClosed, ReconcilePromote, ReconcileMint,
        RecoverMintEnd, RecoverSave, RecoverDelete, PollOnce, FetchTip, FetchBlock,
        SubmitJob, Idle, TakeNext, Start, vars, solana
  <2>4. CASE CommitPrepared
    BY <2>2, <2>4
    DEF CommitPrepared, WaitProof, Journal1, UploadTxo, Journal2, PersistEvidence,
        PostBlockUpdate, SendOk, SendRejected, Journal3, MintGroup, MintEnd,
        Journal4, SaveCheckpoint, DeleteJournal, WriteJournal, solana
  <2>5. CASE Environment
    BY <2>5
    DEF Environment, Exit, MintRetry, ProverSucceeds, ProverFails, ProverAnswers,
        TxLand, TxLost, TxExpire, MineBlock, Reorg, solana
  <2> QED
    BY <1>1, <2>3, <2>4, <2>5 DEF Next, Coordinator
<1>2. PipelineInv /\ RestartInv /\ [Next]_vars => 
        [~MintsComplete /\ mbuf' # mbuf => Outlived]_vars
  BY <1>1
<1> QED
  BY <1>2, PipelineInvariant, RestartInvariant, PTL DEF Spec, MintBufferStable
---------------------------------------------------------------------------
(* The recover command *)

\* What relates the process to the durable checkpoint, the chain and the archive.
ProcessRepair ==
    /\ JobInv /\ MemoryInv /\ SeenInv
    /\ pc \in SubmittedPcs => sol.header = job.next.header
    /\ pc = "send" => job \in archive

\* The chain is where the durable checkpoint is, or where an archived update of
\* that checkpoint takes it.
Reached ==
    \/ sol.header = Durable.header
    \/ \E j \in archive : /\ j.parent = Durable /\ Extends(j)
                          /\ j.next.header = sol.header

\* What relates the durable checkpoint, the journal, the archive and the chain.
StoreRepair == FlightInv /\ JournalShape /\ txs \subseteq archive /\ Reached

\* The two halves of the invariant, next to the typing; before and after a step.
LEMMA RepairParts ==
    /\ RepairInv <=> TypeInv /\ ProcessRepair /\ StoreRepair
    /\ RepairInv' <=> TypeInv' /\ ProcessRepair' /\ StoreRepair'
BY DEF RepairInv, TypeInv, ProcessRepair, StoreRepair, ArchiveInv, Reached

\* The chain is at the height of the durable checkpoint or one above it.
LEMMA ReachedHeight ==
    ASSUME Reached
    PROVE  sol.header = Durable.header \/ sol.header.height = Height(Durable) + 1
BY ExtendsHeight DEF Reached, Height

\* Steps that leave the checkpoint and the chain's header alone, add no update
\* and write no journal.
LEMMA StoreRepairFrame ==
    ASSUME StoreRepair, UNCHANGED rcp, sol'.header = sol.header, txs' \subseteq txs,
           archive \subseteq archive', rjr' \in {rjr, None}
    PROVE  StoreRepair' /\ Durable' = Durable
<1>1. Durable' = Durable
  BY DEF Durable
<1>2. FlightInv' /\ JournalShape' /\ (txs \subseteq archive)'
  BY <1>1 DEF StoreRepair, FlightInv, JournalShape, Extends
<1>3. Reached'
  BY <1>1 DEF StoreRepair, Reached
<1> QED
  BY <1>1, <1>2, <1>3 DEF StoreRepair

\* The durable checkpoint becomes one that is a block higher and at the header
\* of the chain: by commit_prepared, by start-up recovery or by the command.
LEMMA RepairPromotion ==
    ASSUME TypeInv, StoreRepair, NEW c \in PipelineCheckpoint, rcp' = c,
           c.header = sol.header, Height(c) = Height(Durable) + 1,
           UNCHANGED <<rjr, sol, archive, txs>>
    PROVE  StoreRepair' /\ Durable' = c
<1>1. Durable' = c
  BY CheckpointFields DEF Durable
<1>2. Durable \in PipelineCheckpoint /\ Height(Durable) \in Nat
  BY DurableType, CheckpointFields DEF TypeInv, TypeOK
<1>3. FlightInv'
  <2> SUFFICES ASSUME NEW t \in txs
               PROVE  Extends(t) /\ Height(t.parent) < Height(c)
    BY <1>1 DEF FlightInv
  <2>1. t.parent \in PipelineCheckpoint /\ Height(t.parent) \in Nat
    BY TransitionFields, CheckpointFields DEF TypeInv, TypeOK, SolanaTypeOK
  <2> QED
    BY <1>2, <2>1 DEF StoreRepair, FlightInv
<1>4. JournalShape'
  <2> SUFFICES ASSUME rjr # None
               PROVE  Height(rjr.cp) <= Height(c) + 1 /\ Height(rjr.cp) # Height(c) + 1
    BY <1>1 DEF JournalShape
  <2>1. Height(rjr.cp) \in Nat
    BY JournalFields, CheckpointFields DEF TypeInv, TypeOK, StoreTypeOK, Option
  <2> QED
    BY <1>2, <2>1 DEF StoreRepair, JournalShape
<1>5. Reached'
  BY <1>1 DEF Reached
<1> QED
  BY <1>1, <1>3, <1>4, <1>5 DEF StoreRepair

\* A process that is gone claims nothing.
LEMMA TerminateRepair ==
    ASSUME Terminate
    PROVE  ProcessRepair'
BY DEF Terminate, ProcessRepair, JobInv, MemoryInv, SeenInv, JobPcs, CommitPcs,
       StartPcs, SubmittedPcs

\* In its polling loop the process works on the durable checkpoint.
LEMMA PollRepair ==
    ASSUME pc' \in {"poll", "prepare", "finalize"}, cp' = Durable',
           \A j \in inflight' : Extends(j)
    PROVE  ProcessRepair'
<1>1. JobInv' /\ MemoryInv'
  BY DEF JobInv, MemoryInv, Extends, JobPcs, CommitPcs
<1> QED
  BY <1>1 DEF ProcessRepair, SeenInv, StartPcs, SubmittedPcs

\* Moving on with the same job: what the new program point claims has to hold.
LEMMA GotoRepair ==
    ASSUME ProcessRepair, NEW to, pc' = to, UNCHANGED <<cp, inflight, job, seen>>,
           UNCHANGED rcp, sol'.header = sol.header, archive \subseteq archive',
           to \in JobPcs => pc \in JobPcs,
           to \in CommitPcs \cup {"recmint", "recsave"} => job.parent = Durable,
           to \notin {"down", "load"} => cp = Durable, to # "recdel",
           to \in StartPcs => pc \in StartPcs,
           to \in SubmittedPcs => sol.header = job.next.header,
           to = "send" => job \in archive'
    PROVE  ProcessRepair'
<1>1. Durable' = Durable
  BY DEF Durable
<1>2. JobInv' /\ MemoryInv'
  BY <1>1 DEF ProcessRepair, JobInv, MemoryInv, Extends
<1>3. SeenInv'
  BY <1>1 DEF ProcessRepair, SeenInv
<1> QED
  BY <1>2, <1>3 DEF ProcessRepair

\* Nothing of the process moves, and the chain's header stays.
LEMMA OutsideRepair ==
    ASSUME ProcessRepair, StoreRepair, txs' \subseteq txs, sol'.header = sol.header,
           UNCHANGED <<pc, cp, inflight, job, seen, rcp, rjr, archive>>
    PROVE  ProcessRepair' /\ StoreRepair'
<1>1. StoreRepair' /\ Durable' = Durable
  BY StoreRepairFrame
<1>2. JobInv' /\ MemoryInv' /\ SeenInv'
  BY <1>1 DEF ProcessRepair, JobInv, MemoryInv, SeenInv, Extends
<1> QED
  BY <1>1, <1>2 DEF ProcessRepair

\* The job of a commit or of a recovery extends the durable checkpoint.
LEMMA RepairJob ==
    ASSUME TypeInv, ProcessRepair, pc \in CommitPcs \cup {"recmint", "recsave"}
    PROVE  /\ pc \in JobPcs /\ Extends(job) /\ job.parent = Durable /\ cp = Durable
           /\ job.next \in PipelineCheckpoint
           /\ Height(job.next) = Height(Durable) + 1
<1>1. pc \in JobPcs /\ pc \notin {"down", "load", "recdel"}
  BY DEF JobPcs, CommitPcs
<1>2. Extends(job) /\ job.parent = Durable /\ cp = Durable
  BY <1>1 DEF ProcessRepair, JobInv, MemoryInv
<1> QED
  BY <1>1, <1>2, JobType, ExtendsHeight DEF TypeInv, TypeOK

\* start-up with the journal: recovery goes on only from the header the chain is
\* at, one block beyond the durable checkpoint.
LEMMA InitializeRepair ==
    ASSUME TypeInv, ProcessRepair, StoreRepair, Initialize
    PROVE  ProcessRepair' /\ StoreRepair'
<1>1. UNCHANGED <<archive, sol, txs>>
  BY DEF Initialize, LoadCheckpoint, ReconcileUpToDate, ReconcileStale, DiscardJournal,
         ReconcileFailClosed, ReconcilePromote, ReconcileMint, RecoverMintEnd,
         RecoverSave, RecoverDelete, store, solana
<1>2. \A j \in inflight : Extends(j)
  BY DEF ProcessRepair, JobInv
<1>3. ASSUME UNCHANGED rcp, rjr' \in {rjr, None}
      PROVE  StoreRepair' /\ Durable' = Durable
  BY <1>1, <1>3, StoreRepairFrame
<1>4. CASE LoadCheckpoint
  <2>1. StoreRepair' /\ Durable' = Durable
    BY <1>3, <1>4 DEF LoadCheckpoint, store
  <2>2. CASE Terminate
    BY <2>1, <2>2, TerminateRepair
  <2>3. CASE pc' = "reconcile" /\ cp' = Durable /\ UNCHANGED <<inflight, job, seen>>
    <3>1. JobInv' /\ MemoryInv'
      BY <1>2, <2>1, <2>3 DEF JobInv, MemoryInv, Extends, JobPcs, CommitPcs
    <3>2. SeenInv'
      BY <1>1, <1>4, <2>1, <2>3 DEF LoadCheckpoint, ProcessRepair, SeenInv, StartPcs
    <3> QED
      BY <2>1, <2>3, <3>1, <3>2 DEF ProcessRepair, SubmittedPcs
  <2> QED
    BY <1>4, <2>2, <2>3 DEF LoadCheckpoint
<1>5. CASE ReconcileUpToDate \/ DiscardJournal
  <2>1. StoreRepair' /\ Durable' = Durable
    BY <1>3, <1>5 DEF ReconcileUpToDate, DiscardJournal, store
  <2>2. pc' = "poll" /\ cp' = cp /\ inflight' = {} /\ cp = Durable
    BY <1>5 DEF ReconcileUpToDate, DiscardJournal, Ready, ProcessRepair, MemoryInv
  <2> QED
    BY <2>1, <2>2, PollRepair
<1>6. CASE ReconcileStale
  <2>1. StoreRepair' /\ pc = "reconcile" /\ Goto("discard") /\ UNCHANGED rcp
    BY <1>3, <1>6 DEF ReconcileStale, store
  <2>2. cp = Durable
    BY <2>1 DEF ProcessRepair, MemoryInv
  <2> QED
    BY <1>1, <2>1, <2>2, GotoRepair DEF Goto, JobPcs, CommitPcs, StartPcs, SubmittedPcs
<1>7. CASE ReconcileFailClosed
  BY <1>3, <1>7, TerminateRepair DEF ReconcileFailClosed, store
<1>8. CASE ReconcilePromote \/ ReconcileMint
  <2>1. PICK to \in {"recmint", "recsave"} : Recovering(to)
    BY <1>8 DEF ReconcilePromote, ReconcileMint
  <2>2. /\ StoreRepair' /\ Durable' = Durable /\ pc = "reconcile"
        /\ Plan \in {"PromoteCheckpoint", "CompleteMint"}
    BY <1>3, <1>8 DEF ReconcilePromote, ReconcileMint, store
  <2>3. cp = Durable /\ seen \in {sol.header, Durable.header}
    BY <2>2 DEF ProcessRepair, MemoryInv, SeenInv, StartPcs
  <2>4. /\ rjr # None /\ cp.header # seen
        /\ Height(rjr.cp) = Height(cp) + 1 /\ rjr.cp.header = seen
    BY <2>2 DEF Plan, PlanJournalRecovery
  <2>5. sol.header = rjr.cp.header /\ rjr.cp = NextCheckpoint(cp, rjr.cp.header.tip)
    BY <2>3, <2>4 DEF StoreRepair, JournalShape
  <2>6. /\ pc' = to /\ job' = [parent |-> cp, next |-> rjr.cp]
        /\ UNCHANGED <<cp, inflight, seen>>
    BY <2>1 DEF Recovering
  <2>7. Extends(job') /\ job'.parent = Durable /\ job'.next = rjr.cp
    BY <2>3, <2>5, <2>6 DEF Extends
  <2>8. JobInv' /\ MemoryInv'
    BY <1>2, <2>1, <2>2, <2>3, <2>6, <2>7 DEF JobInv, MemoryInv, Extends
  <2>9. SeenInv'
    BY <1>1, <2>2, <2>3, <2>6 DEF SeenInv
  <2> QED
    BY <1>1, <2>1, <2>2, <2>5, <2>6, <2>7, <2>8, <2>9 DEF ProcessRepair
<1>9. CASE RecoverMintEnd
  <2>1. StoreRepair' /\ pc = "recmint" /\ Goto("recsave") /\ UNCHANGED rcp
    BY <1>3, <1>9 DEF RecoverMintEnd, store
  <2>2. job.parent = Durable /\ cp = Durable /\ pc \in JobPcs
    BY <2>1, RepairJob
  <2>3. sol.header = job.next.header
    BY <2>1 DEF ProcessRepair, SubmittedPcs
  <2> QED
    BY <1>1, <2>1, <2>2, <2>3, GotoRepair DEF Goto, StartPcs
<1>10. CASE RecoverSave
  <2>1. /\ pc = "recsave" /\ pc' = "recdel" /\ rcp' = job.next
        /\ UNCHANGED <<rjr, cp, inflight, job, seen>>
    BY <1>10 DEF RecoverSave, Goto
  <2>2. Extends(job) /\ job.next \in PipelineCheckpoint
        /\ Height(job.next) = Height(Durable) + 1 /\ sol.header = job.next.header
    BY <2>1, RepairJob DEF ProcessRepair, SubmittedPcs
  <2>3. StoreRepair' /\ Durable' = job.next
    BY <1>1, <2>1, <2>2, RepairPromotion
  <2>4. JobInv' /\ MemoryInv'
    BY <1>2, <2>1, <2>2, <2>3 DEF JobInv, MemoryInv, Extends, CommitPcs
  <2> QED
    BY <2>1, <2>3, <2>4 DEF ProcessRepair, SeenInv, StartPcs, SubmittedPcs
<1>11. CASE RecoverDelete
  <2>1. StoreRepair' /\ Durable' = Durable
    BY <1>3, <1>11 DEF RecoverDelete
  <2>2. job.next = Durable /\ (Ready(job.next) \/ Terminate)
    BY <1>11 DEF RecoverDelete, ProcessRepair, MemoryInv
  <2> QED
    BY <2>1, <2>2, PollRepair, TerminateRepair DEF Ready
<1> QED
  BY <1>4, <1>5, <1>6, <1>7, <1>8, <1>9, <1>10, <1>11 DEF Initialize

\* Preparing ahead touches neither the stores nor the chain.
LEMMA PollOnceRepair ==
    ASSUME TypeInv, ProcessRepair, StoreRepair, PollOnce
    PROVE  ProcessRepair' /\ StoreRepair'
<1>1. UNCHANGED <<rcp, rjr, archive, sol, txs>>
  BY DEF PollOnce, FetchTip, FetchBlock, SubmitJob, Idle, TakeNext, store, solana
<1>2. StoreRepair' /\ Durable' = Durable
  BY <1>1, StoreRepairFrame
<1>3. cp = Durable /\ \A j \in inflight : Extends(j)
  BY DEF PollOnce, FetchTip, FetchBlock, SubmitJob, Idle, TakeNext, ProcessRepair,
         MemoryInv, JobInv
<1>4. CASE Terminate
  BY <1>2, <1>4, TerminateRepair
<1>5. CASE pc' \in {"poll", "prepare", "finalize"} /\ UNCHANGED <<cp, inflight>>
  BY <1>2, <1>3, <1>5, PollRepair
<1>6. CASE SubmitJob /\ ~Terminate
  <2> DEFINE j == [parent |-> planned, next |-> NextCheckpoint(planned, draft)]
  <2>1. pc' = "prepare" /\ inflight' = inflight \cup {j} /\ UNCHANGED cp
    BY <1>6 DEF SubmitJob
  <2>2. Extends(j)
    BY DEF Extends, NextCheckpoint
  <2> QED
    BY <1>2, <1>3, <2>1, <2>2, PollRepair
<1>7. CASE \E j \in inflight : TakeNext(j)
  <2>1. PICK j \in inflight : TakeNext(j)
    BY <1>7
  <2>2. pc' = "wait" /\ job' = j /\ inflight' \subseteq inflight /\ UNCHANGED cp
    BY <2>1 DEF TakeNext
  <2>3. JobInv' /\ MemoryInv'
    BY <1>2, <1>3, <2>2 DEF JobInv, MemoryInv, Extends, CommitPcs
  <2> QED
    BY <1>2, <2>2, <2>3 DEF ProcessRepair, SeenInv, StartPcs, SubmittedPcs
<1> QED
  BY <1>4, <1>5, <1>6, <1>7 DEF PollOnce, FetchTip, FetchBlock, Idle, Goto

\* The commit: the update is in the archive when it is sent, and the chain is at
\* its header from then to the durable checkpoint.
LEMMA CommitPreparedRepair ==
    ASSUME TypeInv, ProcessRepair, StoreRepair, CommitPrepared
    PROVE  ProcessRepair' /\ StoreRepair'
<1>1. \A j \in inflight : Extends(j)
  BY DEF ProcessRepair, JobInv
<1>2. ASSUME NEW to \in CommitPcs, pc \in CommitPcs, pc' = to,
             UNCHANGED <<cp, inflight, job, seen>>,
             UNCHANGED <<rcp, sol>>, archive \subseteq archive',
             to \in SubmittedPcs => sol.header = job.next.header,
             to = "send" => job \in archive'
      PROVE  ProcessRepair'
  <2>1. job.parent = Durable /\ cp = Durable /\ pc \in JobPcs
    BY <1>2, RepairJob
  <2>2. to \notin StartPcs /\ to # "recdel"
    BY <1>2 DEF CommitPcs, StartPcs
  <2> QED
    BY <1>2, <2>1, <2>2, GotoRepair
<1>3. CASE \E p \in proofs : WaitProof(p)
  <2>1. pc = "wait" /\ pc \in JobPcs /\ UNCHANGED <<rcp, rjr, archive, sol, txs>>
        /\ ((Goto("journal1") /\ job.parent = cp) \/ Terminate)
    BY <1>3 DEF WaitProof, JobPcs, store, solana
  <2>2. cp = Durable
    BY <2>1 DEF ProcessRepair, MemoryInv
  <2>3. StoreRepair'
    BY <2>1, StoreRepairFrame
  <2> QED
    BY <2>1, <2>2, <2>3, GotoRepair, TerminateRepair DEF Goto, StartPcs, SubmittedPcs
<1>4. ASSUME NEW from \in CommitPcs, NEW to \in CommitPcs, NEW u, NEW s, NEW m,
             WriteJournal(from, to, JournalOf(job, u, s, m)), to # "send",
             to \in SubmittedPcs => from \in SubmittedPcs
      PROVE  ProcessRepair' /\ StoreRepair'
  <2>1. /\ pc = from /\ pc' = to /\ rjr'.cp = job.next
        /\ UNCHANGED <<cp, inflight, job, seen, rcp, archive, sol, txs>>
    BY <1>4 DEF WriteJournal, Goto, JournalOf, solana
  <2>2. ProcessRepair'
    BY <1>2, <1>4, <2>1 DEF ProcessRepair
  <2>3. /\ Extends(job) /\ job.parent = Durable /\ Height(job.next) = Height(Durable) + 1
        /\ Height(Durable) \in Nat
    BY <1>4, <2>1, RepairJob, DurableType, CheckpointFields DEF TypeInv, TypeOK
  <2>4. Durable' = Durable
    BY <2>1 DEF Durable
  <2>5. JournalShape'
    BY <2>1, <2>3, <2>4 DEF JournalShape, Extends
  <2>6. FlightInv' /\ (txs \subseteq archive)' /\ Reached'
    BY <2>1, <2>4 DEF StoreRepair, FlightInv, Reached, Extends
  <2> QED
    BY <2>2, <2>5, <2>6 DEF StoreRepair
<1>5. CASE Journal1 \/ Journal2 \/ Journal3 \/ Journal4
  BY <1>4, <1>5 DEF Journal1, Journal2, Journal3, Journal4, CommitPcs, SubmittedPcs
<1>6. CASE UploadMintsBegin \/ UploadMintsEnd \/ UploadTxo
  <2>1. /\ UNCHANGED <<cp, inflight, job, seen, rcp, rjr, archive, sol, txs>>
        /\ pc \in CommitPcs /\ pc' \in CommitPcs \ SubmittedPcs /\ pc' # "send"
    BY <1>6
    DEF UploadMintsBegin, UploadMintsEnd, UploadTxo, Goto, store, CommitPcs, SubmittedPcs
  <2>2. ProcessRepair'
    BY <1>2, <2>1
  <2> QED
    BY <2>1, <2>2, StoreRepairFrame
<1>7. CASE PersistEvidence
  <2>1. /\ UNCHANGED <<cp, inflight, job, seen, rcp, rjr, sol, txs>>
        /\ pc = "evidence" /\ pc' = "send" /\ archive' = archive \cup {job}
    BY <1>7 DEF PersistEvidence, Goto, solana
  <2>2. ProcessRepair'
    BY <1>2, <2>1 DEF CommitPcs, SubmittedPcs
  <2> QED
    BY <2>1, <2>2, StoreRepairFrame
<1>8. CASE PostBlockUpdate
  <2>1. /\ pc = "send" /\ txs' = txs \cup {job}
        /\ UNCHANGED <<pc, cp, inflight, job, seen, rcp, rjr, archive, sol>>
    BY <1>8 DEF PostBlockUpdate, local, store
  <2>2. Extends(job) /\ job.parent = Durable /\ job \in archive
    BY <2>1, RepairJob DEF CommitPcs, ProcessRepair
  <2>3. Durable' = Durable
    BY <2>1 DEF Durable
  <2>4. StoreRepair'
    BY <2>1, <2>2, <2>3 DEF StoreRepair, FlightInv, JournalShape, Reached, Extends
  <2>5. ProcessRepair'
    BY <1>2, <2>1, <2>2 DEF CommitPcs, SubmittedPcs
  <2> QED
    BY <2>4, <2>5
<1>9. CASE SendOk
  <2>1. /\ UNCHANGED <<cp, inflight, job, seen, rcp, rjr, archive, sol, txs>>
        /\ pc = "send" /\ pc' = "journal3" /\ sol.header = job.next.header
    BY <1>9 DEF SendOk, Goto, store, solana
  <2>2. ProcessRepair'
    BY <1>2, <2>1 DEF CommitPcs
  <2> QED
    BY <2>1, <2>2, StoreRepairFrame
<1>10. CASE SendRejected
  BY <1>10, StoreRepairFrame, TerminateRepair DEF SendRejected, store, solana
<1>11. CASE MintGroup
  <2>1. sol'.header = sol.header
    BY <1>11 DEF MintGroup, TypeInv, TypeOK, SolanaTypeOK
  <2> QED
    BY <1>11, <2>1, OutsideRepair DEF MintGroup, store
<1>12. CASE MintEnd
  <2>1. pc = "mint" /\ UNCHANGED <<rcp, rjr, archive, sol, txs>>
        /\ ((pc' = "journal4" /\ UNCHANGED <<cp, inflight, job, seen>>) \/ Terminate)
    BY <1>12 DEF MintEnd, store, solana
  <2>2. sol.header = job.next.header
    BY <2>1 DEF ProcessRepair, SubmittedPcs
  <2>3. ProcessRepair'
    BY <1>2, <2>1, <2>2, TerminateRepair DEF CommitPcs
  <2> QED
    BY <2>1, <2>3, StoreRepairFrame
<1>13. CASE SaveCheckpoint
  <2>1. /\ pc = "save" /\ pc' = "delete" /\ rcp' = job.next /\ cp' = job.next
        /\ UNCHANGED <<rjr, inflight, job, seen, archive, sol, txs>>
    BY <1>13 DEF SaveCheckpoint, solana
  <2>2. Extends(job) /\ job.next \in PipelineCheckpoint
        /\ Height(job.next) = Height(Durable) + 1 /\ sol.header = job.next.header
    BY <2>1, RepairJob DEF ProcessRepair, CommitPcs, SubmittedPcs
  <2>3. StoreRepair' /\ Durable' = job.next
    BY <2>1, <2>2, RepairPromotion
  <2>4. JobInv' /\ MemoryInv'
    BY <1>1, <2>1, <2>2, <2>3 DEF JobInv, MemoryInv, Extends, CommitPcs
  <2> QED
    BY <2>1, <2>3, <2>4 DEF ProcessRepair, SeenInv, StartPcs, SubmittedPcs
<1>14. CASE DeleteJournal
  <2>1. /\ pc = "delete" /\ pc' = "poll" /\ rjr' = None
        /\ UNCHANGED <<rcp, archive, sol, txs, cp, inflight>>
    BY <1>14 DEF DeleteJournal, solana
  <2>2. StoreRepair' /\ Durable' = Durable /\ cp = Durable
    BY <2>1, StoreRepairFrame DEF ProcessRepair, MemoryInv
  <2> QED
    BY <1>1, <2>1, <2>2, PollRepair
<1> QED
  BY <1>3, <1>5, <1>6, <1>7, <1>8, <1>9, <1>10, <1>11, <1>12, <1>13, <1>14
  DEF CommitPrepared

\* An update that lands was archived, and starts at the durable checkpoint.
LEMMA LandRepair ==
    ASSUME TypeInv, ProcessRepair, StoreRepair, NEW t \in txs, TxLand(t)
    PROVE  ProcessRepair' /\ StoreRepair'
<1>1. /\ sol.header = t.parent.header /\ sol'.header = t.next.header
      /\ txs' \subseteq txs
      /\ UNCHANGED <<pc, cp, inflight, job, seen, rcp, rjr, archive>>
  BY DEF TxLand, Acceptable, local, store
<1>2. /\ Durable \in PipelineCheckpoint /\ Height(Durable) \in Nat
      /\ t.parent \in PipelineCheckpoint /\ Height(t.parent) \in Nat
      /\ Durable' = Durable
  BY <1>1, DurableType, CheckpointFields, TransitionFields
  DEF TypeInv, TypeOK, SolanaTypeOK, Durable
<1>3. sol.header.height = Height(Durable) \/ sol.header.height = Height(Durable) + 1
  BY ReachedHeight DEF StoreRepair, Height
<1>4. t.parent = Durable /\ Extends(t) /\ t \in archive
  BY <1>1, <1>2, <1>3 DEF StoreRepair, FlightInv, Height
<1>5. StoreRepair'
  BY <1>1, <1>2, <1>4 DEF StoreRepair, FlightInv, JournalShape, Reached, Extends
<1>6. pc \notin SubmittedPcs
  <2> SUFFICES ASSUME pc \in SubmittedPcs PROVE FALSE
    OBVIOUS
  <2>1. pc \in CommitPcs \cup {"recmint", "recsave"}
    BY DEF CommitPcs, SubmittedPcs
  <2>2. sol.header = job.next.header /\ Height(job.next) = Height(Durable) + 1
    BY <2>1, RepairJob DEF ProcessRepair
  <2> QED
    BY <1>1, <1>2, <1>4, <2>2 DEF Height
<1>7. JobInv' /\ MemoryInv' /\ SeenInv'
  BY <1>1, <1>2, <1>4 DEF ProcessRepair, JobInv, MemoryInv, SeenInv, Extends
<1> QED
  BY <1>1, <1>5, <1>6, <1>7 DEF ProcessRepair

\* Restarts, failures and the external systems.
LEMMA EnvironmentRepair ==
    ASSUME TypeInv, ProcessRepair, StoreRepair, Start \/ Environment
    PROVE  ProcessRepair' /\ StoreRepair'
<1>1. CASE Start
  <2>1. /\ pc' = "load" /\ seen' = sol.header
        /\ UNCHANGED <<inflight, rcp, rjr, archive, sol, txs>>
    BY <1>1 DEF Start, store, solana
  <2>2. StoreRepair' /\ Durable' = Durable
    BY <2>1, StoreRepairFrame
  <2>3. JobInv' /\ MemoryInv' /\ SeenInv'
    BY <2>1, <2>2 DEF ProcessRepair, JobInv, MemoryInv, SeenInv, Extends, JobPcs, CommitPcs
  <2> QED
    BY <2>1, <2>2, <2>3 DEF ProcessRepair, SubmittedPcs
<1>2. CASE Exit
  BY <1>2, StoreRepairFrame, TerminateRepair DEF Exit, store, solana
<1>3. CASE MintRetry
  <2>1. UNCHANGED <<pc, cp, inflight, job, seen, rcp, rjr, archive, txs>>
    BY <1>3 DEF MintRetry, store
  <2>2. UNCHANGED sol \/ sol' = [sol EXCEPT !.done = @ + 1]
    BY <1>3, Zenon DEF MintRetry
  <2>3. sol'.header = sol.header
    BY <2>2 DEF TypeInv, TypeOK, SolanaTypeOK
  <2> QED
    BY <2>1, <2>3, OutsideRepair
<1>4. CASE \E p \in proofs : ProverSucceeds(p) \/ ProverFails(p)
  BY <1>4, OutsideRepair
  DEF ProverSucceeds, ProverFails, ProverAnswers, local, store, solana
<1>5. CASE \E t \in txs : TxLand(t)
  BY <1>5, LandRepair
<1>6. CASE \E t \in txs : TxLost(t) \/ TxExpire(t)
  BY <1>6, OutsideRepair DEF TxLost, TxExpire, local, store
<1>7. CASE (\E d \in Payloads : MineBlock(d)) \/ (\E h \in Heights : Reorg(h))
  BY <1>7, OutsideRepair DEF MineBlock, Reorg, local, store, solana
<1> QED
  BY <1>1, <1>2, <1>3, <1>4, <1>5, <1>6, <1>7 DEF Environment

\* The command: the checkpoint it writes is a block higher and at the chain's
\* header.
LEMMA RecoverRepair ==
    ASSUME RepairInv, NEW a \in archive, Recover(a)
    PROVE  RepairInv'
<1> DEFINE c == NextCheckpoint(rcp, a.next.header.tip)
<1>1. TypeInv /\ ProcessRepair /\ StoreRepair
  BY RepairParts
<1>2. /\ pc = "down" /\ rcp # None /\ rcp' = c
      /\ c.header = a.next.header /\ c.header = sol.header
      /\ UNCHANGED <<local, rjr, archive, proofs, solana, dogecoin, faults>>
  BY DEF Recover, ArchiveRecovers
<1>3. rcp \in PipelineCheckpoint /\ Durable = rcp
      /\ a.next \in PipelineCheckpoint /\ a.next.header.tip \in Block
  BY <1>1, <1>2, TransitionFields, CheckpointFields
  DEF TypeInv, TypeOK, StoreTypeOK, Option, Durable
<1>4. Height(rcp) < MaxTip
  <2>1. a.next.header.height = Height(rcp) + 1
    BY <1>2 DEF NextCheckpoint
  <2>2. Height(a.next) \in Heights /\ Height(rcp) \in Nat
    BY <1>3, CheckpointFields
  <2> QED
    BY <2>1, <2>2, ConfigAssumption DEF Height, Heights
<1>5. c \in PipelineCheckpoint /\ Height(c) = Height(rcp) + 1
  BY <1>3, <1>4, NextCheckpointType
<1>6. UNCHANGED <<rjr, sol, archive, txs>>
  BY <1>2 DEF solana
<1>7. StoreRepair'
  <2> HIDE DEF c
  <2> QED
    BY <1>1, <1>2, <1>3, <1>5, <1>6, RepairPromotion
<1>8. TypeInv'
  <2> HIDE DEF c
  <2> QED
    BY <1>1, <1>2, <1>5
    DEF TypeInv, TypeOK, ProcessTypeOK, ProcessInv, StoreTypeOK, SolanaTypeOK,
        DogecoinTypeOK, Option, local, solana, dogecoin
<1>9. ProcessRepair'
  <2>1. pc' = "down" /\ UNCHANGED <<job, inflight>>
    BY <1>2 DEF local
  <2>2. JobInv' /\ MemoryInv'
    BY <1>1, <2>1 DEF ProcessRepair, JobInv, MemoryInv, Extends, JobPcs, CommitPcs
  <2> QED
    BY <2>1, <2>2 DEF ProcessRepair, SeenInv, StartPcs, SubmittedPcs
<1> QED
  BY <1>7, <1>8, <1>9, RepairParts

\* The invariant of the pipeline and the command together.
THEOREM RepairInvariant == RecoverSpec => []RepairInv
<1>1. Init => RepairInv
  <2> SUFFICES ASSUME Init PROVE RepairInv
    OBVIOUS
  <2>1. TypeInv
    BY InitTypeInv
  <2>2. ProcessRepair
    BY DEF Init, ProcessRepair, JobInv, MemoryInv, SeenInv, JobPcs, CommitPcs, StartPcs,
           SubmittedPcs
  <2>3. StoreRepair
    BY DEF Init, StoreRepair, FlightInv, JournalShape, Reached, Durable, InitCheckpoint
  <2> QED
    BY <2>1, <2>2, <2>3, RepairParts
<1>2. RepairInv /\ [RecoverNext]_vars => RepairInv'
  <2> SUFFICES ASSUME RepairInv, [RecoverNext]_vars PROVE RepairInv'
    OBVIOUS
  <2>1. TypeInv /\ ProcessRepair /\ StoreRepair
    BY RepairParts
  <2>2. CASE \E j \in archive : Recover(j)
    BY <2>2, RecoverRepair
  <2>3. CASE UNCHANGED vars
    <3>1. TypeInv'
      BY <2>1, <2>3, NextTypeInv
    <3> QED
      BY <2>1, <2>3, <3>1, OutsideRepair, RepairParts DEF vars, local, store, solana
  <2>4. CASE Next
    <3>1. TypeInv'
      BY <2>1, <2>4, NextTypeInv
    <3>2. ProcessRepair' /\ StoreRepair'
      BY <2>1, <2>4, InitializeRepair, PollOnceRepair, CommitPreparedRepair,
         EnvironmentRepair
      DEF Next, Coordinator
    <3> QED
      BY <3>1, <3>2, RepairParts
  <2> QED
    BY <2>2, <2>3, <2>4 DEF RecoverNext
<1> QED
  BY <1>1, <1>2, PTL DEF RecoverSpec

\* Whatever crashed, arrived late or was reorganised away, and however often the
\* command has been used before: when start-up fails closed above the first
\* checkpoint, some archive on disk lets the command rebuild the very checkpoint
\* the chain is at, as long as Electrs still shows the finalized block it needs.
THEOREM RepairAlwaysPossible == RecoverSpec => []FailClosedIsRepairable
<1>1. RepairInv => FailClosedIsRepairable
  <2> SUFFICES ASSUME RepairInv, rcp # None,
                      PlanJournalRecovery(rcp, sol.header, rjr) = "FailClosed",
                      FinalizedBlockAgrees(rcp, Height(rcp) + 1)
               PROVE  \E j \in archive : ArchiveRecovers(j)
    BY DEF FailClosedIsRepairable
  <2>1. Durable = rcp /\ rcp.header # sol.header
    BY DEF Durable, PlanJournalRecovery
  <2>2. PICK j \in archive : /\ j.parent = rcp /\ Extends(j)
                             /\ j.next.header = sol.header
    BY <2>1 DEF RepairInv, ArchiveInv
  <2>3. NextCheckpoint(rcp, j.next.header.tip) = j.next
    BY <2>2 DEF Extends
  <2> QED
    BY <2>2, <2>3 DEF ArchiveRecovers
<1> QED
  BY <1>1, RepairInvariant, PTL
=============================================================================
