--------------------------- MODULE PipelineRecover ---------------------------
(***************************************************************************)
(* The block pipeline together with the operator's `recover` command       *)
(* (recover_checkpoint_from_proof_archive), run while the pipeline process *)
(* is stopped. The command rebuilds the next checkpoint from a proof       *)
(* archive and writes the checkpoint key; it neither looks at the journal  *)
(* nor at the mints of the header it promotes.                             *)
(***************************************************************************)
EXTENDS BlockPipelineInv

\* The archive's old state and header are the checkpoint's, the finalized
\* block still agrees, and the rebuilt header is the one on chain.
ArchiveRecovers(j) ==
    /\ j.parent.header = rcp.header
    /\ FinalizedBlockAgrees(rcp, Height(rcp) + 1)
    /\ LET rebuilt == NextCheckpoint(rcp, j.next.header.tip)
       IN  rebuilt.header = j.next.header /\ rebuilt.header = sol.header

Recover(j) ==
    /\ pc = "down"
    /\ rcp # None
    /\ ArchiveRecovers(j)
    /\ rcp' = NextCheckpoint(rcp, j.next.header.tip)
    /\ UNCHANGED <<local, rjr, archive, proofs, solana, dogecoin, faults>>

RecoverNext ==
    \/ Next
    \/ \E j \in archive : Recover(j)

RecoverSpec == Init /\ [][RecoverNext]_vars

\* Whenever start-up would fail closed, the command can repair it from the
\* evidence on disk: an update that reaches the chain was archived before it
\* was sent (persist_evidence precedes block_update), also when the block it
\* adds has been reorganised away since. Except for the first height, where
\* there is no checkpoint key for the command to start from, and except when
\* the finalized block it reads again was reorganised away.
FailClosedIsRepairable ==
    (/\ rcp # None
     /\ PlanJournalRecovery(rcp, sol.header, rjr) = "FailClosed"
     /\ FinalizedBlockAgrees(rcp, Height(rcp) + 1))
    => \E j \in archive : ArchiveRecovers(j)

---------------------------------------------------------------------------
(* The inductive invariant behind RepairAlwaysPossible: what is left of the  *)
(* pipeline's invariant when the command may promote a header whose mints    *)
(* are not complete, and what the archive holds.                             *)

\* The journal describes the step beyond the durable checkpoint or an earlier
\* one.
JournalShape ==
    rjr # None =>
      /\ Height(rjr.cp) <= Height(Durable) + 1
      /\ Height(rjr.cp) = Height(Durable) + 1 =>
           rjr.cp = NextCheckpoint(Durable, rjr.cp.header.tip)

\* Every update is archived before it is sent, and a chain ahead of the durable
\* checkpoint got there by an archived update of exactly that checkpoint.
ArchiveInv ==
    /\ txs \subseteq archive
    /\ pc = "send" => job \in archive
    /\ \/ sol.header = Durable.header
       \/ \E j \in archive : /\ j.parent = Durable /\ Extends(j)
                             /\ j.next.header = sol.header

RepairInv ==
    /\ TypeOK /\ ProcessInv
    /\ JobInv /\ MemoryInv /\ FlightInv /\ SeenInv
    /\ JournalShape
    /\ pc \in SubmittedPcs => sol.header = job.next.header
    /\ ArchiveInv
=============================================================================
