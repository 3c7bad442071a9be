-------------------------- MODULE BlockPipelineInv --------------------------
(***************************************************************************)
(* The inductive invariant behind the theorems of BlockPipelineProofs. TLC *)
(* checks it on small instances before TLAPS is asked to prove it.         *)
(***************************************************************************)
EXTENDS BlockPipeline

\* Program points between the proof check and the durable checkpoint.
CommitPcs == {"journal1", "upload", "fill", "txo", "journal2", "evidence",
              "send", "journal3", "mint", "journal4", "save"}
\* ... at which the block_update of the job has been accepted.
SubmittedPcs == {"journal3", "mint", "journal4", "save", "recmint", "recsave"}
\* ... at which its mints are known to be complete.
MintedPcs == {"journal4", "save", "recsave"}
\* Start-up, from the read of the on-chain header to the recovered checkpoint.
StartPcs == {"load", "reconcile", "discard", "recmint", "recsave"}
JobPcs == CommitPcs \cup {"wait", "delete", "recmint", "recsave", "recdel"}

\* What the process keeps in memory is there when a step needs it.
ProcessInv ==
    /\ pc \in JobPcs => job # None
    /\ pc = "finalize" => draft # None /\ Height(planned) < MaxTip

\* A transition is its parent checkpoint extended by one block.
Extends(j) == j.next = NextCheckpoint(j.parent, j.next.header.tip)

\* The prepared transitions, and the one in hand, extend what they say; the
\* one being committed or recovered starts at the durable checkpoint.
JobInv ==
    /\ \A j \in inflight : Extends(j)
    /\ pc \in JobPcs => Extends(job)
    /\ pc \in CommitPcs \cup {"recmint", "recsave"} => job.parent = Durable

\* The process works on the checkpoint that is durable; between recovery's
\* save and its delete, on the one it has just made durable.
MemoryInv ==
    /\ pc \notin {"down", "load", "recdel"} => cp = Durable
    /\ pc = "recdel" => job.next = Durable

\* The chain is at the durable checkpoint or one accepted update beyond it.
HeightInv ==
    \/ sol.header = Durable.header
    \/ sol.header = NextCheckpoint(Durable, sol.header.tip).header

\* An update in flight starts at the durable checkpoint or below it.
FlightInv ==
    \A t \in txs : /\ Extends(t)
                   /\ t.parent = Durable \/ Height(t.parent) < Height(Durable)

\* The header read at start-up is still right, or the chain has since moved
\* on from the durable checkpoint.
SeenInv == pc \in StartPcs => seen \in {sol.header, Durable.header}

\* The journal describes the step beyond the durable checkpoint, or an
\* earlier one; it says "minted" only of an accepted and paid header.
JournalInv ==
    rjr # None =>
      /\ rjr.fin = rjr.cp.header.fin
      /\ Height(rjr.cp) <= Height(Durable) + 1
      /\ Height(rjr.cp) = Height(Durable) + 1 =>
           rjr.cp = NextCheckpoint(Durable, rjr.cp.header.tip)
      /\ rjr.minted => Height(rjr.cp) <= sol.header.height
      /\ rjr.minted /\ rjr.cp.header = sol.header => MintsComplete

\* Where the process has got to agrees with where the chain is.
ProgressInv ==
    /\ sol.done <= Owed
    /\ pc \in SubmittedPcs => sol.header = job.next.header
    /\ pc \in MintedPcs => MintsComplete

\* The chain's history: one block per height above the start, the last one
\* the tip, and the finalized payload the one Conf blocks down.
LogInv ==
    /\ sol.header.height = StartHeight + Len(log)
    /\ Len(log) > 0 => log[Len(log)] = sol.header.tip
    /\ Owed = Ledger!Owed(log)

\* The durable checkpoint holds exactly the commitments of the accepted
\* blocks that are not finalized yet.
PendingInv ==
    \A h \in Heights :
      Durable.pending[h] =
        IF StartHeight < h /\ h <= Height(Durable) /\ Height(Durable) < h + Conf
        THEN log[h - StartHeight].dep
        ELSE None

\* The inductive invariant: every fact above, with the typing and the theorem
\* it is there for (a durable checkpoint at the chain's header is paid).
PipelineInv ==
    /\ TypeOK
    /\ ProcessInv
    /\ JobInv
    /\ MemoryInv
    /\ HeightInv
    /\ FlightInv
    /\ SeenInv
    /\ JournalInv
    /\ ProgressInv
    /\ LogInv
    /\ PendingInv
    /\ CheckpointImpliesMinted
---------------------------------------------------------------------------
(* What poll_once prepares ahead *)

\* Program points of a process that has come through start-up.
TakenPcs == CommitPcs \cup {"wait"}
LivePcs == TakenPcs \cup {"poll", "prepare", "finalize", "delete"}

\* The checkpoint the transitions in flight build on.
Base == IF pc \in TakenPcs THEN job.next ELSE cp

\* The transitions in flight are one per height, an unbroken chain from Base
\* to the planned checkpoint.
ChainedFlight ==
    /\ Height(planned) = Height(Base) + Cardinality(inflight)
    /\ planned = Base \/ \E i \in inflight : i.next = planned
    /\ \A j \in inflight :
         /\ Height(Base) < Height(j.next) /\ Height(j.next) <= Height(planned)
         /\ j.parent = Base \/ \E i \in inflight : i.next = j.parent
         /\ \A i \in inflight : Height(i.next) = Height(j.next) => i = j

\* At most Window transitions are in flight, with room for one more while a
\* height is being prepared (the while condition of poll_once).
WithinWindow ==
    /\ Cardinality(inflight) <= Window
    /\ pc = "finalize" => Cardinality(inflight) < Window

\* Before start-up is over nothing is in flight; after it the transitions in
\* flight are chained, and the one taken starts at the committed checkpoint.
QueueInv ==
    /\ IsFiniteSet(inflight)
    /\ pc \notin LivePcs => inflight = {}
    /\ pc \in LivePcs => ChainedFlight
    /\ pc \in TakenPcs => job.parent = cp
    /\ WithinWindow

---------------------------------------------------------------------------
(* Restarts, with updates of earlier processes still in flight *)

\* Program points at which the chain is still, or again, at the durable
\* checkpoint: nothing that this process has sent can move it.
SettledPcs == {"discard", "recdel", "poll", "prepare", "finalize", "wait",
               "journal1", "upload", "fill", "txo", "journal2", "evidence",
               "delete"}

\* The chain is at c, unless an update outlived its process.
At(c) == sol.header = c.header \/ Outlived

\* No update in flight has landed before. One that is not late is in flight
\* only while the process that sent it is at its send, or after it has stopped;
\* the chain has not moved yet, and the journal says that this very update is
\* uploaded.
Fresh(t) ==
    /\ pc = "send" => t = job
    /\ t.parent = Durable
    /\ At(Durable)
    /\ rjr = JournalOf(t, TRUE, FALSE, FALSE)

SentInv ==
    /\ pc \notin {"down", "send"} => txs \subseteq late
    /\ \A t \in txs : t.next.header # sol.header
    /\ \A t \in txs \ late : Fresh(t)

\* What the journal says at each point of the commit.
StageInv ==
    /\ pc \in {"evidence", "send", "journal3"} =>
         rjr = JournalOf(job, TRUE, FALSE, FALSE)
    /\ pc \in {"mint", "journal4"} => rjr = JournalOf(job, TRUE, TRUE, FALSE)
    /\ pc = "save" => rjr = JournalOf(job, TRUE, TRUE, TRUE)

RestartInv ==
    /\ SentInv
    /\ StageInv
    /\ pc \in StartPcs => seen = sol.header \/ Outlived
    /\ pc \in SettledPcs => At(Durable)
    /\ CrashRecoverable
=============================================================================
