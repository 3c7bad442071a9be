---------------------------- MODULE ProofService ----------------------------
(***************************************************************************)
(* The prover as the block pipeline relies on it, whoever runs it: a job is *)
(* accepted once, answered at most once, and its answer is never changed or *)
(* withdrawn, so a restarted coordinator finds it again.                    *)
(***************************************************************************)
CONSTANTS Jobs, None

VARIABLE status     \* job -> None, "queued", "valid" or "failed"

Init == status = [j \in Jobs |-> None]

Submit(j) ==
    /\ status[j] = None
    /\ status' = [status EXCEPT ![j] = "queued"]

Answer(j, st) ==
    /\ status[j] = "queued"
    /\ status' = [status EXCEPT ![j] = st]

Next == \E j \in Jobs : Submit(j) \/ \E st \in {"valid", "failed"} : Answer(j, st)

Spec == Init /\ [][Next]_status
=============================================================================
