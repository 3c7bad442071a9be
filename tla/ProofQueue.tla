----------------------------- MODULE ProofQueue -----------------------------
(***************************************************************************)
(* The durable proof queue (qed_dsol_ibc_node_common/src/proof_queue.rs):  *)
(* the coordinator's submit script and its wait_result loop, the lease     *)
(* functions claim_state, heartbeat_state, complete_state and fail_state,  *)
(* and the workers that apply them. The worker program is external: its    *)
(* scripts are taken to apply one lease function each, atomically.         *)
(*                                                                         *)
(* A lease keeps the time it has left instead of an absolute expiry:       *)
(* left = 0 stands for lease_expires_ms <= now_ms.                         *)
(***************************************************************************)
EXTENDS Naturals, Sequences, FiniteSets

CONSTANTS
    None,       \* a missing key, or Err(LeaseCasError)
    Jobs,       \* proof jobs, one per height above the first checkpoint
    Workers,
    LeaseTime,  \* length of a lease, in ticks
    MaxFaults   \* bound: crashes, failed proofs, proofs slower than the lease

ASSUME QueueAssumption ==
    /\ LeaseTime \in Nat \ {0}
    /\ MaxFaults \in Nat
    /\ Jobs = 1..Cardinality(Jobs)
    /\ None \notin Jobs

VARIABLES
    \* Redis
    state,      \* job -> state key
    attempt,    \* job -> attempt key
    result,     \* job -> result key
    queue,      \* the queue list
    notify,     \* wake hints waiting in the notify list
    \* the workers
    tasks,      \* proofs being computed, each for the lease it was claimed with
    \* the coordinator
    wpc,        \* "down", "idle", the next read of wait_result, or "commit"
    wjob,       \* the job wait_result waits for
    tickets,    \* jobs submitted by this run of the coordinator
    tip,        \* height of the committed checkpoint
    answered,   \* history: job -> what a coordinator was last told
    faults

redis == <<state, attempt, result, queue, notify>>
coordinator == <<wpc, wjob, tickets, tip, answered>>
vars == <<redis, tasks, coordinator, faults>>

Queued == [status |-> "Queued"]
Claimed(w, lease, left) ==
    [status |-> "Claimed", worker |-> w, lease |-> lease, left |-> left]

Task == [job : Jobs, worker : Workers, lease : 1..MaxFaults + 1]

Init ==
    /\ state = [j \in Jobs |-> None]
    /\ attempt = [j \in Jobs |-> 0]
    /\ result = [j \in Jobs |-> None]
    /\ queue = << >> /\ notify = 0
    /\ tasks = {}
    /\ wpc = "down" /\ wjob = None /\ tickets = {} /\ tip = 0
    /\ answered = [j \in Jobs |-> None]
    /\ faults = 0

Fault == faults < MaxFaults /\ faults' = faults + 1

---------------------------------------------------------------------------
(* The lease functions *)

\* claim_state: only a queued job can be claimed. The attempt number a claim
\* carries also names its lease.
claim_state(s, w, lease) ==
    IF s = Queued THEN Claimed(w, lease, LeaseTime) ELSE None

FencesByWorker(s, w, lease) == s.status = "Claimed" /\ s.worker = w

\* The claim is this worker's, under this lease, and has not expired.
LiveFence(s, w, lease) ==
    s.status = "Claimed" /\ s.worker = w /\ s.lease = lease /\ s.left > 0

AddsToLease(s, w, lease) ==
    IF LiveFence(s, w, lease) THEN Claimed(w, lease, s.left + LeaseTime) ELSE None

\* heartbeat_state: the lease runs for its full length from now on.
heartbeat_state(s, w, lease) ==
    IF LiveFence(s, w, lease) THEN Claimed(w, lease, LeaseTime) ELSE None

\* complete_state and fail_state: the same compare-and-set.
complete_state(s, w, lease) ==
    IF LiveFence(s, w, lease) THEN [status |-> "Completed"] ELSE None

fail_state(s, w, lease) ==
    IF complete_state(s, w, lease) # None THEN [status |-> "Failed"] ELSE None

---------------------------------------------------------------------------
(* The coordinator *)

EnqueuesAgain(j) ==
    /\ state' = [state EXCEPT ![j] = Queued]
    /\ attempt' = [attempt EXCEPT ![j] = 0]
    /\ queue' = Append(queue, j)

RequeuesFailed(j) ==
    IF state[j] # None /\ state[j].status # "Failed"
    THEN UNCHANGED <<state, attempt, queue>>
    ELSE /\ state' = [state EXCEPT ![j] = Queued]
         /\ queue' = Append(queue, j)
         /\ UNCHANGED attempt

ForgetsQueue(j) ==
    /\ state' = [state EXCEPT ![j] = IF state[j] = None THEN Queued ELSE state[j]]
    /\ UNCHANGED <<attempt, queue>>

\* SUBMIT_JOB_SCRIPT: an identical job already there is accepted as it is.
SubmitScript(j) ==
    IF state[j] # None
    THEN UNCHANGED <<state, attempt, queue>>
    ELSE /\ state' = [state EXCEPT ![j] = Queued]
         /\ attempt' = [attempt EXCEPT ![j] = 0]
         /\ queue' = Append(queue, j)

\* poll_once prepares and submits the heights above the checkpoint in order.
Submit(j) ==
    /\ wpc = "idle" /\ tip < j /\ j \notin tickets
    /\ tip + 1 .. j - 1 \subseteq tickets
    /\ SubmitScript(j)
    /\ tickets' = tickets \cup {j}
    /\ UNCHANGED <<result, notify, tasks, wpc, wjob, tip, answered, faults>>

\* poll_once waits for the height after the checkpoint and no other;
\* ProofBackend::wait consumes the ticket.
Wait(j) ==
    /\ wpc = "idle" /\ j = tip + 1 /\ j \in tickets
    /\ wpc' = "result"
    /\ wjob' = j
    /\ tickets' = tickets \ {j}
    /\ UNCHANGED <<redis, tasks, tip, answered, faults>>

\* The next height is not in flight: poll_once has done no work.
Idle ==
    /\ wpc = "idle" /\ tip + 1 \notin tickets
    /\ UNCHANGED vars

\* wait_result, first read: a durable result ends the wait; an error outcome
\* ends the coordinator (into_prover_output).
ReadResult ==
    /\ wpc = "result"
    /\ IF result[wjob] = None
       THEN wpc' = "state" /\ UNCHANGED <<wjob, tickets, answered>>
       ELSE /\ answered' = [answered EXCEPT ![wjob] = result[wjob].outcome]
            /\ IF result[wjob].outcome = "valid"
               THEN wpc' = "commit" /\ UNCHANGED <<wjob, tickets>>
               ELSE wpc' = "down" /\ wjob' = None /\ tickets' = {}
    /\ UNCHANGED <<redis, tasks, tip, faults>>

\* wait_result, second read: the state key.
ReadState ==
    /\ wpc = "state"
    /\ LET s == state[wjob].status
       IN  \/ /\ s \in {"Queued", "Claimed"}
              /\ wpc' = "sleep"
              /\ UNCHANGED <<wjob, tickets, answered>>
           \/ /\ s = "Failed"
              /\ answered' = [answered EXCEPT ![wjob] = "failed"]
              /\ wpc' = "down" /\ wjob' = None /\ tickets' = {}
           \/ /\ s = "Completed"
              /\ wpc' = "missing" /\ tickets' = {}
              /\ UNCHANGED <<wjob, answered>>
    /\ UNCHANGED <<redis, tasks, tip, faults>>

\* A wake hint is popped, or the blocking pop times out.
Wake ==
    /\ wpc = "sleep"
    /\ wpc' = "result"
    /\ notify' \in IF notify > 0 THEN {notify, notify - 1} ELSE {notify}
    /\ UNCHANGED <<state, attempt, result, queue>>
    /\ UNCHANGED <<tasks, wjob, tickets, tip, answered, faults>>

\* commit_prepared (module BlockPipeline) moves the checkpoint.
Commit ==
    /\ wpc = "commit"
    /\ wpc' = "idle" /\ wjob' = None
    /\ tip' = wjob
    /\ UNCHANGED <<redis, tasks, tickets, answered, faults>>

\* The supervisor starts the coordinator (again).
Restart ==
    /\ wpc \in {"down", "missing"}
    /\ wpc' = "idle" /\ wjob' = None /\ tickets' = {}
    /\ UNCHANGED <<redis, tasks, tip, answered, faults>>

CoordinatorStops ==
    /\ wpc \notin {"down", "missing"} /\ Fault
    /\ wpc' = "down" /\ wjob' = None /\ tickets' = {}
    /\ UNCHANGED <<redis, tasks, tip, answered>>

---------------------------------------------------------------------------
(* The workers (external) *)

\* Pop the queue and claim; an entry that is no longer queued is dropped.
Claim(w) ==
    /\ queue # << >>
    /\ LET j == Head(queue)
           lease == attempt[j] + 1
           s == claim_state(state[j], w, lease)
       IN  IF s = None
           THEN UNCHANGED <<state, attempt, tasks>>
           ELSE /\ state' = [state EXCEPT ![j] = s]
                /\ attempt' = [attempt EXCEPT ![j] = lease]
                /\ tasks' = tasks \cup {[job |-> j, worker |-> w, lease |-> lease]}
    /\ queue' = Tail(queue)
    /\ UNCHANGED <<result, notify, coordinator, faults>>

Heartbeat(t) ==
    /\ heartbeat_state(state[t.job], t.worker, t.lease) # None
    /\ state' = [state EXCEPT ![t.job] =
                   heartbeat_state(state[t.job], t.worker, t.lease)]
    /\ UNCHANGED <<attempt, result, queue, notify, tasks, coordinator, faults>>

\* The terminal state and the result are written by one script.
Finish(t, s, r) ==
    /\ s # None
    /\ state' = [state EXCEPT ![t.job] = s]
    /\ result' = [result EXCEPT ![t.job] = r]
    /\ notify' = 1
    /\ tasks' = tasks \ {t}
    /\ UNCHANGED <<attempt, queue, coordinator>>

Complete(t) ==
    /\ Finish(t, complete_state(state[t.job], t.worker, t.lease),
              [outcome |-> "valid", lease |-> t.lease])
    /\ UNCHANGED faults

\* A permanent failure, with or without a stored error result.
Fail(t) ==
    /\ Fault
    /\ \E r \in {None, [outcome |-> "failed", lease |-> t.lease]} :
         Finish(t, fail_state(state[t.job], t.worker, t.lease), r)

\* The compare-and-set failed: the worker drops its proof.
Abandon(t) ==
    /\ complete_state(state[t.job], t.worker, t.lease) = None
    /\ tasks' = tasks \ {t}
    /\ UNCHANGED <<redis, coordinator, faults>>

WorkerStops(t) ==
    /\ Fault
    /\ tasks' = tasks \ {t}
    /\ UNCHANGED <<redis, coordinator>>

Held(j) == \E t \in tasks : t.job = j /\ t.lease = attempt[j]

\* Time passes. A lease that runs out under a worker still proving is a fault.
Tick ==
    LET running == {j \in Jobs : state[j] # None /\ state[j].status = "Claimed"
                                 /\ state[j].left > 0}
    IN  /\ running # {}
        /\ state' = [j \in Jobs |-> IF j \in running
                                    THEN [state[j] EXCEPT !.left = @ - 1]
                                    ELSE state[j]]
        /\ IF \E j \in running : state[j].left = 1 /\ Held(j)
           THEN Fault
           ELSE UNCHANGED faults
        /\ UNCHANGED <<attempt, result, queue, notify, tasks, coordinator>>

\* An expired claim goes back to the queue.
Reclaim(j) ==
    /\ state[j] # None /\ state[j].status = "Claimed" /\ state[j].left = 0
    /\ state' = [state EXCEPT ![j] = Queued]
    /\ queue' = Append(queue, j)
    /\ UNCHANGED <<attempt, result, notify, tasks, coordinator, faults>>

---------------------------------------------------------------------------
WaitResult == ReadResult \/ ReadState \/ Wake

Next ==
    \/ \E j \in Jobs : Submit(j) \/ Wait(j) \/ Reclaim(j)
    \/ Idle \/ WaitResult \/ Commit \/ Restart \/ CoordinatorStops
    \/ \E w \in Workers : Claim(w)
    \/ \E t \in tasks : Heartbeat(t) \/ Complete(t) \/ Fail(t) \/ Abandon(t)
                        \/ WorkerStops(t)
    \/ Tick

Spec == Init /\ [][Next]_vars

\* The coordinator is restarted and its loop goes on: it prepares again what
\* it had submitted, waits for the next height and commits it. Some worker pops
\* the queue; a proof ends; time passes and expired claims are put back.
Fairness ==
    /\ WF_vars(Restart) /\ WF_vars(WaitResult) /\ WF_vars(Commit)
    /\ WF_vars(\E j \in Jobs : state[j] # None /\ Submit(j))
    /\ WF_vars(\E j \in Jobs : Wait(j))
    /\ WF_vars(\E w \in Workers : Claim(w))
    /\ WF_vars(\E t \in tasks : Complete(t))
    /\ WF_vars(\E t \in tasks : Abandon(t))
    /\ WF_vars(Tick)
    /\ \A j \in Jobs : WF_vars(Reclaim(j))

FairSpec == Spec /\ Fairness

---------------------------------------------------------------------------
(* Properties *)

StoredState ==
    {Queued, [status |-> "Completed"], [status |-> "Failed"]}
    \cup {Claimed(w, l, t) : w \in Workers, l \in 1..MaxFaults + 1, t \in 0..LeaseTime}
StoredResult == [outcome : {"valid", "failed"}, lease : 1..MaxFaults + 1]

\* None is no value a key can hold (evaluated by TLC on every run).
ASSUME NoneAssumption == None \notin StoredState \cup StoredResult

\* Every key holds a value of its kind; attempts stay within the fault bound.
TypeOK ==
    /\ state \in [Jobs -> StoredState \cup {None}]
    /\ attempt \in [Jobs -> 0..MaxFaults + 1]
    /\ result \in [Jobs -> StoredResult \cup {None}]
    /\ queue \in Seq(Jobs) /\ notify \in 0..1
    /\ tasks \in SUBSET Task
    /\ wpc \in {"down", "idle", "result", "state", "sleep", "missing", "commit"}
    /\ wjob \in Jobs \cup {None} /\ tickets \in SUBSET Jobs
    /\ tip \in Jobs \cup {0}
    /\ answered \in [Jobs -> {None, "valid", "failed"}]
    /\ faults \in 0..MaxFaults

\* A job is in the queue list exactly once while it is queued and never
\* otherwise, however often coordinators submit it and workers lose it.
Occurrences(j) == Cardinality({i \in DOMAIN queue : queue[i] = j})
QueueExact ==
    \A j \in Jobs : Occurrences(j) = IF state[j] = Queued THEN 1 ELSE 0

\* A stored result comes from the newest claim of the job: a worker whose
\* lease was taken over can not answer it any more, even under the same
\* worker id (complete_state's fence).
ResultFenced == \A j \in Jobs : result[j] # None => result[j].lease = attempt[j]

\* The queue implements the prover the block pipeline is modelled with.
Status ==
    [j \in Jobs |-> IF state[j] = None THEN None
                    ELSE IF state[j].status = "Completed" THEN "valid"
                    ELSE IF state[j].status = "Failed" THEN "failed"
                    ELSE "queued"]
Service == INSTANCE ProofService WITH status <- Status
ServiceRefined == Service!Spec

\* A submitted job is eventually answered to some run of the coordinator,
\* although workers crash, leases expire and wake hints get lost; unless the
\* proof of a lower height failed for good: poll_once only ever waits for the
\* height after the checkpoint, so the heights above a failed one stay unread.
EveryJobAnswered ==
    \A j \in Jobs :
        (state[j] # None) ~> \/ answered[j] # None
                             \/ \E i \in 1 .. j - 1 : answered[i] = "failed"

\* wait_result gives up with "is Completed but its durable result is missing"
\* only when the result is missing.
MissingMeansMissing == wpc = "missing" => result[wjob] = None

---------------------------------------------------------------------------
(* The inductive invariant behind the theorems of ProofQueueProofs *)

Leased(j) == state[j] # None /\ state[j].status = "Claimed"
Terminal(j) == state[j] \in {[status |-> "Completed"], [status |-> "Failed"]}

\* The attempt key names the newest lease. A proof under way was claimed with
\* that lease or an older one, the newest by the worker the state names; only a
\* terminal job has a result.
LeaseInv ==
    /\ \A j \in Jobs : /\ state[j] = None => attempt[j] = 0
                       /\ Leased(j) => state[j].lease = attempt[j]
                       /\ result[j] # None => Terminal(j) /\ result[j].lease = attempt[j]
    /\ \A t \in tasks :
         /\ t.lease <= attempt[t.job]
         /\ t.lease = attempt[t.job] /\ Leased(t.job) => t.worker = state[t.job].worker

\* Every claim but the last of a job was lost to a fault: a job that waits to
\* be claimed, or whose lease nobody holds any more, has cost one per claim.
Lost(j) == state[j] = Queued \/ (Leased(j) /\ (state[j].left = 0 \/ ~Held(j)))
FaultInv ==
    \A j \in Jobs : /\ attempt[j] <= faults + 1
                    /\ Lost(j) => attempt[j] <= faults

\* The queue list holds the queued jobs, each once.
ListInv ==
    /\ \A j \in Jobs : state[j] = Queued <=> \E i \in DOMAIN queue : queue[i] = j
    /\ \A i, k \in DOMAIN queue : queue[i] = queue[k] => i = k

\* A job that was submitted, or is waited for, has a state key.
WaitInv ==
    /\ \A j \in tickets : state[j] # None
    /\ wpc \in {"result", "state", "sleep", "missing", "commit"} =>
         wjob \in Jobs /\ state[wjob] # None

QueueInv == TypeOK /\ LeaseInv /\ FaultInv /\ ListInv /\ WaitInv
=============================================================================
