-------------------------- MODULE ProofQueueProofs --------------------------
(***************************************************************************)
(* Proofs about ProofQueue, for any number of jobs and workers, any lease  *)
(* length and any number of faults: typing with the bound on attempts, the *)
(* exact queue, the fence on results, and the refinement of ProofService.  *)
(***************************************************************************)
EXTENDS ProofQueue, FiniteSetTheorems, TLAPS

---------------------------------------------------------------------------
(* The values of a state key *)

\* What the status of a state says of the rest of it.
LEMMA StateFacts ==
    ASSUME NEW s \in StoredState
    PROVE  /\ s.status \in {"Queued", "Claimed", "Completed", "Failed"}
           /\ s.status = "Queued" <=> s = Queued
           /\ s.status = "Completed" <=> s = [status |-> "Completed"]
           /\ s.status = "Failed" <=> s = [status |-> "Failed"]
           /\ s.status = "Claimed" =>
                /\ s = Claimed(s.worker, s.lease, s.left)
                /\ s.worker \in Workers /\ s.lease \in 1..MaxFaults + 1
                /\ s.left \in 0..LeaseTime
BY DEF StoredState, Queued, Claimed

\* The states the lease functions and scripts write.
LEMMA NewStates ==
    /\ Queued \in StoredState /\ Queued # None /\ Queued.status = "Queued"
    /\ [status |-> "Completed"] \in StoredState /\ [status |-> "Completed"] # None
    /\ [status |-> "Failed"] \in StoredState /\ [status |-> "Failed"] # None
    /\ \A w \in Workers, l \in 1..MaxFaults + 1, t \in 0..LeaseTime :
         /\ Claimed(w, l, t) \in StoredState /\ Claimed(w, l, t) # None
         /\ Claimed(w, l, t).status = "Claimed" /\ Claimed(w, l, t).worker = w
         /\ Claimed(w, l, t).lease = l /\ Claimed(w, l, t).left = t
<1>1. None \notin StoredState
  BY NoneAssumption
<1>2. Queued \in StoredState /\ [status |-> "Completed"] \in StoredState
      /\ [status |-> "Failed"] \in StoredState
  BY DEF StoredState
<1>3. \A w \in Workers, l \in 1..MaxFaults + 1, t \in 0..LeaseTime :
        Claimed(w, l, t) \in StoredState
  BY DEF StoredState
<1> QED
  BY <1>1, <1>2, <1>3 DEF Queued, Claimed

---------------------------------------------------------------------------
(* What the actions do in a state that satisfies the invariant *)

\* The keys of one job.
LEMMA KeyTypes ==
    ASSUME TypeOK, NEW j \in Jobs
    PROVE  /\ attempt[j] \in Nat /\ attempt[j] \in 0..MaxFaults + 1
           /\ faults \in Nat /\ faults <= MaxFaults /\ MaxFaults \in Nat
           /\ state[j] # None => state[j] \in StoredState
           /\ result[j] # None => result[j] \in StoredResult
BY QueueAssumption DEF TypeOK

\* A proof under way is of a job that has a state key.
LEMMA TaskFacts ==
    ASSUME QueueInv, NEW t \in tasks
    PROVE  /\ t.job \in Jobs /\ t.worker \in Workers
           /\ t.lease \in 1..MaxFaults + 1 /\ t.lease \in Nat
           /\ state[t.job] # None /\ state[t.job] \in StoredState
<1>1. /\ t.job \in Jobs /\ t.worker \in Workers
      /\ t.lease \in 1..MaxFaults + 1 /\ t.lease \in Nat
  BY QueueAssumption DEF QueueInv, TypeOK, Task
<1>2. attempt[t.job] # 0
  BY <1>1, KeyTypes DEF QueueInv, LeaseInv
<1> QED
  BY <1>1, <1>2, KeyTypes DEF QueueInv, LeaseInv

\* The script either finds the job there, or queues it for the first time.
LEMMA SubmitFacts ==
    ASSUME NEW j \in Jobs, Submit(j)
    PROVE  \/ state[j] # None /\ UNCHANGED <<state, attempt, queue>>
           \/ /\ state[j] = None
              /\ state' = [state EXCEPT ![j] = Queued]
              /\ attempt' = [attempt EXCEPT ![j] = 0]
              /\ queue' = Append(queue, j)
BY DEF Submit, SubmitScript

\* What a worker pops is always queued, so the claim succeeds.
LEMMA ClaimFacts ==
    ASSUME QueueInv, NEW w \in Workers, Claim(w)
    PROVE  \E j \in Jobs :
             /\ queue # << >> /\ j = Head(queue) /\ queue' = Tail(queue)
             /\ state[j] = Queued
             /\ attempt[j] + 1 \in 1..MaxFaults + 1
             /\ state' = [state EXCEPT ![j] = Claimed(w, attempt[j] + 1, LeaseTime)]
             /\ attempt' = [attempt EXCEPT ![j] = attempt[j] + 1]
             /\ tasks' = tasks \cup
                  {[job |-> j, worker |-> w, lease |-> attempt[j] + 1]}
<1> DEFINE j == Head(queue)
<1>1. queue \in Seq(Jobs) /\ queue # << >>
  BY DEF QueueInv, TypeOK, Claim
<1>2. j \in Jobs /\ 1 \in DOMAIN queue /\ queue[1] = j
  BY <1>1
<1>3. state[j] = Queued
  BY <1>2 DEF QueueInv, ListInv
<1>4. attempt[j] + 1 \in 1..MaxFaults + 1
  BY <1>2, <1>3, KeyTypes DEF QueueInv, FaultInv, Lost
<1>5. Claimed(w, attempt[j] + 1, LeaseTime) # None
  BY <1>4, NewStates, QueueAssumption
<1> QED
  BY <1>1, <1>2, <1>3, <1>4, <1>5 DEF Claim, claim_state

\* A lease that passes the fence is the newest one of its job.
LEMMA FenceFacts ==
    ASSUME QueueInv, NEW t \in tasks, LiveFence(state[t.job], t.worker, t.lease)
    PROVE  /\ Leased(t.job) /\ state[t.job].left \in 1..LeaseTime
           /\ state[t.job].lease = t.lease /\ t.lease = attempt[t.job]
           /\ state[t.job].worker = t.worker
<1>1. Leased(t.job) /\ state[t.job].lease = t.lease /\ state[t.job].worker = t.worker
      /\ state[t.job].left > 0
  BY TaskFacts DEF LiveFence, Leased
<1>2. state[t.job].left \in 0..LeaseTime
  BY <1>1, TaskFacts, StateFacts DEF Leased
<1> QED
  BY <1>1, <1>2, TaskFacts, QueueAssumption DEF QueueInv, LeaseInv

\* A heartbeat renews the lease that is there.
LEMMA HeartbeatFacts ==
    ASSUME QueueInv, NEW t \in tasks, Heartbeat(t)
    PROVE  /\ LiveFence(state[t.job], t.worker, t.lease)
           /\ state' = [state EXCEPT ![t.job] = Claimed(t.worker, t.lease, LeaseTime)]
           /\ UNCHANGED <<attempt, result, queue, notify, tasks, coordinator, faults>>
BY DEF Heartbeat, heartbeat_state

\* A worker that may finish makes the job terminal under the newest lease.
LEMMA FinishFacts ==
    ASSUME QueueInv, NEW t \in tasks, Complete(t) \/ Fail(t)
    PROVE  /\ LiveFence(state[t.job], t.worker, t.lease)
           /\ \E st \in {"valid", "failed"} :
                /\ state' = [state EXCEPT ![t.job] =
                     [status |-> IF st = "valid" THEN "Completed" ELSE "Failed"]]
                /\ \E r \in {None, [outcome |-> st, lease |-> t.lease]} :
                     result' = [result EXCEPT ![t.job] = r]
           /\ notify' = 1 /\ tasks' = tasks \ {t}
           /\ faults' \in {faults, faults + 1} /\ faults' \in 0..MaxFaults
           /\ UNCHANGED <<attempt, queue, coordinator>>
<1>1. faults \in 0..MaxFaults /\ MaxFaults \in Nat
  BY QueueAssumption DEF QueueInv, TypeOK
<1>2. CASE Complete(t)
  <2>1. /\ complete_state(state[t.job], t.worker, t.lease) # None
        /\ state' = [state EXCEPT ![t.job] =
                       complete_state(state[t.job], t.worker, t.lease)]
        /\ result' = [result EXCEPT ![t.job] = [outcome |-> "valid", lease |-> t.lease]]
        /\ notify' = 1 /\ tasks' = tasks \ {t}
        /\ UNCHANGED <<attempt, queue, coordinator, faults>>
    BY <1>2 DEF Complete, Finish
  <2> QED
    BY <1>1, <2>1 DEF complete_state
<1>3. CASE Fail(t)
  <2>1. PICK r \in {None, [outcome |-> "failed", lease |-> t.lease]} :
          Finish(t, fail_state(state[t.job], t.worker, t.lease), r)
    BY <1>3 DEF Fail
  <2>2. /\ fail_state(state[t.job], t.worker, t.lease) # None
        /\ state' = [state EXCEPT ![t.job] =
                       fail_state(state[t.job], t.worker, t.lease)]
        /\ result' = [result EXCEPT ![t.job] = r]
        /\ notify' = 1 /\ tasks' = tasks \ {t}
        /\ UNCHANGED <<attempt, queue, coordinator>>
    BY <2>1 DEF Finish
  <2>3. LiveFence(state[t.job], t.worker, t.lease)
        /\ fail_state(state[t.job], t.worker, t.lease) = [status |-> "Failed"]
    BY <2>2 DEF fail_state, complete_state
  <2>4. faults' = faults + 1 /\ faults' \in 0..MaxFaults
    BY <1>1, <1>3 DEF Fail, Fault
  <2> QED
    BY <1>1, <2>2, <2>3, <2>4
<1> QED
  BY <1>2, <1>3

\* A tick takes one from every lease that runs; a lease that runs out under the
\* worker that holds it is counted as a fault.
LEMMA TickFacts ==
    ASSUME QueueInv, Tick
    PROVE  /\ DOMAIN state' = Jobs
           /\ \A j \in Jobs :
                \/ /\ state'[j] = state[j]
                   /\ Leased(j) => state[j].left = 0
                \/ /\ Leased(j) /\ state[j].left \in 1..LeaseTime
                   /\ state'[j] = Claimed(state[j].worker, state[j].lease,
                                          state[j].left - 1)
           /\ faults' \in {faults, faults + 1} /\ faults' \in 0..MaxFaults
           /\ \A j \in Jobs : Leased(j) /\ Held(j) /\ state[j].left = 1 =>
                                faults' = faults + 1
           /\ UNCHANGED <<attempt, result, queue, notify, tasks, coordinator>>
<1> DEFINE running == {j \in Jobs : state[j] # None /\ state[j].status = "Claimed"
                                    /\ state[j].left > 0}
<1>1. /\ state' = [j \in Jobs |-> IF j \in running
                                  THEN [state[j] EXCEPT !.left = @ - 1]
                                  ELSE state[j]]
      /\ IF \E j \in running : state[j].left = 1 /\ Held(j)
         THEN Fault
         ELSE UNCHANGED faults
      /\ UNCHANGED <<attempt, result, queue, notify, tasks, coordinator>>
  BY DEF Tick
<1>2. ASSUME NEW j \in Jobs, Leased(j)
      PROVE  /\ state[j] = Claimed(state[j].worker, state[j].lease, state[j].left)
             /\ state[j].left \in 0..LeaseTime
  BY <1>2, KeyTypes, StateFacts DEF QueueInv, Leased
<1>3. ASSUME NEW j \in Jobs, j \in running
      PROVE  /\ Leased(j) /\ state[j].left \in 1..LeaseTime
             /\ state'[j] = Claimed(state[j].worker, state[j].lease, state[j].left - 1)
  <2>1. Leased(j) /\ state[j].left > 0
    BY <1>3 DEF Leased
  <2>2. state[j].left \in 1..LeaseTime
    BY <1>2, <2>1, QueueAssumption
  <2>3. state'[j] = [state[j] EXCEPT !.left = state[j].left - 1]
    BY <1>1, <1>3
  <2>4. \A w, l, f : [Claimed(w, l, f) EXCEPT !.left = f - 1] = Claimed(w, l, f - 1)
    BY DEF Claimed
  <2>5. state[j] = Claimed(state[j].worker, state[j].lease, state[j].left)
    BY <1>2, <2>1
  <2> QED
    BY <2>1, <2>2, <2>3, <2>4, <2>5
<1>4. ASSUME NEW j \in Jobs, j \notin running
      PROVE  state'[j] = state[j] /\ (Leased(j) => state[j].left = 0)
  <2>1. state'[j] = state[j]
    BY <1>1, <1>4
  <2>2. ASSUME Leased(j) PROVE state[j].left = 0
    BY <1>2, <1>4, <2>2, QueueAssumption DEF Leased
  <2> QED
    BY <2>1, <2>2
<1>5. faults' \in {faults, faults + 1} /\ faults' \in 0..MaxFaults
  BY <1>1, QueueAssumption DEF Fault, QueueInv, TypeOK
<1>6. \A j \in Jobs : Leased(j) /\ Held(j) /\ state[j].left = 1 => faults' = faults + 1
  BY <1>1 DEF Fault, Leased
<1> QED
  BY <1>1, <1>3, <1>4, <1>5, <1>6

---------------------------------------------------------------------------
(* The inductive invariant *)

\* Steps of the coordinator that change no key.
Reads == \/ \E j \in Jobs : Wait(j)
         \/ ReadResult \/ ReadState \/ Wake \/ Commit \/ Restart \/ CoordinatorStops

\* Next by what its steps do to the keys.
LEMMA NextCases ==
    ASSUME QueueInv, [Next]_vars
    PROVE  \/ \E j \in Jobs : Submit(j)
           \/ \E j \in Jobs : Reclaim(j)
           \/ \E w \in Workers : Claim(w)
           \/ \E t \in tasks : Heartbeat(t)
           \/ \E t \in tasks : Complete(t) \/ Fail(t)
           \/ \E t \in tasks : Abandon(t) \/ WorkerStops(t)
           \/ Tick
           \/ Reads
           \/ UNCHANGED vars
BY DEF Next, Reads, WaitResult, Idle

\* Every step keeps the types.
LEMMA TypeStep ==
    ASSUME QueueInv, [Next]_vars
    PROVE  TypeOK'
<1> USE DEF TypeOK, coordinator
<1>1. TypeOK
  BY DEF QueueInv
<1>2. CASE \E j \in Jobs : Submit(j)
  <2>1. PICK j \in Jobs : Submit(j)
    BY <1>2
  <2>2. UNCHANGED <<result, notify, tasks, wpc, wjob, tip, answered, faults>>
        /\ tickets' = tickets \cup {j}
    BY <2>1 DEF Submit
  <2>3. 0 \in 0..MaxFaults + 1
    BY QueueAssumption
  <2>4. CASE UNCHANGED <<state, attempt, queue>>
    BY <1>1, <2>2, <2>4
  <2>5. CASE /\ state' = [state EXCEPT ![j] = Queued]
             /\ attempt' = [attempt EXCEPT ![j] = 0]
             /\ queue' = Append(queue, j)
    <3>1. state' \in [Jobs -> StoredState \cup {None}]
      BY <1>1, <2>5, NewStates
    <3>2. attempt' \in [Jobs -> 0..MaxFaults + 1] /\ queue' \in Seq(Jobs)
      BY <1>1, <2>3, <2>5
    <3> QED
      BY <1>1, <2>2, <3>1, <3>2
  <2> QED
    BY <2>1, <2>4, <2>5, SubmitFacts
<1>3. CASE \E j \in Jobs : Reclaim(j)
  BY <1>1, <1>3, NewStates DEF Reclaim
<1>4. CASE \E w \in Workers : Claim(w)
  <2>1. PICK w \in Workers : Claim(w)
    BY <1>4
  <2>2. UNCHANGED <<result, notify, coordinator, faults>>
    BY <2>1 DEF Claim
  <2>3. LeaseTime \in 0..LeaseTime
    BY QueueAssumption
  <2>4. PICK j \in Jobs :
             /\ queue # << >> /\ queue' = Tail(queue)
             /\ attempt[j] + 1 \in 1..MaxFaults + 1
             /\ state' = [state EXCEPT ![j] = Claimed(w, attempt[j] + 1, LeaseTime)]
             /\ attempt' = [attempt EXCEPT ![j] = attempt[j] + 1]
             /\ tasks' = tasks \cup
                  {[job |-> j, worker |-> w, lease |-> attempt[j] + 1]}
    BY <2>1, ClaimFacts
  <2>5. Claimed(w, attempt[j] + 1, LeaseTime) \in StoredState
    BY <2>3, <2>4, NewStates
  <2>6. attempt[j] + 1 \in 0..MaxFaults + 1
    BY <2>4
  <2>7. [job |-> j, worker |-> w, lease |-> attempt[j] + 1] \in Task
    BY <2>4 DEF Task
  <2>8. queue' \in Seq(Jobs)
    BY <1>1, <2>4
  <2> QED
    BY <1>1, <2>2, <2>4, <2>5, <2>6, <2>7, <2>8
<1>5. CASE \E t \in tasks : Heartbeat(t)
  <2>1. PICK t \in tasks : Heartbeat(t)
    BY <1>5
  <2>2. Claimed(t.worker, t.lease, LeaseTime) \in StoredState
    BY TaskFacts, NewStates, QueueAssumption
  <2> QED
    BY <1>1, <2>1, <2>2, HeartbeatFacts
<1>6. CASE \E t \in tasks : Complete(t) \/ Fail(t)
  <2>1. PICK t \in tasks : Complete(t) \/ Fail(t)
    BY <1>6
  <2>2. PICK st \in {"valid", "failed"} :
          /\ state' = [state EXCEPT ![t.job] =
               [status |-> IF st = "valid" THEN "Completed" ELSE "Failed"]]
          /\ \E r \in {None, [outcome |-> st, lease |-> t.lease]} :
               result' = [result EXCEPT ![t.job] = r]
    BY <2>1, FinishFacts
  <2>3. [status |-> IF st = "valid" THEN "Completed" ELSE "Failed"] \in StoredState
    BY DEF StoredState
  <2>4. [outcome |-> st, lease |-> t.lease] \in StoredResult
    BY TaskFacts DEF StoredResult
  <2>5. t.job \in Jobs
    BY TaskFacts
  <2>6. state' \in [Jobs -> StoredState \cup {None}]
    BY <1>1, <2>2, <2>3, <2>5
  <2>7. result' \in [Jobs -> StoredResult \cup {None}]
    BY <1>1, <2>2, <2>4, <2>5
  <2>8. /\ notify' = 1 /\ tasks' = tasks \ {t} /\ faults' \in 0..MaxFaults
        /\ UNCHANGED <<attempt, queue, coordinator>>
    BY <2>1, FinishFacts
  <2> QED
    BY <1>1, <2>6, <2>7, <2>8
<1>7. CASE \E t \in tasks : Abandon(t) \/ WorkerStops(t)
  BY <1>1, <1>7, QueueAssumption DEF Abandon, WorkerStops, Fault, redis
<1>8. CASE Tick
  <2>1. ASSUME NEW j \in Jobs PROVE state'[j] \in StoredState \cup {None}
    <3>1. CASE state'[j] = state[j]
      BY <1>1, <3>1
    <3>2. CASE /\ Leased(j) /\ state[j].left \in 1..LeaseTime
               /\ state'[j] = Claimed(state[j].worker, state[j].lease, state[j].left - 1)
      <4>1. state[j].worker \in Workers /\ state[j].lease \in 1..MaxFaults + 1
        BY <1>1, <3>2, KeyTypes, StateFacts DEF Leased
      <4>2. state[j].left - 1 \in 0..LeaseTime
        BY <3>2, QueueAssumption
      <4> QED
        BY <3>2, <4>1, <4>2, NewStates
    <3> QED
      BY <1>8, <3>1, <3>2, TickFacts
  <2>2. state' \in [Jobs -> StoredState \cup {None}]
    <3>1. state' = [j \in Jobs |-> state'[j]]
      BY <1>8 DEF Tick
    <3> QED
      BY <2>1, <3>1
  <2> QED
    BY <1>1, <1>8, <2>2, TickFacts
<1>9. CASE Reads
  <2>1. CASE ReadResult
    <3>1. wjob \in Jobs
      BY <2>1 DEF ReadResult, QueueInv, WaitInv
    <3>2. result[wjob] # None => result[wjob].outcome \in {"valid", "failed"}
      BY <1>1, <3>1, KeyTypes DEF StoredResult
    <3> QED
      BY <1>1, <2>1, <3>1, <3>2 DEF ReadResult, redis
  <2>2. CASE ReadState
    BY <1>1, <2>2 DEF ReadState, redis
  <2>3. CASE Wake
    BY <1>1, <2>3 DEF Wake
  <2>4. CASE (\E j \in Jobs : Wait(j)) \/ Restart \/ CoordinatorStops
    BY <1>1, <2>4, QueueAssumption DEF Wait, Restart, CoordinatorStops, Fault, redis
  <2>5. CASE Commit
    BY <1>1, <2>5 DEF Commit, redis, QueueInv, WaitInv
  <2> QED
    BY <1>9, <2>1, <2>2, <2>3, <2>4, <2>5 DEF Reads
<1>10. CASE UNCHANGED vars
  BY <1>1, <1>10 DEF vars, redis
<1> QED
  BY <1>2, <1>3, <1>4, <1>5, <1>6, <1>7, <1>8, <1>9, <1>10, NextCases

\* Reads and stuttering leave the keys and the workers alone.
LEMMA ReadsFrame ==
    ASSUME QueueInv, Reads \/ UNCHANGED vars
    PROVE  /\ UNCHANGED <<state, attempt, result, queue, tasks>>
           /\ faults' \in {faults, faults + 1} /\ faults \in Nat
BY QueueAssumption
DEF Reads, Wait, ReadResult, ReadState, Wake, Commit, Restart, CoordinatorStops, Fault, vars,
    redis, QueueInv, TypeOK

\* Every step keeps the leases in order.
LEMMA LeaseStep ==
    ASSUME QueueInv, [Next]_vars
    PROVE  LeaseInv'
<1>1. TypeOK /\ LeaseInv
  BY DEF QueueInv
<1>2. ASSUME UNCHANGED <<state, attempt, result>>, tasks' \subseteq tasks
      PROVE  LeaseInv'
  BY <1>1, <1>2 DEF LeaseInv, Leased, Terminal
<1>3. ASSUME NEW j \in Jobs, state[j] # Queued => state[j] = None \/ Leased(j),
             state' = [state EXCEPT ![j] = Queued],
             UNCHANGED <<result, tasks>>,
             attempt' = [attempt EXCEPT ![j] = @] \/
               (state[j] = None /\ attempt' = [attempt EXCEPT ![j] = 0])
      PROVE  LeaseInv'
  <2>1. attempt' = attempt
    BY <1>1, <1>3 DEF LeaseInv, TypeOK
  <2>2. state' [j] = Queued /\ \A i \in Jobs : i # j => state'[i] = state[i]
    BY <1>1, <1>3 DEF TypeOK
  <2>3. Queued # None /\ Queued.status = "Queued"
    BY NewStates
  <2>4. result[j] = None
    <3>1. ~Terminal(j)
      BY <1>3, NewStates DEF Terminal, Leased, Queued
    <3> QED
      BY <1>1, <3>1 DEF LeaseInv
  <2>5. ASSUME NEW i \in Jobs
        PROVE  /\ state'[i] = None => attempt'[i] = 0
               /\ Leased(i)' => state'[i].lease = attempt'[i]
               /\ result'[i] # None => Terminal(i)' /\ result'[i].lease = attempt'[i]
    BY <1>1, <1>3, <2>1, <2>2, <2>3, <2>4 DEF LeaseInv, Leased, Terminal
  <2>6. ASSUME NEW t \in tasks'
        PROVE  /\ t.lease <= attempt'[t.job]
               /\ t.lease = attempt'[t.job] /\ Leased(t.job)' =>
                    t.worker = state'[t.job].worker
    BY <1>1, <1>3, <2>1, <2>2, <2>3, TaskFacts DEF LeaseInv, Leased
  <2> QED
    BY <2>5, <2>6 DEF LeaseInv
<1>4. CASE \E j \in Jobs : Submit(j)
  <2>1. PICK j \in Jobs : Submit(j)
    BY <1>4
  <2>2. UNCHANGED <<result, tasks>>
    BY <2>1 DEF Submit
  <2> QED
    BY <1>2, <1>3, <2>1, <2>2, SubmitFacts
<1>5. CASE \E j \in Jobs : Reclaim(j)
  <2>1. PICK j \in Jobs : Reclaim(j)
    BY <1>5
  <2>2. /\ Leased(j) /\ state' = [state EXCEPT ![j] = Queued]
        /\ UNCHANGED <<attempt, result, tasks>>
    BY <2>1 DEF Reclaim, Leased
  <2>3. attempt' = [attempt EXCEPT ![j] = @]
    BY <1>1, <2>2 DEF TypeOK
  <2> QED
    BY <1>3, <2>2, <2>3
<1>6. CASE \E w \in Workers : Claim(w)
  <2>1. PICK w \in Workers : Claim(w)
    BY <1>6
  <2>2. PICK j \in Jobs :
             /\ state[j] = Queued
             /\ attempt[j] + 1 \in 1..MaxFaults + 1
             /\ state' = [state EXCEPT ![j] = Claimed(w, attempt[j] + 1, LeaseTime)]
             /\ attempt' = [attempt EXCEPT ![j] = attempt[j] + 1]
             /\ tasks' = tasks \cup
                  {[job |-> j, worker |-> w, lease |-> attempt[j] + 1]}
    BY <2>1, ClaimFacts
  <2>3. UNCHANGED result
    BY <2>1 DEF Claim
  <2>4. /\ state'[j] # None /\ state'[j].status = "Claimed" /\ state'[j].worker = w
        /\ state'[j].lease = attempt[j] + 1
    BY <1>1, <2>2, NewStates, QueueAssumption DEF TypeOK
  <2>5. /\ attempt'[j] = attempt[j] + 1
        /\ \A i \in Jobs : i # j => attempt'[i] = attempt[i] /\ state'[i] = state[i]
    BY <1>1, <2>2 DEF TypeOK
  <2>6. result[j] = None
    <3>1. ~Terminal(j)
      BY <2>2 DEF Terminal, Queued
    <3> QED
      BY <1>1, <3>1 DEF LeaseInv
  <2>7. ASSUME NEW i \in Jobs
        PROVE  /\ state'[i] = None => attempt'[i] = 0
               /\ Leased(i)' => state'[i].lease = attempt'[i]
               /\ result'[i] # None => Terminal(i)' /\ result'[i].lease = attempt'[i]
    BY <1>1, <2>3, <2>4, <2>5, <2>6 DEF LeaseInv, Leased, Terminal
  <2>8. ASSUME NEW t \in tasks'
        PROVE  /\ t.lease <= attempt'[t.job]
               /\ t.lease = attempt'[t.job] /\ Leased(t.job)' =>
                    t.worker = state'[t.job].worker
    <3>1. attempt[j] \in Nat
      BY <1>1, KeyTypes
    <3>2. CASE t \in tasks
      BY <1>1, <2>4, <2>5, <3>1, <3>2, TaskFacts DEF LeaseInv, Leased
    <3>3. CASE t = [job |-> j, worker |-> w, lease |-> attempt[j] + 1]
      BY <2>4, <2>5, <3>1, <3>3
    <3> QED
      BY <2>2, <3>2, <3>3
  <2> QED
    BY <2>7, <2>8 DEF LeaseInv
<1>7. CASE \E t \in tasks : Heartbeat(t)
  <2>1. PICK t \in tasks : Heartbeat(t)
    BY <1>7
  <2>2. /\ state' = [state EXCEPT ![t.job] = Claimed(t.worker, t.lease, LeaseTime)]
        /\ UNCHANGED <<attempt, result, tasks>>
        /\ LiveFence(state[t.job], t.worker, t.lease)
    BY <2>1, HeartbeatFacts
  <2>3. /\ Leased(t.job) /\ state[t.job].lease = t.lease
        /\ state[t.job].worker = t.worker /\ t.job \in Jobs
    BY <2>2, FenceFacts, TaskFacts
  <2>4. /\ state'[t.job] # None /\ state'[t.job].status = "Claimed"
        /\ state'[t.job].worker = t.worker /\ state'[t.job].lease = t.lease
    <3>1. state'[t.job] = Claimed(t.worker, t.lease, LeaseTime)
      BY <1>1, <2>2, <2>3 DEF TypeOK
    <3>2. t.worker \in Workers /\ t.lease \in 1..MaxFaults + 1
          /\ LeaseTime \in 0..LeaseTime
      BY TaskFacts, QueueAssumption
    <3> QED
      BY <3>1, <3>2, NewStates
  <2>5. \A i \in Jobs : i # t.job => state'[i] = state[i]
    BY <1>1, <2>2 DEF TypeOK
  <2>6. result[t.job] = None
    <3>1. ~Terminal(t.job)
      BY <2>3 DEF Terminal, Leased
    <3> QED
      BY <1>1, <2>3, <3>1 DEF LeaseInv
  <2>7. \A u \in tasks : u.job \in Jobs
    BY TaskFacts
  <2> QED
    BY <1>1, <2>2, <2>3, <2>4, <2>5, <2>6, <2>7 DEF LeaseInv, Leased, Terminal
<1>8. CASE \E t \in tasks : Complete(t) \/ Fail(t)
  <2>1. PICK t \in tasks : Complete(t) \/ Fail(t)
    BY <1>8
  <2>2. PICK st \in {"valid", "failed"} :
          /\ state' = [state EXCEPT ![t.job] =
               [status |-> IF st = "valid" THEN "Completed" ELSE "Failed"]]
          /\ \E r \in {None, [outcome |-> st, lease |-> t.lease]} :
               result' = [result EXCEPT ![t.job] = r]
    BY <2>1, FinishFacts
  <2>3. tasks' \subseteq tasks /\ UNCHANGED attempt
        /\ LiveFence(state[t.job], t.worker, t.lease)
    BY <2>1, FinishFacts
  <2>4. t.job \in Jobs /\ t.lease = attempt[t.job]
    BY <2>3, FenceFacts, TaskFacts
  <2>5. /\ state'[t.job] # None /\ ~Leased(t.job)' /\ Terminal(t.job)'
        /\ \A i \in Jobs : i # t.job => state'[i] = state[i]
    BY <1>1, <2>2, <2>4, NewStates DEF TypeOK, Leased, Terminal
  <2>6. /\ result'[t.job] # None => result'[t.job].lease = t.lease
        /\ \A i \in Jobs : i # t.job => result'[i] = result[i]
    BY <1>1, <2>2, <2>4 DEF TypeOK
  <2>7. \A u \in tasks : u.job \in Jobs
    BY TaskFacts
  <2> QED
    BY <1>1, <2>3, <2>4, <2>5, <2>6, <2>7 DEF LeaseInv, Leased, Terminal
<1>9. CASE \E t \in tasks : Abandon(t) \/ WorkerStops(t)
  BY <1>2, <1>9 DEF Abandon, WorkerStops, redis
<1>10. CASE Tick
  <2>1. ASSUME NEW j \in Jobs
        PROVE  \/ state'[j] = state[j]
               \/ /\ Leased(j) /\ Leased(j)' /\ ~Terminal(j)
                  /\ state'[j] # None
                  /\ state'[j].lease = state[j].lease
                  /\ state'[j].worker = state[j].worker
    <3> SUFFICES ASSUME state'[j] # state[j]
                 PROVE  /\ Leased(j) /\ Leased(j)' /\ ~Terminal(j)
                        /\ state'[j] # None
                        /\ state'[j].lease = state[j].lease
                        /\ state'[j].worker = state[j].worker
      OBVIOUS
    <3>1. /\ Leased(j) /\ state[j].left \in 1..LeaseTime
          /\ state'[j] = Claimed(state[j].worker, state[j].lease, state[j].left - 1)
      BY <1>10, TickFacts
    <3>2. /\ state[j].worker \in Workers /\ state[j].lease \in 1..MaxFaults + 1
          /\ state[j].left - 1 \in 0..LeaseTime
      BY <1>1, <3>1, KeyTypes, StateFacts, QueueAssumption DEF Leased
    <3>3. /\ state'[j] # None /\ state'[j].status = "Claimed"
          /\ state'[j].lease = state[j].lease /\ state'[j].worker = state[j].worker
      BY <3>1, <3>2, NewStates
    <3> QED
      BY <3>1, <3>3 DEF Leased, Terminal
  <2>2. UNCHANGED <<attempt, result, tasks>>
    BY <1>10, TickFacts
  <2>3. \A u \in tasks : u.job \in Jobs
    BY TaskFacts
  <2> QED
    BY <1>1, <2>1, <2>2, <2>3 DEF LeaseInv, Leased, Terminal
<1> QED
  BY <1>2, <1>4, <1>5, <1>6, <1>7, <1>8, <1>9, <1>10, NextCases, ReadsFrame

\* Every step keeps the account of claims and faults: only a fault makes a job
\* lose its claim.
LEMMA FaultStep ==
    ASSUME QueueInv, [Next]_vars, TypeOK'
    PROVE  FaultInv'
<1>1. TypeOK /\ LeaseInv /\ FaultInv /\ faults \in Nat /\ faults' \in Nat
  BY QueueAssumption DEF QueueInv, TypeOK
<1>2. \A j \in Jobs : attempt[j] \in Nat /\ attempt'[j] \in Nat
  BY <1>1 DEF TypeOK
<1>3. faults' \in {faults, faults + 1}
  <2>1. \/ UNCHANGED faults \/ Fault
        \/ Tick \/ Reads \/ (\E t \in tasks : Complete(t) \/ Fail(t)) \/ UNCHANGED vars
    BY NextCases
    DEF Submit, Reclaim, Claim, Heartbeat, Abandon, WorkerStops
  <2> QED
    BY <2>1, TickFacts, ReadsFrame, FinishFacts DEF Fault
<1>4. ASSUME NEW j \in Jobs, attempt'[j] = attempt[j], Lost(j)' => Lost(j)
      PROVE  attempt'[j] <= faults' + 1 /\ (Lost(j)' => attempt'[j] <= faults')
  BY <1>1, <1>2, <1>3, <1>4 DEF FaultInv
<1>5. ASSUME NEW j \in Jobs, attempt'[j] = attempt[j], faults' = faults + 1
      PROVE  attempt'[j] <= faults' + 1 /\ (Lost(j)' => attempt'[j] <= faults')
  BY <1>1, <1>2, <1>5 DEF FaultInv
<1>6. ASSUME NEW j \in Jobs, state'[j] = state[j], attempt'[j] = attempt[j],
             \A t \in tasks : t.job = j => t \in tasks'
      PROVE  attempt'[j] <= faults' + 1 /\ (Lost(j)' => attempt'[j] <= faults')
  BY <1>4, <1>6 DEF Lost, Leased, Held
<1>7. CASE \E j \in Jobs : Submit(j)
  <2>1. PICK j \in Jobs : Submit(j)
    BY <1>7
  <2>2. UNCHANGED tasks
    BY <2>1 DEF Submit
  <2>3. CASE UNCHANGED <<state, attempt>>
    BY <1>6, <2>2, <2>3 DEF FaultInv
  <2>4. CASE /\ state' = [state EXCEPT ![j] = Queued]
             /\ attempt' = [attempt EXCEPT ![j] = 0]
    <3>1. attempt'[j] = 0
      BY <1>1, <2>4 DEF TypeOK
    <3>2. \A i \in Jobs : i # j => state'[i] = state[i] /\ attempt'[i] = attempt[i]
      BY <1>1, <2>4 DEF TypeOK
    <3> QED
      BY <1>1, <1>6, <2>2, <3>1, <3>2 DEF FaultInv
  <2> QED
    BY <2>1, <2>3, <2>4, SubmitFacts
<1>8. CASE \E j \in Jobs : Reclaim(j)
  <2>1. PICK j \in Jobs : Reclaim(j)
    BY <1>8
  <2>2. Lost(j) /\ UNCHANGED <<attempt, tasks>>
    BY <2>1 DEF Reclaim, Lost, Leased
  <2>3. \A i \in Jobs : i # j => state'[i] = state[i]
    BY <1>1, <2>1 DEF Reclaim, TypeOK
  <2> QED
    BY <1>4, <1>6, <2>2, <2>3 DEF FaultInv
<1>9. CASE \E w \in Workers : Claim(w)
  <2>1. PICK w \in Workers : Claim(w)
    BY <1>9
  <2>2. PICK j \in Jobs :
             /\ state[j] = Queued
             /\ attempt[j] + 1 \in 1..MaxFaults + 1
             /\ state' = [state EXCEPT ![j] = Claimed(w, attempt[j] + 1, LeaseTime)]
             /\ attempt' = [attempt EXCEPT ![j] = attempt[j] + 1]
             /\ tasks' = tasks \cup
                  {[job |-> j, worker |-> w, lease |-> attempt[j] + 1]}
    BY <2>1, ClaimFacts
  <2>3. attempt[j] <= faults
    BY <1>1, <2>2 DEF FaultInv, Lost
  <2>4. /\ attempt'[j] = attempt[j] + 1
        /\ state'[j] = Claimed(w, attempt[j] + 1, LeaseTime)
        /\ \A i \in Jobs : i # j => state'[i] = state[i] /\ attempt'[i] = attempt[i]
    BY <1>1, <2>2 DEF TypeOK
  <2>5. UNCHANGED faults
    BY <2>1 DEF Claim
  <2>6. ~Lost(j)'
    <3>1. Held(j)'
      <4> DEFINE t == [job |-> j, worker |-> w, lease |-> attempt[j] + 1]
      <4>1. t \in tasks' /\ t.job = j /\ t.lease = attempt'[j]
        BY <2>2, <2>4
      <4> QED
        BY <4>1 DEF Held
    <3>2. state'[j].left = LeaseTime /\ state'[j].status = "Claimed" /\ LeaseTime # 0
      BY <2>4, QueueAssumption DEF Claimed
    <3> QED
      BY <3>1, <3>2 DEF Lost, Queued
  <2> QED
    BY <1>1, <1>2, <1>6, <2>2, <2>3, <2>4, <2>5, <2>6 DEF FaultInv
<1>10. CASE \E t \in tasks : Heartbeat(t)
  <2>1. PICK t \in tasks : Heartbeat(t)
    BY <1>10
  <2>2. /\ state' = [state EXCEPT ![t.job] = Claimed(t.worker, t.lease, LeaseTime)]
        /\ UNCHANGED <<attempt, tasks>>
        /\ LiveFence(state[t.job], t.worker, t.lease)
    BY <2>1, HeartbeatFacts
  <2>3. t.job \in Jobs /\ t.lease = attempt[t.job]
    BY <2>2, FenceFacts, TaskFacts
  <2>4. ~Lost(t.job)'
    <3>1. Held(t.job)'
      BY <2>2, <2>3 DEF Held
    <3>2. /\ state'[t.job].left = LeaseTime /\ state'[t.job].status = "Claimed"
          /\ LeaseTime # 0
      BY <1>1, <2>2, <2>3, QueueAssumption DEF Claimed, TypeOK
    <3> QED
      BY <3>1, <3>2 DEF Lost, Queued
  <2>5. \A i \in Jobs : i # t.job => state'[i] = state[i]
    BY <1>1, <2>2 DEF TypeOK
  <2> QED
    BY <1>4, <1>6, <2>2, <2>3, <2>4, <2>5 DEF FaultInv
<1>11. CASE \E t \in tasks : Complete(t) \/ Fail(t)
  <2>1. PICK t \in tasks : Complete(t) \/ Fail(t)
    BY <1>11
  <2>2. PICK st \in {"valid", "failed"} :
          state' = [state EXCEPT ![t.job] =
               [status |-> IF st = "valid" THEN "Completed" ELSE "Failed"]]
    BY <2>1, FinishFacts
  <2>3. tasks' = tasks \ {t} /\ UNCHANGED attempt
    BY <2>1, FinishFacts
  <2>4. t.job \in Jobs
    BY TaskFacts
  <2>5. ~Lost(t.job)'
    <3>1. state'[t.job].status # "Claimed" /\ state'[t.job].status # "Queued"
      BY <1>1, <2>2, <2>4 DEF TypeOK
    <3> QED
      BY <3>1 DEF Lost, Leased, Queued
  <2>6. \A i \in Jobs : i # t.job => state'[i] = state[i]
    BY <1>1, <2>2 DEF TypeOK
  <2> QED
    BY <1>4, <1>6, <2>3, <2>4, <2>5, <2>6 DEF FaultInv
<1>12. CASE \E t \in tasks : Abandon(t)
  <2>1. PICK t \in tasks : Abandon(t)
    BY <1>12
  <2>2. /\ UNCHANGED <<state, attempt>> /\ tasks' = tasks \ {t}
        /\ complete_state(state[t.job], t.worker, t.lease) = None
    BY <2>1 DEF Abandon, redis
  <2>3. ~LiveFence(state[t.job], t.worker, t.lease)
    BY <2>2, NewStates DEF complete_state
  <2>4. ASSUME NEW j \in Jobs, Lost(j)', ~Lost(j) PROVE FALSE
    <3>1. Leased(j) /\ Held(j) /\ ~Held(j)' /\ state[j].left # 0
      BY <2>2, <2>4 DEF Lost, Leased
    <3>2. t.job = j /\ t.lease = attempt[j]
      BY <2>2, <3>1 DEF Held
    <3>3. t.worker = state[j].worker /\ t.lease = state[j].lease
      BY <1>1, <3>1, <3>2 DEF LeaseInv
    <3>4. state[j].left > 0
      BY <1>1, <3>1, KeyTypes, StateFacts, QueueAssumption DEF Leased
    <3> QED
      BY <2>3, <3>1, <3>2, <3>3, <3>4 DEF LiveFence, Leased
  <2> QED
    BY <1>4, <2>2, <2>4 DEF FaultInv
<1>13. CASE \E t \in tasks : WorkerStops(t)
  BY <1>5, <1>13 DEF WorkerStops, Fault, redis, FaultInv
<1>14. CASE Tick
  <2>1. UNCHANGED <<attempt, tasks>>
    BY <1>14, TickFacts
  <2>2. ASSUME NEW j \in Jobs
        PROVE  attempt'[j] <= faults' + 1 /\ (Lost(j)' => attempt'[j] <= faults')
    <3>1. CASE state'[j] = state[j]
      BY <1>6, <2>1, <3>1
    <3>2. CASE /\ Leased(j) /\ state[j].left \in 1..LeaseTime
               /\ state'[j] = Claimed(state[j].worker, state[j].lease, state[j].left - 1)
      <4>1. CASE Held(j) /\ state[j].left = 1
        BY <1>5, <1>14, <2>1, <3>2, <4>1, TickFacts
      <4>2. CASE ~Held(j)
        BY <1>4, <2>1, <3>2, <4>2 DEF Lost
      <4>3. CASE Held(j) /\ state[j].left # 1
        <5>1. Held(j)' /\ state'[j].left = state[j].left - 1
              /\ state'[j].status = "Claimed"
          BY <2>1, <3>2, <4>3 DEF Held, Claimed
        <5>2. ~Lost(j)'
          BY <3>2, <4>3, <5>1, QueueAssumption DEF Lost, Queued
        <5> QED
          BY <1>4, <2>1, <5>2
      <4> QED
        BY <4>1, <4>2, <4>3
    <3> QED
      BY <1>14, <3>1, <3>2, TickFacts
  <2> QED
    BY <2>2 DEF FaultInv
<1>15. CASE Reads \/ UNCHANGED vars
  BY <1>6, <1>15, ReadsFrame DEF FaultInv
<1> QED
  BY <1>7, <1>8, <1>9, <1>10, <1>11, <1>12, <1>13, <1>14, <1>15, NextCases

\* No value occurs twice in a sequence.
Distinct(q) == \A i, k \in DOMAIN q : q[i] = q[k] => i = k
Listed(q, v) == \E i \in DOMAIN q : q[i] = v

\* Appending a new value, and removing the head.
LEMMA AppendListed ==
    ASSUME NEW S, NEW q \in Seq(S), NEW v \in S, Distinct(q), ~Listed(q, v)
    PROVE  /\ Distinct(Append(q, v))
           /\ \A u : Listed(Append(q, v), u) <=> Listed(q, u) \/ u = v
<1> DEFINE r == Append(q, v)
           n == Len(q)
<1>1. n \in Nat /\ DOMAIN q = 1..n /\ DOMAIN r = 1..n + 1
  OBVIOUS
<1>2. \A i \in 1..n : r[i] = q[i]
  OBVIOUS
<1>3. r[n + 1] = v
  OBVIOUS
<1> HIDE DEF r, n
<1>4. \A i \in 1..n + 1 : i \in 1..n \/ i = n + 1
  BY <1>1
<1>5. n + 1 \in 1..n + 1 /\ 1..n \subseteq 1..n + 1
  BY <1>1
<1>6. Distinct(r)
  BY <1>1, <1>2, <1>3, <1>4 DEF Distinct, Listed
<1>7. \A u : Listed(r, u) <=> Listed(q, u) \/ u = v
  BY <1>1, <1>2, <1>3, <1>4, <1>5 DEF Listed
<1> QED
  BY <1>6, <1>7 DEF r

LEMMA TailListed ==
    ASSUME NEW S, NEW q \in Seq(S), q # << >>, Distinct(q)
    PROVE  /\ Distinct(Tail(q))
           /\ \A u : Listed(Tail(q), u) <=> Listed(q, u) /\ u # Head(q)
<1> DEFINE r == Tail(q)
           n == Len(q)
<1>1. n \in Nat /\ n > 0 /\ DOMAIN q = 1..n /\ DOMAIN r = 1..n - 1
  OBVIOUS
<1>2. \A i \in 1..n - 1 : r[i] = q[i + 1]
  OBVIOUS
<1>3. Head(q) = q[1]
  OBVIOUS
<1> HIDE DEF r, n
<1>4. \A i \in 1..n - 1 : i + 1 \in 1..n /\ i + 1 # 1
  BY <1>1
<1>5. 1 \in 1..n /\ \A i \in 1..n : i = 1 \/ i - 1 \in 1..n - 1
  BY <1>1
<1>6. Distinct(r)
  <2> SUFFICES ASSUME NEW i \in 1..n - 1, NEW k \in 1..n - 1, r[i] = r[k]
               PROVE  i = k
    BY <1>1 DEF Distinct
  <2>1. i + 1 = k + 1
    BY <1>1, <1>2, <1>4 DEF Distinct
  <2> QED
    BY <1>1, <2>1
<1>7. ASSUME NEW u, Listed(r, u) PROVE Listed(q, u) /\ u # Head(q)
  <2>1. PICK i \in 1..n - 1 : r[i] = u
    BY <1>1, <1>7 DEF Listed
  <2>2. i + 1 \in 1..n /\ i + 1 # 1 /\ q[i + 1] = u
    BY <1>2, <1>4, <2>1
  <2>3. q[i + 1] # q[1]
    BY <1>1, <1>5, <2>2 DEF Distinct
  <2> QED
    BY <1>1, <1>3, <2>2, <2>3 DEF Listed
<1>8. ASSUME NEW u, Listed(q, u), u # Head(q) PROVE Listed(r, u)
  <2>1. PICK i \in 1..n : q[i] = u
    BY <1>1, <1>8 DEF Listed
  <2>2. i - 1 \in 1..n - 1 /\ i - 1 + 1 = i
    BY <1>3, <1>5, <1>8, <2>1
  <2> QED
    BY <1>1, <1>2, <2>1, <2>2 DEF Listed
<1> QED
  BY <1>6, <1>7, <1>8 DEF r

\* Every step keeps the list exact.
LEMMA ListStep ==
    ASSUME QueueInv, [Next]_vars, TypeOK'
    PROVE  ListInv'
<1>1. TypeOK /\ queue \in Seq(Jobs) /\ Distinct(queue)
      /\ \A j \in Jobs : state[j] = Queued <=> Listed(queue, j)
  BY DEF QueueInv, TypeOK, ListInv, Distinct, Listed
<1>2. ASSUME UNCHANGED queue, \A j \in Jobs : state'[j] = Queued <=> state[j] = Queued
      PROVE  ListInv'
  BY <1>1, <1>2 DEF ListInv, Distinct, Listed
<1>3. ASSUME NEW j \in Jobs, state[j] # Queued, queue' = Append(queue, j),
             state' = [state EXCEPT ![j] = Queued]
      PROVE  ListInv'
  <2>1. Distinct(queue') /\ \A u : Listed(queue', u) <=> Listed(queue, u) \/ u = j
    BY <1>1, <1>3, AppendListed
  <2>2. \A i \in Jobs : state'[i] = IF i = j THEN Queued ELSE state[i]
    BY <1>1, <1>3 DEF TypeOK
  <2> QED
    BY <1>1, <2>1, <2>2 DEF ListInv, Distinct, Listed
<1>4. CASE \E j \in Jobs : Submit(j)
  BY <1>2, <1>3, <1>4, SubmitFacts, NewStates
<1>5. CASE \E j \in Jobs : Reclaim(j)
  <2>1. PICK j \in Jobs : Reclaim(j)
    BY <1>5
  <2>2. state[j] # Queued
    BY <2>1 DEF Reclaim, Queued
  <2> QED
    BY <1>3, <2>1, <2>2 DEF Reclaim
<1>6. CASE \E w \in Workers : Claim(w)
  <2>1. PICK w \in Workers : Claim(w)
    BY <1>6
  <2>2. PICK j \in Jobs :
             /\ queue # << >> /\ j = Head(queue) /\ queue' = Tail(queue)
             /\ state' = [state EXCEPT ![j] = Claimed(w, attempt[j] + 1, LeaseTime)]
    BY <2>1, ClaimFacts
  <2>3. /\ \A i \in Jobs : i # j => state'[i] = state[i]
        /\ state'[j] # Queued
    BY <1>1, <2>2 DEF TypeOK, Claimed, Queued
  <2>4. Distinct(queue') /\ \A u : Listed(queue', u) <=> Listed(queue, u) /\ u # j
    BY <1>1, <2>2, TailListed
  <2> QED
    BY <1>1, <2>3, <2>4 DEF ListInv, Distinct, Listed
<1>7. CASE \E t \in tasks : Heartbeat(t)
  <2>1. PICK t \in tasks : Heartbeat(t)
    BY <1>7
  <2>2. /\ state' = [state EXCEPT ![t.job] = Claimed(t.worker, t.lease, LeaseTime)]
        /\ UNCHANGED queue /\ state[t.job].status = "Claimed"
    BY <2>1, HeartbeatFacts DEF LiveFence
  <2> QED
    BY <1>1, <1>2, <2>2 DEF TypeOK, Claimed, Queued
<1>8. CASE \E t \in tasks : Complete(t) \/ Fail(t)
  <2>1. PICK t \in tasks : Complete(t) \/ Fail(t)
    BY <1>8
  <2>2. PICK st \in {"valid", "failed"} :
          state' = [state EXCEPT ![t.job] =
               [status |-> IF st = "valid" THEN "Completed" ELSE "Failed"]]
    BY <2>1, FinishFacts
  <2>3. UNCHANGED queue /\ state[t.job].status = "Claimed"
    BY <2>1, FinishFacts DEF LiveFence
  <2> QED
    BY <1>1, <1>2, <2>2, <2>3 DEF TypeOK, Queued
<1>9. CASE \E t \in tasks : Abandon(t) \/ WorkerStops(t)
  BY <1>2, <1>9 DEF Abandon, WorkerStops, redis
<1>10. CASE Tick
  <2>1. ASSUME NEW j \in Jobs PROVE state'[j] = Queued <=> state[j] = Queued
    BY <1>10, TickFacts DEF Leased, Claimed, Queued
  <2>2. UNCHANGED queue
    BY <1>10, TickFacts
  <2> QED
    BY <1>2, <2>1, <2>2
<1>11. CASE Reads \/ UNCHANGED vars
  BY <1>2, <1>11, ReadsFrame
<1> QED
  BY <1>4, <1>5, <1>6, <1>7, <1>8, <1>9, <1>10, <1>11, NextCases

\* A state key, once there, stays; so a job that is waited for keeps its own.
LEMMA WaitStep ==
    ASSUME QueueInv, [Next]_vars
    PROVE  WaitInv'
<1>1. TypeOK /\ WaitInv
  BY DEF QueueInv
<1>2. ASSUME NEW j \in Jobs, state[j] # None PROVE state'[j] # None
  <2>1. CASE \E i \in Jobs : Submit(i)
    <3>1. PICK i \in Jobs : Submit(i)
      BY <2>1
    <3>2. UNCHANGED state \/ state' = [state EXCEPT ![i] = Queued]
      BY <3>1, SubmitFacts
    <3> QED
      BY <1>1, <1>2, <3>2, NewStates DEF TypeOK
  <2>2. CASE \E i \in Jobs : Reclaim(i)
    BY <1>1, <1>2, <2>2, NewStates DEF TypeOK, Reclaim
  <2>3. CASE \E w \in Workers : Claim(w)
    <3>1. PICK w \in Workers : Claim(w)
      BY <2>3
    <3>2. PICK i \in Jobs :
             /\ attempt[i] + 1 \in 1..MaxFaults + 1
             /\ state' = [state EXCEPT ![i] = Claimed(w, attempt[i] + 1, LeaseTime)]
      BY <3>1, ClaimFacts
    <3>3. Claimed(w, attempt[i] + 1, LeaseTime) # None
      BY <3>2, NewStates, QueueAssumption
    <3> QED
      BY <1>1, <1>2, <3>2, <3>3 DEF TypeOK
  <2>4. CASE \E t \in tasks : Heartbeat(t)
    <3>1. PICK t \in tasks : Heartbeat(t)
      BY <2>4
    <3>2. Claimed(t.worker, t.lease, LeaseTime) # None
      BY TaskFacts, NewStates, QueueAssumption
    <3> QED
      BY <1>1, <1>2, <3>1, <3>2, HeartbeatFacts DEF TypeOK
  <2>5. CASE \E t \in tasks : Complete(t) \/ Fail(t)
    <3>1. PICK t \in tasks : Complete(t) \/ Fail(t)
      BY <2>5
    <3>2. \E s \in {[status |-> "Completed"], [status |-> "Failed"]} :
            state' = [state EXCEPT ![t.job] = s]
      BY <3>1, FinishFacts
    <3> QED
      BY <1>1, <1>2, <3>2, NewStates DEF TypeOK
  <2>6. CASE \E t \in tasks : Abandon(t) \/ WorkerStops(t)
    BY <1>2, <2>6 DEF Abandon, WorkerStops, redis
  <2>7. CASE Tick
    <3>1. CASE state'[j] = state[j]
      BY <1>2, <3>1
    <3>2. CASE /\ Leased(j) /\ state[j].left \in 1..LeaseTime
               /\ state'[j] = Claimed(state[j].worker, state[j].lease, state[j].left - 1)
      <4>1. /\ state[j].worker \in Workers /\ state[j].lease \in 1..MaxFaults + 1
            /\ state[j].left - 1 \in 0..LeaseTime
        BY <1>1, <3>2, KeyTypes, StateFacts, QueueAssumption DEF Leased
      <4> QED
        BY <3>2, <4>1, NewStates
    <3> QED
      BY <2>7, <3>1, <3>2, TickFacts
  <2>8. CASE Reads \/ UNCHANGED vars
    BY <1>2, <2>8, ReadsFrame
  <2> QED
    BY <2>1, <2>2, <2>3, <2>4, <2>5, <2>6, <2>7, <2>8, NextCases
<1>3. tickets \subseteq Jobs
  BY <1>1 DEF TypeOK
<1>4. ASSUME UNCHANGED <<tickets, wpc, wjob>> PROVE WaitInv'
  BY <1>1, <1>2, <1>3, <1>4 DEF WaitInv
<1>5. CASE \E j \in Jobs : Submit(j)
  <2>1. PICK j \in Jobs : Submit(j)
    BY <1>5
  <2>2. tickets' = tickets \cup {j} /\ wpc' = "idle"
    BY <2>1 DEF Submit
  <2>3. state'[j] # None
    BY <1>1, <1>2, <2>1, SubmitFacts, NewStates DEF TypeOK
  <2> QED
    BY <1>1, <1>2, <1>3, <2>2, <2>3 DEF WaitInv
<1>6. CASE Reads
  BY <1>1, <1>2, <1>3, <1>6
  DEF Reads, Wait, ReadResult, ReadState, Wake, Commit, Restart, CoordinatorStops, WaitInv
<1>7. CASE Tick \/ \E t \in tasks : Complete(t) \/ Fail(t)
  BY <1>4, <1>7, TickFacts, FinishFacts DEF coordinator
<1>8. CASE \/ \E j \in Jobs : Reclaim(j)
           \/ \E w \in Workers : Claim(w)
           \/ \E t \in tasks : Heartbeat(t) \/ Abandon(t) \/ WorkerStops(t)
           \/ UNCHANGED vars
  BY <1>4, <1>8 DEF Reclaim, Claim, Heartbeat, Abandon, WorkerStops, vars, coordinator
<1> QED
  BY <1>5, <1>6, <1>7, <1>8, NextCases

\* The inductive invariant of the queue, for any number of jobs, workers, ticks
\* and faults: leases are named by the attempt key, a job is claimed once more
\* than it lost a claim to a fault, and the list holds the queued jobs once each.
THEOREM QueueInvariant == Spec => []QueueInv
<1>1. Init => QueueInv
  <2> SUFFICES ASSUME Init PROVE QueueInv
    OBVIOUS
  <2>1. TypeOK
    BY QueueAssumption DEF Init, TypeOK
  <2>2. LeaseInv /\ FaultInv /\ WaitInv
    BY NewStates DEF Init, LeaseInv, FaultInv, WaitInv, Leased, Lost
  <2>3. ListInv
    BY NewStates DEF Init, ListInv
  <2> QED
    BY <2>1, <2>2, <2>3 DEF QueueInv
<1>2. QueueInv /\ [Next]_vars => QueueInv'
  BY TypeStep, LeaseStep, FaultStep, ListStep, WaitStep DEF QueueInv
<1> QED
  BY <1>1, <1>2, PTL DEF Spec

\* Keys, list, workers and coordinator hold values of their kinds. In
\* particular a job is claimed at most once more than there are faults: no job
\* is handed out again and again while a live lease is respected.
THEOREM TypeCorrect == Spec => []TypeOK
<1>1. QueueInv => TypeOK
  BY DEF QueueInv
<1> QED
  BY <1>1, QueueInvariant, PTL

\* A job is in the queue list once while it is queued, and not at all
\* otherwise, however many coordinators submit it and workers lose it.
THEOREM QueueIsExact == Spec => []QueueExact
<1>1. ASSUME QueueInv PROVE QueueExact
  <2> SUFFICES ASSUME NEW j \in Jobs
               PROVE  Occurrences(j) = IF state[j] = Queued THEN 1 ELSE 0
    BY DEF QueueExact
  <2> DEFINE at == {i \in DOMAIN queue : queue[i] = j}
  <2>1. CASE state[j] = Queued
    <3>1. PICK i \in DOMAIN queue : queue[i] = j
      BY <1>1, <2>1 DEF QueueInv, ListInv
    <3>2. at = {i}
      BY <1>1, <3>1 DEF QueueInv, ListInv
    <3> QED
      BY <2>1, <3>2, FS_Singleton DEF Occurrences
  <2>2. CASE state[j] # Queued
    <3>1. at = {}
      BY <1>1, <2>2 DEF QueueInv, ListInv
    <3> QED
      BY <2>2, <3>1, FS_EmptySet DEF Occurrences
  <2> QED
    BY <2>1, <2>2
<1> QED
  BY <1>1, QueueInvariant, PTL

\* A stored result was written under the newest lease of its job, so a worker
\* that lost its lease never answers, even when the same worker claims again.
THEOREM ResultsAreFenced == Spec => []ResultFenced
<1>1. QueueInv => ResultFenced
  BY DEF QueueInv, LeaseInv, ResultFenced
<1> QED
  BY <1>1, QueueInvariant, PTL

---------------------------------------------------------------------------
(* Refinement of ProofService *)

\* What the pipeline sees of a state key.
StatusOf(s) == IF s = None THEN None
               ELSE IF s.status = "Completed" THEN "valid"
               ELSE IF s.status = "Failed" THEN "failed"
               ELSE "queued"

\* Status changes only where the state key does.
LEMMA StatusUpdate ==
    ASSUME TypeOK, NEW j \in Jobs, NEW s, state' = [state EXCEPT ![j] = s]
    PROVE  Status' = [Status EXCEPT ![j] = StatusOf(s)]
BY DEF TypeOK, Status, StatusOf

\* Every step is a step of the service or leaves it alone.
LEMMA ServiceStep ==
    ASSUME QueueInv, [Next]_vars
    PROVE  [Service!Next]_Status
<1>1. TypeOK /\ \A j \in Jobs : Status[j] = StatusOf(state[j])
  BY DEF QueueInv, Status, StatusOf
<1>2. ASSUME NEW j \in Jobs, NEW s, state' = [state EXCEPT ![j] = s],
             StatusOf(s) = StatusOf(state[j])
      PROVE  UNCHANGED Status
  <2>1. Status' = [Status EXCEPT ![j] = Status[j]]
    BY <1>1, <1>2, StatusUpdate
  <2> QED
    BY <2>1 DEF Status
<1>3. ASSUME UNCHANGED state PROVE UNCHANGED Status
  BY <1>3 DEF Status
<1>4. CASE \E j \in Jobs : Submit(j)
  <2>1. PICK j \in Jobs : Submit(j)
    BY <1>4
  <2>2. CASE state[j] = None /\ state' = [state EXCEPT ![j] = Queued]
    <3>1. Status' = [Status EXCEPT ![j] = "queued"]
      BY <1>1, <2>2, StatusUpdate, NewStates DEF StatusOf
    <3>2. Status[j] = None
      BY <1>1, <2>2 DEF StatusOf
    <3> QED
      BY <3>1, <3>2 DEF Service!Next, Service!Submit
  <2> QED
    BY <1>3, <2>1, <2>2, SubmitFacts
<1>5. CASE \E j \in Jobs : Reclaim(j)
  <2>1. PICK j \in Jobs : Reclaim(j)
    BY <1>5
  <2>2. StatusOf(Queued) = StatusOf(state[j]) /\ state' = [state EXCEPT ![j] = Queued]
    BY <2>1, NewStates DEF Reclaim, StatusOf
  <2> QED
    BY <1>2, <2>2
<1>6. CASE \E w \in Workers : Claim(w)
  <2>1. PICK w \in Workers : Claim(w)
    BY <1>6
  <2>2. PICK j \in Jobs :
             /\ state[j] = Queued
             /\ attempt[j] + 1 \in 1..MaxFaults + 1
             /\ state' = [state EXCEPT ![j] = Claimed(w, attempt[j] + 1, LeaseTime)]
    BY <2>1, ClaimFacts
  <2>3. StatusOf(Claimed(w, attempt[j] + 1, LeaseTime)) = StatusOf(state[j])
    BY <2>2, NewStates, QueueAssumption DEF StatusOf
  <2> QED
    BY <1>2, <2>2, <2>3
<1>7. CASE \E t \in tasks : Heartbeat(t)
  <2>1. PICK t \in tasks : Heartbeat(t)
    BY <1>7
  <2>2. /\ state' = [state EXCEPT ![t.job] = Claimed(t.worker, t.lease, LeaseTime)]
        /\ Leased(t.job) /\ t.job \in Jobs
    BY <2>1, HeartbeatFacts, FenceFacts, TaskFacts
  <2>3. StatusOf(Claimed(t.worker, t.lease, LeaseTime)) = "queued"
    BY TaskFacts, NewStates, QueueAssumption DEF StatusOf
  <2>4. StatusOf(state[t.job]) = "queued"
    BY <2>2 DEF StatusOf, Leased
  <2> QED
    BY <1>2, <2>2, <2>3, <2>4
<1>8. CASE \E t \in tasks : Complete(t) \/ Fail(t)
  <2>1. PICK t \in tasks : Complete(t) \/ Fail(t)
    BY <1>8
  <2>2. PICK st \in {"valid", "failed"} :
          state' = [state EXCEPT ![t.job] =
               [status |-> IF st = "valid" THEN "Completed" ELSE "Failed"]]
    BY <2>1, FinishFacts
  <2>3. Leased(t.job) /\ t.job \in Jobs
    BY <2>1, FinishFacts, FenceFacts, TaskFacts
  <2>4. StatusOf([status |-> IF st = "valid" THEN "Completed" ELSE "Failed"]) = st
    BY NewStates DEF StatusOf
  <2>5. Status[t.job] = "queued"
    BY <1>1, <2>3 DEF StatusOf, Leased
  <2>6. Status' = [Status EXCEPT ![t.job] = st]
    BY <1>1, <2>2, <2>3, <2>4, StatusUpdate
  <2> QED
    BY <2>3, <2>5, <2>6 DEF Service!Next, Service!Answer
<1>9. CASE \E t \in tasks : Abandon(t) \/ WorkerStops(t)
  BY <1>3, <1>9 DEF Abandon, WorkerStops, redis
<1>10. CASE Tick
  <2>1. ASSUME NEW j \in Jobs PROVE StatusOf(state'[j]) = StatusOf(state[j])
    <3>1. CASE state'[j] = state[j]
      BY <3>1
    <3>2. CASE /\ Leased(j) /\ state[j].left \in 1..LeaseTime
               /\ state'[j] = Claimed(state[j].worker, state[j].lease, state[j].left - 1)
      <4>1. /\ state[j].worker \in Workers /\ state[j].lease \in 1..MaxFaults + 1
            /\ state[j].left - 1 \in 0..LeaseTime
        BY <1>1, <3>2, KeyTypes, StateFacts, QueueAssumption DEF Leased
      <4> QED
        BY <3>2, <4>1, NewStates DEF StatusOf, Leased
    <3> QED
      BY <1>10, <3>1, <3>2, TickFacts
  <2>2. Status' = [j \in Jobs |-> StatusOf(state'[j])]
        /\ Status = [j \in Jobs |-> StatusOf(state[j])]
    BY DEF Status, StatusOf
  <2> QED
    BY <2>1, <2>2
<1>11. CASE Reads \/ UNCHANGED vars
  BY <1>3, <1>11, ReadsFrame
<1> QED
  BY <1>4, <1>5, <1>6, <1>7, <1>8, <1>9, <1>10, <1>11, NextCases

\* The durable queue is the prover the block pipeline is modelled with: however
\* many workers claim, lose and redo a job, it is accepted once and answered at
\* most once, and the answer is never changed or withdrawn.
THEOREM QueueRefinesService == Spec => ServiceRefined
<1>1. Init => Service!Init
  BY DEF Init, Service!Init, Status
<1>2. QueueInv /\ [Next]_vars => [Service!Next]_Status
  BY ServiceStep
<1> QED
  BY <1>1, <1>2, QueueInvariant, PTL DEF Spec, ServiceRefined, Service!Spec
=============================================================================
