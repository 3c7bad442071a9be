------------------------ MODULE ProofIdentityProofs ------------------------
(***************************************************************************)
(* Proofs about ProofIdentity, for any configurations, builds, keys and     *)
(* blocks: job ids never collide, and an accepted proof was made by the     *)
(* program its job names, of the very transition that was prepared.         *)
(***************************************************************************)
EXTENDS ProofIdentity, TLAPS

-----------------------------------------------------------------------------
(* Jobs *)

\* The job prepare_height builds: its id is the digest of its other fields.
LEMMA JobIsWellFormed ==
    ASSUME NEW c, NEW file, NEW parent, NEW request,
           IsRequest(request), request.request_id \in Nat \ {0}
    PROVE  /\ WellFormed(ProofJob(c, file, parent, request))
           /\ ProofJob(c, file, parent, request).network = c.network
           /\ ProofJob(c, file, parent, request).vkey_hash.hash = c.expected_vk_hash
           /\ ProofJob(c, file, parent, request).request = request
<1> DEFINE u == Unsigned(c, file, parent, request)
           j == WithId(u)
           id == compute_job_id(u)
<1>1. /\ DOMAIN u \cup {"job_id"} = IdentityFields \cup {"request"}
      /\ u.request = request /\ u.height = request.request_id
      /\ u.network = c.network /\ u.vkey_hash.hash = c.expected_vk_hash
  BY DEF Unsigned, IdentityFields
<1> HIDE DEF u, id
<1>2. j = [f \in IdentityFields \cup {"request"} |-> IF f = "job_id" THEN id ELSE u[f]]
  BY <1>1 DEF WithId, id
<1> HIDE DEF j
<1>3. /\ j = [f \in IdentityFields \cup {"request"} |-> j[f]]
      /\ j.job_id = id
      /\ \A f \in (IdentityFields \cup {"request"}) \ {"job_id"} : j[f] = u[f]
  BY <1>2 DEF IdentityFields
<1>4. /\ j.schema_version = u.schema_version /\ j.network = u.network
      /\ j.height = u.height /\ j.parent_checkpoint = u.parent_checkpoint
      /\ j.input_fingerprint = u.input_fingerprint /\ j.guest_id = u.guest_id
      /\ j.block_elf = u.block_elf /\ j.vkey_hash = u.vkey_hash /\ j.request = u.request
  BY <1>3 DEF IdentityFields
<1>5. compute_job_id(j) = id
  BY <1>4 DEF id, compute_job_id
<1>6. WellFormed(j)
  BY <1>1, <1>3, <1>4, <1>5 DEF WellFormed
<1> QED
  BY <1>1, <1>4, <1>6 DEF ProofJob, j, u

\* compute_job_id takes every field of the job in: two jobs with one id are one.
LEMMA IdIsTheJob ==
    ASSUME NEW a, NEW b, WellFormed(a), WellFormed(b), a.job_id = b.job_id
    PROVE  a = b
<1>1. compute_job_id(a) = compute_job_id(b)
  BY DEF WellFormed
<1>2. /\ a.schema_version = b.schema_version /\ a.network = b.network
      /\ a.height = b.height /\ a.parent_checkpoint = b.parent_checkpoint
      /\ a.input_fingerprint = b.input_fingerprint /\ a.guest_id = b.guest_id
      /\ a.block_elf = b.block_elf /\ a.vkey_hash = b.vkey_hash /\ a.request = b.request
  BY <1>1 DEF compute_job_id
<1>3. \A f \in IdentityFields \cup {"request"} : a[f] = b[f]
  BY <1>2 DEF IdentityFields
<1> QED
  BY <1>3 DEF WellFormed

\* The next job of a running coordinator.
LEMMA NextJobFacts ==
    ASSUME checkpoint.height \in Nat, NEW to
    PROVE  /\ WellFormed(NextJob(to))
           /\ NextJob(to).network = config.network
           /\ NextJob(to).vkey_hash.hash = config.expected_vk_hash
           /\ NextJob(to).request.custody = config.custody
           /\ NextJob(to).request.config_params = config.params
<1> DEFINE h == checkpoint.height + 1
           request == ProofRequest(config, h, checkpoint.header, <<h, to>>)
<1>1. /\ IsRequest(request) /\ request.request_id \in Nat \ {0}
      /\ request.custody = config.custody /\ request.config_params = config.params
  BY DEF ProofRequest, IsRequest
<1>2. NextJob(to) = ProofJob(config, elf, checkpoint, request)
  BY DEF NextJob
<1> HIDE DEF request
<1> QED
  BY <1>1, <1>2, JobIsWellFormed

-----------------------------------------------------------------------------
(* Answers *)

\* A build that answers says what it is and what it has proved, also when the
\* answer is broken or belongs to another request of the same id.
LEMMA RepliesAreHonest ==
    ASSUME RedisInv, NEW b, NEW j, WellFormed(j), NEW r \in Replies(b, j)
    PROVE  Honest(r[1])
<1>1. ASSUME NEW p, IsRequest(p), p.request_id = j.height
      PROVE  Honest(Response(b, j, p))
  <2>1. j.request.request_id = j.height
    BY DEF WellFormed
  <2> QED
    BY <1>1, <2>1 DEF Honest, Response
<1> DEFINE fine == Response(b, j, j.request)
<1>2. Honest(fine)
  BY <1>1 DEF WellFormed
<1>3. \A x \in Broken(fine) : Honest(x)
  <2>1. /\ fine = [kind |-> fine.kind, request_id |-> fine.request_id, ok |-> fine.ok,
                   timed_out |-> fine.timed_out, network |-> fine.network,
                   guest_id |-> fine.guest_id, elf |-> fine.elf,
                   vkey_hash |-> fine.vkey_hash, bytes |-> fine.bytes,
                   public_values |-> fine.public_values, by |-> fine.by,
                   proved |-> fine.proved]
    BY DEF Response
  <2> HIDE DEF fine
  <2> SUFFICES ASSUME NEW x \in Broken(fine)
               PROVE  Honest(x)
    OBVIOUS
  <2>2. /\ x.network = fine.network /\ x.elf = fine.elf /\ x.vkey_hash = fine.vkey_hash
        /\ x.public_values = fine.public_values /\ x.by = fine.by
        /\ x.proved = fine.proved /\ x.request_id \in {0, fine.request_id}
    BY <2>1 DEF Broken
  <2> QED
    BY <1>2, <2>2 DEF Honest
<1>4. \A p \in SameId(j) : Honest(Response(b, j, p))
  <2> SUFFICES ASSUME NEW p \in SameId(j)
               PROVE  IsRequest(p) /\ p.request_id = j.height
    BY <1>1
  <2>1. CASE \E k \in DOMAIN jobs : jobs[k].height = j.height /\ p = jobs[k].request
    BY <2>1 DEF RedisInv, WellFormed
  <2>2. CASE \E to \in Tips :
               p = ProofRequest(config, j.height, checkpoint.header, <<j.height, to>>)
    BY <2>2 DEF ProofRequest, IsRequest
  <2> QED
    BY <2>1, <2>2 DEF SameId
<1>5. \/ r = <<fine, FALSE>>
      \/ r \in Broken(fine) \X {TRUE}
      \/ r \in {Response(b, j, p) : p \in SameId(j) \ {j.request}} \X {TRUE}
  BY DEF Replies
<1> HIDE DEF fine
<1>6. CASE r = <<fine, FALSE>>
  BY <1>2, <1>6
<1>7. CASE r \in Broken(fine) \X {TRUE}
  BY <1>3, <1>7
<1>8. CASE r \in {Response(b, j, p) : p \in SameId(j) \ {j.request}} \X {TRUE}
  <2>1. r[1] \in {Response(b, j, p) : p \in SameId(j) \ {j.request}}
    BY <1>8
  <2> QED
    BY <1>4, <2>1
<1> QED
  BY <1>5, <1>6, <1>7, <1>8

\* An answer that passes every check between the queue and the first write of
\* commit_prepared: its prover is the job's program, under the pinned key, and
\* what it proves is the job's request, under the bridge's custodian.
LEMMA AcceptedIsRight ==
    ASSUME PreparedInv, prepared # None, NEW r, Honest(r),
           validate_daemon_response(prepared, r), BindsTransition(config, prepared, r)
    PROVE  /\ r.by.elf = prepared.block_elf /\ r.by.network = prepared.network
           /\ VkOf[r.by.elf] = Pinned[prepared.network]
           /\ r.proved = prepared.request
           /\ custodian_hash(prepared.network, r.proved.custody) = Chain.custodian
<1>1. /\ config # None /\ validate_config(config) /\ MatchesBridge(config)
      /\ WellFormed(prepared) /\ prepared.network = config.network
      /\ prepared.vkey_hash.hash = config.expected_vk_hash
      /\ prepared.request.custody = config.custody
      /\ prepared.request.config_params = config.params
  BY DEF PreparedInv
<1>2. /\ r.request_id = prepared.request.request_id /\ r.network = prepared.network
      /\ r.elf = prepared.block_elf /\ r.vkey_hash = prepared.vkey_hash
  BY DEF validate_daemon_response
<1>3. r.by.elf = prepared.block_elf /\ r.by.network = prepared.network
  BY <1>2 DEF Honest
<1>4. VkOf[r.by.elf] = prepared.vkey_hash.hash
  BY <1>2 DEF Honest, VkText
<1>5. VkOf[r.by.elf] = Pinned[prepared.network]
  BY <1>1, <1>4 DEF validate_config
<1>6. /\ r.proved.old_header = prepared.request.old_header
      /\ r.proved.new_header = prepared.request.new_header
      /\ r.proved.config_params = config.params
      /\ custodian_hash(r.by.network, r.proved.custody)
           = custodian_hash(config.network, config.custody)
  BY DEF Honest, PublicValues, BindsTransition
<1>7. r.proved.custody = config.custody
  BY <1>6 DEF custodian_hash
<1>8. r.proved.request_id = prepared.request.request_id
  BY <1>1, <1>2 DEF Honest, WellFormed
<1>9. r.proved = prepared.request
  BY <1>1, <1>6, <1>7, <1>8 DEF Honest, WellFormed, IsRequest
<1> QED
  BY <1>1, <1>3, <1>5, <1>7, <1>9 DEF MatchesBridge

\* wait and commit_prepared: the answer is accepted rightly, or the coordinator
\* stops.
LEMMA DeliverKeeps ==
    ASSUME PreparedInv, RightProgram, RightTransition, prepared # None, NEW result,
           result.outcome.status = "Success" => Honest(result.outcome.response),
           Deliver(result)
    PROVE  PreparedInv' /\ RightProgram' /\ RightTransition'
<1>1. CASE into_prover_output(result, prepared)
           /\ BindsTransition(config, prepared, result.outcome.response)
  <2> DEFINE r == result.outcome.response
  <2>1. /\ accepted' = [job |-> prepared, output |-> r]
        /\ checkpoint' = [height |-> prepared.height, header |-> prepared.request.new_header]
        /\ prepared' = None /\ UNCHANGED config
    BY <1>1 DEF Deliver
  <2>2. Honest(r) /\ validate_daemon_response(prepared, r)
    BY <1>1 DEF into_prover_output
  <2> HIDE DEF r
  <2>3. BindsTransition(config, prepared, r)
    BY <1>1 DEF r
  <2>4. RightProgram' /\ RightTransition'
    BY <2>1, <2>2, <2>3, AcceptedIsRight DEF RightProgram, RightTransition
  <2>5. checkpoint'.height \in Nat
    BY <2>1 DEF PreparedInv, WellFormed
  <2>6. PreparedInv'
    BY <2>1, <2>5
    DEF PreparedInv, validate_config, validate_gen_proof_path, MatchesBridge
  <2> QED
    BY <2>4, <2>6
<1>2. CASE ~(into_prover_output(result, prepared)
             /\ BindsTransition(config, prepared, result.outcome.response))
  <2>1. config' = None /\ prepared' = None /\ UNCHANGED <<accepted, checkpoint>>
    BY <1>2 DEF Deliver
  <2> QED
    BY <2>1 DEF PreparedInv, RightProgram, RightTransition
<1> QED
  BY <1>1, <1>2

-----------------------------------------------------------------------------
(* Steps *)

\* Nothing the invariant speaks of is changed, except that the coordinator may
\* stop or the checkpoint start over.
LEMMA QuietStep ==
    ASSUME IdentityInv, UNCHANGED <<redis, accepted, collided>>,
           checkpoint' \in {checkpoint, Genesis},
           \/ config' = None /\ prepared' = None
           \/ UNCHANGED <<config, prepared>>
    PROVE  IdentityInv'
<1>1. RedisInv' /\ RightProgram' /\ RightTransition' /\ NoCollision'
  BY DEF IdentityInv, RedisInv, RightProgram, RightTransition, NoCollision, redis
<1>2. checkpoint'.height \in Nat
  BY DEF IdentityInv, PreparedInv, Genesis
<1>3. PreparedInv'
  BY <1>2
  DEF IdentityInv, PreparedInv, validate_config, validate_gen_proof_path, MatchesBridge
<1> QED
  BY <1>1, <1>3 DEF IdentityInv

\* start-up lets a configuration in that passed its checks.
LEMMA InitializeStep ==
    ASSUME IdentityInv, NEW c \in Configs, Initialize(c)
    PROVE  IdentityInv'
<1>1. /\ config = None /\ config' = c /\ validate_config(c) /\ MatchesBridge(c)
      /\ UNCHANGED <<redis, accepted, collided, checkpoint, prepared>>
  BY DEF Initialize
<1>2. RedisInv' /\ RightProgram' /\ RightTransition' /\ NoCollision'
  BY <1>1 DEF IdentityInv, RedisInv, RightProgram, RightTransition, NoCollision, redis
<1>3. PreparedInv'
  BY <1>1
  DEF IdentityInv, PreparedInv, validate_config, validate_gen_proof_path, MatchesBridge
<1> QED
  BY <1>2, <1>3 DEF IdentityInv

\* The job is prepared under the running configuration.
LEMMA PrepareKeeps ==
    ASSUME IdentityInv, NEW to, config # None, prepared' = NextJob(to),
           UNCHANGED <<config, checkpoint>>
    PROVE  PreparedInv'
<1>1. checkpoint.height \in Nat
  BY DEF IdentityInv, PreparedInv
<1> DEFINE j == NextJob(to)
<1>2. /\ WellFormed(j) /\ j.network = config.network
      /\ j.vkey_hash.hash = config.expected_vk_hash
      /\ j.request.custody = config.custody /\ j.request.config_params = config.params
  BY <1>1, NextJobFacts
<1> HIDE DEF j
<1>3. prepared' = j
  BY DEF j
<1> QED
  BY <1>1, <1>2, <1>3
  DEF IdentityInv, PreparedInv, validate_config, validate_gen_proof_path, MatchesBridge

\* prepare_height with the local prover.
LEMMA PrepareLocalStep ==
    ASSUME IdentityInv, NEW to \in Tips, PrepareLocal(to)
    PROVE  IdentityInv'
<1>1. PreparedInv'
  BY PrepareKeeps DEF PrepareLocal
<1>2. RedisInv' /\ RightProgram' /\ RightTransition' /\ NoCollision'
  BY DEF PrepareLocal, IdentityInv, RedisInv, RightProgram, RightTransition, NoCollision,
         redis
<1> QED
  BY <1>1, <1>2 DEF IdentityInv

\* prepare_height with the queue: a job stored under this id is this job.
LEMMA PrepareRedisStep ==
    ASSUME IdentityInv, NEW to \in Tips, PrepareRedis(to)
    PROVE  IdentityInv'
<1> DEFINE j == NextJob(to)
<1>1. WellFormed(j)
  BY NextJobFacts DEF IdentityInv, PreparedInv
<1>2. j.job_id \in DOMAIN jobs => jobs[j.job_id] = j
  BY <1>1, IdIsTheJob DEF IdentityInv, RedisInv
<1>3. /\ jobs' = Stored(jobs, j.job_id, j) /\ prepared' = j
      /\ UNCHANGED <<collided, config, checkpoint, results, accepted>> /\ config # None
  BY <1>2 DEF PrepareRedis
<1>4. PreparedInv'
  BY <1>3, PrepareKeeps
<1> HIDE DEF j
<1>5. RedisInv'
  BY <1>1, <1>3 DEF IdentityInv, RedisInv, Stored
<1>6. RightProgram' /\ RightTransition' /\ NoCollision'
  BY <1>3 DEF IdentityInv, RightProgram, RightTransition, NoCollision
<1> QED
  BY <1>4, <1>5, <1>6 DEF IdentityInv

\* A worker files an honest answer, of some build to some job, under the id of
\* the job waited for.
LEMMA WorkerStep ==
    ASSUME IdentityInv, NEW b \in Builds, NEW source \in DOMAIN jobs,
           WorkerAnswers(b, source)
    PROVE  IdentityInv'
<1>1. UNCHANGED <<config, checkpoint, prepared, jobs, accepted, collided>>
  BY DEF WorkerAnswers
<1>2. PICK r \in Replies(b, jobs[source]) :
        results' = Stored(results, prepared.job_id, from_job(jobs[source],
                      IF r[1].ok THEN [status |-> "Success", response |-> r[1]]
                      ELSE [status |-> "Error"]))
  BY DEF WorkerAnswers
<1>3. Honest(r[1])
  BY RepliesAreHonest DEF IdentityInv, RedisInv
<1> DEFINE x == r[1]
           outcome == IF x.ok THEN [status |-> "Success", response |-> x]
                      ELSE [status |-> "Error"]
           result == from_job(jobs[source], outcome)
<1>4. outcome.status = "Success" => outcome.response = x
  OBVIOUS
<1>5. result.outcome = outcome
  BY DEF from_job
<1>6. results' = Stored(results, prepared.job_id, result) /\ Honest(x)
  BY <1>2, <1>3
<1> HIDE DEF result, outcome, x
<1>7. RedisInv'
  BY <1>1, <1>4, <1>5, <1>6 DEF IdentityInv, RedisInv, Stored
<1>8. PreparedInv'
  BY <1>1
  DEF IdentityInv, PreparedInv, validate_config, validate_gen_proof_path, MatchesBridge
<1>9. RightProgram' /\ RightTransition' /\ NoCollision'
  BY <1>1 DEF IdentityInv, RightProgram, RightTransition, NoCollision
<1> QED
  BY <1>7, <1>8, <1>9 DEF IdentityInv

\* The coordinator takes what is filed under the id it waits for.
LEMMA WaitStep ==
    ASSUME IdentityInv, WaitResult
    PROVE  IdentityInv'
<1> DEFINE result == results[prepared.job_id]
<1>1. /\ prepared # None /\ Deliver(result) /\ UNCHANGED <<jobs, results, collided>>
      /\ result.outcome.status = "Success" => Honest(result.outcome.response)
  BY DEF WaitResult, IdentityInv, RedisInv, redis
<1> HIDE DEF result
<1>2. PreparedInv' /\ RightProgram' /\ RightTransition'
  BY <1>1, DeliverKeeps DEF IdentityInv
<1>3. RedisInv' /\ NoCollision'
  BY <1>1 DEF IdentityInv, RedisInv, NoCollision
<1> QED
  BY <1>2, <1>3 DEF IdentityInv

\* run_local_job: an answer, a reported failure, or a restarted daemon.
LEMMA LocalStep ==
    ASSUME IdentityInv, LocalProve
    PROVE  IdentityInv'
<1>1. prepared # None /\ WellFormed(prepared)
  BY DEF LocalProve, IdentityInv, PreparedInv
<1>2. PICK r \in Replies(daemon.build, prepared) : LocalAnswers(r)
  BY DEF LocalProve
<1>3. Honest(r[1])
  BY <1>1, RepliesAreHonest DEF IdentityInv
<1>4. UNCHANGED <<jobs, results, collided>>
  BY <1>2 DEF LocalAnswers, redis
<1>5. RedisInv' /\ NoCollision'
  BY <1>4 DEF IdentityInv, RedisInv, NoCollision
<1>6. ASSUME NEW outcome, Deliver(from_job(prepared, outcome)),
             outcome.status = "Success" => Honest(outcome.response)
      PROVE  IdentityInv'
  <2> DEFINE result == from_job(prepared, outcome)
  <2>1. result.outcome = outcome
    BY DEF from_job
  <2> HIDE DEF result
  <2>2. PreparedInv' /\ RightProgram' /\ RightTransition'
    <3>1. Deliver(result)
      BY <1>6 DEF result
    <3> QED
      BY <1>1, <1>6, <2>1, <3>1, DeliverKeeps DEF IdentityInv
  <2> QED
    BY <1>5, <2>2 DEF IdentityInv
<1>7. CASE Deliver(from_job(prepared, [status |-> "Success", response |-> r[1]]))
  BY <1>3, <1>6, <1>7
<1>8. CASE Deliver(from_job(prepared, [status |-> "Error"]))
  BY <1>6, <1>8
<1>9. CASE /\ UNCHANGED <<accepted, checkpoint>>
           /\ \/ config' = None /\ prepared' = None
              \/ UNCHANGED <<config, prepared>>
  BY <1>4, <1>9, QuietStep DEF redis
<1> QED
  BY <1>2, <1>7, <1>8, <1>9 DEF LocalAnswers

\* Every step keeps the invariant.
LEMMA NextInv ==
    ASSUME IdentityInv, [Next]_vars
    PROVE  IdentityInv'
<1>1. CASE \/ \E e \in Elfs : ReplaceElf(e)
           \/ \E b \in Builds : ReplaceGenProof(b)
           \/ UNCHANGED vars
  BY <1>1, QuietStep DEF ReplaceElf, ReplaceGenProof, vars
<1>2. CASE Redeploy \/ Exit
  BY <1>2, QuietStep DEF Redeploy, Exit, Down
<1> QED
  BY <1>1, <1>2, InitializeStep, PrepareLocalStep, PrepareRedisStep, WorkerStep,
     WaitStep, LocalStep
  DEF Next

-----------------------------------------------------------------------------
(* Theorems *)

\* The inductive invariant: jobs are their ids' preimages, answers say what made
\* them and what they prove, and a prepared job fits the running configuration.
THEOREM IdentityInvariant == Spec => []IdentityInv
<1>1. Init => IdentityInv
  BY DEF Init, IdentityInv, RedisInv, PreparedInv, RightProgram, RightTransition,
         NoCollision, Genesis
<1>2. IdentityInv /\ [Next]_vars => IdentityInv'
  BY NextInv
<1> QED
  BY <1>1, <1>2, PTL DEF Spec

\* Whoever answered and whatever was replaced on disk: an accepted proof was made
\* by the program its job names, under the key pinned for the network.
THEOREM AcceptedProgramIsRight == Spec => []RightProgram
<1>1. IdentityInv => RightProgram
  BY DEF IdentityInv
<1> QED
  BY <1>1, IdentityInvariant, PTL

\* An accepted proof proves the transition that was prepared, under the deployed
\* bridge's custodian, although request ids repeat and Redis keeps everything.
THEOREM AcceptedTransitionIsRight == Spec => []RightTransition
<1>1. IdentityInv => RightTransition
  BY DEF IdentityInv
<1> QED
  BY <1>1, IdentityInvariant, PTL

\* The submit script never finds another job under a job's id.
THEOREM IdsNeverCollide == Spec => []NoCollision
<1>1. IdentityInv => NoCollision
  BY DEF IdentityInv
<1> QED
  BY <1>1, IdentityInvariant, PTL

=============================================================================
