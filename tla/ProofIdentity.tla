---------------------------- MODULE ProofIdentity ----------------------------
(***************************************************************************)
(* Which proof may a coordinator accept?  The start-up checks of the        *)
(* configuration, the identity of the gen-proof daemon, the content-        *)
(* addressed job built by prepare_height, the result a worker files under   *)
(* its id, and the checks between that result and commit_prepared's first   *)
(* write.  Files, prover builds and deployments change while Redis keeps    *)
(* every job and every result.                                              *)
(*                                                                         *)
(* SHA-256 is collision free: a digest is the record it is taken of.  When  *)
(* and how often a prover is asked is the subject of LocalProver and        *)
(* ProofQueue; here one answer follows each request.                        *)
(***************************************************************************)
EXTENDS Integers

CONSTANTS
    None,
    Configs,     \* the configurations an operator may start with
    Builds,      \* gen-proof builds: [network, elf, prefixed]
    VkOf,        \* ELF -> verifying key
    Pinned,      \* network -> *_BLOCK_VK_HASH
    Chain,       \* the deployed bridge: [custodian, operator, mint]
    Tips,        \* blocks that may follow a checkpoint
    MaxHeight,   \* bound: heights committed
    MaxChanges   \* bound: files replaced, processes stopped, bad answers

ASSUME IdentityAssumption ==
    /\ MaxHeight \in Nat /\ MaxChanges \in Nat
    /\ \A b \in Builds : b.elf \in DOMAIN VkOf /\ b.network \in DOMAIN Pinned
    /\ \A c \in Configs : c.network \in DOMAIN Pinned

VARIABLES
    elf,        \* the file at block_elf_path
    genproof,   \* the build at gen_proof_path
    config,     \* of the running coordinator, or None
    checkpoint, \* [height, header]
    daemon,     \* the validated local daemon: [build, vk_hash], or None
    prepared,   \* the job waited for, or None
    retried,    \* the local daemon was restarted for this request
    jobs,       \* Redis: job key -> ProofJob
    results,    \* Redis: result key -> ProofResult
    accepted,   \* history: what last passed every check, or None
    collided,   \* history: SUBMIT_JOB_SCRIPT answered JOB_ID_COLLISION
    changes

disk == <<elf, genproof>>
redis == <<jobs, results>>
vars == <<disk, config, checkpoint, daemon, prepared, retried, redis,
          accepted, collided, changes>>

Elfs == DOMAIN VkOf
PROOF_SCHEMA_VERSION == 2
Genesis == [height |-> 0, header |-> <<0, None>>]

\* SET key value
Stored(keys, key, value) ==
    [k \in DOMAIN keys \cup {key} |-> IF k = key THEN value ELSE keys[k]]

-----------------------------------------------------------------------------
(* Start-up *)

guest_id(network) ==
    IF network = "testnet" THEN "block-transition-testnet" ELSE "block-transition"

custodian_hash(network, custody) == <<network, custody>>

\* A configuration keeps the outcome of each path, presence and size check of
\* validate_config as a member of facts.
validate_gen_proof_path(c) ==
    c.backend = "redis" \/ {"gen_proof_file", "gen_proof_release"} \subseteq c.facts

validate_config(c) ==
    /\ validate_gen_proof_path(c)
    /\ {"release_build", "elf_file", "elf_release", "bearer_token",
        "fee_denominator", "prepare_window", "queue_prefix", "wait_interval",
        "recipients", "recipients_distinct", "rpc_url", "keypairs"} \subseteq c.facts
    /\ c.expected_vk_hash = Pinned[c.network]
    /\ c.custody = c.bridge_program

\* initialize: what is compared with the bridge state on Solana.
MatchesBridge(c) ==
    /\ c.operator = Chain.operator
    /\ custodian_hash(c.network, c.custody) = Chain.custodian
    /\ c.mint = Chain.mint

\* The key as text: some builds write it with a 0x prefix.
VkText(b) == [prefixed |-> b.prefixed, hash |-> VkOf[b.elf]]

identity(b) ==
    [kind |-> "identity", network |-> b.network, guest_id |-> guest_id(b.network),
     elf |-> b.elf, vkey_hash |-> VkText(b)]

\* decode_prover_hash drops the prefix before the key is compared.
validate_prover_identity(c, file, id) ==
    /\ id.kind = "identity"
    /\ id.network = c.network
    /\ id.guest_id = guest_id(c.network)
    /\ id.elf = file
    /\ id.vkey_hash.hash = c.expected_vk_hash

\* ProverDaemon::start with the executable that is on disk now.
StartDaemon(c) ==
    IF validate_prover_identity(c, elf, identity(genproof))
    THEN [build |-> genproof, vk_hash |-> VkOf[genproof.elf]]
    ELSE None

-----------------------------------------------------------------------------
(* Jobs and results *)

ProofRequest(c, height, from, to) ==
    [request_id |-> height, old_header |-> from, new_header |-> to,
     custody |-> c.custody, config_params |-> c.params]

OmitsElf(j) ==
    <<j.schema_version, j.network, j.height, j.parent_checkpoint,
      j.input_fingerprint, j.guest_id, j.vkey_hash, j.request>>

compute_job_id(j) ==
    <<j.schema_version, j.network, j.height, j.parent_checkpoint,
      j.input_fingerprint, j.guest_id, j.block_elf, j.vkey_hash, j.request>>

Unsigned(c, file, parent, request) ==
    [schema_version |-> PROOF_SCHEMA_VERSION, network |-> c.network,
     height |-> request.request_id, parent_checkpoint |-> parent,
     input_fingerprint |-> request, guest_id |-> guest_id(c.network),
     block_elf |-> file, request |-> request,
     vkey_hash |-> [prefixed |-> FALSE, hash |-> c.expected_vk_hash]]

WithId(j) ==
    [f \in DOMAIN j \cup {"job_id"} |-> IF f = "job_id" THEN compute_job_id(j) ELSE j[f]]

ProofJob(c, file, parent, request) == WithId(Unsigned(c, file, parent, request))

validate(j) ==
    /\ j.schema_version = PROOF_SCHEMA_VERSION
    /\ ~j.vkey_hash.prefixed
    /\ j.input_fingerprint = j.request
    /\ j.job_id = compute_job_id(j)

IdentityFields == {"schema_version", "job_id", "network", "height",
                   "parent_checkpoint", "input_fingerprint", "guest_id",
                   "block_elf", "vkey_hash"}

from_job(j, outcome) ==
    [identity |-> [f \in IdentityFields |-> j[f]], outcome |-> outcome]

identity_matches(j, r) == \A f \in IdentityFields : j[f] = r.identity[f]

validate_for(r, j) == validate(j) /\ identity_matches(j, r)

\* What a proof of this request commits to: the header transition, the config
\* and the custodian of the network the guest was built for.
PublicValues(network, request) ==
    <<request.old_header, request.new_header, request.config_params,
      custodian_hash(network, request.custody)>>

IgnoresProgram(j, r) ==
    /\ r.kind = "proof" /\ r.request_id = j.request.request_id /\ r.ok
    /\ r.network = j.network /\ r.guest_id = j.guest_id

validate_daemon_response(j, r) ==
    /\ r.kind = "proof" /\ r.request_id = j.request.request_id /\ r.ok
    /\ r.network = j.network /\ r.guest_id = j.guest_id
    /\ r.elf = j.block_elf /\ r.vkey_hash = j.vkey_hash

\* The bytes are there, are hex, and have the sizes the response states.
BytesDecode(r) == r.bytes # "missized"

into_prover_output(r, j) ==
    /\ validate_for(r, j)
    /\ r.outcome.status = "Success"
    /\ validate_daemon_response(j, r.outcome.response)
    /\ BytesDecode(r.outcome.response)

validate_proof_response(c, d, file, r) ==
    /\ r.network = c.network /\ r.guest_id = guest_id(c.network)
    /\ r.elf = file
    /\ r.vkey_hash.hash = d.vk_hash /\ r.vkey_hash.hash = c.expected_vk_hash

TrustsPublicValues(c, j, r) ==
    /\ j.height = checkpoint.height + 1
    /\ j.parent_checkpoint = checkpoint
    /\ r.bytes # "zero"

\* commit_prepared, before its first write.
BindsTransition(c, j, r) ==
    /\ j.height = checkpoint.height + 1
    /\ j.parent_checkpoint = checkpoint
    /\ r.bytes # "zero"
    /\ r.public_values =
         <<j.request.old_header, j.request.new_header, c.params,
           custodian_hash(c.network, c.custody)>>

-----------------------------------------------------------------------------
Down ==
    /\ config' = None /\ daemon' = None /\ prepared' = None /\ retried' = FALSE

Init ==
    /\ elf \in Elfs /\ genproof \in {b \in Builds : b.elf = elf}
    /\ config = None /\ checkpoint = Genesis
    /\ daemon = None /\ prepared = None /\ retried = FALSE
    /\ jobs = << >> /\ results = << >>
    /\ accepted = None /\ collided = FALSE /\ changes = 0

Change == changes < MaxChanges /\ changes' = changes + 1

\* The operator rebuilds the guest, or the prover, under the running process.
ReplaceElf(e) ==
    /\ e # elf /\ Change
    /\ elf' = e
    /\ UNCHANGED <<genproof, config, checkpoint, daemon, prepared, retried,
                   redis, accepted, collided>>

ReplaceGenProof(b) ==
    /\ b # genproof /\ Change
    /\ genproof' = b
    /\ UNCHANGED <<elf, config, checkpoint, daemon, prepared, retried, redis,
                   accepted, collided>>

\* The process is stopped for a new deployment under the same seed: the
\* checkpoint starts over, the proof queue's keys stay.
Redeploy ==
    /\ checkpoint # Genesis /\ Change
    /\ checkpoint' = Genesis
    /\ Down
    /\ UNCHANGED <<disk, redis, accepted, collided>>

Initialize(c) ==
    /\ config = None
    /\ validate_config(c) /\ MatchesBridge(c)
    /\ daemon' = IF c.backend = "local" THEN StartDaemon(c) ELSE None
    /\ c.backend = "local" => daemon' # None
    /\ config' = c
    /\ UNCHANGED <<disk, checkpoint, prepared, retried, redis, accepted,
                   collided, changes>>

Exit ==
    /\ config # None /\ Change
    /\ Down
    /\ UNCHANGED <<disk, checkpoint, redis, accepted, collided>>

NextJob(to) ==
    LET height == checkpoint.height + 1
    IN  ProofJob(config, elf, checkpoint,
                 ProofRequest(config, height, checkpoint.header, <<height, to>>))

\* prepare_height and the local submit.
PrepareLocal(to) ==
    /\ config # None /\ config.backend = "local" /\ prepared = None
    /\ checkpoint.height < MaxHeight
    /\ prepared' = NextJob(to) /\ retried' = FALSE
    /\ UNCHANGED <<disk, config, checkpoint, daemon, redis, accepted, collided,
                   changes>>

\* prepare_height and RedisProofBackend::submit.
PrepareRedis(to) ==
    /\ config # None /\ config.backend = "redis" /\ prepared = None
    /\ checkpoint.height < MaxHeight
    /\ LET j == NextJob(to)
       IN  \/ /\ j.job_id \in DOMAIN jobs /\ jobs[j.job_id] # j
              /\ collided' = TRUE /\ Down
              /\ UNCHANGED jobs
           \/ /\ j.job_id \in DOMAIN jobs => jobs[j.job_id] = j
              /\ jobs' = Stored(jobs, j.job_id, j)
              /\ prepared' = j
              /\ UNCHANGED <<collided, config, daemon, retried>>
    /\ UNCHANGED <<disk, checkpoint, results, accepted, changes>>

\* A prover's answer to j: its build says what it is, and proves what it was
\* given.  At a cost it may instead answer with the proof of another request
\* of the same id, or with a response that is broken in one place.
Response(b, j, proved) ==
    [kind |-> "proof", request_id |-> j.request.request_id, ok |-> TRUE,
     timed_out |-> FALSE, network |-> b.network, guest_id |-> guest_id(b.network),
     elf |-> b.elf, vkey_hash |-> VkText(b), bytes |-> "fine",
     public_values |-> PublicValues(b.network, proved),
     by |-> b, proved |-> proved]

SameId(j) ==
    {jobs[i].request : i \in {k \in DOMAIN jobs : jobs[k].height = j.height}}
    \cup {ProofRequest(config, j.height, checkpoint.header, <<j.height, to>>) : to \in Tips}

Broken(r) ==
    {[r EXCEPT !.kind = "identity"], [r EXCEPT !.request_id = 0],
     [r EXCEPT !.ok = FALSE], [r EXCEPT !.ok = FALSE, !.timed_out = TRUE],
     [r EXCEPT !.bytes = "missized"], [r EXCEPT !.bytes = "zero"]}

\* <<answer, is it a fault>>
Replies(b, j) ==
    LET fine == Response(b, j, j.request)
    IN  {<<fine, FALSE>>} \cup (Broken(fine) \X {TRUE})
        \cup ({Response(b, j, p) : p \in SameId(j) \ {j.request}} \X {TRUE})

Costs(fault) == IF fault THEN Change ELSE UNCHANGED changes

\* A worker files the outcome of the job waited for; at a cost, it is one of
\* another build, or files the outcome of another job.
WorkerAnswers(b, source) ==
    /\ prepared # None /\ config.backend = "redis"
    /\ prepared.job_id \notin DOMAIN results
    /\ source \in DOMAIN jobs
    /\ LET j == jobs[source]
       IN  \E r \in Replies(b, j) :
             /\ Costs(r[2] \/ source # prepared.job_id \/ identity(b).elf # j.block_elf
                      \/ VkText(b) # j.vkey_hash)
             /\ results' = Stored(results, prepared.job_id,
                   from_job(j, IF r[1].ok THEN [status |-> "Success", response |-> r[1]]
                               ELSE [status |-> "Error"]))
    /\ UNCHANGED <<disk, config, checkpoint, daemon, prepared, retried, jobs,
                   accepted, collided>>

\* ProofBackend::wait, then commit_prepared; a refusal stops the coordinator.
Deliver(result) ==
    IF into_prover_output(result, prepared)
       /\ BindsTransition(config, prepared, result.outcome.response)
    THEN /\ accepted' = [job |-> prepared, output |-> result.outcome.response]
         /\ checkpoint' = [height |-> prepared.height,
                           header |-> prepared.request.new_header]
         /\ prepared' = None /\ retried' = FALSE
         /\ UNCHANGED config
    ELSE /\ config' = None /\ prepared' = None /\ retried' = FALSE
         /\ UNCHANGED <<accepted, checkpoint>>

WaitResult ==
    /\ prepared # None /\ prepared.job_id \in DOMAIN results
    /\ config.backend = "redis"
    /\ Deliver(results[prepared.job_id])
    /\ UNCHANGED <<disk, daemon, redis, collided, changes>>

\* ProverDaemon::prove accepts the line as the answer to this request.
ProveAccepts(r) ==
    /\ r.kind = "proof" /\ r.request_id = prepared.request.request_id /\ r.ok
    /\ validate_proof_response(config, daemon, elf, r)
    /\ BytesDecode(r)

\* ProverRequestError: the daemon itself reports that this request failed.
RequestError(r) ==
    /\ r.kind = "proof" /\ r.request_id = prepared.request.request_id
    /\ ~r.ok /\ ~r.timed_out

\* run_local_job: one attempt; a line that is neither restarts the daemon once.
LocalAnswers(r) ==
    /\ Costs(r[2])
    /\ \/ /\ ProveAccepts(r[1])
          /\ Deliver(from_job(prepared, [status |-> "Success", response |-> r[1]]))
          /\ daemon' = IF config' = None THEN None ELSE daemon
       \/ /\ RequestError(r[1]) \/ (retried /\ ~ProveAccepts(r[1]))
          /\ Deliver(from_job(prepared, [status |-> "Error"]))
          /\ daemon' = None
       \/ /\ ~ProveAccepts(r[1]) /\ ~RequestError(r[1]) /\ ~retried
          /\ daemon' = StartDaemon(config)
          /\ retried' = (daemon' # None)
          /\ config' = IF daemon' = None THEN None ELSE config
          /\ prepared' = IF daemon' = None THEN None ELSE prepared
          /\ UNCHANGED <<accepted, checkpoint>>
    /\ UNCHANGED <<disk, redis, collided>>

LocalProve ==
    /\ prepared # None /\ daemon # None /\ config.backend = "local"
    /\ \E r \in Replies(daemon.build, prepared) : LocalAnswers(r)

Next ==
    \/ \E e \in Elfs : ReplaceElf(e)
    \/ \E b \in Builds : ReplaceGenProof(b)
    \/ \E c \in Configs : Initialize(c)
    \/ Redeploy \/ Exit
    \/ \E to \in Tips : PrepareLocal(to) \/ PrepareRedis(to)
    \/ \E b \in Builds, source \in DOMAIN jobs : WorkerAnswers(b, source)
    \/ WaitResult \/ LocalProve

Spec == Init /\ [][Next]_vars

-----------------------------------------------------------------------------
\* README: "validates the daemon identity by the path-independent guest id plus
\* the embedded block-transition ELF SHA-256 and verifying key hash before
\* accepting prover output".  Whoever answered, whatever was replaced on disk
\* since the job was prepared: an accepted proof was made by the very program
\* its job names, and its key is the one pinned for the network.
RightProgram ==
    accepted # None =>
        /\ accepted.output.by.elf = accepted.job.block_elf
        /\ accepted.output.by.network = accepted.job.network
        /\ VkOf[accepted.output.by.elf] = Pinned[accepted.job.network]

\* commit_prepared: an accepted proof proves the transition that was prepared,
\* under the fees and the custodian of the deployed bridge, although request
\* ids repeat ("block-<height>") and Redis keeps the results of earlier
\* deployments and of blocks that were reorganised away.
RightTransition ==
    accepted # None =>
        /\ accepted.output.proved = accepted.job.request
        /\ custodian_hash(accepted.job.network, accepted.output.proved.custody)
             = Chain.custodian

\* compute_job_id: a restarted coordinator, whatever was changed meanwhile,
\* never finds another job under its job's id.
NoCollision == ~collided

-----------------------------------------------------------------------------
(* The inductive invariant behind the theorems of ProofIdentityProofs *)

IsRequest(p) ==
    p = [request_id |-> p.request_id, old_header |-> p.old_header,
         new_header |-> p.new_header, custody |-> p.custody,
         config_params |-> p.config_params]

\* A job carries the digest of its other fields and the request of its height.
WellFormed(j) ==
    /\ j = [f \in IdentityFields \cup {"request"} |-> j[f]]
    /\ j.job_id = compute_job_id(j)
    /\ IsRequest(j.request) /\ j.request.request_id = j.height
    /\ j.height \in Nat \ {0}

\* A prover says what it is and what it has proved; only the request id may be
\* broken.
Honest(r) ==
    /\ r.network = r.by.network /\ r.elf = r.by.elf /\ r.vkey_hash = VkText(r.by)
    /\ r.public_values = PublicValues(r.by.network, r.proved)
    /\ IsRequest(r.proved) /\ r.request_id \in {0, r.proved.request_id}

\* Redis keeps jobs under their ids and answers under some id.
RedisInv ==
    /\ \A k \in DOMAIN jobs : WellFormed(jobs[k]) /\ jobs[k].job_id = k
    /\ \A k \in DOMAIN results :
         results[k].outcome.status = "Success" => Honest(results[k].outcome.response)

\* The job waited for was prepared under the running configuration, and that
\* one passed the checks of the start.
PreparedInv ==
    /\ checkpoint.height \in Nat
    /\ config = None => prepared = None
    /\ config # None => validate_config(config) /\ MatchesBridge(config)
    /\ prepared # None =>
         /\ WellFormed(prepared)
         /\ prepared.network = config.network
         /\ prepared.vkey_hash.hash = config.expected_vk_hash
         /\ prepared.request.custody = config.custody
         /\ prepared.request.config_params = config.params

IdentityInv ==
    RedisInv /\ PreparedInv /\ RightProgram /\ RightTransition /\ NoCollision

=============================================================================
