---------------------------- MODULE LocalProver ----------------------------
(***************************************************************************)
(* The local proof backend (LocalProofBackend and run_local_job in         *)
(* proof_queue.rs, ProverDaemon in block_pipeline.rs): a task that takes   *)
(* requests from a bounded channel one at a time, writes each to the       *)
(* gen-proof daemon's stdin and reads one protocol line back, and replaces *)
(* the daemon once when that fails. The daemon program is external.        *)
(***************************************************************************)
EXTENDS Naturals, Sequences

CONSTANTS
    None,
    Jobs,
    Window,     \* capacity of the request channel (proof_prepare_window)
    MaxFaults   \* bound: daemon errors, exits, hangs, missed deadlines

ASSUME LocalAssumption ==
    Window \in Nat \ {0} /\ MaxFaults \in Nat /\ None \notin Jobs

VARIABLES
    status,     \* job -> what its oneshot channel holds: None (not submitted),
                \* "queued", "valid" or "failed"
    chan,       \* the mpsc channel
    task,       \* "idle", "first", "restart", "retry" or "stopped"
    cur,        \* the request in hand
    daemon,     \* None, or [mode, stdin, stdout] with requests and lines in
                \* the pipes
    faults

vars == <<status, chan, task, cur, daemon, faults>>

\* What a line the daemon writes means to prove(): a validated proof; a
\* reported failure; or a reported timeout, a malformed line or a proof that
\* does not validate, which all end the daemon.
LineKind == {"proof", "error", "unusable"}

Fresh == [mode |-> "up", stdin |-> << >>, stdout |-> << >>]

\* The line `request` is written to the daemon's stdin.
Written(d, j) == [d EXCEPT !.stdin = Append(@, j)]

Init ==
    /\ status = [j \in Jobs |-> None]
    /\ chan = << >>
    /\ task = "idle" /\ cur = None
    /\ daemon = Fresh
    /\ faults = 0

Fault == faults < MaxFaults /\ faults' = faults + 1

---------------------------------------------------------------------------
Unbounded == TRUE

\* The channel's capacity; submit waits while it is full.
HasRoom == Len(chan) < Window

Submit(j) ==
    /\ task # "stopped" /\ status[j] = None
    /\ HasRoom
    /\ chan' = Append(chan, j)
    /\ status' = [status EXCEPT ![j] = "queued"]
    /\ UNCHANGED <<task, cur, daemon, faults>>

\* request.result.send(..): the request in hand is answered.
Answer(j, st, d) ==
    /\ status' = [status EXCEPT ![j] = st]
    /\ task' = "idle" /\ cur' = None
    /\ daemon' = d

\* The task takes the next request and writes it, or answers with an error
\* when there is no daemon any more.
TakeRequest ==
    /\ task = "idle" /\ chan # << >>
    /\ chan' = Tail(chan)
    /\ IF daemon = None
       THEN Answer(Head(chan), "failed", None)
       ELSE /\ task' = "first" /\ cur' = Head(chan)
            /\ daemon' = Written(daemon, Head(chan))
            /\ UNCHANGED status
    /\ UNCHANGED faults

\* prepare_prover_request fails before anything is written.
PrepareFails ==
    /\ task = "idle" /\ chan # << >>
    /\ Fault
    /\ chan' = Tail(chan)
    /\ Answer(Head(chan), "failed", daemon)

Proving == task \in {"first", "retry"}

AnswersTwice ==
    IF task = "first"
    THEN /\ task' = "restart"
         /\ status' = [status EXCEPT ![cur] = "failed"]
         /\ daemon' = None
         /\ UNCHANGED cur
    ELSE Answer(cur, "failed", None)

KeepsDaemon ==
    IF task = "first"
    THEN task' = "idle" /\ cur' = None
         /\ status' = [status EXCEPT ![cur] = "failed"] /\ UNCHANGED daemon
    ELSE Answer(cur, "failed", None)

\* prove() failed other than by a reported failure: the daemon is terminated,
\* and replaced if this was the first attempt.
AttemptFails ==
    IF task = "first"
    THEN /\ task' = "restart"
         /\ daemon' = None
         /\ UNCHANGED <<status, cur>>
    ELSE Answer(cur, "failed", None)

\* A reported failure of the first attempt is the answer and the daemon goes
\* on; on the retry the daemon is given up, whatever the error.
RequestFails(rest) ==
    Answer(cur, "failed", IF task = "first" THEN rest ELSE None)

ForgetsDaemon(rest) ==
    Answer(cur, "valid", IF task = "first" THEN rest ELSE None)

\* The proof is the answer; a restarted daemon takes the old one's place.
Proved(rest) == Answer(cur, "valid", rest)

\* One protocol line is read; it must carry the id of this request.
ReadLine ==
    /\ Proving /\ daemon.stdout # << >>
    /\ LET line == Head(daemon.stdout)
           own == line.id = cur
           rest == [daemon EXCEPT !.stdout = Tail(@)]
       IN  \/ own /\ line.kind = "proof" /\ Proved(rest)
           \/ own /\ line.kind = "error" /\ RequestFails(rest)
           \/ (~own \/ line.kind = "unusable") /\ AttemptFails
    /\ UNCHANGED <<chan, faults>>

\* The daemon has exited and its output is read to the end.
ReadEof ==
    /\ Proving /\ daemon.mode = "dead" /\ daemon.stdout = << >>
    /\ AttemptFails
    /\ UNCHANGED <<chan, faults>>

NoDeadline == FALSE

\* The deadline passes with a silent daemon ...
Deadline ==
    /\ Proving /\ daemon.mode = "hung" /\ daemon.stdout = << >>
    /\ AttemptFails
    /\ UNCHANGED <<chan, faults>>

\* ... or with one that is only slow.
DeadlineTooEarly ==
    /\ Proving /\ daemon.mode = "up" /\ daemon.stdout = << >>
    /\ Fault
    /\ AttemptFails
    /\ UNCHANGED chan

\* ProverDaemon::start succeeds, and the request is tried once more.
RestartDaemon ==
    /\ task = "restart"
    /\ task' = "retry"
    /\ daemon' = Written(Fresh, cur)
    /\ UNCHANGED <<status, chan, cur, faults>>

RestartFails ==
    /\ task = "restart"
    /\ Fault
    /\ Answer(cur, "failed", None)
    /\ UNCHANGED chan

\* The shutdown signal is seen between two requests; the daemon is terminated.
Shutdown ==
    /\ task = "idle"
    /\ task' = "stopped"
    /\ daemon' = None /\ chan' = << >>
    /\ UNCHANGED <<status, cur, faults>>

---------------------------------------------------------------------------
(* The daemon (external) *)

Respond(kind) ==
    /\ daemon # None /\ daemon.mode = "up" /\ daemon.stdin # << >>
    /\ daemon' = [daemon EXCEPT
                    !.stdin = Tail(@),
                    !.stdout = Append(@, [id |-> Head(daemon.stdin), kind |-> kind])]
    /\ UNCHANGED <<status, chan, task, cur>>

RespondsWell == Respond("proof") /\ UNCHANGED faults

RespondsBadly == Fault /\ \E k \in {"error", "unusable"} : Respond(k)

Breaks(mode) ==
    /\ daemon # None /\ daemon.mode = "up"
    /\ Fault
    /\ daemon' = [daemon EXCEPT !.mode = mode]
    /\ UNCHANGED <<status, chan, task, cur>>

---------------------------------------------------------------------------
RunLocalJob ==
    TakeRequest \/ ReadLine \/ ReadEof \/ Deadline \/ RestartDaemon

Next ==
    \/ \E j \in Jobs : Submit(j)
    \/ RunLocalJob
    \/ PrepareFails \/ DeadlineTooEarly \/ RestartFails \/ Shutdown
    \/ RespondsWell \/ RespondsBadly
    \/ \E mode \in {"dead", "hung"} : Breaks(mode)

Spec == Init /\ [][Next]_vars

\* The task runs, and a healthy daemon answers.
Fairness == WF_vars(RunLocalJob) /\ WF_vars(RespondsWell)

FairSpec == Spec /\ Fairness

---------------------------------------------------------------------------
(* Properties *)

Line == [id : Jobs, kind : LineKind]
Daemon == [mode : {"up", "dead", "hung"}, stdin : Seq(Jobs), stdout : Seq(Line)]

\* None is neither a daemon nor an answer (evaluated by TLC on every run).
ASSUME NoneAssumption == None \notin Daemon \cup {"queued", "valid", "failed"}

\* Every variable holds a value of its kind; the channel keeps its capacity.
TypeOK ==
    /\ status \in [Jobs -> {None, "queued", "valid", "failed"}]
    /\ chan \in Seq(Jobs) /\ Len(chan) <= Window
    /\ task \in {"idle", "first", "restart", "retry", "stopped"}
    /\ cur \in Jobs \cup {None}
    /\ daemon \in Daemon \cup {None}
    /\ faults \in 0..MaxFaults

\* Between two requests nothing of an earlier one is left in the daemon's
\* pipes: a late answer to a request that timed out is never read as the
\* answer to the next (a daemon that failed to answer is always replaced).
InSync ==
    task = "idle" /\ daemon # None =>
      daemon.stdin = << >> /\ daemon.stdout = << >>

\* The backend is left without a daemon only after it has answered some
\* request with an error, which ends the coordinator and so restarts both.
LostDaemonReported ==
    task = "idle" /\ daemon = None => \E j \in Jobs : status[j] = "failed"

\* Within one run of the process this is the prover the pipeline is modelled
\* with: a request is answered once and the answer stays.
Service == INSTANCE ProofService
ServiceRefined == Service!Spec

\* Every request is answered unless the backend is shut down, although the
\* daemon may hang, exit or answer with something unusable.
EveryRequestAnswered ==
    \A j \in Jobs : status[j] = "queued" ~> status[j] # "queued" \/ task = "stopped"

---------------------------------------------------------------------------
(* The inductive invariant behind the theorems of LocalProverProofs *)

InHand == task \in {"first", "restart", "retry"}

\* The requests in the channel and the one in hand are different ones, and none
\* of them is answered yet.
RequestInv ==
    /\ \A i \in DOMAIN chan : status[chan[i]] = "queued"
    /\ \A i, k \in DOMAIN chan : chan[i] = chan[k] => i = k
    /\ InHand => /\ cur \in Jobs /\ status[cur] = "queued"
                 /\ \A i \in DOMAIN chan : chan[i] # cur

\* A daemon that is being waited for has the request in hand in one of its
\* pipes and nothing else; one that failed is gone before the next is started.
PipeInv ==
    /\ task = "restart" => daemon = None
    /\ Proving =>
         /\ daemon # None
         /\ \/ daemon.stdin = <<cur>> /\ daemon.stdout = << >>
            \/ /\ daemon.stdin = << >>
               /\ \E k \in LineKind : daemon.stdout = <<[id |-> cur, kind |-> k]>>

LocalInv == TypeOK /\ RequestInv /\ PipeInv /\ InSync /\ LostDaemonReported
=============================================================================
