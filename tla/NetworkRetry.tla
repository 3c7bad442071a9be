---------------------------- MODULE NetworkRetry ----------------------------
(***************************************************************************)
(* NetworkRetryPolicy::run of network_retry.rs and the three clients that  *)
(* drive it: the Electrs client (get_response_bytes), the Sender client    *)
(* (block_update) and the bridge client (retry_bridge_network).            *)
(*                                                                         *)
(* One behaviour is one call of run.  now counts time units since its      *)
(* Instant::now().  An attempt of the two HTTP clients lasts at most        *)
(* RequestTimeout, the timeout they are built with, one of the bridge      *)
(* client at most BridgeTimeout; a timer fires at most Oversleep late. The *)
(* configurations count in half seconds, the code's shortest delay.        *)
(***************************************************************************)
EXTENDS Integers

CONSTANTS
    None,            \* an Option that is not set
    InitialDelay, MaxDelay,
    OverallDeadline, \* Option: wall-clock budget of the whole call
    MaxAttempts,     \* Option: attempts, the first one included
    RequestTimeout,
    BridgeTimeout,   \* bound: the longest call of the (external) bridge client
    Oversleep,       \* bound: how late a timer may fire
    Clients          \* which clients the calls are made by

ASSUME RetryAssumption ==
    /\ {InitialDelay, MaxDelay, RequestTimeout, BridgeTimeout, Oversleep} \subseteq Nat
    /\ Clients \subseteq {"sender", "electrs", "bridge"}
    /\ InitialDelay > 0 /\ InitialDelay <= MaxDelay
    /\ None \notin Nat
    /\ OverallDeadline \in Nat \cup {None}
    /\ MaxAttempts \in Nat \cup {None}

VARIABLES
    client,     \* whose operation this call retries
    phase,      \* "calling", "sleeping" or "done"
    now,        \* start.elapsed()
    attempt, delay,
    result,     \* what run returned: None, "Ok" or "Err"
    wake,       \* when the timer set by sleep(sleep_duration) is due
    uncertain   \* history: the peer answered that the outcome is unknown

vars == <<client, phase, now, attempt, delay, result, wake, uncertain>>

RetryMin(a, b) == IF a <= b THEN a ELSE b

-----------------------------------------------------------------------------
(* What counts as transient.  An error is the set of facts the code asks    *)
(* about it: the reqwest predicates that hold, and the io::ErrorKinds along  *)
(* its chain of sources.                                                     *)

is_retryable_http_status(status) ==
    status \in {408, 425, 429, 500, 502, 503, 504}

is_retryable_io_kind(kind) ==
    kind \in {"BrokenPipe", "ConnectionAborted", "ConnectionRefused",
              "ConnectionReset", "Interrupted", "NotConnected", "TimedOut",
              "UnexpectedEof", "WouldBlock"}

has_retryable_io_source(error) == \E kind \in error : is_retryable_io_kind(kind)

\* A status is never turned into an error here, so status() is None.
is_retryable_reqwest(error) ==
    /\ error \cap {"builder", "redirect"} = {}
    /\ \/ error \cap {"timeout", "connect", "request", "body"} # {}
       \/ has_retryable_io_source(error)

\* Solana's client asks the same of a reqwest error, builder errors included;
\* of an RPC failure it retries the transport and the "node behind" codes.
is_retryable_solana_client_error(error) ==
    \/ error \cap {"timeout", "connect", "request", "body"} # {}
    \/ has_retryable_io_source(error)
    \/ error \cap {"RpcRequestError", "RpcRetryCode"} # {}

RetriesConfirmation(error) ==
    \/ error \cap {"RateLimited", "ConnectionTimeout", "ConfirmationTimeout"} # {}
    \/ "Rpc" \in error /\ is_retryable_solana_client_error(error)

\* ConfirmationTimeout was submitted and not observed: never resent.
is_retryable_bridge_error(error) ==
    \/ error \cap {"RateLimited", "ConnectionTimeout"} # {}
    \/ "Rpc" \in error /\ is_retryable_solana_client_error(error)

HttpErrors == {{"builder"}, {"redirect", "request"}, {"timeout", "request"},
               {"connect", "ConnectionRefused"}, {"decode"},
               {"body", "UnexpectedEof"}, {"InvalidData"}}

BridgeErrors == {{"Rpc", "ConnectionReset"}, {"Rpc", "InvalidData"},
                 {"Rpc", "RpcRetryCode"}, {"Rpc", "timeout"}, {"RateLimited"},
                 {"ConnectionTimeout"}, {"ConfirmationTimeout"}, {"InvalidState"}}

\* A reply: the request failed, the status came but the body could not be read
\* or parsed, or all of it came.
Replies ==
    {[at |-> "send", status |-> 0, error |-> e] : e \in HttpErrors}
    \cup {[at |-> "body", status |-> s, error |-> e] :
             s \in {200, 202, 409, 503}, e \in HttpErrors}
    \cup {[at |-> "full", status |-> s, error |-> {}] :
             s \in {200, 202, 404, 409, 429, 503}}

BridgeReplies ==
    {[at |-> "send", status |-> 0, error |-> e] : e \in BridgeErrors}
    \cup {[at |-> "full", status |-> 200, error |-> {}]}

IsSuccess(status) == status \in 200..299

Transient(retry) == IF retry THEN "Retry" ELSE "Fatal"

\* The closure of block_update: an accepted answer is ambiguous, and fatal.
BlockUpdateAction(reply) ==
    IF reply.at # "full" THEN Transient(is_retryable_reqwest(reply.error))
    ELSE IF reply.status = 202 THEN "Fatal"
    ELSE IF IsSuccess(reply.status) THEN "Success"
    ELSE Transient(is_retryable_http_status(reply.status))

\* The closure of get_response_bytes: a bad status is judged before the body.
ElectrsAction(reply) ==
    IF reply.at # "send" /\ ~IsSuccess(reply.status)
    THEN Transient(is_retryable_http_status(reply.status))
    ELSE IF reply.at # "full" THEN Transient(is_retryable_reqwest(reply.error))
    ELSE "Success"

BridgeAction(reply) ==
    IF reply.at = "full" THEN "Success"
    ELSE Transient(is_retryable_bridge_error(reply.error))

RetryAction(c, reply) ==
    CASE c = "sender"  -> BlockUpdateAction(reply)
      [] c = "electrs" -> ElectrsAction(reply)
      [] c = "bridge"  -> BridgeAction(reply)

\* The peer itself said that it does not know whether the operation happened.
OutcomeUnknown(c, reply) ==
    \/ c = "sender" /\ reply.at = "full" /\ reply.status = 202
    \/ c = "bridge" /\ "ConfirmationTimeout" \in reply.error

\* What an attempt of each client may come back with.
Answers ==
    [c \in Clients |->
        {[action |-> RetryAction(c, r), unknown |-> OutcomeUnknown(c, r)] :
            r \in IF c = "bridge" THEN BridgeReplies ELSE Replies}]

-----------------------------------------------------------------------------
Init ==
    /\ client \in Clients
    /\ phase = "calling" /\ now = 0 /\ attempt = 1 /\ delay = InitialDelay
    /\ result = None /\ wake = 0 /\ uncertain = FALSE

Return(r) ==
    /\ phase' = "done" /\ result' = r
    /\ UNCHANGED <<client, attempt, delay, wake>>

AttemptsLeft == MaxAttempts = None \/ attempt < MaxAttempts
BudgetLeft(elapsed) == OverallDeadline = None \/ elapsed < OverallDeadline

Unclamped(elapsed) == delay

\* delay.min(remaining): the sleep is clamped to what is left of the budget.
SleepDuration(elapsed) ==
    IF OverallDeadline = None THEN delay
    ELSE RetryMin(delay, OverallDeadline - elapsed)

\* RetryAction::Retry: give up with the error of this attempt, or set the timer.
RetryOrGiveUp(elapsed) ==
    IF AttemptsLeft /\ BudgetLeft(elapsed)
    THEN /\ phase' = "sleeping"
         /\ wake' = elapsed + SleepDuration(elapsed)
         /\ UNCHANGED <<client, attempt, delay, result>>
    ELSE Return("Err")

Timeout(c) == IF c = "bridge" THEN BridgeTimeout ELSE RequestTimeout

\* operation().await returns after took time units.
Attempt(took, answer) ==
    /\ phase = "calling"
    /\ now' = now + took
    /\ uncertain' = (uncertain \/ answer.unknown)
    /\ CASE answer.action = "Success" -> Return("Ok")
         [] answer.action = "Fatal"   -> Return("Err")
         [] answer.action = "Retry"   -> RetryOrGiveUp(now + took)

NoDelayCap(late) ==
    /\ phase = "sleeping"
    /\ now' = wake + late
    /\ attempt' = attempt + 1
    /\ delay' = 2 * delay
    /\ phase' = "calling" /\ wake' = 0
    /\ UNCHANGED <<client, result, uncertain>>

\* sleep(sleep_duration).await, then the next round of the loop.
Wake(late) ==
    /\ phase = "sleeping"
    /\ now' = wake + late
    /\ attempt' = attempt + 1
    /\ delay' = RetryMin(2 * delay, MaxDelay)
    /\ phase' = "calling" /\ wake' = 0
    /\ UNCHANGED <<client, result, uncertain>>

Done == phase = "done" /\ UNCHANGED vars

Next ==
    \/ \E took \in 0..Timeout(client), answer \in Answers[client] :
          Attempt(took, answer)
    \/ \E late \in 0..Oversleep : Wake(late)
    \/ Done

Spec == Init /\ [][Next]_vars

-----------------------------------------------------------------------------
\* run: the delay is never 0 and never above max_delay, the attempts count from 1.
TypeOK ==
    /\ client \in Clients
    /\ phase \in {"calling", "sleeping", "done"}
    /\ {now, wake} \subseteq Nat
    /\ attempt \in Nat \ {0} /\ delay \in 1..MaxDelay
    /\ result \in {None, "Ok", "Err"}
    /\ uncertain \in BOOLEAN

\* run: the comment above the deadline check says "do not start a new attempt or
\* sleep past the deadline": every attempt starts within the budget.
NoAttemptPastDeadline ==
    phase = "calling" /\ OverallDeadline # None => now <= OverallDeadline

\* run: the whole call ends, whatever the peer answers and however long it
\* takes. The clamped sleep ends at the deadline and is followed by one more
\* attempt (NoAttemptPastDeadline does not hold), but by one only: the call
\* takes the deadline, one late timer and one request at most, and at most
\* MaxAttempts attempts.
Bounded ==
    /\ OverallDeadline # None => now <= OverallDeadline + Oversleep + Timeout(client)
    /\ MaxAttempts \in Nat \ {0} => attempt <= MaxAttempts

\* The default policy of the HTTP clients: requests that keep to their timeout
\* never meet the deadline, so every one of the attempts is made and none of
\* them is the late one.
AttemptsExhaustedFirst ==
    phase = "calling" /\ client # "bridge" /\ OverallDeadline # None
        => now < OverallDeadline

\* is_retryable_bridge_error, block_update: an operation whose outcome the
\* peer reported as unknown is never sent again ("resending blindly risks a
\* double submission").
NoBlindResend == [][uncertain => phase' # "calling" /\ attempt' = attempt]_vars

=============================================================================
