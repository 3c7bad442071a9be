------------------------- MODULE NetworkRetryProofs -------------------------
(***************************************************************************)
(* NetworkRetryPolicy::run for every policy, every timeout and every late    *)
(* timer: how long a call may take, how many attempts it makes, and that an  *)
(* operation of unknown outcome is not sent again.                           *)
(***************************************************************************)
EXTENDS NetworkRetry, TLAPS

\* The timer is never set past the deadline, so an attempt starts at most a
\* late timer after it.
TimeInv ==
    OverallDeadline # None =>
        /\ phase = "calling" => now <= OverallDeadline + Oversleep
        /\ phase = "sleeping" => wake <= OverallDeadline
        /\ now <= OverallDeadline + Oversleep + Timeout(client)

\* Nobody sleeps after the last attempt.
AttemptInv ==
    MaxAttempts \in Nat \ {0} =>
        /\ attempt <= MaxAttempts
        /\ phase = "sleeping" => attempt < MaxAttempts

\* A reply of unknown outcome ends the call.
UnknownEnds == uncertain => phase = "done"

RetryInv == TypeOK /\ TimeInv /\ AttemptInv /\ UnknownEnds

-----------------------------------------------------------------------------
\* The bounds are numbers, whichever client makes the call.
LEMMA TimeoutNat == ASSUME NEW c PROVE Timeout(c) \in Nat
BY RetryAssumption DEF Timeout

\* block_update and retry_bridge_network class every reply of unknown outcome
\* as fatal; the Electrs client has none.
LEMMA UnknownIsFatal ==
    ASSUME NEW c \in Clients, NEW answer \in Answers[c]
    PROVE  /\ answer.action \in {"Success", "Retry", "Fatal"}
           /\ answer.unknown \in BOOLEAN
           /\ answer.unknown => answer.action = "Fatal"
<1>1. PICK r \in (IF c = "bridge" THEN BridgeReplies ELSE Replies) :
        answer = [action |-> RetryAction(c, r), unknown |-> OutcomeUnknown(c, r)]
  BY DEF Answers
<1>2. c \in {"sender", "electrs", "bridge"} BY RetryAssumption
<1>3. RetryAction(c, r) \in {"Success", "Retry", "Fatal"}
  BY <1>2 DEF RetryAction, BlockUpdateAction, ElectrsAction, BridgeAction, Transient
<1>4. ASSUME OutcomeUnknown(c, r) PROVE RetryAction(c, r) = "Fatal"
  <2>1. CASE c = "sender"
    BY <1>4, <2>1 DEF OutcomeUnknown, RetryAction, BlockUpdateAction
  <2>2. CASE c = "electrs" BY <1>4, <2>2 DEF OutcomeUnknown
  <2>3. CASE c = "bridge"
    <3>1. r \in BridgeReplies /\ "ConfirmationTimeout" \in r.error
      BY <1>1, <1>4, <2>3 DEF OutcomeUnknown
    <3>2. r.at = "send" /\ r.error = {"ConfirmationTimeout"}
      BY <3>1 DEF BridgeReplies, BridgeErrors
    <3>3. ~is_retryable_bridge_error(r.error)
      BY <3>2 DEF is_retryable_bridge_error
    <3> QED BY <2>3, <3>2, <3>3 DEF RetryAction, BridgeAction, Transient
  <2> QED BY <1>2, <2>1, <2>2, <2>3
<1>5. OutcomeUnknown(c, r) \in BOOLEAN BY DEF OutcomeUnknown
<1> QED BY <1>1, <1>3, <1>4, <1>5

\* A call starts at time 0 with its first attempt.
LEMMA InitRetryInv == Init => RetryInv
<1> SUFFICES ASSUME Init PROVE RetryInv OBVIOUS
<1>1. client \in Clients /\ Timeout(client) \in Nat BY TimeoutNat DEF Init
<1>2. TypeOK
  <2>1. {now, wake} \subseteq Nat /\ attempt \in Nat \ {0} /\ delay \in 1..MaxDelay
    BY RetryAssumption DEF Init
  <2>2. uncertain \in BOOLEAN /\ result \in {None, "Ok", "Err"} BY DEF Init
  <2>3. phase \in {"calling", "sleeping", "done"} BY DEF Init
  <2> QED BY <1>1, <2>1, <2>2, <2>3 DEF TypeOK
<1>3. TimeInv BY <1>1, RetryAssumption DEF Init, TimeInv
<1>4. AttemptInv /\ UnknownEnds BY DEF Init, AttemptInv, UnknownEnds
<1> QED BY <1>2, <1>3, <1>4 DEF RetryInv

\* An attempt that ends, and what run makes of its answer.
LEMMA AttemptStep ==
    ASSUME RetryInv, NEW took \in 0..Timeout(client), NEW answer \in Answers[client],
           Attempt(took, answer)
    PROVE  RetryInv'
<1>0. /\ client \in Clients /\ phase = "calling" /\ uncertain = FALSE
      /\ Timeout(client) \in Nat
      /\ now \in Nat /\ took \in Nat /\ took <= Timeout(client)
      /\ now' = now + took /\ now' \in Nat
      /\ uncertain' = (uncertain \/ answer.unknown)
  BY TimeoutNat DEF RetryInv, TypeOK, UnknownEnds, Attempt
<1>1. /\ answer.action \in {"Success", "Retry", "Fatal"}
      /\ answer.unknown \in BOOLEAN
      /\ answer.unknown => answer.action = "Fatal"
  BY <1>0, UnknownIsFatal
<1>2. ASSUME NEW r \in {"Ok", "Err"}, Return(r) PROVE RetryInv'
  <2>1. phase' = "done" /\ result' = r /\ UNCHANGED <<client, attempt, delay, wake>>
    BY <1>2 DEF Return
  <2>2. Timeout(client)' = Timeout(client) BY <2>1 DEF Timeout
  <2>3. TypeOK' BY <1>0, <1>1, <2>1 DEF RetryInv, TypeOK
  <2>4. TimeInv'
    BY <1>0, <2>1, <2>2, RetryAssumption DEF RetryInv, TimeInv
  <2>5. AttemptInv' /\ UnknownEnds'
    BY <2>1 DEF RetryInv, AttemptInv, UnknownEnds
  <2> QED BY <2>3, <2>4, <2>5 DEF RetryInv
<1>3. CASE answer.action # "Retry"
  BY <1>1, <1>2, <1>3 DEF Attempt
<1>4. CASE answer.action = "Retry"
  <2>1. RetryOrGiveUp(now + took) /\ ~answer.unknown BY <1>1, <1>4 DEF Attempt
  <2>2. CASE ~(AttemptsLeft /\ BudgetLeft(now + took))
    BY <1>2, <2>1, <2>2 DEF RetryOrGiveUp
  <2>3. CASE AttemptsLeft /\ BudgetLeft(now + took)
    <3>1. /\ phase' = "sleeping" /\ wake' = now + took + SleepDuration(now + took)
          /\ UNCHANGED <<client, attempt, delay, result>>
      BY <2>1, <2>3 DEF RetryOrGiveUp
    <3>2. delay \in Nat BY RetryAssumption DEF RetryInv, TypeOK
    <3>3. /\ SleepDuration(now + took) \in Nat
          /\ OverallDeadline # None =>
               now + took + SleepDuration(now + took) <= OverallDeadline
      BY <1>0, <2>3, <3>2, RetryAssumption DEF SleepDuration, BudgetLeft, RetryMin
    <3>4. uncertain' = FALSE BY <1>0, <1>1, <2>1
    <3>5. TypeOK' BY <1>0, <3>1, <3>3, <3>4 DEF RetryInv, TypeOK
    <3>6. TimeInv'
      <4>1. Timeout(client)' = Timeout(client) BY <3>1 DEF Timeout
      <4> QED BY <1>0, <3>1, <3>3, <4>1, RetryAssumption DEF RetryInv, TimeInv
    <3>7. AttemptInv'
      BY <2>3, <3>1, RetryAssumption DEF RetryInv, TypeOK, AttemptInv, AttemptsLeft
    <3>8. UnknownEnds' BY <3>4 DEF UnknownEnds
    <3> QED BY <3>5, <3>6, <3>7, <3>8 DEF RetryInv
  <2> QED BY <2>2, <2>3
<1> QED BY <1>3, <1>4

\* The timer fires and the next attempt starts.
LEMMA WakeStep == ASSUME RetryInv, NEW late \in 0..Oversleep, Wake(late)
                  PROVE  RetryInv'
<1>1. /\ phase = "sleeping" /\ phase' = "calling" /\ wake \in Nat /\ wake' = 0
      /\ now' = wake + late /\ attempt' = attempt + 1 /\ attempt \in Nat \ {0}
      /\ delay \in 1..MaxDelay /\ delay' = RetryMin(2 * delay, MaxDelay)
      /\ UNCHANGED <<client, result, uncertain>>
      /\ late \in Nat /\ late <= Oversleep /\ Oversleep \in Nat /\ MaxDelay \in Nat
  BY RetryAssumption DEF RetryInv, TypeOK, Wake
<1>2. delay' \in 1..MaxDelay BY <1>1 DEF RetryMin
<1>3. TypeOK' BY <1>1, <1>2 DEF RetryInv, TypeOK
<1>4. TimeInv'
  <2>1. Timeout(client)' = Timeout(client) /\ Timeout(client) \in Nat
    BY <1>1, TimeoutNat DEF Timeout
  <2> QED BY <1>1, <2>1, RetryAssumption DEF RetryInv, TimeInv
<1>5. AttemptInv' BY <1>1 DEF RetryInv, AttemptInv
<1>6. UnknownEnds' BY <1>1 DEF RetryInv, UnknownEnds
<1> QED BY <1>3, <1>4, <1>5, <1>6 DEF RetryInv

\* Every step keeps the invariant.
LEMMA NextRetryInv == RetryInv /\ [Next]_vars => RetryInv'
<1> SUFFICES ASSUME RetryInv, [Next]_vars PROVE RetryInv' OBVIOUS
<1>1. CASE \E took \in 0..Timeout(client), answer \in Answers[client] : Attempt(took, answer)
  BY <1>1, AttemptStep
<1>2. CASE \E late \in 0..Oversleep : Wake(late) BY <1>2, WakeStep
<1>3. CASE UNCHANGED vars
  <2>1. TypeOK' BY <1>3 DEF RetryInv, TypeOK, vars
  <2>2. TimeInv' /\ AttemptInv' /\ UnknownEnds'
    BY <1>3 DEF RetryInv, TimeInv, AttemptInv, UnknownEnds, Timeout, vars
  <2> QED BY <2>1, <2>2 DEF RetryInv
<1> QED BY <1>1, <1>2, <1>3 DEF Next, Done

\* The inductive invariant holds at every moment of every call.
THEOREM RetryInvariant == Spec => []RetryInv
<1> QED BY InitRetryInv, NextRetryInv, PTL DEF Spec

\* For every policy: a call of run ends within the overall deadline plus one
\* request and one late timer, and with at most max_attempts attempts.
THEOREM CallBounded == Spec => []Bounded
<1>1. RetryInv => Bounded BY DEF RetryInv, TimeInv, AttemptInv, Bounded
<1> QED BY <1>1, RetryInvariant, PTL

\* For every policy: an operation whose outcome the peer reported as unknown is
\* never sent again.
THEOREM NeverResentBlindly == Spec => NoBlindResend
<1>1. RetryInv /\ [Next]_vars =>
        [uncertain => phase' # "calling" /\ attempt' = attempt]_vars
  <2> SUFFICES ASSUME RetryInv, Next, uncertain
               PROVE  (phase' # "calling" /\ attempt' = attempt) \/ UNCHANGED vars
    OBVIOUS
  <2>1. phase = "done" BY DEF RetryInv, UnknownEnds
  <2> QED BY <2>1 DEF Next, Attempt, Wake, Done
<1> QED BY <1>1, RetryInvariant, PTL DEF Spec, NoBlindResend

-----------------------------------------------------------------------------
(* The attempts run out before the budget does *)

\* The longest a round of an HTTP client takes: a request that times out, the
\* longest delay, and a timer that fires late.
Round == RequestTimeout + MaxDelay + Oversleep

\* Every round so far has taken at most that long.
PaceInv ==
    client # "bridge" =>
        /\ phase = "calling" => now <= (attempt - 1) * Round
        /\ phase = "sleeping" => wake + Oversleep <= attempt * Round

\* A policy like the default one: it limits the attempts, and the budget leaves
\* room for all of them but the last.
AmpleBudget ==
    /\ MaxAttempts \in Nat \ {0} /\ OverallDeadline \in Nat
    /\ (MaxAttempts - 1) * Round < OverallDeadline

\* Rounds add up.
LEMMA RoundSum ==
    /\ Round \in Nat
    /\ \A n \in Nat : n * Round \in Nat /\ (n + 1) * Round = n * Round + Round
    /\ \A m, n \in Nat : m <= n => m * Round <= n * Round
<1>1. Round \in Nat
  BY RetryAssumption DEF Round
<1>2. \A r, n \in Nat : n * r \in Nat /\ (n + 1) * r = n * r + r
  OBVIOUS
<1>3. \A r, m, n \in Nat : m <= n => m * r <= n * r
  OBVIOUS
<1> QED
  BY <1>1, <1>2, <1>3

\* Requests keep to their timeout and delays to their limit, so no step takes a
\* round longer than Round.
LEMMA NextPaceInv == RetryInv /\ PaceInv /\ [Next]_vars => PaceInv'
<1> SUFFICES ASSUME RetryInv, PaceInv, [Next]_vars, client' # "bridge" PROVE PaceInv'
  BY DEF PaceInv
<1>1. UNCHANGED client
  BY UnknownIsFatal
  DEF Next, Attempt, Return, RetryOrGiveUp, Wake, Done, vars, RetryInv, TypeOK
<1>2. /\ {now, wake, now', wake', Oversleep, RequestTimeout, MaxDelay} \subseteq Nat
      /\ attempt \in Nat \ {0} /\ delay \in 1..MaxDelay
  BY NextRetryInv, RetryAssumption DEF RetryInv, TypeOK
<1>3. CASE \E took \in 0..Timeout(client), answer \in Answers[client] : Attempt(took, answer)
  <2>1. PICK took \in 0..RequestTimeout :
          /\ phase = "calling" /\ phase' \in {"sleeping", "done"}
          /\ phase' = "sleeping" =>
               attempt' = attempt /\ wake' = now + took + SleepDuration(now + took)
               /\ BudgetLeft(now + took)
    BY <1>1, <1>3, UnknownIsFatal
    DEF Attempt, Return, RetryOrGiveUp, Timeout, RetryInv, TypeOK
  <2>2. BudgetLeft(now + took) => SleepDuration(now + took) \in Nat
                                  /\ SleepDuration(now + took) <= MaxDelay
    BY <1>2, <2>1, RetryAssumption DEF SleepDuration, RetryMin, BudgetLeft
  <2>3. now <= (attempt - 1) * Round
    BY <1>1, <2>1 DEF PaceInv
  <2>4. attempt * Round = (attempt - 1) * Round + Round /\ (attempt - 1) * Round \in Nat
    <3>1. attempt - 1 \in Nat /\ (attempt - 1) + 1 = attempt
      BY <1>2
    <3> QED
      BY <3>1, RoundSum
  <2>5. phase' = "sleeping" => wake' + Oversleep <= attempt * Round
    BY <1>2, <2>1, <2>2, <2>3, <2>4 DEF Round
  <2> QED
    BY <2>1, <2>5 DEF PaceInv
<1>4. CASE \E late \in 0..Oversleep : Wake(late)
  <2>1. PICK late \in 0..Oversleep : Wake(late)
    BY <1>4
  <2>2. /\ phase = "sleeping" /\ phase' = "calling"
        /\ now' = wake + late /\ attempt' - 1 = attempt
    BY <1>2, <2>1 DEF Wake
  <2>3. now' <= wake + Oversleep /\ wake + Oversleep <= attempt * Round
    BY <1>1, <1>2, <2>2 DEF PaceInv
  <2>4. attempt * Round \in Nat
    BY <1>2, RoundSum
  <2> QED
    BY <1>2, <2>2, <2>3, <2>4 DEF PaceInv
<1>5. CASE UNCHANGED vars
  BY <1>5 DEF vars, PaceInv
<1> QED
  BY <1>3, <1>4, <1>5 DEF Next, Done

\* For every policy whose budget leaves room for its attempts, as the default
\* one of the HTTP clients does: no attempt of theirs starts after the overall
\* deadline, so the number of attempts is what ends the call.
THEOREM AttemptsRunOutFirst ==
    ASSUME AmpleBudget
    PROVE  Spec => []AttemptsExhaustedFirst
<1>1. Init => PaceInv
  BY RoundSum DEF Init, PaceInv
<1>2. RetryInv /\ PaceInv => AttemptsExhaustedFirst
  <2> SUFFICES ASSUME RetryInv, PaceInv, phase = "calling", client # "bridge"
               PROVE  now < OverallDeadline
    BY DEF AttemptsExhaustedFirst
  <2>1. now \in Nat /\ attempt - 1 \in Nat /\ MaxAttempts - 1 \in Nat
        /\ attempt - 1 <= MaxAttempts - 1
    BY DEF RetryInv, TypeOK, AttemptInv, AmpleBudget
  <2>2. /\ (attempt - 1) * Round <= (MaxAttempts - 1) * Round
        /\ (attempt - 1) * Round \in Nat /\ (MaxAttempts - 1) * Round \in Nat
    BY <2>1, RoundSum
  <2>3. now <= (attempt - 1) * Round
    BY DEF PaceInv
  <2> QED
    BY <2>1, <2>2, <2>3 DEF AmpleBudget
<1> QED
  BY <1>1, <1>2, NextPaceInv, RetryInvariant, PTL DEF Spec

=============================================================================
