------------------------- MODULE LocalProverProofs -------------------------
(***************************************************************************)
(* Proofs about LocalProver, for any set of requests, any channel capacity *)
(* and any number of daemon failures: typing, the pipes between requests,  *)
(* the lost daemon, and the refinement of ProofService.                    *)
(***************************************************************************)
EXTENDS LocalProver, TLAPS

---------------------------------------------------------------------------
(* Lists of one element, and the daemon's values *)

\* A pipe with one entry.
LEMMA OneEntry ==
    ASSUME NEW S, NEW x \in S
    PROVE  /\ Append(<< >>, x) = <<x>> /\ Head(<<x>>) = x /\ Tail(<<x>>) = << >>
           /\ <<x>> # << >> /\ <<x>> \in Seq(S) /\ << >> \in Seq(S)
OBVIOUS

\* A daemon as it is started, and one whose pipes have changed.
LEMMA DaemonTypes ==
    /\ Fresh \in Daemon /\ Fresh # None
    /\ Fresh.stdin = << >> /\ Fresh.stdout = << >>
    /\ \A d \in Daemon : /\ d # None
                         /\ d.mode \in {"up", "dead", "hung"}
                         /\ d.stdin \in Seq(Jobs) /\ d.stdout \in Seq(Line)
<1>1. Fresh \in Daemon
  BY OneEntry DEF Fresh, Daemon
<1> QED
  BY <1>1, NoneAssumption DEF Fresh, Daemon

\* The request is the only thing in the pipes after it is written.
LEMMA WrittenFacts ==
    ASSUME NEW d \in Daemon, NEW j \in Jobs, d.stdin = << >>, d.stdout = << >>
    PROVE  /\ Written(d, j) \in Daemon
           /\ Written(d, j).stdin = <<j>> /\ Written(d, j).stdout = << >>
<1>1. Append(d.stdin, j) = <<j>> /\ <<j>> \in Seq(Jobs)
  BY OneEntry
<1>2. Written(d, j) = [d EXCEPT !.stdin = <<j>>]
  BY <1>1 DEF Written
<1> QED
  BY <1>1, <1>2 DEF Daemon

---------------------------------------------------------------------------
(* Steps *)

\* The queue of requests without its head.
LEMMA TailFacts ==
    ASSUME LocalInv, chan # << >>
    PROVE  /\ Tail(chan) \in Seq(Jobs) /\ Len(Tail(chan)) <= Window
           /\ Head(chan) \in Jobs /\ status[Head(chan)] = "queued"
           /\ \A i \in DOMAIN Tail(chan) : i + 1 \in DOMAIN chan /\ Tail(chan)[i] = chan[i + 1]
           /\ \A i \in DOMAIN Tail(chan) : Tail(chan)[i] # Head(chan)
           /\ \A i, k \in DOMAIN Tail(chan) : Tail(chan)[i] = Tail(chan)[k] => i = k
<1> DEFINE n == Len(chan)
<1>1. chan \in Seq(Jobs) /\ n \in Nat /\ n > 0 /\ n <= Window /\ Window \in Nat
  BY LocalAssumption DEF LocalInv, TypeOK
<1>2. /\ DOMAIN chan = 1..n /\ DOMAIN Tail(chan) = 1..n - 1 /\ Len(Tail(chan)) = n - 1
      /\ Tail(chan) \in Seq(Jobs) /\ Head(chan) = chan[1] /\ Head(chan) \in Jobs
  BY <1>1
<1>3. \A i \in 1..n - 1 : i + 1 \in 1..n /\ i + 1 # 1 /\ Tail(chan)[i] = chan[i + 1]
  BY <1>1
<1>4. 1 \in 1..n
  BY <1>1
<1>5. \A i, k \in 1..n : chan[i] = chan[k] => i = k
  BY <1>2 DEF LocalInv, RequestInv
<1>6. status[chan[1]] = "queued"
  BY <1>2, <1>4 DEF LocalInv, RequestInv
<1> HIDE DEF n
<1>7. \A i, k \in 1..n - 1 : Tail(chan)[i] = Tail(chan)[k] => i = k
  <2> SUFFICES ASSUME NEW i \in 1..n - 1, NEW k \in 1..n - 1,
                      Tail(chan)[i] = Tail(chan)[k]
               PROVE  i = k
    OBVIOUS
  <2>1. i + 1 = k + 1
    BY <1>3, <1>5
  <2> QED
    BY <1>1, <2>1
<1> QED
  BY <1>1, <1>2, <1>3, <1>4, <1>5, <1>6, <1>7

\* The request in hand, or taken from the channel, is answered: the pipes of a
\* daemon that is kept are empty, and one is given up only with an error.
LEMMA AnswerInv ==
    ASSUME LocalInv, NEW j \in Jobs, NEW st \in {"valid", "failed"},
           NEW d \in Daemon \cup {None}, Answer(j, st, d),
           d # None => d.stdin = << >> /\ d.stdout = << >>,
           d = None => st = "failed",
           \/ UNCHANGED chan /\ InHand /\ j = cur
           \/ chan # << >> /\ j = Head(chan) /\ chan' = Tail(chan),
           faults' \in 0..MaxFaults
    PROVE  LocalInv'
<1>1. /\ status' = [status EXCEPT ![j] = st]
      /\ task' = "idle" /\ cur' = None /\ daemon' = d
  BY DEF Answer
<1>2. status'[j] = st /\ \A i \in Jobs : i # j => status'[i] = status[i]
  BY <1>1 DEF LocalInv, TypeOK
<1>3. /\ chan' \in Seq(Jobs) /\ Len(chan') <= Window
      /\ \A i \in DOMAIN chan' : /\ status[chan'[i]] = "queued" /\ chan'[i] # j
                                 /\ chan'[i] \in Jobs
      /\ \A i, k \in DOMAIN chan' : chan'[i] = chan'[k] => i = k
  <2>1. CASE UNCHANGED chan /\ InHand /\ j = cur
    BY <2>1 DEF LocalInv, TypeOK, RequestInv
  <2>2. CASE chan # << >> /\ j = Head(chan) /\ chan' = Tail(chan)
    BY <2>2, TailFacts DEF LocalInv, TypeOK, RequestInv
  <2> QED
    BY <2>1, <2>2
<1>4. TypeOK'
  BY <1>1, <1>3 DEF LocalInv, TypeOK
<1>5. RequestInv' /\ PipeInv'
  BY <1>1, <1>2, <1>3 DEF RequestInv, PipeInv, InHand, Proving
<1>6. InSync' /\ LostDaemonReported'
  BY <1>1, <1>2 DEF InSync, LostDaemonReported
<1> QED
  BY <1>4, <1>5, <1>6 DEF LocalInv

\* An attempt fails: the daemon is gone, and the request is tried once more or
\* answered with an error.
LEMMA AttemptFailsInv ==
    ASSUME LocalInv, Proving, AttemptFails, UNCHANGED chan, faults' \in 0..MaxFaults
    PROVE  LocalInv'
<1>1. CASE task = "first"
  <2>1. task' = "restart" /\ daemon' = None /\ UNCHANGED <<status, cur, chan>>
    BY <1>1 DEF AttemptFails
  <2>2. TypeOK'
    BY <2>1 DEF LocalInv, TypeOK
  <2> QED
    BY <1>1, <2>1, <2>2
    DEF LocalInv, RequestInv, PipeInv, InSync, LostDaemonReported, InHand, Proving
<1>2. CASE task # "first"
  <2>1. Answer(cur, "failed", None) /\ InHand /\ cur \in Jobs
    BY <1>2 DEF AttemptFails, Proving, InHand, LocalInv, RequestInv
  <2> QED
    BY <2>1, AnswerInv
<1> QED
  BY <1>1, <1>2

\* What is in the pipes of a daemon that is waited for, when it has written.
LEMMA LineFacts ==
    ASSUME LocalInv, Proving, daemon.stdout # << >>
    PROVE  /\ daemon \in Daemon /\ cur \in Jobs /\ daemon.stdin = << >>
           /\ Head(daemon.stdout).id = cur
           /\ Tail(daemon.stdout) = << >>
           /\ [daemon EXCEPT !.stdout = Tail(@)] \in Daemon
           /\ [daemon EXCEPT !.stdout = Tail(@)].stdin = << >>
           /\ [daemon EXCEPT !.stdout = Tail(@)].stdout = << >>
<1>1. daemon \in Daemon /\ cur \in Jobs
  BY DEF LocalInv, TypeOK, PipeInv, RequestInv, Proving, InHand
<1>2. PICK k \in LineKind : /\ daemon.stdin = << >>
                            /\ daemon.stdout = <<[id |-> cur, kind |-> k]>>
  BY DEF LocalInv, PipeInv
<1>3. Head(daemon.stdout) = [id |-> cur, kind |-> k] /\ Tail(daemon.stdout) = << >>
  BY <1>2
<1>4. << >> \in Seq(Line)
  OBVIOUS
<1>5. [daemon EXCEPT !.stdout = Tail(@)] = [daemon EXCEPT !.stdout = << >>]
  BY <1>3
<1> QED
  BY <1>1, <1>2, <1>3, <1>4, <1>5 DEF Daemon

\* Submitting a request.
LEMMA SubmitInv ==
    ASSUME LocalInv, NEW j \in Jobs, Submit(j)
    PROVE  LocalInv'
<1> DEFINE n == Len(chan)
<1>1. /\ task # "stopped" /\ status[j] = None /\ n < Window
      /\ chan' = Append(chan, j) /\ status' = [status EXCEPT ![j] = "queued"]
      /\ UNCHANGED <<task, cur, daemon, faults>>
  BY DEF Submit, HasRoom
<1>2. TypeOK /\ chan \in Seq(Jobs) /\ n \in Nat /\ Window \in Nat
  BY LocalAssumption DEF LocalInv, TypeOK
<1>3. /\ DOMAIN chan = 1..n /\ DOMAIN chan' = 1..n + 1 /\ chan'[n + 1] = j
      /\ chan' \in Seq(Jobs) /\ Len(chan') = n + 1
      /\ \A i \in 1..n : chan'[i] = chan[i] /\ chan[i] \in Jobs
  BY <1>1, <1>2
<1>4. \A i \in 1..n : status[chan[i]] = "queued" /\ chan[i] # j
  BY <1>1, <1>3, NoneAssumption DEF LocalInv, RequestInv
<1>5. \A i, k \in 1..n : chan[i] = chan[k] => i = k
  BY <1>3 DEF LocalInv, RequestInv
<1>6. status'[j] = "queued" /\ \A i \in Jobs : i # j => status'[i] = status[i]
  BY <1>1, <1>2 DEF TypeOK
<1>7. InHand => cur \in Jobs /\ cur # j /\ \A i \in 1..n : chan[i] # cur
  BY <1>1, <1>3, NoneAssumption DEF LocalInv, RequestInv
<1>8. TypeOK'
  BY <1>1, <1>2, <1>3 DEF TypeOK
<1> HIDE DEF n
<1>9. \A i \in 1..n + 1 : i \in 1..n \/ i = n + 1
  BY <1>2
<1>10. RequestInv'
  <2>1. \A i \in DOMAIN chan' : status'[chan'[i]] = "queued"
    BY <1>3, <1>4, <1>6, <1>9
  <2>2. \A i, k \in DOMAIN chan' : chan'[i] = chan'[k] => i = k
    BY <1>3, <1>4, <1>5, <1>9
  <2>3. InHand => /\ cur \in Jobs /\ status'[cur] = "queued"
                  /\ \A i \in DOMAIN chan' : chan'[i] # cur
    BY <1>3, <1>6, <1>7, <1>9 DEF LocalInv, RequestInv
  <2> QED
    BY <1>1, <2>1, <2>2, <2>3 DEF RequestInv, InHand
<1>11. PipeInv' /\ InSync'
  BY <1>1 DEF LocalInv, PipeInv, InSync, Proving
<1>12. LostDaemonReported'
  BY <1>1, <1>6, NoneAssumption DEF LocalInv, LostDaemonReported
<1> QED
  BY <1>8, <1>10, <1>11, <1>12 DEF LocalInv

\* The task takes the next request.
LEMMA TakeInv ==
    ASSUME LocalInv, TakeRequest \/ PrepareFails
    PROVE  LocalInv'
<1>1. task = "idle" /\ chan # << >> /\ chan' = Tail(chan)
  BY DEF TakeRequest, PrepareFails
<1>2. daemon \in Daemon \cup {None} /\ faults \in 0..MaxFaults /\ faults' \in 0..MaxFaults
  BY LocalAssumption DEF LocalInv, TypeOK, TakeRequest, PrepareFails, Fault
<1>3. daemon # None => daemon.stdin = << >> /\ daemon.stdout = << >>
  BY <1>1 DEF LocalInv, InSync
<1>4. Head(chan) \in Jobs
  BY <1>1, TailFacts
<1>5. CASE Answer(Head(chan), "failed", daemon)
  BY <1>1, <1>2, <1>3, <1>4, <1>5, AnswerInv
<1>6. CASE daemon # None /\ TakeRequest
  <2>1. /\ task' = "first" /\ cur' = Head(chan)
        /\ daemon' = Written(daemon, Head(chan)) /\ UNCHANGED <<status, faults>>
    BY <1>6 DEF TakeRequest
  <2>2. /\ daemon' \in Daemon /\ daemon' # None
        /\ daemon'.stdin = <<cur'>> /\ daemon'.stdout = << >>
    BY <1>2, <1>3, <1>4, <1>6, <2>1, WrittenFacts, DaemonTypes
  <2>3. /\ chan' \in Seq(Jobs) /\ Len(chan') <= Window /\ status[cur'] = "queued"
        /\ \A i \in DOMAIN chan' : chan'[i] # cur' /\ status[chan'[i]] = "queued"
        /\ \A i, k \in DOMAIN chan' : chan'[i] = chan'[k] => i = k
    BY <1>1, <2>1, TailFacts DEF LocalInv, RequestInv
  <2>4. TypeOK'
    BY <1>2, <1>4, <2>1, <2>2, <2>3 DEF LocalInv, TypeOK
  <2>5. RequestInv'
    BY <1>4, <2>1, <2>3 DEF RequestInv, InHand
  <2>6. PipeInv' /\ InSync' /\ LostDaemonReported'
    BY <2>1, <2>2 DEF PipeInv, InSync, LostDaemonReported, Proving
  <2> QED
    BY <2>4, <2>5, <2>6 DEF LocalInv
<1> QED
  BY <1>5, <1>6 DEF TakeRequest, PrepareFails

\* A line is read. It is always the answer to the request in hand.
LEMMA ReadLineInv ==
    ASSUME LocalInv, ReadLine
    PROVE  LocalInv'
<1> DEFINE rest == [daemon EXCEPT !.stdout = Tail(@)]
<1>1. Proving /\ daemon.stdout # << >> /\ UNCHANGED <<chan, faults>>
  BY DEF ReadLine
<1>2. /\ rest \in Daemon /\ rest # None /\ rest.stdin = << >> /\ rest.stdout = << >>
      /\ cur \in Jobs
  BY <1>1, LineFacts, DaemonTypes
<1>3. InHand /\ faults' \in 0..MaxFaults
  BY <1>1 DEF Proving, InHand, LocalInv, TypeOK
<1>4. CASE AttemptFails
  BY <1>1, <1>3, <1>4, AttemptFailsInv
<1>5. CASE Proved(rest)
  BY <1>1, <1>2, <1>3, <1>5, AnswerInv DEF Proved
<1>6. CASE RequestFails(rest)
  BY <1>1, <1>2, <1>3, <1>6, AnswerInv DEF RequestFails
<1> QED
  BY <1>4, <1>5, <1>6 DEF ReadLine

\* The daemon works, or breaks.
LEMMA DaemonInv ==
    ASSUME LocalInv,
           RespondsWell \/ RespondsBadly \/ \E mode \in {"dead", "hung"} : Breaks(mode)
    PROVE  LocalInv'
<1>1. /\ daemon \in Daemon /\ UNCHANGED <<status, chan, task, cur>>
      /\ faults' \in 0..MaxFaults
  BY LocalAssumption
  DEF RespondsWell, RespondsBadly, Respond, Breaks, Fault, LocalInv, TypeOK
<1>2. CASE \E mode \in {"dead", "hung"} : Breaks(mode)
  <2>1. PICK mode \in {"dead", "hung"} : daemon' = [daemon EXCEPT !.mode = mode]
    BY <1>2 DEF Breaks
  <2>2. /\ daemon' \in Daemon /\ daemon' # None
        /\ daemon'.stdin = daemon.stdin /\ daemon'.stdout = daemon.stdout
    BY <1>1, <2>1, NoneAssumption DEF Daemon
  <2>3. daemon # None
    BY <1>1, DaemonTypes
  <2>4. TypeOK' /\ RequestInv'
    BY <1>1, <2>2 DEF LocalInv, TypeOK, RequestInv, InHand
  <2>5. PipeInv' /\ InSync' /\ LostDaemonReported'
    BY <1>1, <2>2, <2>3
    DEF LocalInv, PipeInv, InSync, LostDaemonReported, Proving
  <2> QED
    BY <2>4, <2>5 DEF LocalInv
<1>3. CASE \E k \in LineKind : Respond(k)
  <2>1. PICK k \in LineKind :
          /\ daemon # None /\ daemon.stdin # << >>
          /\ daemon' = [daemon EXCEPT !.stdin = Tail(@),
                 !.stdout = Append(@, [id |-> Head(daemon.stdin), kind |-> k])]
    BY <1>3 DEF Respond
  <2>2. Tail(daemon.stdin) \in Seq(Jobs) /\ Head(daemon.stdin) \in Jobs
    BY <1>1, <2>1, DaemonTypes
  <2>3. Append(daemon.stdout, [id |-> Head(daemon.stdin), kind |-> k]) \in Seq(Line)
    <3> DEFINE line == [id |-> Head(daemon.stdin), kind |-> k]
    <3>1. line \in Line
      BY <2>1, <2>2 DEF Line
    <3>2. daemon.stdout \in Seq(Line)
      BY <1>1, DaemonTypes
    <3> HIDE DEF line
    <3>3. Append(daemon.stdout, line) \in Seq(Line)
      BY <3>1, <3>2
    <3> QED
      BY <3>3 DEF line
  <2>4. /\ daemon' \in Daemon /\ daemon'.stdin = Tail(daemon.stdin)
        /\ daemon'.stdout = Append(daemon.stdout,
                                   [id |-> Head(daemon.stdin), kind |-> k])
    BY <1>1, <2>1, <2>2, <2>3 DEF Daemon
  <2>5. daemon' # None
    BY <2>4, DaemonTypes
  <2>6. task # "idle" /\ task # "restart"
    BY <2>1 DEF LocalInv, InSync, PipeInv
  <2>7. ASSUME Proving PROVE daemon.stdin = <<cur>> /\ daemon.stdout = << >> /\ cur \in Jobs
    BY <2>1, <2>7 DEF LocalInv, PipeInv, RequestInv, Proving, InHand
  <2>8. ASSUME Proving
        PROVE  daemon'.stdin = << >> /\ daemon'.stdout = <<[id |-> cur, kind |-> k]>>
    <3>1. Head(daemon.stdin) = cur /\ Tail(daemon.stdin) = << >>
      BY <2>7, <2>8, OneEntry
    <3> DEFINE line == [id |-> cur, kind |-> k]
    <3>2. daemon'.stdout = Append(<< >>, line)
      BY <2>4, <2>7, <2>8, <3>1
    <3> HIDE DEF line
    <3>3. Append(<< >>, line) = <<line>>
      BY OneEntry
    <3>4. daemon'.stdout = <<line>>
      BY <3>2, <3>3
    <3> QED
      BY <2>4, <3>1, <3>4 DEF line
  <2>9. PipeInv' /\ InSync' /\ LostDaemonReported'
    BY <1>1, <2>5, <2>6, <2>8
    DEF PipeInv, InSync, LostDaemonReported, Proving
  <2>10. TypeOK' /\ RequestInv'
    BY <1>1, <2>4 DEF LocalInv, TypeOK, RequestInv, InHand
  <2> QED
    BY <2>9, <2>10 DEF LocalInv
<1> QED
  BY <1>2, <1>3 DEF RespondsWell, RespondsBadly, LineKind

\* Every step keeps the invariant.
LEMMA NextInv ==
    ASSUME LocalInv, [Next]_vars
    PROVE  LocalInv'
<1>1. faults \in 0..MaxFaults /\ (Fault => faults' \in 0..MaxFaults)
  BY LocalAssumption DEF LocalInv, TypeOK, Fault
<1>2. CASE UNCHANGED vars
  BY <1>2
  DEF vars, LocalInv, TypeOK, RequestInv, PipeInv, InSync, LostDaemonReported, InHand,
      Proving
<1>3. CASE ReadEof \/ Deadline \/ DeadlineTooEarly
  BY <1>1, <1>3, AttemptFailsInv DEF ReadEof, Deadline, DeadlineTooEarly
<1>4. CASE RestartDaemon
  <2>1. /\ task = "restart" /\ task' = "retry" /\ daemon' = Written(Fresh, cur)
        /\ UNCHANGED <<status, chan, cur, faults>>
    BY <1>4 DEF RestartDaemon
  <2>2. cur \in Jobs
    BY <2>1 DEF LocalInv, RequestInv, InHand
  <2>3. /\ daemon' \in Daemon /\ daemon' # None
        /\ daemon'.stdin = <<cur>> /\ daemon'.stdout = << >>
    BY <2>1, <2>2, WrittenFacts, DaemonTypes
  <2>4. TypeOK' /\ RequestInv'
    BY <2>1, <2>3 DEF LocalInv, TypeOK, RequestInv, InHand
  <2>5. PipeInv' /\ InSync' /\ LostDaemonReported'
    BY <2>1, <2>3 DEF PipeInv, InSync, LostDaemonReported, Proving
  <2> QED
    BY <2>4, <2>5 DEF LocalInv
<1>5. CASE RestartFails
  <2>1. Answer(cur, "failed", None) /\ InHand /\ cur \in Jobs /\ UNCHANGED chan
        /\ faults' \in 0..MaxFaults
    BY <1>1, <1>5 DEF RestartFails, InHand, LocalInv, RequestInv
  <2> QED
    BY <2>1, AnswerInv
<1>6. CASE Shutdown
  <2>1. /\ task' = "stopped" /\ daemon' = None /\ chan' = << >>
        /\ UNCHANGED <<status, cur, faults>>
    BY <1>6 DEF Shutdown
  <2>2. TypeOK'
    BY <2>1, LocalAssumption DEF LocalInv, TypeOK
  <2> QED
    BY <2>1, <2>2
    DEF LocalInv, RequestInv, PipeInv, InSync, LostDaemonReported, InHand, Proving
<1> QED
  BY <1>2, <1>3, <1>4, <1>5, <1>6, SubmitInv, TakeInv, ReadLineInv, DaemonInv
  DEF Next, RunLocalJob

---------------------------------------------------------------------------
(* Theorems *)

\* The inductive invariant of the local backend, for any requests and any number
\* of daemon failures: while a daemon is waited for, its pipes hold the request
\* in hand and nothing else.
THEOREM LocalInvariant == Spec => []LocalInv
<1>1. Init => LocalInv
  <2> SUFFICES ASSUME Init PROVE LocalInv
    OBVIOUS
  <2>1. TypeOK
    BY DaemonTypes, LocalAssumption DEF Init, TypeOK
  <2>2. RequestInv
    <3>1. DOMAIN chan = {} /\ task = "idle"
      BY DEF Init
    <3> QED
      BY <3>1 DEF RequestInv, InHand
  <2>3. PipeInv /\ InSync /\ LostDaemonReported
    BY DaemonTypes DEF Init, PipeInv, InSync, LostDaemonReported, Proving
  <2> QED
    BY <2>1, <2>2, <2>3 DEF LocalInv
<1>2. LocalInv /\ [Next]_vars => LocalInv'
  BY NextInv
<1> QED
  BY <1>1, <1>2, PTL DEF Spec

\* Channel, task and daemon hold values of their kinds, and the channel never
\* exceeds its capacity.
THEOREM TypeCorrect == Spec => []TypeOK
<1>1. LocalInv => TypeOK
  BY DEF LocalInv
<1> QED
  BY <1>1, LocalInvariant, PTL

\* Between two requests the daemon's pipes are empty: whatever was late, lost or
\* malformed before, the next request reads its own answer.
THEOREM PipesInSync == Spec => []InSync
<1>1. LocalInv => InSync
  BY DEF LocalInv
<1> QED
  BY <1>1, LocalInvariant, PTL

\* The backend never loses its daemon silently: some request was answered with
\* an error before.
THEOREM LostDaemonIsReported == Spec => []LostDaemonReported
<1>1. LocalInv => LostDaemonReported
  BY DEF LocalInv
<1> QED
  BY <1>1, LocalInvariant, PTL

\* Every answer is of a request that was waiting for one.
LEMMA ServiceStep ==
    ASSUME LocalInv, [Next]_vars
    PROVE  [Service!Next]_status
<1>1. ASSUME NEW j \in Jobs, status[j] = "queued", NEW st \in {"valid", "failed"},
             status' = [status EXCEPT ![j] = st]
      PROVE  Service!Next
  BY <1>1 DEF Service!Next, Service!Answer
<1>2. InHand => cur \in Jobs /\ status[cur] = "queued"
  BY DEF LocalInv, RequestInv
<1>3. chan # << >> => Head(chan) \in Jobs /\ status[Head(chan)] = "queued"
  BY TailFacts
<1>4. CASE \E j \in Jobs : Submit(j)
  BY <1>4 DEF Submit, Service!Next, Service!Submit
<1>5. CASE TakeRequest \/ PrepareFails
  BY <1>1, <1>3, <1>5 DEF TakeRequest, PrepareFails, Answer
<1>6. CASE ReadLine \/ ReadEof \/ Deadline \/ DeadlineTooEarly \/ RestartFails
  <2>1. InHand
    BY <1>6
    DEF ReadLine, ReadEof, Deadline, DeadlineTooEarly, RestartFails, Proving, InHand
  <2>2. \/ UNCHANGED status
        \/ \E st \in {"valid", "failed"} : status' = [status EXCEPT ![cur] = st]
    BY <1>6
    DEF ReadLine, ReadEof, Deadline, DeadlineTooEarly, RestartFails, AttemptFails,
        Proved, RequestFails, Answer
  <2> QED
    BY <1>1, <1>2, <2>1, <2>2
<1>7. CASE \/ RestartDaemon \/ Shutdown \/ RespondsWell \/ RespondsBadly
           \/ \E mode \in {"dead", "hung"} : Breaks(mode)
           \/ UNCHANGED vars
  BY <1>7 DEF RestartDaemon, Shutdown, RespondsWell, RespondsBadly, Respond, Breaks, vars
<1> QED
  BY <1>4, <1>5, <1>6, <1>7 DEF Next, RunLocalJob

\* Within one run of the process the local backend is the prover the pipeline
\* is modelled with: a request is answered at most once, and the answer stays,
\* although a failed attempt is repeated with another daemon.
THEOREM LocalRefinesService == Spec => ServiceRefined
<1>1. Init => Service!Init
  BY DEF Init, Service!Init
<1>2. LocalInv /\ [Next]_vars => [Service!Next]_status
  BY ServiceStep
<1> QED
  BY <1>1, <1>2, LocalInvariant, PTL DEF Spec, ServiceRefined, Service!Spec
=============================================================================
