----------------------------- MODULE FirstStart -----------------------------
(***************************************************************************)
(* The first start of a pipeline: no checkpoint is in Redis, so             *)
(* initialize_checkpoint builds one from Electrs.  It reads the tip, then    *)
(* the last CacheSize headers up to the start height in parallel, two        *)
(* requests each, while the chain grows and is reorganised; initialize then  *)
(* compares the checkpoint with the bridge, and prepare_height reads the     *)
(* first block.  Nothing is saved before the first commit: a process that    *)
(* stops starts over.                                                        *)
(*                                                                         *)
(* A block's hash is a number that no other block has.                       *)
(***************************************************************************)
EXTENDS Integers, Sequences, FiniteSets

CONSTANTS
    None,
    CacheSize,     \* PSY_DOGE_BRIDGE_BLOCK_HASH_CACHE_SIZE
    Confirmations, \* required_confirmations
    StartHeights,  \* start heights the pipeline is configured with, or None
    BridgeHeight,  \* the height the bridge on Solana was initialised at
    MaxDepth,      \* the deepest reorganisation
    MaxTip,        \* bound: height of the chain
    MaxFaults      \* bound: reorganisations and failed requests

ASSUME FirstStartAssumption ==
    /\ {CacheSize, Confirmations, BridgeHeight, MaxDepth, MaxTip, MaxFaults} \subseteq Nat
    /\ CacheSize > 0 /\ BridgeHeight + 1 >= CacheSize
    /\ BridgeHeight + Confirmations <= MaxTip
    /\ StartHeights \subseteq Nat \cup {None} /\ None \notin Nat

VARIABLES
    \* Dogecoin, as Electrs shows it
    chain,    \* the hash at each height
    parent,   \* hash -> the hash it follows, orphans included
    \* Solana
    bridge,   \* the header the bridge was initialised with
    \* the process
    start_height, \* config.start_height
    pc,
    start,    \* the height chosen to start from
    replies,  \* height -> None, its hash, or its header
    state,    \* the checkpoint's state: [height, headers]
    target,   \* the hash of the block being read
    prepared, \* the block of the first request to the prover, or None
    faults

electrs == <<chain, parent>>
fixed == <<bridge, start_height>>
process == <<pc, start, replies, state, target, prepared>>
vars == <<electrs, fixed, process, faults>>

Tip == Len(chain) - 1
HashAt(h) == chain[h + 1]
Monus(a, b) == IF a >= b THEN a - b ELSE 0

\* What the bridge commits to when it is initialised at a height: the headers
\* its state caches.
HeadersUpTo(h) ==
    [k \in (h + 1 - CacheSize)..h |->
        [hash |-> HashAt(k), previous |-> IF k = 0 THEN None ELSE HashAt(k - 1)]]

Init ==
    /\ \E tip \in BridgeHeight..(BridgeHeight + Confirmations) :
          /\ chain = [i \in 1..(tip + 1) |-> i - 1]
          /\ parent = [b \in 0..tip |-> IF b = 0 THEN None ELSE b - 1]
    /\ bridge = [height |-> BridgeHeight, headers |-> HeadersUpTo(BridgeHeight)]
    /\ start_height \in StartHeights
    /\ pc = "down" /\ start = None /\ replies = << >> /\ state = None
    /\ target = None /\ prepared = None /\ faults = 0

Fault == faults < MaxFaults /\ faults' = faults + 1

NewHash == Cardinality(DOMAIN parent)

\* The chain keeps its first kept blocks and gets n new ones.
Extend(kept, n) ==
    LET old == SubSeq(chain, 1, kept)
        new == [i \in 1..n |-> NewHash + i - 1]
    IN  /\ chain' = old \o new
        /\ parent' = [b \in 0..(NewHash + n - 1) |->
              IF b < NewHash THEN parent[b]
              ELSE IF b = NewHash THEN (IF kept = 0 THEN None ELSE chain[kept])
              ELSE b - 1]

Mine ==
    /\ Tip < MaxTip
    /\ Extend(Len(chain), 1)
    /\ UNCHANGED <<fixed, process, faults>>

\* The block the bridge was initialised at stays on the chain.
Reorg(d) ==
    /\ d <= Tip - BridgeHeight /\ Tip < MaxTip /\ Fault
    /\ Extend(Len(chain) - d, d + 1)
    /\ UNCHANGED <<fixed, process>>

-----------------------------------------------------------------------------
(* DogeLinkElectrsAsyncClient *)

\* block/{hash}/header: an orphan may still be served, or not be found.
Served(hash) == hash \in DOMAIN parent

btc_block_header_to_qdoge(hash) == [hash |-> hash, previous |-> parent[hash]]

\* Of a block, only its place on the chain matters here: DepositTrees is about
\* its transactions.
btc_block_to_qdoge(hash) == [hash |-> hash, previous |-> parent[hash]]

Stop ==
    /\ pc' = "down" /\ start' = None /\ replies' = << >> /\ state' = None
    /\ target' = None /\ prepared' = None

\* A request fails for good: initialize, or poll_once, ends with the error.
RequestFails ==
    /\ pc \in {"tip", "headers", "poll", "block"} /\ Fault
    /\ Stop
    /\ UNCHANGED <<electrs, fixed>>

Start ==
    /\ pc = "down"
    /\ pc' = "tip"
    /\ UNCHANGED <<electrs, fixed, start, replies, state, target, prepared, faults>>

-----------------------------------------------------------------------------
(* initialize_checkpoint *)

CountsTipAsFinal == Tip
FinalizedTip == Monus(Tip, Confirmations)
IgnoresConfig == FinalizedTip

\* config.start_height.unwrap_or(finalized_tip)
ChosenStart == IF start_height = None THEN FinalizedTip ELSE start_height

CacheNotFull(h) == h <= FinalizedTip /\ h + 1 > CacheSize
StartAllowed(h) == h <= FinalizedTip /\ h + 1 >= CacheSize

ReadTip ==
    /\ pc = "tip" /\ StartAllowed(ChosenStart)
    /\ start' = ChosenStart
    /\ replies' = [h \in (ChosenStart + 1 - CacheSize)..ChosenStart |-> None]
    /\ pc' = "headers"
    /\ UNCHANGED <<electrs, fixed, state, target, prepared, faults>>

StartRefused ==
    /\ pc = "tip" /\ ~StartAllowed(ChosenStart)
    /\ Stop
    /\ UNCHANGED <<electrs, fixed, faults>>

\* get_qd_block_header of each height, all of them in flight: block-height/{h} ...
ReadHash(h) ==
    /\ pc = "headers" /\ replies[h] = None
    /\ replies' = [replies EXCEPT ![h] = [asked |-> HashAt(h)]]
    /\ UNCHANGED <<electrs, fixed, pc, start, state, target, prepared, faults>>

\* ... then block/{hash}/header
ReadHeader(h) ==
    /\ pc = "headers" /\ replies[h] # None /\ "asked" \in DOMAIN replies[h]
    /\ Served(replies[h].asked)
    /\ replies' = [replies EXCEPT ![h] = btc_block_header_to_qdoge(replies[h].asked)]
    /\ UNCHANGED <<electrs, fixed, pc, start, state, target, prepared, faults>>

Arrived == \A h \in DOMAIN replies : replies[h] # None /\ "hash" \in DOMAIN replies[h]

\* join_all, from_init_data, then assert_checkpoint_matches_chain: header_hex
\* is config.initial_header, the header the bridge on Solana still has.
BuildCheckpoint ==
    /\ pc = "headers" /\ Arrived
    /\ state' = [height |-> start, headers |-> replies]
    /\ pc' = "poll" /\ replies' = << >>
    /\ UNCHANGED <<electrs, fixed, start, target, prepared, faults>>

-----------------------------------------------------------------------------
(* poll_once and prepare_height, for the first block *)

\* get_block_height and the while condition, then block-height/{h}
PollTip ==
    /\ pc = "poll" /\ state.height < FinalizedTip
    /\ pc' = "block"
    /\ UNCHANGED <<electrs, fixed, start, replies, state, target, prepared, faults>>

ReadBlockHash ==
    /\ pc = "block" /\ target = None
    /\ target' = HashAt(state.height + 1)
    /\ UNCHANGED <<electrs, fixed, pc, start, replies, state, prepared, faults>>

\* "block does not extend checkpoint tip; reorg handling is out of scope"
ExtendsTip(b) == b.previous = state.headers[state.height].hash

ReadBlock ==
    /\ pc = "block" /\ target # None /\ Served(target)
    /\ LET b == btc_block_to_qdoge(target)
       IN  IF ExtendsTip(b)
           THEN /\ prepared' = b /\ pc' = "prepared"
                /\ UNCHANGED <<start, replies, state, target>>
           ELSE Stop
    /\ UNCHANGED <<electrs, fixed, faults>>

Next ==
    \/ Mine \/ \E d \in 1..MaxDepth : Reorg(d)
    \/ RequestFails \/ Start \/ ReadTip \/ StartRefused
    \/ \E h \in DOMAIN replies : ReadHash(h) \/ ReadHeader(h)
    \/ BuildCheckpoint \/ PollTip \/ ReadBlockHash \/ ReadBlock

\* The chain grows; the supervisor restarts the process, whose requests are
\* answered unless they fail.
Fairness ==
    /\ WF_vars(Mine)
    /\ WF_vars(Start \/ ReadTip \/ StartRefused \/ BuildCheckpoint \/ PollTip
               \/ ReadBlockHash \/ ReadBlock
               \/ \E h \in DOMAIN replies : ReadHash(h) \/ ReadHeader(h))

Spec == Init /\ [][Next]_vars /\ Fairness

-----------------------------------------------------------------------------
\* get_qd_block_headers_range_parallel: although each header is fetched on its
\* own, in two requests, between which the chain is reorganised, the headers
\* the state starts from are one chain and still are the chain Electrs shows.
CacheIsOneChain == state # None => state.headers = HeadersUpTo(state.height)

\* prepare_height: the first block proved is the one that follows the start
\* height, on the chain as it still is when the request is made.
FirstBlockIsNext ==
    pc = "prepared" => prepared.hash = HashAt(state.height + 1)

\* assert_checkpoint_matches_chain: "refusing to prove or submit from stale
\* off-chain state".  With the start height the README prescribes, the state a
\* proof starts from is the one the header on Solana commits to, although the
\* assertion compares the configured header and not the state.
ProvesFromBridgeState ==
    pc = "prepared" /\ start_height = BridgeHeight =>
        state.height = bridge.height /\ state.headers = bridge.headers

\* README: with DOGE_START_HEIGHT set to the bridge's checkpoint height, "the
\* pipeline ingests height+1 onward", however often its requests fail or the
\* tip is reorganised.
EventuallyIngests ==
    start_height = BridgeHeight => <>(pc = "prepared" /\ state.height = BridgeHeight)

-----------------------------------------------------------------------------
(* The inductive invariant behind the theorems of FirstStartProofs, for a     *)
(* chain whose reorganisations are not deeper than the confirmations waited   *)
(* for (MaxDepth <= Confirmations)                                            *)

\* No reorganisation reaches this height any more.
Settled(h) == h <= BridgeHeight \/ h + MaxDepth <= Tip

\* Hashes are given out in order, and each block of the chain follows the one
\* below it.
LinkInv ==
    /\ chain \in Seq(Nat) /\ Tip >= BridgeHeight
    /\ NewHash \in Nat /\ DOMAIN parent = 0..(NewHash - 1)
    /\ \A i \in 1..Len(chain) :
         /\ chain[i] \in 0..(NewHash - 1)
         /\ parent[chain[i]] = IF i = 1 THEN None ELSE chain[i - 1]

BridgeInv == bridge = [height |-> BridgeHeight, headers |-> HeadersUpTo(BridgeHeight)]

Running == {"headers", "poll", "block", "prepared"}

\* The height a run starts from is settled, and the configured one if there is
\* one.
StartInv ==
    /\ start_height \in Nat \cup {None}
    /\ pc \in Running =>
         /\ start \in Nat /\ start + 1 >= CacheSize /\ start <= Tip /\ Settled(start)
         /\ start_height # None => start = start_height

\* Each reply that has arrived is still what Electrs would answer.
ReplyInv ==
    pc = "headers" =>
        /\ replies = [h \in (start + 1 - CacheSize)..start |-> replies[h]]
        /\ \A h \in DOMAIN replies :
             replies[h] \in {None, [asked |-> HashAt(h)], HeadersUpTo(start)[h]}

StateInv ==
    IF pc \in Running \ {"headers"}
    THEN state = [height |-> start, headers |-> HeadersUpTo(start)]
    ELSE state = None

\* So is the first block, whose height is settled as well.
BlockInv ==
    /\ pc \in {"block", "prepared"} => start + 1 <= Tip /\ Settled(start + 1)
    /\ pc \notin {"block", "prepared"} => target = None
    /\ pc = "block" => target \in {None, HashAt(start + 1)}
    /\ pc = "prepared" => prepared.hash = HashAt(start + 1)

FirstInv == LinkInv /\ BridgeInv /\ StartInv /\ ReplyInv /\ StateInv /\ BlockInv

=============================================================================
