---------------------------- MODULE DepositTrees ----------------------------
(***************************************************************************)
(* What prepare_height computes from a block: the deposits it finds, the   *)
(* claim witness, the mint and TXO buffers, and the two Merkle frontiers   *)
(* of the next checkpoint, with the histories they are rebuilt from.  One  *)
(* step is one attempt at the next height; a refused attempt changes       *)
(* nothing.  BlockPipeline models everything else that prepare_height and  *)
(* commit_prepared do; the prover guest, the transition builder and the    *)
(* bridge state are libraries and external.                                *)
(***************************************************************************)
EXTENDS MerkleTrees, FiniteSets

CONSTANTS
    None,
    recipient_atas,   \* the configured recipients, in order
    StartHeights,     \* start heights initialize_checkpoint is run with
    HistoryLimit,     \* 1_000_000 in the code
    ClaimHeight,      \* AUTO_CLAIM_DEPOSITS_TREE_HEIGHT
    TxoHeight,        \* TXO_TREE_INDEX_BITS_BLOCK_NUM_LENGTH
    LeafHeight,       \* TXO_BLOCK_FULL_MERKLE_TREE_HEIGHT
    required_confirmations,
    Fee,              \* what calcuate_fee takes from a deposit
    MaxTransactions,  \* external: the indices combined_txo_index has a place
    MaxOutputs,       \* for, of transactions and of their outputs
    Shapes,           \* the blocks Dogecoin may mine: sequences of
                      \* transactions, each a sequence of [script, value]
    MaxBlocks         \* bound: blocks accepted

ASSUME TreesAssumption ==
    /\ {HistoryLimit, ClaimHeight, TxoHeight, LeafHeight} \subseteq Nat
    /\ {Fee, MaxTransactions, MaxOutputs} \subseteq Nat
    /\ StartHeights \subseteq Nat
    /\ required_confirmations \in Nat \ {0} /\ MaxBlocks \in Nat
    /\ recipient_atas \in Seq(Int)
    /\ IsInjective(recipient_atas)  \* validate_config: no duplicate ATA
    \* A block has a coinbase transaction.
    /\ Shapes \subseteq Seq(Seq([script : Int, value : Int])) \ {<< >>}

\* The trees have a place for every history and every height; a frontier beyond
\* its tree is refused, whatever the block.
ASSUME CapacityAssumption ==
    /\ HistoryLimit > 0 => Shr(HistoryLimit - 1, ClaimHeight) = 0
    /\ \A height \in StartHeights : Shr(height + MaxBlocks, TxoHeight) = 0

VARIABLES
    start,      \* the start height
    checkpoint, \* PipelineCheckpoint
    tip,        \* external: the bridge state's tip record, with the leaves of
                \* the two trees whose roots it holds
    sources,    \* history: the blocks whose buffers wait for finalization, as
                \* each was mined and as it was answered
    owed,       \* history: the deposits of the blocks that were mined
    repeated,   \* history: a list that repeats its tail was accepted
    last        \* history: the last attempt

vars == <<start, checkpoint, tip, sources, owed, repeated, last>>

-----------------------------------------------------------------------------
(* Blocks.  A transaction's hash is its id; the custody output script of a   *)
(* recipient is that recipient.                                              *)

Mined(height, shape) ==
    LET txs == [i \in DOMAIN shape |-> [id |-> 10 * height + i, outputs |-> shape[i]]]
    IN  [merkle_root |-> bitcoin_merkle_root([i \in DOMAIN txs |-> <<txs[i].id>>]),
         transactions |-> txs]

\* The block, and the block with a tail of its list repeated: Bitcoin's tree
\* pairs the odd element out with itself, so some of these have the mined root.
AsMined(block) ==
    LET txs == block.transactions
    IN  {block} \cup {[block EXCEPT !.transactions = txs \o SubSeq(txs, k, Len(txs))] :
                         k \in DOMAIN txs}

\* External: what Electrs may answer, under the header that was mined.
Answers(block) ==
    LET txs == block.transactions
        as(s) == [block EXCEPT !.transactions = s]
    IN  AsMined(block) \cup {as(<< >>), as(Front(txs))}
        \cup IF Len(txs) > 1 THEN {as(<<txs[2], txs[1]>> \o SubSeq(txs, 3, Len(txs)))}
                             ELSE {}

RecipientOf(output) == SelectInSeq(recipient_atas, LAMBDA ata : ata = output.script)

LastOutputOnly(tx) ==
    LET j == Len(tx.outputs)
    IN  IF RecipientOf(tx.outputs[j]) # 0
        THEN <<[output_index |-> j - 1, public_key_index |-> RecipientOf(tx.outputs[j]) - 1]>>
        ELSE << >>

\* The outputs of a transaction that pay a configured recipient.
deposit_outputs(tx) ==
    FlattenSeq([j \in DOMAIN tx.outputs |->
        IF RecipientOf(tx.outputs[j]) = 0 THEN << >>
        ELSE <<[output_index |-> j - 1,
                public_key_index |-> RecipientOf(tx.outputs[j]) - 1]>>])

TrustsElectrs(block) == block.transactions # << >>

\* scan_manager_custody_deposits: the block is what its header commits to.
MatchesHeader(block) ==
    /\ block.transactions # << >>
    /\ bitcoin_merkle_root([i \in DOMAIN block.transactions |->
                               <<block.transactions[i].id>>]) = block.merkle_root

\* ... and the witness of each transaction that holds a deposit.
scan_manager_custody_deposits(block) ==
    LET txs == block.transactions
        hashes == [i \in DOMAIN txs |-> <<txs[i].id>>]
    IN  FlattenSeq([i \in DOMAIN txs |->
            IF deposit_outputs(txs[i]) = << >> THEN << >>
            ELSE <<[transaction_index |-> i - 1,
                    siblings |-> bitcoin_merkle_siblings(hashes, i - 1),
                    deposit_outputs |-> deposit_outputs(txs[i]),
                    transaction |-> txs[i]]>>])

\* build_deposit_claim_witness: siblings from the history where there is one,
\* from the frontier alone otherwise.
ClaimSiblings(c) ==
    IF c.claim_history = << >> THEN c.claim_frontier.siblings
    ELSE sparse_sha256_merkle_siblings(c.claim_history, Len(c.claim_history) - 1,
                                       ClaimHeight, 0)

TxoSiblings(c) ==
    IF c.txo_block_history = << >>
    THEN sequential_next_leaf_siblings(c.txo_block_frontier, TxoHeight, LeafHeight)
    ELSE sparse_sha256_merkle_siblings(
             Append(c.txo_block_history, ZeroHash(LeafHeight)), c.height + 1,
             TxoHeight, LeafHeight)

build_deposit_claim_witness(block, c) ==
    [txo_tree_block_siblings |-> TxoSiblings(c),
     last_auto_claimed_deposits_siblings |-> ClaimSiblings(c),
     claim_deposits_last_index |-> c.claim_frontier.index,
     claim_deposits_last_value |-> c.claim_frontier.value,
     deposit_transactions |-> scan_manager_custody_deposits(block)]

\* The witness of a finalized block: only its lists are used, so the places in
\* the trees are left empty.
build_hash_only_incoming_witness(block) ==
    [txo_tree_block_siblings |-> [l \in 1..TxoHeight |-> ZeroHash(LeafHeight + l - 1)],
     last_auto_claimed_deposits_siblings |-> [l \in 1..ClaimHeight |-> ZeroHash(l - 1)],
     claim_deposits_last_index |-> 0,
     claim_deposits_last_value |-> ZeroLeaf,
     deposit_transactions |-> scan_manager_custody_deposits(block)]

\* External: calcuate_fee, and the place of an output among those of a block.
calcuate_fee(value) == value - Fee

combined_txo_index(transaction, output) == MaxOutputs * transaction + output

\* One deposit as evaluate_claim_witness sees it: where it is, whom it pays
\* and how much; and the four lists it is written to.
Deposits(witness) ==
    FlattenSeq([i \in DOMAIN witness.deposit_transactions |->
        LET w == witness.deposit_transactions[i]
        IN  [k \in DOMAIN w.deposit_outputs |->
                LET d == w.deposit_outputs[k]
                IN  [tx |-> w.transaction.id,
                     txo |-> combined_txo_index(w.transaction_index, d.output_index),
                     out |-> d.output_index,
                     recipient |-> recipient_atas[d.public_key_index + 1],
                     amount |-> calcuate_fee(w.transaction.outputs[d.output_index + 1].value)]]])

\* calcuate_fee(..)? and combined_txo_index(..)?: every deposit pays its fee
\* and has a place; one that does not makes the whole block fail.
Evaluable(deposits) ==
    \A d \in ToSet(deposits) :
        d.amount >= 0 /\ d.out < MaxOutputs /\ d.txo < MaxOutputs * MaxTransactions

hash_deposit_leaf(d) == <<3, d.tx, d.out, d.recipient, d.amount>>

Leaves(deposits) == [i \in DOMAIN deposits |-> hash_deposit_leaf(deposits[i])]

\* External: the root of the tree of claimed outputs inside one block.
BlockTxoRoot(deposits) ==
    IF deposits = << >> THEN ZeroHash(LeafHeight)
    ELSE <<4>> \o [i \in DOMAIN deposits |-> deposits[i].txo]

\* BlockBufferCommitment::from_evaluation: the two lists kept for a block. Their
\* hashes are the library's and external, taken to tell lists apart.
from_evaluation(deposits) ==
    [pending_mints |-> [i \in DOMAIN deposits |->
                           [recipient |-> deposits[i].recipient, amount |-> deposits[i].amount]],
     txo_indices |-> [i \in DOMAIN deposits |-> deposits[i].txo]]

-----------------------------------------------------------------------------
(* The frontiers of the next checkpoint and the checks on a checkpoint.      *)

HistoryFrontier(history, height, leaf_height) ==
    LET i == Len(history) - 1
    IN  Frontier(i, Last(history),
                 sparse_sha256_merkle_siblings(history, i, height, leaf_height))

NextClaims(c, deposits) ==
    LET history == c.claim_history \o Leaves(deposits)
    IN  [claim_history |-> history,
         claim_frontier |-> IF history = << >> THEN c.claim_frontier
                            ELSE HistoryFrontier(history, ClaimHeight, 0)]

NextTxos(c, deposits) ==
    LET root == BlockTxoRoot(deposits)
        history == Append(c.txo_block_history, root)
    IN  IF c.txo_block_history = << >>
        THEN [txo_block_history |-> << >>,
              txo_block_frontier |->
                  Frontier(c.height + 1, root,
                           sequential_next_leaf_siblings(c.txo_block_frontier,
                                                         TxoHeight, LeafHeight))]
        ELSE [txo_block_history |-> history,
              txo_block_frontier |-> HistoryFrontier(history, TxoHeight, LeafHeight)]

NextPendingOf(c, deposits) ==
    [h \in (DOMAIN c.pending_finalization \cup {c.height + 1})
               \ {c.height + 1 - required_confirmations} |->
        IF h = c.height + 1 THEN from_evaluation(deposits) ELSE c.pending_finalization[h]]

NextCheckpointOf(c, deposits) ==
    LET claims == NextClaims(c, deposits)
        txos == NextTxos(c, deposits)
    IN  [height |-> c.height + 1,
         claim_frontier |-> claims.claim_frontier,
         txo_block_frontier |-> txos.txo_block_frontier,
         claim_history |-> claims.claim_history,
         txo_block_history |-> txos.txo_block_history,
         pending_finalization |-> NextPendingOf(c, deposits)]

\* A frontier at index 0 that holds the zero leaf is the empty tree's.
ClaimedSoFar(c) ==
    IF c.claim_frontier.index = 0 /\ c.claim_frontier.value = ZeroLeaf THEN 0
    ELSE c.claim_frontier.index + 1

validate_frontiers_against_state(c, t) ==
    /\ FrontierFits(c.claim_frontier, ClaimHeight)
    /\ frontier_root(c.claim_frontier) = TreeRoot(t.claims, ClaimHeight, 0)
    /\ ClaimedSoFar(c) = Len(t.claims)
    /\ FrontierFits(c.txo_block_frontier, TxoHeight)
    /\ frontier_root(c.txo_block_frontier) = TreeRoot(t.txos, TxoHeight, LeafHeight)
    /\ c.txo_block_frontier.index = c.height

WithinLimit(c) ==
    Len(c.claim_history) <= HistoryLimit /\ Len(c.txo_block_history) <= HistoryLimit

validate_checkpoint(c, t) ==
    /\ WithinLimit(c)
    /\ c.claim_history # << >> =>
           c.claim_frontier = HistoryFrontier(c.claim_history, ClaimHeight, 0)
    /\ c.txo_block_history # << >> =>
           /\ Len(c.txo_block_history) = c.height + 1
           /\ c.txo_block_frontier
                  = HistoryFrontier(c.txo_block_history, TxoHeight, LeafHeight)
    /\ t.height = c.height
    /\ validate_frontiers_against_state(c, t)

\* External: the guest recomputes both old roots and every transaction's place.
GuestVerifies(witness, block, t) ==
    /\ PathRoot(witness.claim_deposits_last_value, witness.claim_deposits_last_index,
                witness.last_auto_claimed_deposits_siblings)
           = TreeRoot(t.claims, ClaimHeight, 0)
    /\ PathRoot(ZeroHash(LeafHeight), t.height + 1, witness.txo_tree_block_siblings)
           = TreeRoot(t.txos, TxoHeight, LeafHeight)
    /\ \A w \in ToSet(witness.deposit_transactions) :
           PathRoot(<<w.transaction.id>>, w.transaction_index, w.siblings)
               = block.merkle_root

\* External: append_block on the bridge state.
AppendBlock(t, deposits) ==
    [height |-> t.height + 1,
     claims |-> t.claims \o Leaves(deposits),
     txos |-> Append(t.txos, BlockTxoRoot(deposits))]

-----------------------------------------------------------------------------
(* The deposit evidence file an operator may configure, re-read for every    *)
(* height. scripts: its redeem and output scripts are those of the recipient *)
(* it names.                                                                 *)

EvidenceFor(block, height) ==
    {None, [height |-> height - 1, ata |-> 0, scripts |-> FALSE, txid |-> 1, vout |-> 0]}
    \cup [height : {height}, ata : {0, Head(recipient_atas)}, scripts : BOOLEAN,
          txid : {Last(block.transactions).id, 1}, vout : 0..1]

\* The evidence is about this deposit.
Names(ev, d) == <<d.tx, d.out, d.recipient>> = <<ev.txid, ev.vout, ev.ata>>

NoOutputCheck(ev, height, block) ==
    \/ ev = None \/ ev.height # height
    \/ ev.ata \in ToSet(recipient_atas) /\ ev.scripts

validate_live_deposit_script(ev, height, block) ==
    \/ ev = None
    \/ ev.height # height
    \/ /\ ev.ata \in ToSet(recipient_atas)
       /\ ev.scripts
       /\ \E tx \in ToSet(block.transactions) :
              /\ tx.id = ev.txid
              /\ ev.vout < Len(tx.outputs)
              /\ tx.outputs[ev.vout + 1].script = ev.ata

-----------------------------------------------------------------------------
\* initialize_checkpoint: both trees empty, a zero TXO leaf for every height
\* up to the start, and a history of them only below the limit.
initialize_checkpoint(height) ==
    [height |-> height,
     claim_frontier |-> Frontier(0, ZeroLeaf, [l \in 1..ClaimHeight |-> ZeroHash(l - 1)]),
     txo_block_frontier |->
         Frontier(height, ZeroHash(LeafHeight),
                  [l \in 1..TxoHeight |-> ZeroHash(LeafHeight + l - 1)]),
     claim_history |-> << >>,
     txo_block_history |->
         IF height <= HistoryLimit THEN [i \in 1..(height + 1) |-> ZeroHash(LeafHeight)]
                                   ELSE << >>,
     pending_finalization |-> << >>]

Init ==
    /\ start \in StartHeights
    /\ checkpoint = initialize_checkpoint(start)
    /\ tip = [height |-> start, claims |-> << >>,
              txos |-> [i \in 1..(start + 1) |-> ZeroHash(LeafHeight)]]
    /\ sources = << >> /\ owed = << >> /\ repeated = FALSE
    /\ last = None

FinalizedHeight == checkpoint.height + 1 - required_confirmations

\* resolve_finalized_buffers: the block that becomes final is fetched again and
\* must commit to the buffers kept since it was ingested.
FinalizedBlockAgrees(block) ==
    LET deposits == Deposits(build_hash_only_incoming_witness(block))
    IN  FinalizedHeight \in DOMAIN checkpoint.pending_finalization =>
            /\ MatchesHeader(block)
            /\ Evaluable(deposits)
            /\ from_evaluation(deposits) = checkpoint.pending_finalization[FinalizedHeight]

\* The checks of prepare_height on an answer, in the order the code makes them.
Accepts(block, finalized, ev) ==
    LET witness == build_deposit_claim_witness(block, checkpoint)
        deposits == Deposits(witness)
    IN  /\ validate_frontiers_against_state(checkpoint, tip)
        /\ validate_live_deposit_script(ev, checkpoint.height + 1, block)
        /\ MatchesHeader(block)
        /\ FinalizedBlockAgrees(finalized)
        /\ GuestVerifies(witness, block, tip)
        /\ Evaluable(deposits)
        /\ validate_checkpoint(NextCheckpointOf(checkpoint, deposits),
                               AppendBlock(tip, deposits))

\* Reference: every output of the mined block that pays a recipient, in order.
DepositsOf(block) ==
    FlattenSeq([i \in DOMAIN block.transactions |->
        LET tx == block.transactions[i]
        IN  FlattenSeq([j \in DOMAIN tx.outputs |->
                IF tx.outputs[j].script \notin ToSet(recipient_atas) THEN << >>
                ELSE <<[tx |-> tx.id,
                        txo |-> combined_txo_index(i - 1, j - 1),
                        out |-> j - 1,
                        recipient |-> tx.outputs[j].script,
                        amount |-> calcuate_fee(tx.outputs[j].value)]>>])])

\* prepare_height at the next height, and the commit that follows it.
Prepare(shape, answer, finalized, ev) ==
    LET height == checkpoint.height + 1
        mined == Mined(height, shape)
        deposits == Deposits(build_deposit_claim_witness(answer, checkpoint))
        accepted == Accepts(answer, finalized, ev)
        about == ev # None /\ ev.height = height
        final == FinalizedHeight \in DOMAIN sources
    IN  /\ last' = [accepted |-> accepted,
                    honest |-> /\ answer = mined
                               /\ final => sources[FinalizedHeight]
                                              = [mined |-> finalized, answer |-> finalized],
                    asMined |-> /\ answer \in AsMined(mined)
                                /\ final => finalized \in AsMined(sources[FinalizedHeight].mined),
                    evaluable |-> Evaluable(DepositsOf(mined)),
                    room |-> Len(checkpoint.claim_history) + Len(DepositsOf(mined))
                                     <= HistoryLimit
                             /\ Len(checkpoint.txo_block_history) < HistoryLimit,
                    consistent |-> about =>
                        ev.scripts /\ \E d \in ToSet(DepositsOf(mined)) : Names(ev, d),
                    claimed |-> about => \E d \in ToSet(deposits) : Names(ev, d)]
        /\ IF accepted
           THEN /\ checkpoint' = NextCheckpointOf(checkpoint, deposits)
                /\ tip' = AppendBlock(tip, deposits)
                /\ sources' = [h \in DOMAIN checkpoint'.pending_finalization |->
                                  IF h = height THEN [mined |-> mined, answer |-> answer]
                                                ELSE sources[h]]
                /\ owed' = owed \o DepositsOf(mined)
                /\ repeated' = (repeated \/ answer # mined)
           ELSE UNCHANGED <<checkpoint, tip, sources, owed, repeated>>
        /\ UNCHANGED start

NextHeight(shape) ==
    /\ checkpoint.height < start + MaxBlocks
    /\ LET mined == Mined(checkpoint.height + 1, shape)
           final == FinalizedHeight \in DOMAIN sources
           refetched == IF final THEN sources[FinalizedHeight].mined ELSE None
       IN  \/ \E answer \in Answers(mined) : Prepare(shape, answer, refetched, None)
           \/ \E ev \in EvidenceFor(mined, checkpoint.height + 1) :
                  Prepare(shape, mined, refetched, ev)
           \/ final /\ \E again \in Answers(refetched) : Prepare(shape, mined, again, None)

AtBound == checkpoint.height = start + MaxBlocks /\ UNCHANGED vars

Next == (\E shape \in Shapes : NextHeight(shape)) \/ AtBound

Spec == Init /\ [][Next]_vars

-----------------------------------------------------------------------------
\* prepare_height: a block as it was mined is not refused, at any tree shape,
\* with or without a history, unless calcuate_fee or combined_txo_index refuses
\* one of its deposits, a history is full, the evidence file contradicts it, or
\* the block that becomes final was answered otherwise than it was mined. The
\* frontier computed from the frontier alone, the one computed from the history,
\* and the guest's tree agree at every height.
HonestBlockAccepted ==
    /\ last # None
    /\ last.honest /\ last.evaluable /\ last.room /\ last.consistent
    => last.accepted

\* scan_manager_custody_deposits, evaluate_claim_witness: whatever Electrs
\* answered under the mined headers, every deposit of the mined blocks has been
\* claimed and nothing else has; and each once and in order, unless a list that
\* repeats its tail was accepted (the scan does not look for repetitions).
ClaimsAreTheDeposits ==
    /\ ToSet(tip.claims) = ToSet(Leaves(owed))
    /\ ~repeated => tip.claims = Leaves(owed)

\* scan_manager_custody_deposits, resolve_finalized_buffers: no answer is
\* accepted, for the new block or for the one that becomes final, but the mined
\* transactions in their order, or those with a tail of the list repeated.
AcceptedAsMined == last # None /\ last.accepted => last.asMined

\* validate_live_deposit_script: a height accepted with evidence for it claims
\* the deposit that the evidence names.
EvidenceIsClaimed == last # None /\ last.accepted => last.claimed

-----------------------------------------------------------------------------
(* The inductive invariant behind the theorems of DepositTreesProofs *)

LastIndex(leaves) == IF leaves = << >> THEN 0 ELSE Len(leaves) - 1

TreePath(leaves, leaf_height, index, height) ==
    [l \in 1..height |->
        TreeNode(leaves, leaf_height, l - 1, Sibling(Shr(index, l - 1)))]

\* The last leaf of the full tree with the siblings on its path.
FrontierOf(leaves, height, leaf_height) ==
    Frontier(LastIndex(leaves), TreeNode(leaves, leaf_height, 0, LastIndex(leaves)),
             TreePath(leaves, leaf_height, LastIndex(leaves), height))

\* The checkpoint is at the height of the bridge state, its histories are the
\* leaves of the trees and its frontiers those of the full trees.
TreesMatch ==
    /\ start \in StartHeights
    /\ checkpoint.height \in start..(start + MaxBlocks) /\ tip.height = checkpoint.height
    /\ tip.claims \in Seq(Hash) /\ tip.txos \in Seq(Hash)
    /\ Len(tip.txos) = checkpoint.height + 1 /\ Len(tip.claims) <= HistoryLimit
    /\ checkpoint.claim_history = tip.claims
    /\ checkpoint.txo_block_history \in {<< >>, tip.txos}
    /\ checkpoint.claim_frontier = FrontierOf(tip.claims, ClaimHeight, 0)
    /\ checkpoint.txo_block_frontier = FrontierOf(tip.txos, TxoHeight, LeafHeight)

Deposit == [tx : Int, txo : Int, out : Int, recipient : Int, amount : Int]

\* The buffers kept for a height are those of the block accepted there.
BuffersMatch ==
    /\ owed \in Seq(Deposit)
    /\ DOMAIN sources = DOMAIN checkpoint.pending_finalization /\ DOMAIN sources \subseteq Nat
    /\ \A h \in DOMAIN sources :
         /\ \E shape \in Shapes : sources[h].mined = Mined(h, shape)
         /\ sources[h].answer \in AsMined(sources[h].mined)
         /\ MatchesHeader(sources[h].answer)
         /\ Evaluable(DepositsOf(sources[h].answer))
         /\ checkpoint.pending_finalization[h] = from_evaluation(DepositsOf(sources[h].answer))

TreesInv ==
    /\ TreesMatch /\ BuffersMatch
    /\ HonestBlockAccepted /\ ClaimsAreTheDeposits /\ AcceptedAsMined
    /\ EvidenceIsClaimed

=============================================================================
