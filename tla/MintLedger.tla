----------------------------- MODULE MintLedger -----------------------------
(***************************************************************************)
(* What the block pipeline promises the users of the bridge, without Redis *)
(* keys, journals, proofs, transactions or crashes: Dogecoin blocks are    *)
(* committed one at a time; committing a block makes the deposits of the   *)
(* block Conf positions below it payable; all of them are minted, each     *)
(* group once, before the next block is committed.                         *)
(***************************************************************************)
EXTENDS Naturals, Sequences

CONSTANTS Conf,       \* confirmations between a block and its mints
          Blocks,     \* records with a field dep, the deposits of the block
          GroupsOf    \* number of mint groups of a deposit payload

VARIABLES chain,      \* blocks committed so far
          done        \* mint groups paid for the last committed block

Owed(c) == IF Len(c) > Conf THEN GroupsOf[c[Len(c) - Conf].dep] ELSE 0

Init == chain = << >> /\ done = 0

Commit(b) ==
    /\ done = Owed(chain)
    /\ chain' = Append(chain, b)
    /\ done' = 0

MintGroup ==
    /\ done < Owed(chain)
    /\ done' = done + 1
    /\ UNCHANGED chain

Next == (\E b \in Blocks : Commit(b)) \/ MintGroup

Spec == Init /\ [][Next]_<<chain, done>>
=============================================================================
