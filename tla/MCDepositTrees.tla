--------------------------- MODULE MCDepositTrees ---------------------------
(* Small instances of DepositTrees: two recipients, blocks of one to three   *)
(* transactions, two of them with a deposit that cannot be evaluated, start  *)
(* heights on both sides of the history limit.                               *)
EXTENDS DepositTrees

Pays(s) == [script |-> s, value |-> 10]

\* 7 and 8 are the recipients, 9 is anybody else.
MCAtas == <<7, 8>>

MCShapes ==
    {<< <<Pays(9)>> >>,
     << <<Pays(7)>>, <<Pays(9), Pays(8)>> >>,
     << <<Pays(9)>>, <<Pays(9)>>, <<Pays(8), Pays(7)>> >>,
     << <<Pays(9), Pays(9), Pays(7)>> >>,            \* no place for the index
     << <<Pays(7), [script |-> 8, value |-> 0]>> >>} \* below the fee

=============================================================================
