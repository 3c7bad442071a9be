-------------------------- MODULE MCBlockPipeline --------------------------
(* Small instances of BlockPipeline and PipelineRecover for TLC. *)
EXTENDS PipelineRecover

\* Two kinds of block: without deposits, and with two groups of mints.
MCPayloads == {0, 2}
MCGroupsOf == [p \in MCPayloads |-> p]
=============================================================================
