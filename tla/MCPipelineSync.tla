--------------------------- MODULE MCPipelineSync ---------------------------
(* Small instances of PipelineSync for TLC. *)
EXTENDS PipelineSync, TLC

Symmetry == Permutations(Specs)
=============================================================================
