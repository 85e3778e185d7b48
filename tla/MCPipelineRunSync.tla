------------------------- MODULE MCPipelineRunSync -------------------------
(* Small instances of PipelineRunSync for TLC. *)
EXTENDS PipelineRunSync
=============================================================================
