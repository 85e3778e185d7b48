---------------------- MODULE MCPipelineRunController ----------------------
(* Small instances of PipelineRunController for TLC. *)
EXTENDS PipelineRunController, TLC

\* Runs with a Pipeline reference are interchangeable, and so are builds.
Symmetry == Permutations(Runs \ NoRef) \cup Permutations(Builds)
=============================================================================
