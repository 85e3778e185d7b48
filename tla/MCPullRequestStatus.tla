------------------------- MODULE MCPullRequestStatus -------------------------
(* Small instances of PullRequestStatus for TLC.  First is a choice among the *)
(* Commits, so only the runs are alike.                                       *)
EXTENDS PullRequestStatus, TLC

Symmetry == Permutations(Runs)
=============================================================================
