--------------------------- MODULE MCGitRepository ---------------------------
(* Small instances of GitRepository for TLC. *)
EXTENDS GitRepository

\* Each group alone in spite of everything, both together when nothing goes wrong.
MCScenarios ==
    [groups: {{"argocd"}, {"fluxcd"}}, disturbances: {AllDisturbances}]
        \cup [groups: {Groups}, disturbances: {{}}]
=============================================================================
