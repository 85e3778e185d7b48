----------------------------- MODULE PipelineJob -----------------------------
(***************************************************************************)
(* What a Pipeline and its Jenkins job promise each other, whoever writes  *)
(* the Pipeline and whatever goes wrong: the Pipeline is guarded (has the  *)
(* finalizer) only once there is a job; the job of a guarded Pipeline is   *)
(* not deleted before the Pipeline is being deleted, and does not come     *)
(* back; the Pipeline goes only after it.  A Pipeline that is deleted      *)
(* before it is guarded leaves whatever job it has, for the next one of    *)
(* the name to take over.                                                  *)
(***************************************************************************)
CONSTANTS Specs, NoSpec

VARIABLES
    pipeline,  \* where the Pipeline is
    job        \* what its job does, if there is one

jobVars == <<pipeline, job>>

JobInit ==
    /\ pipeline = "absent"
    /\ job = NoSpec

Create ==
    /\ pipeline \in {"absent", "gone", "left"}
    /\ pipeline' = "new"
    /\ UNCHANGED job

\* A Pipeline that is being deleted, or was before it was guarded, may still get
\* what was asked for earlier, but a job deleted for it is not made again.
Sync(s) ==
    /\ \/ pipeline \in {"new", "guarded", "left"}
       \/ pipeline = "leaving" /\ job # NoSpec
    /\ job' = s
    /\ UNCHANGED pipeline

Guard ==
    /\ pipeline = "new"
    /\ job # NoSpec
    /\ pipeline' = "guarded"
    /\ UNCHANGED job

Delete ==
    /\ pipeline = "guarded"
    /\ pipeline' = "leaving"
    /\ UNCHANGED job

Leave ==
    /\ pipeline = "new"
    /\ pipeline' = "left"
    /\ UNCHANGED job

CleanUp ==
    /\ pipeline = "leaving"
    /\ job' = NoSpec
    /\ UNCHANGED pipeline

Release ==
    /\ pipeline = "leaving"
    /\ job = NoSpec
    /\ pipeline' = "gone"
    /\ UNCHANGED job

JobNext ==
    \/ Create \/ Guard \/ Delete \/ Leave \/ CleanUp \/ Release
    \/ \E s \in Specs : Sync(s)

JobSpec == JobInit /\ [][JobNext]_jobVars
=============================================================================
