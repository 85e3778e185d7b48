-------------------------- MODULE PullRequestStatus --------------------------
(***************************************************************************)
(* The status of a pull request                                            *)
(* (controllers/gitrepository/pull_request_status_controller.go): whenever *)
(* one of its PipelineRuns changes, the controller writes the run's phase  *)
(* as the status of the commit the pull request has got to, unless the     *)
(* status there is that of a newer run.                                    *)
(*                                                                         *)
(* What is abstracted:                                                     *)
(*  - All runs are of one pull request, in one of the Projects; repository, *)
(*    secret and workspace are in order or fail with "error".              *)
(*  - Running stands for Pending (paused), too, and Succeeded for every    *)
(*    phase a run ends with.                                               *)
(*  - The provider lists the latest status with the controller's label     *)
(*    first; nobody else uses the label.                                   *)
(*  - The informer is behind by any amount, then delivers all versions at  *)
(*    once: one watch has the events of all runs in their order.           *)
(*  - One worker.  Start times are whole seconds: two runs may share one.  *)
(***************************************************************************)
EXTENDS Naturals

CONSTANTS
    Runs,          \* PipelineRuns of the pull request
    NoRun,         \* no status, the key of an idle worker
    Commits,       \* what may be pushed to the pull request
    MaxTime,       \* a bound on the clock
    Projects,      \* the namespaces the runs may be in
    Disturbances   \* which of the following may happen

(***************************************************************************)
(* "push"    commits are added while runs of earlier ones are at work      *)
(* "skip"    Jenkins skips a build                                         *)
(* "delete"  users delete runs                                             *)
(* "error"   a call to Kubernetes or the provider fails, or its reply is   *)
(*           lost                                                          *)
(* "crash"   the controller manager restarts                               *)
(***************************************************************************)
AllDisturbances == {"push", "skip", "delete", "error", "crash"}

ASSUME StatusAssumption ==
    /\ NoRun \notin Runs
    /\ Commits # {}
    /\ MaxTime \in Nat \ {0}
    /\ Disturbances \subseteq AllDisturbances

VARIABLES
    api,      \* api[r]: the PipelineRun in the API server
    cache,    \* cache[r]: the PipelineRun in the informer
    queue,    \* keys in the work queue
    work,     \* the local variables of the Reconcile under way
    head,     \* the commit the pull request has got to
    status,   \* status[c]: the status of a commit
    now,      \* Jenkins' clock
    project   \* the namespace of the runs

vars == <<api, cache, queue, work, head, status, now, project>>

----------------------------------------------------------------------------
(* Types *)

\* start 0 is no start time; completed: there is a completion time; commit, a
\* history variable, is what the run has been created for.
PipelineRun ==
    [st: {"absent", "live", "gone"}, phase: {"None", "Running", "Succeeded"},
     start: 0..MaxTime, completed: BOOLEAN, commit: Commits]

\* start, a history field: the start time of the run when it was reported.
Status ==
    [run: Runs \cup {NoRun}, phase: {"None", "Running", "Succeeded"}, start: 0..MaxTime]

NoStatus == [run |-> NoRun, phase |-> "None", start |-> 0]

\* The commit the pull request starts with.
First == CHOOSE c \in Commits : TRUE

Absent ==
    [st |-> "absent", phase |-> "None", start |-> 0, completed |-> FALSE, commit |-> First]

Idle == [pc |-> "idle", run |-> NoRun, copy |-> Absent, sha |-> First]

TypeOK ==
    /\ api \in [Runs -> PipelineRun]
    /\ cache \in [Runs -> PipelineRun]
    /\ queue \subseteq Runs
    /\ work \in [pc: {"idle", "check", "create"}, run: Runs \cup {NoRun},
                 copy: PipelineRun, sha: Commits]
    /\ work.pc # "idle" => work.run \in Runs /\ work.copy.phase # "None"
    /\ head \in Commits
    /\ status \in [Commits -> Status]
    /\ now \in 1..MaxTime
    /\ project \in Projects

----------------------------------------------------------------------------
(* Jenkins, the PipelineRun controller and users *)

Put(r, run) ==
    /\ api' = [api EXCEPT ![r] = run]
    /\ UNCHANGED <<cache, queue, work, head, status, now, project>>

CreateRun(r) ==
    /\ api[r].st = "absent"
    /\ Put(r, [Absent EXCEPT !.st = "live", !.commit = head])

\* apply: a queued build is called running and has no start time.
ReportQueued(r) ==
    /\ api[r].st = "live"
    /\ api[r].phase = "None"
    /\ Put(r, [api[r] EXCEPT !.phase = "Running"])

ReportRunning(r) ==
    /\ api[r].st = "live"
    /\ api[r].phase # "Succeeded" /\ api[r].start = 0
    /\ Put(r, [api[r] EXCEPT !.phase = "Running", !.start = now])

\* whenPipelineRunFinished
ReportFinished(r) ==
    /\ api[r].st = "live"
    /\ api[r].phase = "Running" /\ api[r].start > 0
    /\ Put(r, [api[r] EXCEPT !.phase = "Succeeded", !.completed = TRUE])

\* apply: a skipped build succeeds without a completion time.
ReportSkipped(r) ==
    /\ "skip" \in Disturbances
    /\ api[r].st = "live"
    /\ api[r].phase # "Succeeded" /\ api[r].start = 0
    /\ Put(r, [api[r] EXCEPT !.phase = "Succeeded", !.start = now])

DeleteRun(r) ==
    /\ "delete" \in Disturbances
    /\ api[r].st = "live"
    /\ Put(r, [Absent EXCEPT !.st = "gone"])

Tick ==
    /\ now < MaxTime
    /\ now' = now + 1
    /\ UNCHANGED <<api, cache, queue, work, head, status, project>>

Push(c) ==
    /\ "push" \in Disturbances
    /\ c # head
    /\ status[c] = NoStatus /\ \A r \in Runs : api[r].st = "absent" \/ api[r].commit # c
    /\ head' = c
    /\ UNCHANGED <<api, cache, queue, work, status, now, project>>

----------------------------------------------------------------------------
(* Reconcile *)

Deliver ==
    /\ cache # api
    /\ cache' = api
    /\ queue' = queue \cup {r \in Runs : cache[r] # api[r]}
    /\ UNCHANGED <<api, work, head, status, now, project>>

\* A run whose build has not ended is polled, and each poll writes its status, be it
\* the same: an event that changes nothing here and queues the key.
Rewrite(r) ==
    /\ cache[r].st = "live" /\ cache[r].phase # "None" /\ ~cache[r].completed
    /\ queue' = queue \cup {r}
    /\ UNCHANGED <<api, cache, work, head, status, now, project>>

Done == work' = Idle /\ UNCHANGED queue

Requeue == work' = Idle /\ queue' = queue \cup {work.run}

othersUnchanged == UNCHANGED <<api, cache, head, now, project>>

\* Mutant: any run that is found is reported.
Reportable_AnyPhase(r) == cache[r].st = "live"

Reportable(r) == cache[r].st = "live" /\ cache[r].phase # "None"

Ignore(r) ==
    /\ work.pc = "idle"
    /\ r \in queue
    /\ ~Reportable(r)
    /\ queue' = queue \ {r}
    /\ UNCHANGED <<work, status>>
    /\ othersUnchanged

\* getTimeSinceFinished does not look whether there is a completion time.
Panics(r) == cache[r].phase = "Succeeded" /\ ~cache[r].completed

Begin(r) ==
    /\ work.pc = "idle"
    /\ r \in queue
    /\ Reportable(r) /\ ~Panics(r)
    /\ queue' = queue \ {r}
    /\ work' = [pc |-> "check", run |-> r, copy |-> cache[r], sha |-> First]
    /\ UNCHANGED status
    /\ othersUnchanged

\* The process starts anew: the informer lists, every key is queued.
StartOver ==
    /\ cache' = api
    /\ queue' = {r \in Runs : api[r].st = "live"}
    /\ work' = Idle
    /\ UNCHANGED <<api, head, status, now, project>>

Panic(r) ==
    /\ work.pc = "idle"
    /\ r \in queue
    /\ Reportable(r) /\ Panics(r)
    /\ StartOver

\* getPipelineRunNameAndNsFromURL knows the namespace of the one example.
Knows(ns) == ns = "core58fgv"

\* Mutant: a status of the run itself is looked at as well.
Expired_OwnStatus(previous) ==
    /\ previous # NoRun
    /\ Knows(project)
    /\ cache[previous].st = "live"
    /\ cache[previous].start > 0 /\ work.copy.start > 0
    /\ ~(cache[previous].start < work.copy.start)

\* createExpirationCheckFunc
Expired(previous) ==
    /\ previous \notin {NoRun, work.run}
    /\ Knows(project)
    /\ cache[previous].st = "live"
    /\ cache[previous].start > 0 /\ work.copy.start > 0
    /\ ~(cache[previous].start < work.copy.start)

\* Create, up to the check: the pull request as it is now, not as the run found it,
\* and the status of that commit.
Check ==
    /\ work.pc = "check"
    /\ IF Expired(status[head].run) THEN Done
       ELSE work' = [work EXCEPT !.pc = "create", !.sha = head] /\ UNCHANGED queue
    /\ UNCHANGED status
    /\ othersUnchanged

Stored ==
    status' = [status EXCEPT ![work.sha] =
                 [run |-> work.run, phase |-> work.copy.phase, start |-> work.copy.start]]

CreateStatus ==
    /\ work.pc = "create"
    /\ Stored
    /\ Done
    /\ othersUnchanged

ReplyLost ==
    /\ "error" \in Disturbances
    /\ work.pc = "create"
    /\ Stored
    /\ Requeue
    /\ othersUnchanged

\* Mutant: an error is only logged.
CallFails_Logged ==
    /\ work.pc # "idle"
    /\ Done
    /\ UNCHANGED status
    /\ othersUnchanged

CallFails ==
    /\ "error" \in Disturbances
    /\ work.pc # "idle"
    /\ Requeue
    /\ UNCHANGED status
    /\ othersUnchanged

Restart == "crash" \in Disturbances /\ StartOver

----------------------------------------------------------------------------
Init ==
    /\ head = First
    /\ api = [r \in Runs |-> Absent]
    /\ cache = api
    /\ queue = {}
    /\ work = Idle
    /\ status = [c \in Commits |-> NoStatus]
    /\ now = 1
    /\ project \in Projects

Changes(r) ==
    \/ CreateRun(r) \/ ReportQueued(r) \/ ReportRunning(r) \/ ReportFinished(r)
    \/ ReportSkipped(r) \/ DeleteRun(r)

Take(r) == Ignore(r) \/ Begin(r) \/ Panic(r)

Calls == Check \/ CreateStatus

Next ==
    \/ \E r \in Runs : Changes(r) \/ Rewrite(r) \/ Take(r)
    \/ \E c \in Commits : Push(c)
    \/ Tick \/ Deliver \/ Calls \/ ReplyLost \/ CallFails \/ Restart

Spec == Init /\ [][Next]_vars

----------------------------------------------------------------------------
(* Properties *)

\* When the controller has come to rest, a run that is there and was created for the
\* commit the pull request has got to is not passed over: that commit has a status.
\* And the status is no older than its run, if that is still there: whatever was
\* pushed, lost, retried or kept back meanwhile, it says what the run has come to.
RestShowsCurrent ==
    work.pc = "idle" /\ queue = {} /\ cache = api =>
        \A r \in Runs : api[r].st = "live" =>
            /\ api[r].commit = head /\ api[r].phase # "None" => status[head].run # NoRun
            /\ status[head].run = r => status[head].phase = api[r].phase

\* "avoid the previous building status override newer one": the status of a run
\* that is still there does not give way to that of a run that had started earlier.
NewerIsKept ==
    [][\A c \in Commits :
          LET old == status[c]  new == status'[c] IN
          old.run # NoRun /\ cache[old.run].st = "live"
          => new.start = 0 \/ old.start <= new.start]_vars

=============================================================================
