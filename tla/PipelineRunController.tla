----------------------- MODULE PipelineRunController -----------------------
(***************************************************************************)
(* The life of PipelineRun objects under the PipelineRun controller        *)
(* (controllers/jenkins/pipelinerun): the REST handler that creates them   *)
(* to be built, webhook and synchronizer that create them for builds they  *)
(* saw, the Kubernetes API server that stores them, the informer cache the *)
(* controller reads, the controller's single worker and the Jenkins builds *)
(* it triggers, polls and deletes.                                         *)
(*                                                                         *)
(* What is abstracted:                                                     *)
(*  - One Pipeline, not multi-branch: runs differ in nothing but the name. *)
(*  - A resourceVersion is only ever compared with the current one, so it  *)
(*    is the membership of an object in "fresh" (the cached version is the *)
(*    current one) and work.current (the worker's copy is).                *)
(*  - The informer is behind by any amount and catches up with all runs at *)
(*    once, in the order the API server wrote them.                        *)
(*  - The worker holds one key at a time: MaxConcurrentReconciles is left  *)
(*    at its default, 1.  Delays (3s, 5s, back-off) are not timed.         *)
(***************************************************************************)
CONSTANTS
    Runs,          \* names of PipelineRun objects; generated, so used once
    NoRun,         \* the key of an idle worker
    NoRef,         \* the Runs created without a Pipeline reference
    Builds,        \* the build records Jenkins can hand out
    NoBuild,       \* no run ID annotation
    DataStore,     \* "annotations" or "configmap": --pipelinerun-data-store
    Disturbances   \* which of the following may happen

(***************************************************************************)
(* "edit"       somebody else updates a PipelineRun                        *)
(* "error"      a call to Kubernetes or Jenkins fails, changing nothing    *)
(* "lag"        the cache is still behind when the retries are exhausted   *)
(* "lostReply"  Jenkins accepts a build but its answer is lost             *)
(* "crash"      the controller restarts                                    *)
(* "cancel"     a queued build is cancelled in Jenkins                     *)
(* "discard"    Jenkins discards a finished build                          *)
(* "skip"       a build ends as SKIPPED or NOT_BUILT, not as FINISHED      *)
(* "elsewhere"  a build is started in Jenkins, for no run                  *)
(* "adopt"      webhook or synchronizer create a run for a build           *)
(* "removal"    the Pipeline is removed, with its Jenkins job              *)
(***************************************************************************)
AllDisturbances ==
    {"edit", "error", "lag", "lostReply", "crash", "cancel", "discard", "skip",
     "elsewhere", "adopt", "removal"}

ASSUME ConstantsAssumption ==
    /\ NoRun \notin Runs
    /\ NoBuild \notin Builds
    /\ NoRef \subseteq Runs
    /\ DataStore \in {"annotations", "configmap"}
    /\ Disturbances \subseteq AllDisturbances

VARIABLES
    api,             \* api[p]: the PipelineRun in the API server
    cache,           \* cache[p]: the PipelineRun in the controller's informer
    fresh,           \* the runs whose cached version is the current one
    configMaps,      \* configMaps[p]: run data kept in the ConfigMap of p
    pipelineExists,  \* the Pipeline all runs refer to exists
    queue,           \* keys in the controller's work queue
    work,            \* the local variables of the Reconcile under way
    builds           \* builds[b]: the state of a build record in Jenkins

(* Auxiliary variables: they record history and guard no action. *)
VARIABLES
    asked,           \* asked[p]: builds accepted on behalf of p, or p was created for
    adopted,         \* the runs that were created for a build
    missed           \* builds whose history was asked to go while queued

k8sVars == <<api, cache, fresh, configMaps, pipelineExists>>
auxVars == <<asked, adopted, missed>>
vars == <<k8sVars, queue, work, builds, auxVars>>

----------------------------------------------------------------------------
(* Types *)

\* What the JSON of a Jenkins run says, as far as the controller acts on it.
Seen == {"none", "active", "skipped", "finished"}
RunData == [of: Builds \cup {NoBuild}, seen: Seen]
NoData == [of |-> NoBuild, seen |-> "none"]

Phases == {"None", "Started", "Running", "Completed"}

\* st is the presence of the object: a "deleting" one has a deletionTimestamp.
\* id is the run ID annotation, fin the finalizer, orphan the orphan label,
\* data the run data annotations, phase and src the status (src is the build
\* it was computed from).
PipelineRun ==
    [st: {"absent", "live", "deleting", "gone"}, id: Builds \cup {NoBuild},
     fin: BOOLEAN, orphan: BOOLEAN, data: RunData,
     phase: Phases, src: Builds \cup {NoBuild}]

Absent ==
    [st |-> "absent", id |-> NoBuild, fin |-> FALSE, orphan |-> FALSE,
     data |-> NoData, phase |-> "None", src |-> NoBuild]

\* Calls in flight: where a Reconcile is between two of its remote calls.
Calls == {"trigger", "check", "writeId", "writeStart", "poll", "store",
          "writeStatus", "orphan", "deleteHistory", "removeFinalizer"}

Work ==
    [pc: Calls \cup {"idle"}, run: Runs \cup {NoRun}, copy: PipelineRun,
     current: BOOLEAN, got: Builds \cup {NoBuild}, seen: Seen]

Idle ==
    [pc |-> "idle", run |-> NoRun, copy |-> Absent, current |-> FALSE,
     got |-> NoBuild, seen |-> "none"]

\* A "deleted" build has no record: it was deleted, or cancelled while in the queue.
BuildStates ==
    {"unused", "queued", "running", "skipped", "finished", "deleted"}

TypeOK ==
    /\ api \in [Runs -> PipelineRun]
    /\ cache \in [Runs -> PipelineRun]
    /\ fresh \subseteq Runs
    /\ configMaps \in [Runs -> RunData]
    /\ pipelineExists \in BOOLEAN
    /\ queue \subseteq Runs
    /\ work \in Work
    /\ work.pc # "idle" => work.run \in Runs
    /\ builds \in [Builds -> BuildStates]
    /\ asked \in [Runs -> SUBSET Builds]
    /\ adopted \subseteq Runs
    /\ missed \subseteq Builds

----------------------------------------------------------------------------
(* PipelineRun predicates *)

Exists(o) == o.st \in {"live", "deleting"}

HasStarted(o) == o.id # NoBuild

HasCompleted(o) == o.phase = "Completed"

Buildable(o) == ~HasCompleted(o) /\ ~o.orphan

Reported(o) == o.phase \in {"Running", "Completed"}

----------------------------------------------------------------------------
(* The API server: every write makes a version no cache has seen. *)

Put(p, o) ==
    /\ api' = [api EXCEPT ![p] = o]
    /\ fresh' = fresh \ {p}

\* A deleted object stays while it has the finalizer.
Deleted(o) == [o EXCEPT !.st = IF o.fin THEN "deleting" ELSE "gone"]

\* Somebody else's write also outdates the copy the worker holds.
Outdate(p) == work' = [work EXCEPT !.current = @ /\ work.run # p]

createPipelineRun(p) ==
    /\ api[p].st = "absent"
    /\ pipelineExists \/ p \in NoRef
    /\ Put(p, [Absent EXCEPT !.st = "live"])
    /\ UNCHANGED <<cache, configMaps, pipelineExists, queue, work, builds, auxVars>>

\* Webhook and synchronizer create a run with the ID of a build they saw, like the
\* REST handler without a finalizer.  The lists they search before, and the second
\* runs of one build they make all the same, are the subject of PipelineRunSync.
AdoptBuild(p, b) ==
    /\ "adopt" \in Disturbances
    /\ api[p].st = "absent"
    /\ pipelineExists /\ p \notin NoRef
    /\ builds[b] # "unused"
    /\ Put(p, [Absent EXCEPT !.st = "live", !.id = b])
    /\ asked' = [asked EXCEPT ![p] = @ \cup {b}]
    /\ adopted' = adopted \cup {p}
    /\ UNCHANGED <<cache, configMaps, pipelineExists, queue, work, builds, missed>>

EditRun(p) ==
    /\ "edit" \in Disturbances
    /\ Exists(api[p])
    /\ Put(p, api[p])
    /\ Outdate(p)
    /\ UNCHANGED <<cache, configMaps, pipelineExists, queue, builds, auxVars>>

DeleteRun(p) ==
    /\ api[p].st = "live"
    /\ Put(p, Deleted(api[p]))
    /\ Outdate(p)
    /\ UNCHANGED <<cache, configMaps, pipelineExists, queue, builds, auxVars>>

\* Runs created for a Pipeline are owned by it and garbage collected.
CollectGarbage(p) ==
    /\ ~pipelineExists
    /\ p \notin NoRef
    /\ DeleteRun(p)

\* The Pipeline controller has deleted the Jenkins job and let go of the Pipeline.
RemovePipeline ==
    /\ "removal" \in Disturbances
    /\ pipelineExists
    /\ pipelineExists' = FALSE
    /\ builds' = [b \in Builds |-> IF builds[b] = "unused" THEN "unused" ELSE "deleted"]
    /\ UNCHANGED <<api, cache, fresh, configMaps, queue, work, auxVars>>

\* The informer delivers: each changed object is an event that queues its key.
SyncCache ==
    /\ fresh # Runs
    /\ cache' = api
    /\ fresh' = Runs
    /\ queue' = queue \cup (Runs \ fresh)
    /\ UNCHANGED <<api, configMaps, pipelineExists, work, builds, auxVars>>

----------------------------------------------------------------------------
(* Reconcile: the outcomes that end it *)

Done ==
    /\ work' = Idle
    /\ queue' = queue

\* Mutant: the key is cleared before it is added again.
Requeue_KeyCleared ==
    /\ work' = Idle
    /\ queue' = queue \cup {work'.run}

\* An error is retried by the work queue; RequeueAfter adds the key again.
Requeue ==
    /\ work' = Idle
    /\ queue' = queue \cup {work.run}

Goto(call) ==
    /\ work' = [work EXCEPT !.pc = call]
    /\ queue' = queue

----------------------------------------------------------------------------
(* Reconcile: the cached object decides what is done *)

Begin(p, call) ==
    /\ work.pc = "idle"
    /\ p \in queue
    /\ queue' = queue \ {p}
    /\ work' = [Idle EXCEPT !.pc = call, !.run = p, !.copy = cache[p],
                            !.current = p \in fresh]
    /\ UNCHANGED <<k8sVars, builds, auxVars>>

Workable(p) == cache[p].st = "live" /\ Buildable(cache[p])

\* Not found, not buildable, or its Pipeline is not found: nothing to do.
Ignore(p) ==
    /\ work.pc = "idle"
    /\ p \in queue
    /\ cache[p].st # "deleting"
    /\ Workable(p) => p \notin NoRef /\ ~pipelineExists
    /\ queue' = queue \ {p}
    /\ UNCHANGED <<k8sVars, work, builds, auxVars>>

BeginDelete(p) ==
    /\ cache[p].st = "deleting"
    /\ Begin(p, "deleteHistory")

BeginOrphan(p) ==
    /\ Workable(p)
    /\ p \in NoRef
    /\ Begin(p, "orphan")

BeginPoll(p) ==
    /\ Workable(p)
    /\ p \notin NoRef /\ pipelineExists
    /\ HasStarted(cache[p])
    /\ Begin(p, "poll")

\* Mutant: no check that the run has started.
BeginTrigger_Unchecked(p) ==
    /\ Workable(p)
    /\ p \notin NoRef /\ pipelineExists
    /\ Begin(p, "trigger")

BeginTrigger(p) ==
    /\ Workable(p)
    /\ p \notin NoRef /\ pipelineExists
    /\ ~HasStarted(cache[p])
    /\ Begin(p, "trigger")

Take(p) ==
    Ignore(p) \/ BeginDelete(p) \/ BeginOrphan(p) \/ BeginPoll(p) \/ BeginTrigger(p)

----------------------------------------------------------------------------
(* Reconcile: updates of the PipelineRun, a cached Get followed by an Update *)
(* that the API server refuses unless the version read is the current one    *)

\* Mutant: AddFinalizer is forgotten.
updateLabelsAndAnnotations_NoFinalizer(p, id, orphan, data) ==
    LET same == cache[p].id = id /\ cache[p].orphan = orphan /\ cache[p].data = data IN
    /\ Exists(cache[p])
    /\ \/ same /\ UNCHANGED <<api, fresh>>
       \/ /\ same => data.seen = "active"
          /\ p \in fresh
          /\ Put(p, [api[p] EXCEPT !.id = id, !.orphan = orphan, !.data = data])

\* RetryOnConflict around Get and Update.  The labels and annotations of the
\* copy replace those of the object; nothing is sent if they are the same
\* (data of an active build rarely is: the JSON holds its duration).
updateLabelsAndAnnotations(p, id, orphan, data) ==
    LET same == cache[p].id = id /\ cache[p].orphan = orphan /\ cache[p].data = data IN
    /\ Exists(cache[p])
    /\ \/ same /\ UNCHANGED <<api, fresh>>
       \/ /\ same => data.seen = "active"
          /\ p \in fresh
          /\ Put(p, [api[p] EXCEPT !.id = id, !.orphan = orphan, !.data = data, !.fin = TRUE])

\* RetryOnConflict around Get and Status().Update: the whole status is replaced.
updateStatus(p, phase, src) ==
    /\ Exists(cache[p])
    /\ p \in fresh
    /\ Put(p, [api[p] EXCEPT !.phase = phase, !.src = src])

\* Get does not find the run; or Update, sent with a stale version, does not or
\* is a conflict in every retry.  Short of "lag" the cache catches up first.
UpdateFails ==
    /\ work.pc \in {"writeId", "writeStart", "writeStatus", "orphan"}
         \cup (IF DataStore = "annotations" THEN {"store"} ELSE {})
    /\ \/ ~Exists(cache[work.run])
       \/ "lag" \in Disturbances /\ work.run \notin fresh
    /\ Requeue
    /\ UNCHANGED <<k8sVars, builds, auxVars>>

\* Any remote call of the Reconcile fails without effect.
CallFails ==
    /\ work.pc # "idle"
    /\ "error" \in Disturbances \/ (work.pc = "trigger" /\ ~pipelineExists)
    /\ Requeue
    /\ UNCHANGED <<k8sVars, builds, auxVars>>

----------------------------------------------------------------------------
(* Reconcile: first run *)

\* Jenkins queues a new build, or folds the request into a queued one.
Accept(b) ==
    /\ pipelineExists
    /\ builds[b] \in {"unused", "queued"}
    /\ builds' = [builds EXCEPT ![b] = "queued"]
    /\ asked' = [asked EXCEPT ![work.run] = @ \cup {b}]

\* Mutant: the ID is the next one, read before the request, which may be folded.
triggerJenkinsJob_NextId ==
    /\ work.pc = "trigger"
    /\ \E b, c \in Builds :
          /\ Accept(b)
          /\ builds[c] = "unused"
          /\ builds[b] = "unused" => b = c
          /\ work' = [work EXCEPT !.pc = "check", !.got = c]
    /\ UNCHANGED <<k8sVars, queue, adopted, missed>>

triggerJenkinsJob ==
    /\ work.pc = "trigger"
    /\ \E b \in Builds :
          /\ Accept(b)
          /\ work' = [work EXCEPT !.pc = "check", !.got = b]
    /\ UNCHANGED <<k8sVars, queue, adopted, missed>>

TriggerReplyLost ==
    /\ "lostReply" \in Disturbances
    /\ work.pc = "trigger"
    /\ \E b \in Builds : Accept(b)
    /\ Requeue
    /\ UNCHANGED <<k8sVars, adopted, missed>>

\* Mutant: only runs already reported on are compared.
hasSamePipelineRun_Running ==
    \E q \in Runs : Exists(cache[q]) /\ cache[q].id = work.got /\ cache[q].phase = "Running"

\* The cached list is searched for a run with the ID Jenkins answered.
hasSamePipelineRun == \E q \in Runs : Exists(cache[q]) /\ cache[q].id = work.got

\* The request was folded into the build of another run: delete this run.
GiveUp ==
    /\ work.pc = "check"
    /\ hasSamePipelineRun
    /\ IF api[work.run].st = "live"
       THEN Put(work.run, Deleted(api[work.run]))
       ELSE UNCHANGED <<api, fresh>>
    /\ Done
    /\ UNCHANGED <<cache, configMaps, pipelineExists, builds, auxVars>>

NoSameRun ==
    /\ work.pc = "check"
    /\ ~hasSamePipelineRun
    /\ Goto("writeId")
    /\ UNCHANGED <<k8sVars, builds, auxVars>>

WriteRunId ==
    /\ work.pc = "writeId"
    /\ updateLabelsAndAnnotations(work.run, work.got, work.copy.orphan, work.copy.data)
    /\ Goto("writeStart")
    /\ UNCHANGED <<cache, configMaps, pipelineExists, builds, auxVars>>

\* The start time is added to the status the copy has.
WriteStartTime ==
    /\ work.pc = "writeStart"
    /\ updateStatus(work.run, "Started", work.copy.src)
    /\ Done
    /\ UNCHANGED <<cache, configMaps, pipelineExists, builds, auxVars>>

\* The label and finalizer are written.  The status passed to updateStatus is
\* that of the object read, not that of the copy with the new condition: it is
\* what the object already has, and nothing is sent.
makePipelineRunOrphan ==
    /\ work.pc = "orphan"
    /\ updateLabelsAndAnnotations(work.run, work.copy.id, TRUE, work.copy.data)
    /\ Done
    /\ UNCHANGED <<cache, configMaps, pipelineExists, builds, auxVars>>

----------------------------------------------------------------------------
(* Reconcile: the run has started, poll its build *)

\* Mutant: an absent build is not asked for again.
PollMissing_GivesUp ==
    /\ work.pc = "poll"
    /\ builds[work.copy.id] \in {"queued", "deleted"}
    /\ Done
    /\ UNCHANGED <<k8sVars, builds, auxVars>>

\* "not found resources": not visible yet, or not any more.  Try in 5 seconds.
PollMissing ==
    /\ work.pc = "poll"
    /\ builds[work.copy.id] \in {"queued", "deleted"}
    /\ Requeue
    /\ UNCHANGED <<k8sVars, builds, auxVars>>

\* What the JSON of a build in this state says.
SeenOf(state) == IF state \in {"skipped", "finished"} THEN state ELSE "active"

\* Mutant: a build that is not found counts as active.
getPipelineRunResult_AbsentIsActive ==
    /\ work.pc = "poll"
    /\ work' = [work EXCEPT !.pc = "store", !.seen = SeenOf(builds[work.copy.id])]
    /\ UNCHANGED <<k8sVars, queue, builds, auxVars>>

\* Mutant: the status is written without storing the run data.
getPipelineRunResult_NoStore ==
    /\ work.pc = "poll"
    /\ builds[work.copy.id] \in {"queued", "running", "skipped", "finished"}
    /\ work' = [work EXCEPT !.pc = "writeStatus", !.seen = SeenOf(builds[work.copy.id])]
    /\ UNCHANGED <<k8sVars, queue, builds, auxVars>>

getPipelineRunResult ==
    /\ work.pc = "poll"
    /\ builds[work.copy.id] \in {"queued", "running", "skipped", "finished"}
    /\ work' = [work EXCEPT !.pc = "store", !.seen = SeenOf(builds[work.copy.id])]
    /\ UNCHANGED <<k8sVars, queue, builds, auxVars>>

StoreInAnnotations ==
    /\ DataStore = "annotations"
    /\ updateLabelsAndAnnotations(work.run, work.copy.id, work.copy.orphan,
                                  [of |-> work.copy.id, seen |-> work.seen])
    /\ UNCHANGED configMaps

StoreInConfigMap ==
    /\ DataStore = "configmap"
    /\ configMaps' = [configMaps EXCEPT ![work.run] =
                         [of |-> work.copy.id, seen |-> work.seen]]
    /\ UNCHANGED <<api, fresh>>

\* Save updates a cached ConfigMap and does not retry: refused while the cache lacks
\* what the last poll wrote.  The ConfigMap is as far behind as the run at most.
SaveConflict ==
    /\ work.pc = "store"
    /\ DataStore = "configmap"
    /\ work.run \notin fresh
    /\ Requeue
    /\ UNCHANGED <<k8sVars, builds, auxVars>>

storePipelineRunData ==
    /\ work.pc = "store"
    /\ StoreInAnnotations \/ StoreInConfigMap
    /\ Goto("writeStatus")
    /\ UNCHANGED <<cache, pipelineExists, builds, auxVars>>

\* pipelineBuildApplier (phases are the last build state seen), then again in 3 seconds.
\* Only a finished build has a completion time: one that was skipped stays polled.
WriteStatus ==
    /\ work.pc = "writeStatus"
    /\ updateStatus(work.run, IF work.seen = "finished" THEN "Completed" ELSE "Running",
                    work.copy.id)
    /\ Requeue
    /\ UNCHANGED <<cache, configMaps, pipelineExists, builds, auxVars>>

----------------------------------------------------------------------------
(* Reconcile: the PipelineRun is being deleted *)

\* Mutant: a running build is left alone.
deleteJenkinsJobHistory_FinishedOnly ==
    /\ work.pc = "deleteHistory"
    /\ IF HasStarted(work.copy)
       THEN LET b == work.copy.id IN
            /\ builds' = [builds EXCEPT ![b] = IF @ = "finished" THEN "deleted" ELSE @]
            /\ missed' = missed \cup (IF builds[b] = "queued" THEN {b} ELSE {})
       ELSE UNCHANGED <<builds, missed>>
    /\ Goto("removeFinalizer")
    /\ UNCHANGED <<k8sVars, asked, adopted>>

\* Mutant: a build that is not found makes the deletion fail.
deleteJenkinsJobHistory_AbsentIsError ==
    /\ work.pc = "deleteHistory"
    /\ IF HasStarted(work.copy) /\ builds[work.copy.id] \in {"running", "skipped", "finished"}
       THEN /\ builds' = [builds EXCEPT ![work.copy.id] = "deleted"]
            /\ Goto("removeFinalizer")
       ELSE UNCHANGED builds /\ Requeue
    /\ UNCHANGED <<k8sVars, auxVars>>

\* "not found resources" counts as success, also for a build still queued.
deleteJenkinsJobHistory ==
    /\ work.pc = "deleteHistory"
    /\ IF HasStarted(work.copy)
       THEN LET b == work.copy.id IN
            /\ builds' = [builds EXCEPT ![b] = IF @ \in {"running", "skipped", "finished"}
                                               THEN "deleted" ELSE @]
            /\ missed' = missed \cup (IF builds[b] = "queued" THEN {b} ELSE {})
       ELSE UNCHANGED <<builds, missed>>
    /\ Goto("removeFinalizer")
    /\ UNCHANGED <<k8sVars, asked, adopted>>

\* Update with the copy read at the start: no retry here.
RemoveFinalizer ==
    /\ work.pc = "removeFinalizer"
    /\ work.current
    /\ Put(work.run, [work.copy EXCEPT !.fin = FALSE, !.st = "gone"])
    /\ Done
    /\ UNCHANGED <<cache, configMaps, pipelineExists, builds, auxVars>>

RemoveFinalizerConflict ==
    /\ work.pc = "removeFinalizer"
    /\ ~work.current
    /\ Requeue
    /\ UNCHANGED <<k8sVars, builds, auxVars>>

----------------------------------------------------------------------------
(* Jenkins, and the restart of the controller *)

BuildStarts(b) ==
    /\ builds[b] = "queued"
    /\ builds' = [builds EXCEPT ![b] = "running"]
    /\ UNCHANGED <<k8sVars, queue, work, auxVars>>

BuildFinishes(b) ==
    /\ builds[b] = "running"
    /\ builds' = [builds EXCEPT ![b] = "finished"]
    /\ UNCHANGED <<k8sVars, queue, work, auxVars>>

\* Jenkins reports SKIPPED or NOT_BUILT.
SkipBuild(b) ==
    /\ "skip" \in Disturbances
    /\ builds[b] = "running"
    /\ builds' = [builds EXCEPT ![b] = "skipped"]
    /\ UNCHANGED <<k8sVars, queue, work, auxVars>>

\* A user of Jenkins, its timer or a push to the repository starts a build.
StartElsewhere(b) ==
    /\ "elsewhere" \in Disturbances
    /\ pipelineExists
    /\ builds[b] = "unused"
    /\ builds' = [builds EXCEPT ![b] = "queued"]
    /\ UNCHANGED <<k8sVars, queue, work, auxVars>>

CancelQueued(b) ==
    /\ "cancel" \in Disturbances
    /\ builds[b] = "queued"
    /\ builds' = [builds EXCEPT ![b] = "deleted"]
    /\ UNCHANGED <<k8sVars, queue, work, auxVars>>

DiscardBuild(b) ==
    /\ "discard" \in Disturbances
    /\ builds[b] \in {"skipped", "finished"}
    /\ builds' = [builds EXCEPT ![b] = "deleted"]
    /\ UNCHANGED <<k8sVars, queue, work, auxVars>>

\* The new informer lists all objects and queues every key.
Restart ==
    /\ "crash" \in Disturbances
    /\ work' = Idle
    /\ cache' = api
    /\ fresh' = Runs
    /\ queue' = {p \in Runs : Exists(api[p])}
    /\ UNCHANGED <<api, configMaps, pipelineExists, builds, auxVars>>

----------------------------------------------------------------------------
Init ==
    /\ api = [p \in Runs |-> Absent]
    /\ cache = api
    /\ fresh = Runs
    /\ configMaps = [p \in Runs |-> NoData]
    /\ pipelineExists = TRUE
    /\ queue = {}
    /\ work = Idle
    /\ builds = [b \in Builds |-> "unused"]
    /\ asked = [p \in Runs |-> {}]
    /\ adopted = {}
    /\ missed = {}

Users(p) ==
    \/ createPipelineRun(p) \/ (\E b \in Builds : AdoptBuild(p, b))
    \/ EditRun(p) \/ DeleteRun(p) \/ CollectGarbage(p)

Jenkins(b) ==
    \/ StartElsewhere(b) \/ BuildStarts(b) \/ BuildFinishes(b) \/ SkipBuild(b)
    \/ CancelQueued(b) \/ DiscardBuild(b)

\* What the worker does when it holds a key, calls succeeding.
Proceed ==
    \/ triggerJenkinsJob \/ GiveUp \/ NoSameRun \/ WriteRunId \/ WriteStartTime
    \/ makePipelineRunOrphan
    \/ PollMissing \/ getPipelineRunResult \/ storePipelineRunData \/ WriteStatus
    \/ deleteJenkinsJobHistory \/ RemoveFinalizer \/ RemoveFinalizerConflict

Fail == UpdateFails \/ SaveConflict \/ CallFails \/ TriggerReplyLost

Next ==
    \/ \E p \in Runs : Users(p) \/ Take(p)
    \/ \E b \in Builds : Jenkins(b)
    \/ RemovePipeline \/ SyncCache \/ Proceed \/ Fail \/ Restart

Spec == Init /\ [][Next]_vars

(***************************************************************************)
(* Fairness.  The worker goes on with the key it holds and calls that can  *)
(* succeed do; the work queue is first-in first-out, so no key waits for   *)
(* ever (strong fairness, since the worker is idle only at times); the     *)
(* informer delivers; Jenkins runs what it has queued; the garbage         *)
(* collector collects.  A build starts and ends once and a run is collected *)
(* once: fairness to all builds together is fairness to each, and likewise *)
(* for the runs.  Users owe nothing.                                       *)
(***************************************************************************)
Fairness ==
    /\ WF_vars(SyncCache)
    /\ WF_vars(Proceed \/ UpdateFails \/ SaveConflict \/ CallFails)
    /\ \A p \in Runs : SF_vars(Take(p))
    /\ WF_vars(\E p \in Runs : CollectGarbage(p))
    /\ WF_vars(\E b \in Builds : BuildStarts(b) \/ BuildFinishes(b) \/ SkipBuild(b))

FairSpec == Spec /\ Fairness

----------------------------------------------------------------------------
(* Properties that hold whatever happens *)

\* A run only ever names a build that is its own: the ID is that of the answer
\* triggerJenkinsJob got, also after a retry with a stale copy, or the one webhook
\* or synchronizer created it with.
RunIdIsAccepted ==
    \A p \in Runs : HasStarted(api[p]) => api[p].id \in asked[p]

\* A run the controller started has the finalizer from the very write that makes
\* its build known (updateLabelsAndAnnotations), until the deletion branch of
\* Reconcile is through.  One created with its run ID need not have it.
StartedRunHasFinalizer ==
    \A p \in Runs \ adopted : HasStarted(api[p]) /\ Exists(api[p]) => api[p].fin

CleanedUp == {b \in Builds : builds[b] = "deleted"} \cup missed

\* No run that the controller started, or that has its finalizer, goes before the
\* record of its build is cleaned up, except a build that was still queued when
\* deleteJenkinsJobHistory asked for its deletion.
HistoryGoesWithRun ==
    [][\A p \in Runs :
          /\ HasStarted(api[p]) /\ Exists(api[p]) /\ api'[p].st = "gone"
          /\ p \notin adopted \/ api[p].fin
          => api[p].id \in CleanedUp]_vars

\* "make sure all PipelineRuns have the finalizer" (updateLabelsAndAnnotations): a
\* run the controller has reported on has it, also one created with its run ID, if
\* its data goes into annotations.  With a ConfigMap nothing adds it to that one.
ReportedRunHasFinalizer ==
    DataStore = "annotations" =>
        \A p \in Runs : Reported(api[p]) /\ Exists(api[p]) => api[p].fin

LifeOf(p) ==
    IF ~Exists(api[p]) THEN api[p].st
    ELSE IF Reported(api[p]) THEN "reported"
    ELSE IF p \in adopted THEN "adopted"
    ELSE IF HasStarted(api[p]) THEN "started" ELSE "pending"

Lifecycle == INSTANCE PipelineRunLifecycle WITH
    life <- [p \in Runs |-> LifeOf(p)],
    build <- [p \in Runs |-> api[p].id],
    owed <- {p \in Runs : api[p].fin},
    cleaned <- CleanedUp

\* Creation, start, report and removal follow the abstract life cycle of a run.
FollowsLifecycle == Lifecycle!LifeSpec

----------------------------------------------------------------------------
(* Properties that hold while no call is lost and the cache catches up *)

\* A run that has started was triggered once, or not at all if it was created for
\* a build: no other build was queued for it and then forgotten when its run ID was
\* overwritten.
TriggeredOnce == \A p \in Runs : HasStarted(api[p]) => asked[p] = {api[p].id}

\* hasSamePipelineRun: no two runs the controller started are about the same build.
OneRunPerBuild ==
    \A p, q \in Runs \ adopted :
        HasStarted(api[p]) /\ Exists(api[p]) /\ Exists(api[q]) /\ api[q].id = api[p].id
            => p = q

\* "if there still exists the same pending PipelineRun, then give up": the list
\* that makes the controller delete a run shows another one for the build.
GivesUpForAnother ==
    [][GiveUp => \E q \in Runs \ {work.run} : Exists(cache[q]) /\ cache[q].id = work.got]_vars

RunDataOf(p) == IF DataStore = "annotations" THEN api[p].data ELSE configMaps[p]

\* The status is that of the build the run names, and a completed run has the
\* final run data: storePipelineRunData comes before updateStatus.
CompletedRunIsFinal ==
    \A p \in Runs :
        /\ Reported(api[p]) => api[p].src = api[p].id
        /\ HasCompleted(api[p]) => RunDataOf(p) = [of |-> api[p].id, seen |-> "finished"]

\* A completed run is never reported as running again.
CompletedRunStays ==
    [][\A p \in Runs : HasCompleted(api[p]) => HasCompleted(api[p]')]_vars

\* A build that will never be reported as finished: skipped, cancelled in the queue
\* or discarded.  Its run is polled for as long as it exists.
NeverFinishes(b) == builds[b] \in {"skipped", "deleted"}

\* No run stays for ever without being completed, recognised as an orphan or
\* deleted: a trigger or a poll goes unanswered only for a time.  Except the runs of
\* a Pipeline that is still there whose build cannot finish any more.
EveryRunSettles ==
    \A p \in Runs :
        []<>(api[p].st = "live" =>
                \/ HasCompleted(api[p]) \/ api[p].orphan
                \/ pipelineExists /\ HasStarted(api[p]) /\ NeverFinishes(api[p].id))

\* No run stays in deletion for ever, which it only leaves by going: the clean-up
\* at Jenkins and the removal of the finalizer succeed in the end.
DeletedRunGoes == \A p \in Runs : []<>(api[p].st # "deleting")

=============================================================================
