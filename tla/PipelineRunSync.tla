--------------------------- MODULE PipelineRunSync ---------------------------
(***************************************************************************)
(* Four writers of the PipelineRuns of one Pipeline, and the Jenkins       *)
(* builds they stand for: users, who create runs that get their build from *)
(* the PipelineRun controller; the webhook, which creates a run when       *)
(* Jenkins reports a build nobody owns; the synchronizer, which on request *)
(* creates the runs Jenkins has and Kubernetes has not, and deletes those  *)
(* Jenkins has no more.                                                    *)
(*                                                                         *)
(* What is abstracted:                                                     *)
(*  - Of the PipelineRun controller (see PipelineRunController) only what  *)
(*    the others can see: a build is triggered, compared, recorded; the    *)
(*    finalizer is added with the ID or when run data is stored.           *)
(*  - A name is generated, so used once; names are interchangeable and     *)
(*    handed out in a fixed order.                                         *)
(*  - The webhook's five tries, a second apart, are not timed: all of them *)
(*    may come too early, so one stands for them.                          *)
(*  - Not multi-branch.  The Pipeline is never removed.                    *)
(***************************************************************************)
CONSTANTS
    Runs,          \* names of PipelineRuns
    UserRuns,      \* those of the runs users create: a bound for each kind
    NoRun,         \* the PipelineRun controller is idle
    Builds,        \* IDs of Jenkins builds
    NoBuild,       \* no run ID annotation
    Disturbances   \* which of the following may happen

(***************************************************************************)
(* "user"     users create PipelineRuns                                    *)
(* "delete"   users delete PipelineRuns                                    *)
(* "scm"      Jenkins starts builds of its own accord                      *)
(* "webhook"  Jenkins reports the builds it starts                         *)
(* "discard"  Jenkins discards builds                                      *)
(* "lag"      the webhook's cache misses what was written before           *)
(* "touch"    somebody updates the Pipeline                                *)
(* "error"    a call to Kubernetes or Jenkins fails, changing nothing      *)
(* "crash"    the API server or the controller manager restarts            *)
(***************************************************************************)
AllDisturbances ==
    {"user", "delete", "scm", "webhook", "discard", "lag", "touch", "error", "crash"}

ASSUME RunSyncAssumption ==
    /\ NoRun \notin Runs
    /\ UserRuns \subseteq Runs
    /\ NoBuild \notin Builds
    /\ Disturbances \subseteq AllDisturbances

VARIABLES
    api,       \* api[p]: the PipelineRun in the API server
    cache,     \* the PipelineRuns in the controller manager's informer, with their IDs
    request,   \* the Pipeline has the request annotation
    noticed,   \* ... in the controller manager's informer
    news,      \* some version not delivered yet passes requestSyncPredicate
    queued,    \* the Pipeline is in the synchronizer's work queue
    sync,      \* the local variables of the synchronizer's Reconcile
    hand,      \* the build the PipelineRun controller is about to record
    hook,      \* hook[b]: the webhook's goroutine for the event of build b
    builds     \* builds[b]: the build in Jenkins

(* Auxiliary variables: history, read by no action. *)
VARIABLES
    wanted,    \* the builds a synchronization requested at rest has to show
    shown      \* the builds that have had a PipelineRun

pipelineVars == <<request, noticed, news, wanted>>
vars == <<api, cache, pipelineVars, queued, sync, hand, hook, builds, shown>>

----------------------------------------------------------------------------
(* Types *)

PipelineRun ==
    [st: {"absent", "live", "deleting", "gone"}, id: Builds \cup {NoBuild}, fin: BOOLEAN]

Absent == [st |-> "absent", id |-> NoBuild, fin |-> FALSE]

Exists(o) == o.st \in {"live", "deleting"}

\* What a list of PipelineRuns is read for.
Lists == SUBSET (Runs \X (Builds \cup {NoBuild}))

\* create, delete: what is left to do.
Sync ==
    [pc: {"idle", "ask", "write"}, list: Lists,
     create: SUBSET Builds, delete: SUBSET Runs]

SyncIdle == [pc |-> "idle", list |-> {}, create |-> {}, delete |-> {}]

HandIdle == [pc |-> "idle", run |-> NoRun, got |-> NoBuild]

TypeOK ==
    /\ api \in [Runs -> PipelineRun]
    /\ cache \in Lists
    /\ \A p \in Runs : api[p].st = "deleting" => api[p].fin
    /\ {request, noticed, news, queued} \subseteq BOOLEAN
    /\ sync \in Sync
    /\ hand \in [pc: {"idle", "check", "write"}, run: Runs \cup {NoRun},
                 got: Builds \cup {NoBuild}]
    /\ hand.pc # "idle" => hand.run \in Runs /\ hand.got \in Builds
    /\ hook \in [Builds -> {"none", "check", "create"}]
    /\ builds \in [Builds -> {"unused", "queued", "running", "deleted"}]
    /\ wanted \subseteq Builds
    /\ shown \subseteq Builds

----------------------------------------------------------------------------
(* The API server *)

Put(p, o) ==
    /\ api' = [api EXCEPT ![p] = o]
    /\ shown' = shown \cup ({o.id} \ {NoBuild})

Listed == {<<p, api[p].id>> : p \in {q \in Runs : Exists(api[q])}}

Gone == [Absent EXCEPT !.st = "gone"]

\* Mutant: a deleted object stays although nothing holds it.
Deleted_Stays(o) == [o EXCEPT !.st = "deleting"]

\* A deleted object stays while it has the finalizer.
Deleted(o) == IF o.fin THEN [o EXCEPT !.st = "deleting"] ELSE Gone

CreateBarePipelineRun(names, id) ==
    LET unused == {p \in names : api[p].st = "absent"} IN
    /\ unused # {}
    /\ Put(CHOOSE p \in unused : TRUE, [Absent EXCEPT !.st = "live", !.id = id])

Delete(p) ==
    IF api[p].st = "live" THEN Put(p, Deleted(api[p])) ELSE UNCHANGED <<api, shown>>

createPipelineRun ==
    /\ "user" \in Disturbances
    /\ CreateBarePipelineRun(UserRuns, NoBuild)
    /\ UNCHANGED <<cache, pipelineVars, queued, sync, hand, hook, builds>>

DeleteRun(p) ==
    /\ "delete" \in Disturbances
    /\ api[p].st = "live"
    /\ Delete(p)
    /\ UNCHANGED <<cache, pipelineVars, queued, sync, hand, hook, builds>>

\* Nothing of an earlier request is under way or on its way.
AtRest == sync.pc = "idle" /\ ~queued /\ ~news /\ ~noticed

Request ==
    /\ ~request
    /\ request' = TRUE
    /\ news' = TRUE
    /\ wanted' = IF AtRest THEN {b \in Builds : builds[b] = "running"} \ shown ELSE {}
    /\ UNCHANGED <<api, cache, noticed, queued, sync, hand, hook, builds, shown>>

\* Any update of a Pipeline that has the annotation is an event.
TouchPipeline ==
    /\ "touch" \in Disturbances
    /\ news' = (news \/ request)
    /\ UNCHANGED <<api, cache, request, noticed, wanted, queued, sync, hand, hook, builds, shown>>

DeliverRuns ==
    /\ cache # Listed
    /\ cache' = Listed
    /\ UNCHANGED <<api, pipelineVars, queued, sync, hand, hook, builds, shown>>

\* requestSyncPredicate: versions with the annotation queue the Pipeline.
DeliverPipeline ==
    /\ noticed # request \/ news
    /\ noticed' = request
    /\ news' = FALSE
    /\ queued' = (queued \/ news)
    /\ UNCHANGED <<api, cache, request, wanted, sync, hand, hook, builds, shown>>

----------------------------------------------------------------------------
(* Jenkins *)

QueueBuild(b) ==
    /\ "scm" \in Disturbances
    /\ builds[b] = "unused"
    /\ builds' = [builds EXCEPT ![b] = "queued"]
    /\ UNCHANGED <<api, cache, pipelineVars, queued, sync, hand, hook, shown>>

\* From here on the build can be listed, also when it has finished.
StartBuild(b) ==
    /\ builds[b] = "queued"
    /\ builds' = [builds EXCEPT ![b] = "running"]
    /\ hook' = [hook EXCEPT ![b] = IF "webhook" \in Disturbances THEN "check" ELSE @]
    /\ UNCHANGED <<api, cache, pipelineVars, queued, sync, hand, shown>>

DiscardBuild(b) ==
    /\ "discard" \in Disturbances
    /\ builds[b] = "running"
    /\ builds' = [builds EXCEPT ![b] = "deleted"]
    /\ UNCHANGED <<api, cache, pipelineVars, queued, sync, hand, hook, shown>>

----------------------------------------------------------------------------
(* The PipelineRun controller *)

HandUnchanged == UNCHANGED <<cache, pipelineVars, queued, sync, hook>>

\* A new build, or one still queued the request is folded into.
Trigger(p) ==
    /\ hand.pc = "idle"
    /\ api[p].st = "live"
    /\ api[p].id = NoBuild
    /\ \E b \in Builds :
          /\ builds[b] \in {"unused", "queued"}
          /\ builds' = [builds EXCEPT ![b] = "queued"]
          /\ hand' = [pc |-> "check", run |-> p, got |-> b]
    /\ UNCHANGED <<api, shown>>
    /\ HandUnchanged

hasSamePipelineRun == \E q \in Runs : <<q, hand.got>> \in cache

GiveUp ==
    /\ hand.pc = "check"
    /\ hasSamePipelineRun
    /\ Delete(hand.run)
    /\ hand' = HandIdle
    /\ UNCHANGED builds
    /\ HandUnchanged

NoSameRun ==
    /\ hand.pc = "check"
    /\ ~hasSamePipelineRun
    /\ hand' = [hand EXCEPT !.pc = "write"]
    /\ UNCHANGED <<api, builds, shown>>
    /\ HandUnchanged

\* The ID annotation and the finalizer, unless the run has gone.
RecordRunId ==
    /\ hand.pc = "write"
    /\ IF Exists(api[hand.run])
       THEN Put(hand.run, [api[hand.run] EXCEPT !.id = hand.got, !.fin = TRUE])
       ELSE UNCHANGED <<api, shown>>
    /\ hand' = HandIdle
    /\ UNCHANGED builds
    /\ HandUnchanged

\* Storing run data in annotations adds the finalizer to runs others made.
StoreRunData(p) ==
    /\ hand.pc = "idle"
    /\ api[p].st = "live"
    /\ api[p].id # NoBuild
    /\ ~api[p].fin
    /\ builds[api[p].id] = "running"
    /\ Put(p, [api[p] EXCEPT !.fin = TRUE])
    /\ UNCHANGED <<hand, builds>>
    /\ HandUnchanged

\* The build's history goes and then the finalizer; a queued build is not found.
FinalizeRun(p) ==
    /\ hand.pc = "idle"
    /\ api[p].st = "deleting"
    /\ LET b == api[p].id IN
          builds' = IF b # NoBuild /\ builds[b] = "running"
                    THEN [builds EXCEPT ![b] = "deleted"]
                    ELSE builds
    /\ Put(p, Gone)
    /\ UNCHANGED hand
    /\ HandUnchanged

----------------------------------------------------------------------------
(* The webhook: handleWorkflowRunInitialize *)

HookUnchanged == UNCHANGED <<cache, pipelineVars, queued, sync, hand, builds>>

\* The list by identifier has an item.
HookFinds(b) ==
    /\ hook[b] = "check"
    /\ \E p \in Runs : Exists(api[p]) /\ api[p].id = b
    /\ hook' = [hook EXCEPT ![b] = "none"]
    /\ UNCHANGED <<api, shown>>
    /\ HookUnchanged

\* It is empty; a failing list is taken for an empty one.
HookMisses(b) ==
    /\ hook[b] = "check"
    /\ \/ ~ \E p \in Runs : Exists(api[p]) /\ api[p].id = b
       \/ {"lag", "error"} \cap Disturbances # {}
    /\ hook' = [hook EXCEPT ![b] = "create"]
    /\ UNCHANGED <<api, shown>>
    /\ HookUnchanged

HookCreates(b) ==
    /\ hook[b] = "create"
    /\ CreateBarePipelineRun(Runs \ UserRuns, b)
    /\ hook' = [hook EXCEPT ![b] = "none"]
    /\ HookUnchanged

\* Errors end the goroutine, and nobody hears of them; so does a restart.
HookEnds(b) ==
    /\ {"error", "crash"} \cap Disturbances # {}
    /\ hook[b] \in {"check", "create"}
    /\ hook' = [hook EXCEPT ![b] = "none"]
    /\ UNCHANGED <<api, shown>>
    /\ HookUnchanged

----------------------------------------------------------------------------
(* The synchronizer: Reconcile *)

SyncUnchanged == UNCHANGED <<cache, noticed, news, wanted, hand, hook, builds>>

hasPendingPipelineRuns == \E p \in Runs : <<p, NoBuild>> \in cache

\* No annotation, or some run has no ID yet: return, and do not come back.
SyncSkips ==
    /\ sync.pc = "idle"
    /\ queued
    /\ ~noticed \/ hasPendingPipelineRuns
    /\ queued' = FALSE
    /\ UNCHANGED <<api, request, sync, shown>>
    /\ SyncUnchanged

\* Mutant: runs without an ID do not hold the synchronization up.
SyncLists_Pending ==
    /\ sync.pc = "idle"
    /\ queued
    /\ noticed
    /\ queued' = FALSE
    /\ sync' = [SyncIdle EXCEPT !.pc = "ask", !.list = cache]
    /\ UNCHANGED <<api, request, shown>>
    /\ SyncUnchanged

SyncLists ==
    /\ sync.pc = "idle"
    /\ queued
    /\ noticed
    /\ ~hasPendingPipelineRuns
    /\ queued' = FALSE
    /\ sync' = [SyncIdle EXCEPT !.pc = "ask", !.list = cache]
    /\ UNCHANGED <<api, request, shown>>
    /\ SyncUnchanged

Owners(b) == {p \in Runs : <<p, b>> \in sync.list}

\* newPipelineRunFinder: of several runs with one ID the last one listed is found.
Found(jobRuns) ==
    {F \in SUBSET UNION {Owners(b) : b \in jobRuns} :
        \A b \in jobRuns : Owners(b) # {} => \E p \in Runs : F \cap Owners(b) = {p}}

\* Mutant: runs are kept by their IDs and not by their names.
SyncAsks_ById ==
    /\ sync.pc = "ask"
    /\ LET jobRuns == {b \in Builds : builds[b] = "running"} IN
          sync' = [SyncIdle EXCEPT
              !.pc = "write",
              !.create = {b \in jobRuns : Owners(b) = {}},
              !.delete = {e[1] : e \in {l \in sync.list : l[2] \notin jobRuns}}]
    /\ UNCHANGED <<api, request, queued, shown>>
    /\ SyncUnchanged

\* GetPipelineRuns, createBarePipelineRunsIfNotPresent,
\* collectPipelineRunsDeletedInJenkins: queued builds are not listed yet.
SyncAsks ==
    /\ sync.pc = "ask"
    /\ LET jobRuns == {b \in Builds : builds[b] = "running"} IN
       \E F \in Found(jobRuns) :
          sync' = [SyncIdle EXCEPT
              !.pc = "write",
              !.create = {b \in jobRuns : Owners(b) = {}},
              !.delete = {e[1] : e \in sync.list} \ F]
    /\ UNCHANGED <<api, request, queued, shown>>
    /\ SyncUnchanged

SyncCreates(b) ==
    /\ b \in sync.create
    /\ CreateBarePipelineRun(Runs \ UserRuns, b)
    /\ sync' = [sync EXCEPT !.create = @ \ {b}]
    /\ UNCHANGED <<request, queued>>
    /\ SyncUnchanged

SyncDeletes(p) ==
    /\ sync.create = {}
    /\ p \in sync.delete
    /\ Delete(p)
    /\ sync' = [sync EXCEPT !.delete = @ \ {p}]
    /\ UNCHANGED <<request, queued>>
    /\ SyncUnchanged

\* Errors of Create and Delete are logged, and that is all.
SyncWriteFails ==
    /\ "error" \in Disturbances
    /\ \/ \E b \in sync.create :
             /\ sync' = [sync EXCEPT !.create = @ \ {b}]
             /\ wanted' = wanted \ {b}
       \/ \E p \in sync.delete :
             /\ sync.create = {}
             /\ sync' = [sync EXCEPT !.delete = @ \ {p}]
             /\ UNCHANGED wanted
    /\ UNCHANGED <<api, cache, request, noticed, news, queued, hand, hook, builds, shown>>

\* Mutant: the annotation is removed before the runs are created.
SyncEnds_Early ==
    /\ sync.pc = "write"
    /\ request' = FALSE
    /\ wanted' = {}
    /\ sync' = SyncIdle
    /\ UNCHANGED <<api, cache, noticed, news, queued, hand, hook, builds, shown>>

\* synchronizedSuccessfully: a cached Get; a version without the annotation is left as
\* it is, and another is updated, retried until it is the latest: no event.
SyncEnds ==
    /\ sync.pc = "write"
    /\ sync.create = {} /\ sync.delete = {}
    /\ IF noticed
       THEN request' = FALSE /\ wanted' = {}
       ELSE UNCHANGED <<request, wanted>>
    /\ sync' = SyncIdle
    /\ UNCHANGED <<api, cache, noticed, news, queued, hand, hook, builds, shown>>

\* GetPipelineRuns or the update of the Pipeline fails: the queue tries again.
SyncFails ==
    /\ "error" \in Disturbances
    /\ sync.pc = "ask" \/ (sync.pc = "write" /\ sync.create = {} /\ sync.delete = {})
    /\ sync' = SyncIdle
    /\ queued' = TRUE
    /\ UNCHANGED <<api, request, shown>>
    /\ SyncUnchanged

\* The controller manager starts anew: requestSyncPredicate lets Pipelines with
\* the annotation pass when they are listed.
Restart ==
    /\ "crash" \in Disturbances
    /\ cache' = Listed
    /\ noticed' = request
    /\ news' = FALSE
    /\ queued' = request
    /\ sync' = SyncIdle
    /\ hand' = HandIdle
    /\ UNCHANGED <<api, request, wanted, hook, builds, shown>>

----------------------------------------------------------------------------
Init ==
    /\ api = [p \in Runs |-> Absent]
    /\ cache = {}
    /\ request = FALSE /\ noticed = FALSE /\ news = FALSE /\ queued = FALSE
    /\ sync = SyncIdle
    /\ hand = HandIdle
    /\ hook = [b \in Builds |-> "none"]
    /\ builds = [b \in Builds |-> "unused"]
    /\ wanted = {} /\ shown = {}

Controller ==
    \/ \E p \in Runs : Trigger(p) \/ FinalizeRun(p)
    \/ GiveUp \/ NoSameRun \/ RecordRunId

Webhook == \E b \in Builds : HookFinds(b) \/ HookMisses(b) \/ HookCreates(b)

Synchronizer ==
    \/ SyncSkips \/ SyncLists \/ SyncAsks \/ SyncEnds
    \/ \E b \in Builds : SyncCreates(b)
    \/ \E p \in Runs : SyncDeletes(p)

Users == createPipelineRun \/ Request \/ TouchPipeline \/ \E p \in Runs : DeleteRun(p)

Failures ==
    SyncWriteFails \/ SyncFails \/ Restart \/ \E b \in Builds : HookEnds(b)

Next ==
    \/ Controller \/ Webhook \/ Synchronizer \/ Users \/ Failures
    \/ DeliverRuns \/ DeliverPipeline
    \/ \E b \in Builds : QueueBuild(b) \/ StartBuild(b) \/ DiscardBuild(b)
    \/ \E p \in Runs : StoreRunData(p)

Spec == Init /\ [][Next]_vars

(***************************************************************************)
(* Fairness: each worker goes on with what it has in hand, the informers   *)
(* deliver and Jenkins starts what it has queued.  Users owe nothing, and  *)
(* neither does StoreRunData, which no run data in ConfigMaps needs.       *)
(***************************************************************************)
Fairness ==
    /\ WF_vars(Controller)
    /\ WF_vars(Webhook)
    /\ WF_vars(Synchronizer)
    /\ WF_vars(DeliverRuns)
    /\ WF_vars(DeliverPipeline)
    /\ \A b \in Builds : WF_vars(StartBuild(b))

FairSpec == Spec /\ Fairness

----------------------------------------------------------------------------
(* Properties *)

\* "wait it until all PipelineRuns have the run id from Jenkins": a run that has
\* no build yet is never taken for one whose build Jenkins has deleted.
PendingRunIsKept == \A p \in sync.delete : api[p].st = "live" => api[p].id # NoBuild

\* "synchronized PipelineRun successfully": when the annotation is removed, all
\* builds Jenkins had when it was set, with the synchronizer at rest, have had a
\* PipelineRun or are gone, but for those whose creation has failed.
RequestedIsShown ==
    [][request /\ ~request' => \A b \in wanted : builds[b] = "running" => b \in shown]_vars

\* Each build Jenkins lists has a PipelineRun, each PipelineRun has a listed build,
\* and no two have the same.
InStep ==
    LET live == {p \in Runs : Exists(api[p])} IN
    /\ {b \in Builds : builds[b] = "running"} = {api[p].id : p \in live}
    /\ \A p, q \in live : api[p].id = api[q].id => p = q

\* If synchronizations are requested and done again and again, and their
\* writes do not go on failing, the PipelineRuns and the builds get in step and stay
\* so, whatever was created twice, deleted too early or discarded before.
RunsFollowBuilds ==
    []<>request /\ []<>~request /\ ~[]<><<SyncWriteFails>>_vars => <>[]InStep

\* "wait it until all PipelineRuns have the run id from Jenkins": a request is
\* not forgotten, and is done at last.
RequestIsServed == []<>~request

=============================================================================
