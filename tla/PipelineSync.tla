---------------------------- MODULE PipelineSync ----------------------------
(***************************************************************************)
(* A Pipeline object and its Jenkins job (controllers/jenkins/pipeline):   *)
(* the Pipeline controller, which makes the job follow the spec; the       *)
(* metadata controller, which writes what Jenkins says of the job into the *)
(* annotations of the same object; the REST handlers users write it with;  *)
(* the synchronizer, which takes the request annotation away.              *)
(*                                                                         *)
(* What is abstracted:                                                     *)
(*  - A spec is a member of Specs and its hash is itself: the 32 bits of   *)
(*    ComputeHash are taken to tell specs apart.                           *)
(*  - The metadata and branches annotations have no value of their own;    *)
(*    writing them writes back all other annotations of the copy.          *)
(*  - The metadata controller's cached Get may be stale, which is the same *)
(*    as a Get that was made earlier: it reads the object itself, and may  *)
(*    take any time until it writes.                                       *)
(*  - The Pipeline controller's informer is behind by any amount and then  *)
(*    delivers all versions at once.                                       *)
(*  - One worker, as in Start.  Delays and back-off are not timed.         *)
(***************************************************************************)
CONSTANTS
    Specs,         \* what a Pipeline may ask of its job
    NoSpec,        \* no job, no hash
    Disturbances   \* which of the following may happen

(***************************************************************************)
(* "error"      a call to Kubernetes or Jenkins fails, changing nothing    *)
(* "lostReply"  Jenkins does as it is asked but its answer is lost         *)
(* "crash"      the controller manager restarts                            *)
(* "metadata"   the metadata controller is enabled                         *)
(* "request"    somebody requests the synchronization of PipelineRuns      *)
(* "recreate"   a Pipeline is created again under the name of a gone one   *)
(* "revert"     a spec is put back to a former one                         *)
(* "client"     a client sends back an object it has read some time ago    *)
(* "bare"       a Pipeline is created without annotations                  *)
(***************************************************************************)
AllDisturbances ==
    {"error", "lostReply", "crash", "metadata", "request", "recreate", "revert",
     "client", "bare"}

ASSUME SyncAssumption ==
    /\ NoSpec \notin Specs
    /\ Disturbances \subseteq AllDisturbances

VARIABLES
    obj,      \* the Pipeline in the API server
    cache,    \* the Pipeline in the Pipeline controller's informer
    news,     \* some version not delivered yet passes the event handler's filter
    queued,   \* the key is in the Pipeline controller's work queue
    work,     \* the local variables of the syncHandler under way
    meta,     \* the copy the metadata controller is going to write back
    client,   \* the object a client is going to send back
    job       \* the spec of the Jenkins job

(* Auxiliary variables: history, read by no action but for "revert". *)
VARIABLES
    past,     \* the specs there have been
    guarded   \* this Pipeline has had the finalizer

auxVars == <<past, guarded>>
vars == <<obj, cache, news, queued, work, meta, client, job, auxVars>>

----------------------------------------------------------------------------
(* Types *)

\* sync: the sync status is "successful"; hash: of the spec last synchronized;
\* request: PipelineRuns are to be synchronized; nil: the object has no map.
Annotations ==
    [nil: BOOLEAN, sync: BOOLEAN, hash: Specs \cup {NoSpec}, request: BOOLEAN]
NoAnnotations == [nil |-> TRUE, sync |-> FALSE, hash |-> NoSpec, request |-> FALSE]

Pipeline ==
    [st: {"absent", "live", "deleting", "gone"}, spec: Specs \cup {NoSpec},
     fin: BOOLEAN, ann: Annotations]
NoPipeline == [st |-> "absent", spec |-> NoSpec, fin |-> FALSE, ann |-> NoAnnotations]

Exists(o) == o.st \in {"live", "deleting"}

Idle == [pc |-> "idle", copy |-> NoPipeline]
NoCopy == [held |-> FALSE, ann |-> NoAnnotations]

TypeOK ==
    /\ obj \in Pipeline
    /\ cache \in Pipeline
    /\ obj.st = "deleting" => obj.fin
    /\ news \in BOOLEAN
    /\ queued \in BOOLEAN
    /\ work \in [pc: {"idle", "sync", "delete", "write"}, copy: Pipeline]
    /\ work.pc = "sync" => work.copy.fin
    /\ meta \in [held: BOOLEAN, ann: Annotations]
    /\ client \in Pipeline
    /\ job \in Specs \cup {NoSpec}
    /\ past \subseteq Specs
    /\ guarded \in BOOLEAN

----------------------------------------------------------------------------
(* The API server and the event handler of the Pipeline controller *)

\* Mutant: the filter is on the whole update, changes of the spec included.
Notice_NotWhileRequested(o) ==
    news' = (news \/ ~Exists(obj) \/ ~Exists(o) \/ ~o.ann.request)

\* Mutant: only changes of the spec are noticed.
Notice_SpecOnly(o) == news' = (news \/ ~Exists(obj) \/ obj.spec # o.spec)

\* Adding and removal are always noticed, and so are changes of the spec.  Any
\* update changes the ObjectMeta, which counts when no request is pending.
Notice(o) ==
    news' = (news \/ ~Exists(obj) \/ ~Exists(o) \/ obj.spec # o.spec \/ ~o.ann.request)

Put(o) ==
    /\ obj' = o
    /\ Notice(o)
    /\ guarded' = (o.fin \/ (guarded /\ Exists(obj)))

\* An object that is being deleted goes with its last finalizer.
Finalized(o) == [o EXCEPT !.st = IF o.st = "deleting" /\ ~o.fin THEN "gone" ELSE o.st]

\* Whether a spec may be asked for, and the note that it has been.
Asks(s) ==
    /\ s \notin past \/ "revert" \in Disturbances \/ (Exists(obj) /\ s = obj.spec)
    /\ past' = past \cup {s}

CreatePipelineObj(s) ==
    /\ obj.st = "absent" \/ (obj.st = "gone" /\ "recreate" \in Disturbances)
    /\ Asks(s)
    /\ \E nil \in (IF "bare" \in Disturbances THEN BOOLEAN ELSE {FALSE}) :
          Put([NoPipeline EXCEPT !.st = "live", !.spec = s, !.ann.nil = nil])
    /\ client' = NoPipeline
    /\ UNCHANGED <<cache, queued, work, meta, job>>

\* Get and Update: the new Jenkinsfile is a new spec.
UpdateJenkinsfile(s) ==
    /\ Exists(obj)
    /\ s # obj.spec
    /\ Asks(s)
    /\ Put([obj EXCEPT !.spec = s, !.ann.nil = FALSE])
    /\ UNCHANGED <<cache, queued, work, meta, client, job>>

ClientReads ==
    /\ "client" \in Disturbances
    /\ Exists(obj)
    /\ client' = obj
    /\ UNCHANGED <<obj, cache, news, queued, work, meta, job, auxVars>>

\* The object the client read, with another spec and the latest resourceVersion,
\* replaces the latest object: its annotations and finalizers too.
UpdatePipelineObj(s) ==
    /\ Exists(client) /\ Exists(obj)
    /\ Asks(s)
    /\ Put(Finalized([obj EXCEPT !.spec = s, !.ann = client.ann, !.fin = client.fin]))
    /\ client' = NoPipeline
    /\ UNCHANGED <<cache, queued, work, meta, job>>

DeletePipelineObj ==
    /\ obj.st = "live"
    /\ Put(Finalized([obj EXCEPT !.st = "deleting"]))
    /\ UNCHANGED <<cache, queued, work, meta, client, job, past>>

Request ==
    /\ "request" \in Disturbances
    /\ Exists(obj)
    /\ ~obj.ann.request
    /\ Put([obj EXCEPT !.ann.request = TRUE, !.ann.nil = FALSE])
    /\ UNCHANGED <<cache, queued, work, meta, client, job, past>>

\* SyncReconciler reads the job's builds and removes the annotation.
Synchronize ==
    /\ Exists(obj)
    /\ obj.ann.request
    /\ job # NoSpec
    /\ Put([obj EXCEPT !.ann.request = FALSE])
    /\ UNCHANGED <<cache, queued, work, meta, client, job, past>>

Deliver ==
    /\ cache # obj \/ news
    /\ cache' = obj
    /\ news' = FALSE
    /\ queued' = (queued \/ news)
    /\ UNCHANGED <<obj, work, meta, client, job, auxVars>>

----------------------------------------------------------------------------
(* syncHandler: the cached object decides *)

Done == work' = Idle /\ UNCHANGED queued

\* AddRateLimited
Requeue == work' = Idle /\ queued' = TRUE

Begin(call, copy) ==
    /\ work.pc = "idle"
    /\ queued
    /\ queued' = FALSE
    /\ work' = [pc |-> call, copy |-> copy]
    /\ UNCHANGED <<obj, cache, news, meta, client, job, auxVars>>

\* Mutant: a successful synchronization is the last one.
Synchronized_Once == cache.ann.sync

\* "it was synced successfully, and there's any change with the Pipeline spec"
Synchronized == cache.ann.sync /\ cache.ann.hash = cache.spec

\* Not found, or nothing to do.
Ignore ==
    /\ ~Exists(cache) \/ (cache.st = "live" /\ Synchronized)
    /\ Begin("idle", NoPipeline)

\* Mutant: the finalizer is not added.
BeginSync_NoFinalizer ==
    /\ cache.st = "live"
    /\ ~Synchronized
    /\ Begin("sync",
             [cache EXCEPT !.ann.nil = FALSE, !.ann.sync = TRUE,
                           !.ann.hash = IF cache.ann.sync THEN cache.spec ELSE @])

\* The copy gets everything that is written once Jenkins has done its part.
\* The hash is set only by a synchronization that is not the first.
BeginSync ==
    /\ cache.st = "live"
    /\ ~Synchronized
    /\ Begin("sync",
             [cache EXCEPT !.fin = TRUE, !.ann.nil = FALSE, !.ann.sync = TRUE,
                           !.ann.hash = IF cache.ann.sync THEN cache.spec ELSE @])

\* Mutant: the deletion timestamp is not looked at.
BeginDelete_AnyTime ==
    /\ Exists(cache)
    /\ cache.fin
    /\ Begin("delete", [cache EXCEPT !.fin = FALSE])

BeginDelete ==
    /\ cache.st = "deleting"
    /\ cache.fin
    /\ Begin("delete", [cache EXCEPT !.fin = FALSE])

Take == Ignore \/ BeginSync \/ BeginDelete

----------------------------------------------------------------------------
(* syncHandler: the calls *)

k8sUnchanged == UNCHANGED <<obj, cache, news, meta, client, auxVars>>

\* Mutant: an existing job is left as it is.
SyncJob_CreateOnly ==
    /\ work.pc = "sync"
    /\ job' = IF job = NoSpec THEN work.copy.spec ELSE job
    /\ work' = [work EXCEPT !.pc = "write"]
    /\ UNCHANGED queued
    /\ k8sUnchanged

\* GetProjectPipelineConfig, then update, create or nothing.  No one else
\* writes jobs and there is one worker: one step.
SyncJob ==
    /\ work.pc = "sync"
    /\ job' = work.copy.spec
    /\ work' = [work EXCEPT !.pc = "write"]
    /\ UNCHANGED queued
    /\ k8sUnchanged

\* A job that does not exist (404) is as good as deleted.
DeleteJob ==
    /\ work.pc = "delete"
    /\ job' = NoSpec
    /\ work' = [work EXCEPT !.pc = "write"]
    /\ UNCHANGED queued
    /\ k8sUnchanged

\* Mutant: what DeleteProjectPipeline answers is not looked at.
DeleteFails_Ignored ==
    /\ "error" \in Disturbances
    /\ work.pc = "delete"
    /\ work' = [work EXCEPT !.pc = "write"]
    /\ UNCHANGED <<queued, job>>
    /\ k8sUnchanged

DeleteFails ==
    /\ "error" \in Disturbances
    /\ work.pc = "delete"
    /\ Requeue
    /\ UNCHANGED job
    /\ k8sUnchanged

\* Mutant: the error of the job's update or creation is not looked at.
CallFails_Ignored ==
    /\ "error" \in Disturbances
    /\ work.pc \in {"sync", "write"}
    /\ IF work.pc = "sync"
       THEN work' = [work EXCEPT !.pc = "write"] /\ UNCHANGED queued
       ELSE Requeue
    /\ UNCHANGED job
    /\ k8sUnchanged

CallFails ==
    /\ "error" \in Disturbances
    /\ work.pc \in {"sync", "write"}
    /\ Requeue
    /\ UNCHANGED job
    /\ k8sUnchanged

ReplyLost ==
    /\ "lostReply" \in Disturbances
    /\ \/ work.pc = "sync" /\ job' = work.copy.spec
       \/ work.pc = "delete" /\ job' = NoSpec
    /\ Requeue
    /\ k8sUnchanged

\* Mutant: the finalizers are not compared.
SameOutcome_AnyFinalizers(o) ==
    /\ o.ann.sync = work.copy.ann.sync
    /\ o.ann.hash = work.copy.ann.hash

\* What updatePipeline compares between the object it gets and the copy.
SameOutcome(o) ==
    /\ o.ann.sync = work.copy.ann.sync
    /\ o.ann.hash = work.copy.ann.hash
    /\ o.fin = work.copy.fin

UpdatedAnnotations ==
    IF work.copy.ann.nil
    THEN obj.ann
    ELSE [obj.ann EXCEPT !.sync = work.copy.ann.sync, !.hash = work.copy.ann.hash]

\* RetryOnConflict around a live Get and an Update: the sync status and hash of the
\* copy, if it has annotations, and its finalizers are put on the object as it is
\* now, whatever its spec; nothing is sent if it has them.
UpdateLive ==
    /\ work.pc = "write"
    /\ Exists(obj)
    /\ IF SameOutcome(obj)
       THEN UNCHANGED <<obj, news, guarded>>
       ELSE /\ ~obj.ann.nil \/ work.copy.ann.nil
            /\ Put(Finalized(
                   [obj EXCEPT !.fin = work.copy.fin, !.ann = UpdatedAnnotations]))
    /\ Done
    /\ UNCHANGED <<cache, meta, client, job, past>>

\* The live Get does not find the Pipeline.
UpdateNotFound ==
    /\ work.pc = "write"
    /\ ~Exists(obj)
    /\ Requeue
    /\ UNCHANGED job
    /\ k8sUnchanged

\* The controller manager starts anew: informers list, every key is queued.
Reset ==
    /\ cache' = obj
    /\ news' = FALSE
    /\ queued' = Exists(obj)
    /\ work' = Idle
    /\ meta' = NoCopy
    /\ UNCHANGED <<obj, client, job, auxVars>>

\* Assignment to an entry of a nil map panics and takes the process down.
MapIsNil ==
    /\ work.pc = "write"
    /\ Exists(obj)
    /\ ~SameOutcome(obj)
    /\ obj.ann.nil /\ ~work.copy.ann.nil

Panic == MapIsNil /\ Reset

Restart == "crash" \in Disturbances /\ Reset

----------------------------------------------------------------------------
(* The metadata controller, every ten seconds *)

\* A panic (no annotations) or an error of Jenkins (no job) ends the Reconcile.
MetadataReads ==
    /\ "metadata" \in Disturbances
    /\ ~meta.held
    /\ Exists(obj)
    /\ ~obj.ann.nil
    /\ job # NoSpec
    /\ meta' = [held |-> TRUE, ann |-> obj.ann]
    /\ UNCHANGED <<obj, cache, news, queued, work, client, job, auxVars>>

\* updateAnnotations: all annotations are replaced by those of the copy, unless
\* the Pipeline is not found or has the same, in a cache that may be any time behind.
MetadataWrites ==
    /\ meta.held
    /\ \/ UNCHANGED <<obj, news, guarded>>
       \/ Exists(obj) /\ Put([obj EXCEPT !.ann = meta.ann])
    /\ meta' = NoCopy
    /\ UNCHANGED <<cache, queued, work, client, job, past>>

MetadataFails ==
    /\ "error" \in Disturbances
    /\ meta.held
    /\ meta' = NoCopy
    /\ UNCHANGED <<obj, cache, news, queued, work, client, job, auxVars>>

----------------------------------------------------------------------------
Init ==
    /\ obj = NoPipeline
    /\ cache = NoPipeline
    /\ news = FALSE
    /\ queued = FALSE
    /\ work = Idle
    /\ meta = NoCopy
    /\ client = NoPipeline
    /\ job = NoSpec
    /\ past = {}
    /\ guarded = FALSE

Users(s) == CreatePipelineObj(s) \/ UpdateJenkinsfile(s) \/ UpdatePipelineObj(s)

Calls == SyncJob \/ DeleteJob \/ UpdateLive \/ UpdateNotFound \/ Panic

Failures == DeleteFails \/ CallFails \/ ReplyLost \/ MetadataFails \/ Restart

Next ==
    \/ \E s \in Specs : Users(s)
    \/ ClientReads \/ DeletePipelineObj \/ Request \/ Synchronize
    \/ Deliver \/ Take \/ Calls \/ Failures
    \/ MetadataReads \/ MetadataWrites

Spec == Init /\ [][Next]_vars

(***************************************************************************)
(* Fairness: the worker takes the key and goes on with it, and the         *)
(* informer delivers.  Users and the metadata controller owe nothing, and  *)
(* neither does the synchronizer: a request it has passed over, because of *)
(* a PipelineRun without a run ID, is one nothing reminds it of.           *)
(***************************************************************************)
Fairness ==
    /\ WF_vars(Deliver)
    /\ WF_vars(Take)
    /\ WF_vars(Calls)

FairSpec == Spec /\ Fairness

----------------------------------------------------------------------------
(* Properties *)

\* Nothing is under way or on its way in the Pipeline controller.
Settled == work.pc = "idle" /\ ~queued /\ ~news /\ cache = obj

\* "syncHandler compares the actual state with the desired, and attempts to
\* converge the two": when it has come to rest, the job has the Pipeline's spec.
SettledJobFollowsSpec == Settled /\ obj.st = "live" => job = obj.spec

\* When the controller has come to rest a Pipeline has the finalizer, and can be
\* deleted without leaving its job behind.
SettledPipelineIsGuarded == Settled /\ obj.st = "live" => obj.fin

\* Once a Pipeline has had the finalizer, it goes only after its job has gone,
\* and the job does not come back.
GuardedJobGoes == guarded /\ obj.st = "gone" => job = NoSpec

\* The job is never taken from under a Pipeline that is not being deleted, also
\* not from one that was created again under the same name.
JobDeletedOnlyForDeleted ==
    [][job # NoSpec /\ job' = NoSpec => obj.st # "live"]_vars

\* The Pipeline as PipelineJob sees it.
Place ==
    CASE obj.st = "live"     -> IF obj.fin THEN "guarded" ELSE "new"
      [] obj.st = "deleting" -> "leaving"
      [] obj.st = "gone"     -> IF guarded THEN "gone" ELSE "left"
      [] OTHER               -> "absent"

Protocol == INSTANCE PipelineJob WITH pipeline <- Place

\* Users, controllers and Jenkins together keep to PipelineJob: the finalizer comes
\* after the job and goes after it, although job and Pipeline are written in two
\* systems, from copies, by handlers that are cut short and repeated.
FollowsJobProtocol == Protocol!JobSpec

\* Of all specs: the job gets the spec, or the spec is changed.
JobFollowsSpec ==
    \A s \in Specs : []<>(obj.st = "live" /\ obj.spec = s => job = s)

\* A Pipeline that is being deleted is eventually gone, unless a request for a
\* synchronization stays: while one is pending the deletion is no event, and the
\* removal of the request is the event that makes up for it.
DeletedPipelineGoes == []<>(~obj.ann.request) => []<>(obj.st # "deleting")

=============================================================================
