# ks-devops in TLA+

This directory is a verification project for ks-devops, the Kubernetes
operator and API server that drive Jenkins pipelines, GitOps applications and
their supporting resources. It holds TLA+ modules translated from the Go
sources, TLC configurations that model-check them on small instances, and
proofs, checked by TLAPS, of what holds for instances of any size.

## Inventory

All state of the system is in Kubernetes objects and in Jenkins. The program
is a set of controllers (one work queue each, reading an informer cache that
lags behind the API server) and an API server whose handlers read and write
the same objects. Components interact only through the objects: a write by one
is an event for the others. What is hard is the same everywhere: decisions are
taken from stale copies, several calls to two systems make one operation and
any of them may fail or be repeated, and nobody holds a lock.

| component | state it keeps | operations | what makes it correct |
|---|---|---|---|
| PipelineRun controller (`controllers/jenkins/pipelinerun`) | PipelineRun (annotations, finalizer, status), ConfigMaps, Jenkins builds | trigger, poll, store data, write status, give up, mark orphan, delete | one build per run, one run per build, status is that of the build, records go with the run |
| PipelineRun REST handler (`pkg/kapis/devops/v1alpha3/pipelinerun`) | PipelineRun | create, list, logs | a run is created for an existing Pipeline and branch |
| PipelineRun synchronizer | Pipeline annotation, PipelineRuns | create missing runs, delete stale ones | every requested synchronization happens; no run in use is deleted |
| Webhook handlers (`pkg/kapis/devops/v1alpha3/webhook`) | PipelineRuns, Pipeline annotations | create a run for a build started in Jenkins, request scans | no second run for a build the controller triggered |
| Pipeline controller, metadata controller, Jenkinsfile converter | Pipeline, Jenkins job | create, update, delete the job; copy metadata | the job follows the spec; no job outlives its Pipeline; no writer undoes another's annotations |
| DevOpsProject and credential controllers | namespaces, Jenkins folders and credentials | create, update, delete | the folder and credentials follow the objects |
| GitRepository controllers | GitRepository (URL), webhooks at the SCM, statuses of pull requests | amend URLs, register webhooks, notify, send status | a newer status is not overridden; the URL gets its provider's form; no webhook leaks |
| Argo CD and Flux CD application controllers | Application objects of both kinds, a name label | create, update, pass the finalizers on, delete, sync status | a counterpart of its own for each Application, removed before it |
| Argo CD and Flux CD repository controllers | secrets for Argo CD, repositories for Flux CD, one finalizer | add the finalizer, create or update, delete, take the finalizer away | what was made for a repository goes before it |
| Addon controllers | Addons, operator resources | install, remove | clean-up before the finalizer goes |
| Jenkins configuration controllers | ConfigMaps, Jenkins reload state | convert, reload | configuration is applied, newest last |
| REST APIs for Applications and GitRepositories | the same objects | create, update with the latest resourceVersion, delete | what the controllers keep in an object survives a client's update |
| API server, authentication, template APIs, tools | none, or one object per request | request handling | sequential code |

`PROJECT.json` lists every component with its sources and status, and under
`hazards` the places where this code is hard to test.

## Modules

| module | what it is |
|---|---|
| `PipelineRunController` | the core: creation by the REST handler, by webhook and synchronizer, API server, informer cache, the controller's Reconcile cut at every remote call, Jenkins, users, restarts |
| `PipelineRunLifecycle` | the abstract specification of a run's life, which the core implements |
| `MCPipelineRunController` | small instances for TLC (symmetry) |
| `PipelineRunControllerProofs` | theorems about the core under all disturbances, the refinement among them |
| `PipelineRunQuietProofs` | theorems about the core when no call fails and the cache keeps up |
| `PipelineSync` | one Pipeline object and its Jenkins job: Pipeline controller, metadata controller, REST writers, the synchronizer's annotation |
| `PipelineJob` | the abstract specification of a Pipeline and its job, which `PipelineSync` implements |
| `MCPipelineSync` | small instances for TLC (symmetry of the specs) |
| `PipelineSyncProofs` | the theorems about `PipelineSync` |
| `PipelineRunSync`, `MCPipelineRunSync`, `PipelineRunSyncProofs` | the writers of a Pipeline's runs together: users, PipelineRun controller, webhook, synchronizer |
| `ArgoApplication`, `MCArgoApplication`, `ArgoApplicationProofs` | Applications of one name and their Argo CD counterparts |
| `PullRequestStatus`, `MCPullRequestStatus`, `PullRequestStatusProofs` | the status the runs of a pull request write to its commits |
| `GitRepository`, `MCGitRepository`, `GitRepositoryProofs` | GitRepositories under the controllers that share them: amendment, Argo CD, Flux CD |

### PipelineRunController

State and code:

| variable | code |
|---|---|
| `api`, `cache`, `fresh` | the PipelineRun in the API server, in the informer cache, and whether the cached resourceVersion is the current one |
| `configMaps` | the ConfigMap of `pkg/store/configmap`, when run data is kept there (the default of `--pipelinerun-data-store`) |
| `pipelineExists` | the one Pipeline all runs refer to |
| `queue`, `work` | the work queue and the local variables of the Reconcile under way: `pc` names the remote call that comes next, `copy` is `pipelineRunCopied`, `got` is `jobRun.ID`, `seen` what `getPipelineRunResult` returned |
| `builds` | Jenkins: `queued` is accepted and in the queue, `running`, `finished`, `skipped` (SKIPPED or NOT_BUILT), `deleted` also when it was cancelled in the queue: Jenkins does not find either |
| `asked`, `adopted`, `missed` | auxiliary: history no action depends on; `adopted` are the runs created for a build |

Runs come to be in two ways. The REST handler creates a run to be built, without
a run ID (`createPipelineRun`). Webhook and synchronizer create a run for a
build they have seen, with its ID (`AdoptBuild`); whether they should have is
the subject of `PipelineRunSync`. Neither sets the finalizer.

A Reconcile is cut where it calls Kubernetes or Jenkins, so that everything
else in the system can happen between two calls. `Take` is its beginning up to
the first call (the cached object decides between ignoring, deleting, marking
as an orphan, polling and triggering); each further action is one call with
its effect and the code after it up to the next call.

- Optimistic concurrency. `updateLabelsAndAnnotations` and `updateStatus` are
  `RetryOnConflict` around a cached Get and an Update. The model makes the
  whole loop one action: it succeeds when the cached version is the current
  one (`p \in fresh`) and otherwise waits, or, with the disturbance `"lag"`,
  gives up with the conflict error. Between the Get and the Update nothing can
  happen that a conflict and a retry would not undo. Labels and annotations are
  replaced by those of the copy, as in the code: that is why a stale copy can
  put back an old run ID. The five retries of `DefaultRetry` last some 40
  milliseconds, so a cache that lags longer than that is enough for `"lag"`.
- The finalizer is removed with a plain Update of the copy: it conflicts unless
  the copy is current (`work.current`), without a retry.
- The informer catches up with all PipelineRuns at once; the API server's
  order of writes within one kind makes any cache an older state of it.
- Jenkins may fold a request into a build that is already queued: that is why
  `hasSamePipelineRun` exists. A queued build may or may not be visible to the
  REST API (`PollMissing` and `getPipelineRunResult` are both possible).
- `Save` of the ConfigMap store updates a cached ConfigMap without a retry
  (`SaveConflict`). The model lets it conflict whenever the cached run is
  behind, which includes every case in which the ConfigMap is.
- Only a FINISHED build sets a completion time: a run whose build was skipped
  is reported and stays buildable (`WriteStatus`).
- `MaxConcurrentReconciles` is not set: one worker.
- Delays (`RequeueAfter`, back-off) are not timed: a key that is added again
  can be taken at any later moment.

Each run's `.cfg` chooses which of the disturbances may happen; a property is
stated for the harshest set under which the code keeps it.

### PipelineSync

Four parties write one object, each from a copy of its own, and one of them
keeps a job at Jenkins in step with it.

| variable | code |
|---|---|
| `obj` | the Pipeline in the API server: spec, finalizer, the annotations for sync status, spec hash and request for synchronization, and whether there is a map of annotations at all |
| `cache`, `news`, `queued` | the Pipeline controller's informer, whether the versions it has not delivered yet contain one the event handler lets pass, and whether the key is in the work queue |
| `work` | `syncHandler` under way: `pc` names the call that comes next, `copy` is `copyPipeline` |
| `meta` | the copy the metadata controller holds while it asks Jenkins twice |
| `client` | the object a client of the REST API is going to send back |
| `job` | the spec of the Jenkins job |
| `past`, `guarded` | auxiliary: specs asked for so far, and whether this Pipeline has had the finalizer. Only `"revert"` looks at them: without it no spec is asked for twice |

`BeginSync`, `BeginDelete` and `Ignore` are `syncHandler` up to its first call
to Jenkins; `SyncJob` and `DeleteJob` are the calls and `UpdateLive` is
`updatePipeline`. What the model joins or leaves out:

- `updatePipeline` reads the API server itself, not the cache, and retries on
  conflict: a Get and an Update with nothing of consequence in between are one
  action. What it writes is the outcome for the copy, whatever the object is
  now. `UpdatePipelineObj` of the REST API also takes the latest
  `resourceVersion` just before its Update, so it never conflicts and the
  client's old annotations and finalizers win.
- `GetProjectPipelineConfig` and the update or creation that follows it are one
  action: only this worker writes jobs.
- The metadata controller's cached Get is a Get of the object itself, made
  earlier: the copy may be written at any later time, or not at all, when it is
  the same as what the cached Get inside `RetryOnConflict` finds. Its Update
  conflicts only if the object changed after that Get, which the retry undoes.
- A spec is its own hash. `ComputeHash` has 32 bits; a collision, a matter of
  chance, would make two specs the same to `syncHandler`.
- A panic in `syncHandler` (`MapIsNil`) ends the process, because `HandleCrash`
  panics again; a panic in the metadata controller is only a lost Reconcile,
  because controller-runtime recovers it or because nothing was held.
- The Jenkinsfile converter, a third controller on the same object, is left
  out (see Not modelled).

### PipelineRunSync

Everybody who creates or deletes PipelineRuns of one Pipeline. The PipelineRun
controller is here only what the others can see of it: it triggers a build,
looks for a run of the same build in its cache, and records the build.

| variable | code |
|---|---|
| `api`, `cache` | the PipelineRuns, and what the informer of the controller manager has of them |
| `request`, `noticed`, `news`, `queued` | the annotation that asks for a synchronization, the same in the informer, whether an undelivered version passes `requestSyncPredicate`, and whether the Pipeline's key is queued |
| `sync` | the synchronizer's `Reconcile`: what it has listed, and which runs it is going to create and delete |
| `hand` | a build the PipelineRun controller has triggered and not recorded |
| `hook` | for each build the goroutine of the webhook's handler |
| `builds` | Jenkins |
| `wanted`, `shown` | auxiliary: the builds a synchronization requested at rest has to show, and those that have had a PipelineRun |

The webhook tries five times, a second apart; all five may come too early, so
one stands for them. Identifiers (`GetPipelineRunIdentifier`) are IDs: that two
runs may share one is a hazard without a property.

### ArgoApplication

Applications of one name in different namespaces, whose counterparts all live
in that of Argo CD: the first takes the name itself, others a generated one.

| variable | code |
|---|---|
| `app`, `cache`, `news`, `queue` | the Application: spec, finalizers, name label; in the informer; the work queue |
| `work` | `Reconcile` under way, cut at each call; its project is abstracted, so `setArgoProject` may write whether the finalizer is there or not |
| `client` | an Application a client is going to send back |
| `argo` | the Argo CD applications by name: whose, with which spec and finalizers |

Counterparts are unstructured, so that the client reads them live. The
operations of an Application and the controller that copies the status back are
left out. A counterpart that is being deleted is gone: Argo CD's own handling
of its finalizer is outside.

### PullRequestStatus

| variable | code |
|---|---|
| `api`, `cache`, `queue`, `work` | the runs of one pull request, phase and start time in seconds; `Reconcile` under way |
| `head` | the commit the pull request has got to: the controller asks for it and writes the status there, whichever commit the run has built |
| `status` | the latest status of each commit: whose it is and with what start time |
| `now` | Jenkins' clock |
| `project` | the namespace of the runs, any of `Projects` |

`Expired` is `createExpirationCheckFunc`. It recognizes the namespace of the
previous run only when it is that of the example in the comment (`Knows`); in
any other project no status is kept. A skipped build, which succeeds without a
completion time, makes the controller panic (`Panic`); of two runs started in
the same second whichever reports first keeps the other from reporting, where
the check is in effect. A run that is polled has its status written at each
poll: an event that queues its key again (`Rewrite`).

### GitRepository

| variable | code |
|---|---|
| `scenario` | which controller groups `--enabled-controllers` names, and which disturbances there are; the `gitrepository` group is always enabled, as by default |
| `repo`, `cache`, `fresh`, `moved` | GitRepositories of one name in different namespaces: presence, URL, finalizer, artifact label; in the informer; whose cached version is current; whose generation has changed since |
| `queue` | one work queue for each of the three controllers: two of them only hear of new generations |
| `argo`, `flux` | the `Reconcile` of either group: after `Guard` (the finalizer) it has still to apply what it read, after dropping what it made it has still to release the finalizer |
| `secret`, `seen` | the secret for Argo CD, which has one for all repositories of a name, and what the informer of secrets has |
| `counterpart` | the repository for Flux CD, one for each |
| `excuses` | auxiliary: why something may be left behind |

`AmendReconciler` reads and writes in one go; the update conflicts when the
copy is stale. A client posts a URL that is amended already or one that is not
(`Posted`). The model leaves out the one case in which the reconciler sets a URL
and does not store it: an empty URL at GitLab, for a repository whose name ends
in `.git`. Credentials, and the clone the handler deletes with a
repository, are left out.

## Runs and what they show

Deadlock is never checked, because every part may come to rest: everything
settled, nothing left to create.

### The core

Both runs have two PipelineRuns and two builds, the least for which a build can
be folded, overwritten or taken by the other run, and each key is re-reconciled
any number of times by the same worker. Names are generated by Kubernetes, so a
name is used once; builds are used once too. These are the only bounds.

| run | disturbances | properties |
|---|---|---|
| `disturbed` | all but skipped builds and the removal of the Pipeline, among them a cache that is behind when the retries are exhausted, builds started elsewhere and runs created for them; annotation store, one run without a Pipeline | `TypeOK`, `RunIdIsAccepted`, `StartedRunHasFinalizer`, `ReportedRunHasFinalizer`, `HistoryGoesWithRun`, `FollowsLifecycle` |
| `live` | skipped builds, Pipeline removal; ConfigMap store; fairness | `TriggeredOnce`, `OneRunPerBuild`, `CompletedRunIsFinal`, `CompletedRunStays`, `GivesUpForAnother`, `EveryRunSettles`, `DeletedRunGoes` |

The finalizer. The controller adds it in `updateLabelsAndAnnotations` only. A
run it triggers gets it with the run ID (`StartedRunHasFinalizer`, about the
runs that are not `adopted`). A run created by webhook or synchronizer has its
run ID before the controller sees it and gets the finalizer only if run data is
kept in annotations: then before the first report (`ReportedRunHasFinalizer`).
The comment in `updateLabelsAndAnnotations` (pipelinerun_controller.go:305),
"make sure all PipelineRuns have the finalizer", is wrong with the ConfigMap
store, which is the default: a build started elsewhere, a run created for it,
one poll and one report, and the run is there without a finalizer for good. TLC
finds that in a few steps when the premise about the store is taken from
`ReportedRunHasFinalizer`. Such a run goes at once when it is deleted, and the
record of its build stays; so `HistoryGoesWithRun` is about the runs the
controller has started and those that have the finalizer. It has one more
exception, likewise the code's: a deletion answered with "not found resources"
counts as done, also when the build is still queued and will run later
(`missed`).

The first five properties of `live` also hold with edits by others, with builds
started elsewhere, runs created for them, and cancelled and discarded builds,
and all but `TriggeredOnce` with lost replies and restarts as well: that is
proved (`PipelineRunQuietProofs`). `OneRunPerBuild` is about the runs the
controller has triggered: that webhook and synchronizer make second runs of a
build is shown in `PipelineRunSync`. A reply of Jenkins that is lost, or a
restart before the run ID is stored, leaves a build nobody names, and the run
gets another. None of the five holds with `"lag"`: a Reconcile that still reads
the object without its run ID triggers a second build and overwrites the ID of
the first, which is then nobody's, and the list `hasSamePipelineRun` reads may
miss the run that has the build, or contain the run itself, which is then given
up for nobody. Even without lag, a run that was given up and whose key is queued
once more may trigger again from the cache, which is why `TriggeredOnce` is
about runs that have started. What remains true under every disturbance is the
abstract life cycle: a run the controller has started may be given another build
until it has been reported on, and never after.

`EveryRunSettles` excepts by name (`NeverFinishes`) the runs of a Pipeline that
is still there whose build cannot finish: a skipped one sets no completion time
and its run is polled every three seconds for ever, a cancelled or discarded one
every five. Only the skipped ones occur in `live`. Once the Pipeline is removed
these runs go, too. `makePipelineRunOrphan` sets the status of an object it does
not store; the model has it as it is.

Fairness. The worker goes on with the key it holds (weak fairness: a goroutine
is not stopped for ever, and calls that can succeed do); the work queue is
first-in first-out, so no key waits for ever although the worker is idle only
at times (strong fairness of `Take(p)`); the informer delivers; Jenkins runs
what it has queued and builds end, one way or the other; the garbage collector
collects the runs of a removed Pipeline. Users owe nothing.

### PipelineSync

Three specs: one the job has, one the object has, one on its way in a copy
(two in `sync_live`). A Pipeline may be deleted and created again under its
name, each time with a new spec, so the number of specs bounds the lives of the
name.

| run | disturbances | properties |
|---|---|---|
| `sync_faults` | failing calls, lost answers, restarts, metadata, requests, names used again | `SettledJobFollowsSpec`, `SettledPipelineIsGuarded`, `GuardedJobGoes`, `JobDeletedOnlyForDeleted`, `FollowsJobProtocol` |
| `sync_live` | requests, names used again, clients with old objects, objects without annotations; fairness | `TypeOK`, `SettledJobFollowsSpec`, `JobFollowsSpec`, `DeletedPipelineGoes` |

The event handler ignores updates of the metadata while a synchronization of
PipelineRuns is requested, the deletion timestamp among them. No spec gets lost
thereby, since a changed spec is an event by itself (`JobFollowsSpec`). A
deleted Pipeline does stay while the request stays, and the synchronizer may
pass a request over for good (`runsync_starved`). `DeletedPipelineGoes` is
therefore conditional: if no request stays for ever, no deletion does, because
the removal of the annotation is the event that makes up for those ignored.

`FollowsJobProtocol` says of all steps together what the finalizer is for.
`PipelineJob` knows only where the Pipeline is (new, guarded, leaving, gone, or
left, when it was deleted before it was guarded) and what its job does; `Place`
reads the former off `obj` and `guarded`. A Pipeline is guarded only once it has
a job, its job is deleted only while it is leaving, and it goes only without a
job; a job that was deleted for it is not made again. Of a Pipeline that left
nothing is promised, but the next one of the name takes its job over.

Where the properties stop. With `"client"`, `SettledPipelineIsGuarded`,
`GuardedJobGoes`, `JobDeletedOnlyForDeleted` and `FollowsJobProtocol` fail: a
client that sends back an object it read before the finalizer was there takes
the finalizer away. A Pipeline deleted before its finalizer is stored leaves its
job (`guarded` is still false).

`SettledJobFollowsSpec` fails with `"revert"` and any one of `"error"`,
`"lostReply"`, `"crash"`, `"request"`, `"recreate"`, `"metadata"` and
`"client"`, because whether a spec is deployed is decided from the hash in the
annotations, never from the job:

- The job has been updated, but the write that records it fails or is cut off,
  and the former spec is put back: its hash is still in the annotations, so the
  job keeps the other spec. With `"metadata"` an old copy brings the hash back.
- With `"recreate"` nothing needs to fail. A Pipeline is deleted and created
  again with the same spec, and the cache still shows the one in deletion: the
  deletion branch runs once more, `updatePipeline` reads the new Pipeline and
  gives it the sync status and the hash of the old one. It counts as deployed,
  and has neither job nor finalizer (`SettledPipelineIsGuarded` fails, too).

No run uses `"revert"`; `JobsFollowSpecs` excludes it, and
`PipelinesAreGuarded` excludes it together with `"recreate"`.

Fairness. The worker takes the key and goes on (one goroutine, restarted by
`wait.Until`), and the informer delivers. Nothing is assumed of the synchronizer.
Failures are excluded in `sync_live`, and so are lasting ones in the code's own
terms: a call that always fails is retried for ever.

### PipelineRunSync

Three names, one of them for users, and one build: enough for a run of a user, a
run of the webhook and a run of the synchronizer to stand for the same build,
and for one of them to be deleted with its build. That two runs of users are
folded into one build is in `live`.

| run | disturbances | properties |
|---|---|---|
| `runsync` | all; fairness | `TypeOK`, `PendingRunIsKept`, `RequestedIsShown`, `RunsFollowBuilds` |
| `runsync_starved` | users | `RequestIsServed`: violated |

No run still waiting for its build is taken for one whose build is gone. A
synchronization that was requested while the synchronizer was at rest (`wanted`)
shows every build there was; one requested while it is at work may be answered
with a list made before. Duplicates are possible, and expected: a webhook or a
synchronization between trigger and record makes a second run for the build,
the next synchronization finds one of the two and deletes the other, and its
finalizer takes the build with it. `RunsFollowBuilds` says that if requests go
on being made, and the synchronizer's writes do not fail for ever, runs and
builds end up one to one: also when creations have failed, which are only logged,
and when a run was deleted because its build was still queued.

`RequestIsServed` is violated: a synchronization that meets a run without an ID
returns with an empty Result, though the comment says it waits, and nothing
brings the key back. Fairness: controller, webhook, synchronizer and both
informers go on, and a queued build starts.

### ArgoApplication

| run | instance | properties |
|---|---|---|
| `argo_faults` | two Applications, one spec; failing calls, stale cache, restarts, cascading deletion | `TypeOK`, `LabelIsOwn`, `CounterpartGoesFirst`, `CascadeIsPassedOn` |
| `argo_live` | one Application, two specs; cascading deletion, a client with an old copy; fairness | `SpecIsDeployed`, `DeletedApplicationGoes` |
| `argo_taken` | two Applications; cascading deletion | `TouchesOwnOnly`: violated |

Two Applications and three names let one find its name taken and still leak a
counterpart. `LabelIsOwn` is about the write: with three Applications the name
in a label can later come to be somebody else's counterpart, when the one it
named was deleted and the name taken again.

`TouchesOwnOnly` is violated in three ways: an Application deleted before its
label is written, one whose label write failed or was stale, and a cached copy
of an Application that is gone; in each the controller takes the Application's
own name and deletes, or updates, what has it. That is why `argo_live` has one
Application. A crash or a failure between the creation of the counterpart and
the label leaves a counterpart behind when the own name is taken, and
`setArgoProject` may write over a cascade finalizer added between its two
reads. Both are in the model; no property claims the contrary.

Bounds: a client holds one old copy of each Application, once.
`SpecIsDeployed` is not claimed once such a copy is written
(`NobodyWroteOver`). Fairness: strong for the calls of a Reconcile, since
conflicts end when the informer has caught up, and for each key of the work
queue; weak for the informer.

### PullRequestStatus

Two runs, two seconds and, in `pr_status`, two commits, so that an old and a new
run, or two of the same second, meet on one commit or on two; in a project the
check recognizes and in one it does not.

| run | disturbances | properties |
|---|---|---|
| `pr_status` | all | `TypeOK`, `RestShowsCurrent` |
| `pr_status_overridden` | none | `NewerIsKept`: violated |

`RestShowsCurrent` is what holds in every project. When the controller has come
to rest it has passed over no run of the commit the pull request has got to, and
the status shown is what its run has come to: no report is lost to a failing
call, a restart, a panic or a push, and a report kept back in favour of another
status leaves none that is stale. It is an invariant about rest, not a liveness
property: snapshots are delivered at once, so that rest is reached when users
and Jenkins stop.

`NewerIsKept` is the claim of the comment at
pull_request_status_controller.go:392, "avoid the previous building status
override newer one". It is violated without any disturbance in a project that is
not called `core58fgv`: the check takes the previous run's URL apart only if it
names that namespace (line 154), and otherwise finds nothing to keep. So which of
two runs a pull request shows in the end depends on the order of their reports.

### GitRepository

`git_repository`: one repository and one URL, raw or amended, so that a stale
URL differs from the current one; either group alone under all disturbances,
and both together with none (`MCScenarios`). Properties: `TypeOK`,
`SecretIsGuarded`, `CounterpartIsGuarded`, `RestShowsUrl`, `DeletedRepoGoes`.

What guards and where it stops. A finalizer outlives what it guards, except
for three reasons, which `excuses` names when they occur:

- `"shared"`: Argo CD's and Flux CD's controller use one finalizer
  (`GitRepoFinalizerName`). With both enabled, Flux CD's takes it from every
  repository without the artifact label; that is no new generation, so Argo
  CD's does not hear of it, and its secret stays when the repository is
  deleted. It takes no failure, only both groups: create a repository, and
  delete it.
- `"client"`: the REST API stores a client's copy without the finalizer.
- `"lag"`: the secret is not in the cache yet when the repository is deleted.

`RestShowsUrl` has no excuse: what exists at rest has the amended URL, and so
have secret and counterpart. It is about one repository of the name; two in
different namespaces share the secret (`getSecretName`), and the deletion of
either deletes it for both. `DeletedRepoGoes` assumes that clients and crashes
come to an end (`Calms`), not that calls succeed at once.

Fairness: informers deliver, an idle worker takes a key that stays queued, a
Reconcile ends, and one that is repeated again and again gets through (strong
fairness of the last calls).

## Proofs

`PipelineRunControllerProofs` proves, for any runs, builds, data store and
disturbances, under the constants' assumptions only (`ConstantsAssumption`):
`TypeCorrect`, `IdsAccepted`, `FinalizersKept` (of the runs the controller has
started), `ReportedFinalizers` (of all runs reported on, with the run data in
annotations), `HistoryGoes` (of the runs the controller has started or that have
the finalizer) and `Implements` (the core implements `PipelineRunLifecycle`).

None of the invariants is inductive alone. `HistoryGoesWithRun`, for one, needs
that the copy sent with the finalizer removed is the current object, that its
run ID was cleaned up two calls before, and that a build with a run ID is never
unused. The inductive invariant `IInv` says what each party may believe:
`FreshInv` (a copy that counts as current is), `StartInv` (a copy of a started
run is the copy of a started run, and orphans never start), `AcceptInv` (every
run ID, wherever kept, is of a build Jenkins accepted for that run), `WorkInv`
(what the worker knows at each call), `ReportInv` (once a run is reported
on, no copy of it has another run ID: the reason why the build cannot change
any more) and `AdoptInv` (a run created for a build is never seen without its run
ID, so that it is not triggered). `RunSteps`, `WorkSteps`, `CacheSteps` and `JenkinsSteps` first say
what any action can do to a run, to the worker, to the cache and to Jenkins;
each conjunct of the invariant and the refinement follow from these four.
`ReportedFinalizers` adds `GuardInv`: where there is run data there is the
finalizer, in the API server and in the cache, because one write brings both; so
a worker that finds nothing to store, and goes on to the status, has seen a run
with the finalizer. TLC has checked `IInv` and `GuardInv` as invariants of the
instance of `disturbed`, and `IInv` of one with `"lag"` and the ConfigMap store.

`PipelineRunQuietProofs` proves the other properties of the core:
`RunsTriggeredOnce`, `BuildsHaveOneRun`, `CompletedRunsFinal`,
`CompletedRunsStay` and `GiveUpsAreForAnother`, under the assumption `Quiet`: no
failing call, and a cache that catches up before the retries are exhausted.
Users, edits, Jenkins, removals, lost replies and restarts are unrestricted, but
for `RunsTriggeredOnce`, which also needs `Unbroken`: no lost reply, no restart.
`QuietInv` adds to `IInv`, and to `CompletedRunIsFinal` itself, what is true of
a run's versions: `PresenceInv` (which of them exist), `NamingInv` (a run is
given one run ID, and whoever triggers it or is about to name it knows that it
has none), `OwnerInv` (the run ID about to be written
is nobody's), `DataInv` (who has copies of the run data) and `SeenInv` (the
build of a completed run is over, and so is what the worker saw finished).
`AskedInv` (a build asked for and not yet the run's is in the worker's hand, or
the run is gone) is apart from it, because only `RunsTriggeredOnce` needs it and
a broken Reconcile (`Broken`) drops what it has in hand. A step is first classified: what it does to one run (`QuietRun`:
left, born, marked, given an ID, stored, dated, followed, leaving) and to the
worker (`QuietWork`); then there is one lemma for each conjunct.

`PipelineSyncProofs` proves, for any specs and under `SyncAssumption`:

- `SyncTypeCorrect`, under any disturbance;
- `GuardedJobsGo` and `JobsInUseStay`, for all disturbances but `"client"`;
- `JobsFollowSpecs`, for all disturbances but `"revert"`;
- `ImplementsJob` (`PipelineSync` implements `PipelineJob`), for all but
  `"client"`;
- `PipelinesAreGuarded`, for all but `"client"`, and `"revert"` and
  `"recreate"` together.

`GuardedJobsGo`, `JobsInUseStay` and `ImplementsJob` rest on `GuardInv`. `FinalizerInv` says that only a Pipeline with
the finalizer is ever in deletion, and that only the deletion branch takes it
off; `DeletionInv` that a cache which shows a deletion is old news, so that
whoever acts on it finds the Pipeline in deletion, or gone, or created again
with no job yet; `GoneInv` that no `syncHandler` under way will make a job for
a guarded Pipeline that has gone. The refinement adds `JobInv`: there is a job
wherever there is a finalizer or one is about to be stored, until the deletion
branch has deleted it and nobody is left who would make it again. Each write is
first shown to edit, create, delete or record (`WritersMove`, `UpdateMoves`),
which is all `PipelineJob` sees of it. `JobsFollowSpecs` rests on `FollowInv`: every spec and hash in any
copy has been asked for (`PastInv`), so a new spec is known to nobody, and
(`CurrentInv`) nobody has the hash of the current spec before the job has that
spec, while until then an event, the key or the worker is on its way to it.
That is what `"revert"` breaks: the hash of a spec put back is known already.
Every writer of the object is first shown to be one of two kinds, `OldSpec` or
`NewSpec` (`WriterKinds`), and each kind to keep the invariant.
Without `"revert"`, `PipelinesAreGuarded` needs `FollowInv` and one thing more, `UnguardedInv`: as
long as a Pipeline is without its finalizer no annotation anywhere has the hash
of its spec, so that no `syncHandler` takes it for up to date, and an event, the
key or a `syncHandler` that is going to store the finalizer is on its way.
Without `"recreate"` `FirstInv` takes its place: no annotation anywhere has the
sync status before the finalizer is stored. TLC has checked `GuardInv`,
`JobInv`, `FollowInv`, `UnguardedInv` and `FirstInv` as invariants of small
instances.

`PipelineRunSyncProofs` proves, under all disturbances, `RunSyncTypeCorrect`,
`PendingRunsAreKept` and `RequestedBuildsAreShown`. `RunSyncInv` says that the run for which the
controller holds a build has no ID yet, or has gone (`HandInv`), that a build
with a run has been shown (`ShownInv`), that the lists may be old but tell of
runs that have been and of IDs they keep (`ListInv`), that what the synchronizer
works from and deletes has an ID (`SyncInv`), and that once Jenkins has been
asked a wanted build is in the create list, shown or deleted (`WantedInv`).

`ArgoApplicationProofs` proves, for any Applications, specs and names,
`ArgoTypeCorrect` and `LabelsAreOwn` under all disturbances, and
`CounterpartsGoFirst` and `CascadesArePassedOn` without `"client"`. `ArgoInv`
follows an Application's versions: a cached one is an earlier one
(`VersionInv`), the name about to be written as a label was used for a
counterpart of that Application (`CreatedInv`), a generated name is used once
and only its owner comes upon it (`NameInv`), the copy at work is one of the
versions (`WorkInv`), and while the finalizer is there the worker acts on the
name of the label (`GuardInv`).

`PullRequestStatusProofs` proves `StatusTypeCorrect` and `StatusesAreCurrent`
(`RestShowsCurrent`), for any runs, commits and projects and under all
disturbances; nothing is assumed of the project. `CurrentInv` orders the versions
of a run by `Stage`, which every change takes further: the cache is behind, and a
status is of a run that was reported (`StageInv`). A copy that has been overtaken
is followed by another Reconcile, and a run of the current commit reports to that
commit (`FreshInv`). So each run is shown as `RestShowsCurrent` says, or its last
version is on the way: undelivered, queued or in the worker's hand
(`AttendedInv`). What makes that inductive is that a report is only kept back in
favour of the status of another run, which leaves the commit with one, and that a
run's own status is never looked at by the check. TLC has checked `CurrentInv` as
an invariant of the instance of `pr_status`.

`GitRepositoryProofs` proves, for any number of repositories of one name, any
groups and any disturbances, `RepositoryTypeCorrect`, `SecretsAreGuarded` and
`CounterpartsAreGuarded`. Alone the two invariants are not inductive: a
controller applies what it has read after it has seen the finalizer, possibly
in a stale copy. `GitRepositoryInv` adds that a deleted object has the
finalizer (`PresenceInv`), that a group which is not enabled does nothing
(`EnabledInv`), that a copy nobody has outdated is what informer and API server
have (`CopyInv`), and, while there is no excuse, that whatever a controller has
seen guarded is still guarded (`ArgoInv`, `FluxInv`): only its own release takes
the finalizer, and that comes from a copy on which it no longer acts.

`SoleRepositoryIsShown` proves `RestShowsUrl` where it is claimed, for the only
repository of its name; `CounterpartsAreShown` proves the part of it that holds
for any number, since only Argo CD's secret is shared. `RestInv` follows each
change on its way: what the informer has not delivered is marked (`NewsInv`);
until the URL is amended, and until secret and counterpart have it, there is an
event, a key or a Reconcile that is going to apply it (`AmendInv`,
`ArgoFollows`, `FluxFollows`). TLC has checked it under all groups with all
disturbances.

Every invariant and every action property of the passing runs is proved, each for
the disturbances named above. Only
model-checked: the liveness properties `EveryRunSettles`, `DeletedRunGoes`,
`JobFollowsSpec`, `DeletedPipelineGoes`, `RunsFollowBuilds`, `SpecIsDeployed`,
`DeletedApplicationGoes` and `DeletedRepoGoes`: the prover has no rules for
fairness. What a controller at rest has done is proved (`JobsFollowSpecs`,
`PipelinesAreGuarded`, `SoleRepositoryIsShown`, `StatusesAreCurrent`); that rest is
reached is TLC's part, in the runs that assume fairness.

## Not modelled

`PROJECT.json` gives the reason for each component. In short:

- DevOpsProject and credential controllers, Addons: the same protocol as the
  Pipeline controller (create elsewhere, add the finalizer, delete elsewhere,
  take it away), with less state; `PipelineSync` is the hardest of them.
- Jenkinsfile converter: one conversion by an external service and one write;
  its races with other writers of the Pipeline are those of `PipelineSync`, its
  own are about the text of a Jenkinsfile.
- Jenkins configuration: conversion of YAML documents, and a reload after a
  delay, a matter of real time.
- Webhooks at SCM providers: whether a webhook is there already is decided by
  the provider. (Reading the code: the error of one webhook is lost when the
  next succeeds, and a notification for a repository that is gone is repeated
  for ever.)
- SCM webhook handler, template APIs, API server, authentication: sequential
  code that reads no state back.
- The identifier of a run (joined with `-`) and the 32-bit hash of a spec are
  taken to tell things apart; the former is listed as a hazard without a
  property.
- Status fields copied from Jenkins, Argo CD and Flux CD, generated clients,
  charts and one-shot tools: data or generated code.
