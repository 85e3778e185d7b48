--------------------------- MODULE ArgoApplication ---------------------------
(***************************************************************************)
(* GitOps Applications and their Argo CD counterparts                      *)
(* (controllers/argocd/application_controller.go).  Applications of one    *)
(* name live in different namespaces, their counterparts all in that of    *)
(* Argo CD: the first takes the name itself, others get a generated one,   *)
(* and a label of the Application says which.                              *)
(*                                                                         *)
(* What is abstracted:                                                     *)
(*  - A spec is a member of Specs without its project: setArgoProject may  *)
(*    find any Application with another.  Operations, and the status       *)
(*    another controller copies back, are left out.                        *)
(*  - A version of an Application is what it says: an update made from an  *)
(*    equal copy is taken to be up to date.                                *)
(*  - Counterparts are read live, as unstructured objects are, and one     *)
(*    that is being deleted is gone.                                       *)
(*  - One worker; the retries after a conflict end when the informer has   *)
(*    caught up or, with "lag", fail.  Delays are not timed.               *)
(***************************************************************************)
CONSTANTS
    Apps,          \* Applications of one name, each in a namespace of its own
    NoApp,         \* nobody's counterpart, the key of an idle worker
    Specs,         \* what an Application may ask for
    NoSpec,        \* the spec of nothing
    Own,           \* the name of the Applications
    Generated,     \* the names the API server can generate from it
    NoName,        \* no label
    Disturbances   \* which of the following may happen

(***************************************************************************)
(* "error"    a call to Kubernetes fails, changing nothing                 *)
(* "lag"      the cache is still behind when the retries are exhausted     *)
(* "crash"    the controller manager restarts                              *)
(* "cascade"  users delete Applications together with what they deployed   *)
(* "client"   a client sends back an Application it read some time ago,    *)
(*            once per Application (a bound)                               *)
(***************************************************************************)
AllDisturbances == {"error", "lag", "crash", "cascade", "client"}

Names == {Own} \cup Generated

ASSUME ArgoAssumption ==
    /\ NoApp \notin Apps
    /\ NoSpec \notin Specs
    /\ NoName \notin Names
    /\ Own \notin Generated
    /\ Disturbances \subseteq AllDisturbances

VARIABLES
    app,      \* app[a]: the Application in the API server
    cache,    \* cache[a]: the Application in the informer
    news,     \* Applications with an undelivered version that passes the filter
    queue,    \* keys in the work queue
    work,     \* the local variables of the Reconcile under way
    client,   \* client[a]: an Application somebody is going to send back
    argo      \* argo[n]: the Argo CD application of that name

vars == <<app, cache, news, queue, work, client, argo>>

----------------------------------------------------------------------------
(* Types *)

\* fin: the finalizer of this controller; cascade: that of Argo CD.
Application ==
    [st: {"absent", "live", "deleting", "gone"}, spec: Specs \cup {NoSpec},
     label: Names \cup {NoName}, fin: BOOLEAN, cascade: BOOLEAN]

Absent ==
    [st |-> "absent", spec |-> NoSpec, label |-> NoName, fin |-> FALSE, cascade |-> FALSE]
Gone == [Absent EXCEPT !.st = "gone"]

Counterpart ==
    [st: {"absent", "live", "gone"}, owner: Apps \cup {NoApp},
     spec: Specs \cup {NoSpec}, cascade: BOOLEAN]

NoCounterpart == [st |-> "absent", owner |-> NoApp, spec |-> NoSpec, cascade |-> FALSE]

Exists(o) == o.st \in {"live", "deleting"}

Idle == [pc |-> "idle", app |-> NoApp, copy |-> Absent, name |-> NoName]

TypeOK ==
    /\ app \in [Apps -> Application]
    /\ cache \in [Apps -> Application]
    /\ news \subseteq Apps
    /\ queue \subseteq Apps
    /\ work \in [pc: {"idle", "create", "label", "update", "guard", "cascade",
                      "delete", "release", "finalize"},
                 app: Apps \cup {NoApp}, copy: Application, name: Names \cup {NoName}]
    /\ work.pc # "idle" => work.app \in Apps
    /\ work.pc \in {"label", "update", "cascade", "delete"} => work.name \in Names
    /\ client \in [Apps -> Application]
    /\ argo \in [Names -> Counterpart]

----------------------------------------------------------------------------
(* The API server and the filter of SetupWithManager *)

\* GenerationChanged, finalizersChanged: the name label is of another group.
Put(a, o) ==
    /\ app' = [app EXCEPT ![a] = o]
    /\ news' = IF [o EXCEPT !.label = NoName] # [app[a] EXCEPT !.label = NoName]
               THEN news \cup {a} ELSE news

\* An object that is being deleted goes with its last finalizer.
Finalized(o) == IF o.st = "deleting" /\ ~o.fin /\ ~o.cascade THEN Gone ELSE o

createApplication(a, s) ==
    /\ app[a].st = "absent"
    /\ Put(a, [Absent EXCEPT !.st = "live", !.spec = s])
    /\ UNCHANGED <<cache, queue, work, client, argo>>

\* UpdateApplication with the object as it is.
EditApplication(a, s) ==
    /\ Exists(app[a])
    /\ Put(a, [app[a] EXCEPT !.spec = s])
    /\ UNCHANGED <<cache, queue, work, client, argo>>

ClientReads(a) ==
    /\ "client" \in Disturbances
    /\ client[a] = Absent
    /\ Exists(app[a])
    /\ client' = [client EXCEPT ![a] = app[a]]
    /\ UNCHANGED <<app, cache, news, queue, work, argo>>

\* No finalizer can be added to an object that is being deleted.
Allowed(o, new) == o.st = "live" \/ ((new.fin => o.fin) /\ (new.cascade => o.cascade))

\* UpdateApplication: the latest resourceVersion, all else as the client has it.
UpdateApplication(a, s) ==
    /\ Exists(client[a]) /\ Exists(app[a])
    /\ Allowed(app[a], client[a])
    /\ Put(a, Finalized([client[a] EXCEPT !.st = app[a].st, !.spec = s]))
    /\ client' = [client EXCEPT ![a] = Gone]
    /\ UNCHANGED <<cache, queue, work, argo>>

\* DelApplication with cascade: first the finalizer, then the deletion.
AddCascade(a) ==
    /\ "cascade" \in Disturbances
    /\ app[a].st = "live"
    /\ Put(a, [app[a] EXCEPT !.cascade = TRUE])
    /\ UNCHANGED <<cache, queue, work, client, argo>>

DelApplication(a) ==
    /\ app[a].st = "live"
    /\ Put(a, Finalized([app[a] EXCEPT !.st = "deleting"]))
    /\ UNCHANGED <<cache, queue, work, client, argo>>

Deliver(a) ==
    /\ cache[a] # app[a] \/ a \in news
    /\ cache' = [cache EXCEPT ![a] = app[a]]
    /\ news' = news \ {a}
    /\ queue' = queue \cup (news \cap {a})
    /\ UNCHANGED <<app, work, client, argo>>

----------------------------------------------------------------------------
(* Reconcile: the cached Application, and the counterpart of its name *)

Goto(pc) == work' = [work EXCEPT !.pc = pc] /\ UNCHANGED queue

Done == work' = Idle /\ UNCHANGED queue

Requeue == work' = Idle /\ queue' = queue \cup {work.app}

appsUnchanged == UNCHANGED <<app, cache, news, client>>

\* The label or, without one, the name of the Application itself.
argoCDAppName(a) == IF cache[a].label = NoName THEN Own ELSE cache[a].label

Found(a) == argo[argoCDAppName(a)].st = "live"

Begin(a, call, name) ==
    /\ work.pc = "idle"
    /\ a \in queue
    /\ queue' = queue \ {a}
    /\ work' = [pc |-> call, app |-> a, copy |-> cache[a], name |-> name]
    /\ UNCHANGED argo
    /\ appsUnchanged

Ignore(a) ==
    /\ work.pc = "idle"
    /\ a \in queue
    /\ ~Exists(cache[a])
    /\ queue' = queue \ {a}
    /\ UNCHANGED <<work, argo>>
    /\ appsUnchanged

BeginCreate(a) ==
    /\ cache[a].st = "live"
    /\ ~Found(a)
    /\ Begin(a, "create", Own)

\* Mutant: what is found under the name is taken for its own.
BeginGenerate_Adopts(a) ==
    /\ cache[a].st = "live"
    /\ Found(a)
    /\ cache[a].label = NoName
    /\ Begin(a, "label", Own)

\* "naming conflict happened"
BeginGenerate(a) ==
    /\ cache[a].st = "live"
    /\ Found(a)
    /\ cache[a].label = NoName
    /\ Begin(a, "create", NoName)

BeginUpdate(a) ==
    /\ cache[a].st = "live"
    /\ Found(a)
    /\ cache[a].label # NoName
    /\ Begin(a, "update", argoCDAppName(a))

\* Mutant: the finalizers are not passed on to the counterpart.
BeginDelete_NoCascade(a) ==
    /\ cache[a].st = "deleting"
    /\ Found(a)
    /\ Begin(a, "delete", argoCDAppName(a))

BeginDelete(a) ==
    /\ cache[a].st = "deleting"
    /\ Found(a)
    /\ Begin(a, IF cache[a].cascade THEN "cascade" ELSE "delete", argoCDAppName(a))

BeginRelease(a) ==
    /\ cache[a].st = "deleting"
    /\ ~Found(a)
    /\ Begin(a, "release", NoName)

Take(a) ==
    \/ Ignore(a) \/ BeginCreate(a) \/ BeginGenerate(a) \/ BeginUpdate(a)
    \/ BeginDelete(a) \/ BeginRelease(a)

----------------------------------------------------------------------------
(* Reconcile: calls that change the counterpart *)

\* createUnstructuredApplication: labels with the owner, its spec and finalizers.
createUnstructuredApplication ==
    [st |-> "live", owner |-> work.app, spec |-> work.copy.spec,
     cascade |-> work.copy.cascade]

\* Mutant: the name is read before the API server has generated it.
CreateArgoApp_NameRead ==
    /\ work.pc = "create"
    /\ \E n \in (IF work.name = NoName THEN Generated ELSE {work.name}) :
          /\ argo[n].st # "live"
          /\ work.name = NoName => argo[n].st = "absent"
          /\ argo' = [argo EXCEPT ![n] = createUnstructuredApplication]
    /\ Goto("label")
    /\ appsUnchanged

\* Under its own name or, after a conflict, under a generated one.
CreateArgoApp ==
    /\ work.pc = "create"
    /\ \E n \in (IF work.name = NoName THEN Generated ELSE {work.name}) :
          /\ argo[n].st # "live"
          /\ work.name = NoName => argo[n].st = "absent"
          /\ argo' = [argo EXCEPT ![n] = createUnstructuredApplication]
          /\ work' = [work EXCEPT !.pc = "label", !.name = n]
    /\ UNCHANGED queue
    /\ appsUnchanged

\* Mutant: only the spec of a new counterpart is ever written.
UpdateArgoApp_NotSpec ==
    /\ work.pc = "update"
    /\ argo' = [argo EXCEPT ![work.name].cascade = work.copy.cascade]
    /\ Goto("guard")
    /\ appsUnchanged

\* RetryOnConflict around a live Get and an Update: spec and finalizers are replaced.
UpdateArgoApp ==
    /\ work.pc = "update"
    /\ argo' = [argo EXCEPT ![work.name].spec = work.copy.spec,
                            ![work.name].cascade = work.copy.cascade]
    /\ Goto("guard")
    /\ appsUnchanged

PassOnFinalizers ==
    /\ work.pc = "cascade"
    /\ argo' = [argo EXCEPT ![work.name].cascade = TRUE]
    /\ Goto("delete")
    /\ appsUnchanged

DeleteArgoApp ==
    /\ work.pc = "delete"
    /\ argo' = [argo EXCEPT ![work.name].st = "gone"]
    /\ Goto("release")
    /\ appsUnchanged

----------------------------------------------------------------------------
(* Reconcile: updates of the Application, a cached Get and an Update *)

UpToDate == cache[work.app] = app[work.app]

\* addArgoAppNameIntoLabels
addArgoAppNameIntoLabels ==
    /\ work.pc = "label"
    /\ UpToDate /\ Exists(app[work.app])
    /\ Put(work.app, [app[work.app] EXCEPT !.label = work.name])
    /\ Goto("guard")
    /\ UNCHANGED <<cache, client, argo>>

\* setArgoProject: nothing to do for an Application that is not found, or has the
\* finalizer and the project; otherwise its finalizers are read.
ReadFinalizers ==
    /\ work.pc = "guard"
    /\ \/ /\ ~Exists(cache[work.app]) \/ cache[work.app].fin
          /\ Done
       \/ /\ Exists(cache[work.app])
          /\ work' = [work EXCEPT !.pc = "finalize", !.copy = cache[work.app]]
          /\ UNCHANGED queue
    /\ UNCHANGED argo
    /\ appsUnchanged

\* ... and written, with this controller's, over those it has now.
Finalizers == [app[work.app] EXCEPT !.fin = TRUE, !.cascade = work.copy.cascade]

setArgoProject ==
    /\ work.pc = "finalize"
    /\ UpToDate /\ Exists(app[work.app])
    /\ Allowed(app[work.app], Finalizers)
    /\ Put(work.app, Finalizers)
    /\ Done
    /\ UNCHANGED <<cache, client, argo>>

\* Mutant: the finalizer goes although the counterpart could not be deleted.
DeleteFails_Released ==
    /\ "error" \in Disturbances
    /\ work.pc = "delete"
    /\ Goto("release")
    /\ UNCHANGED argo
    /\ appsUnchanged

DeleteFails ==
    /\ "error" \in Disturbances
    /\ work.pc = "delete"
    /\ Requeue
    /\ UNCHANGED argo
    /\ appsUnchanged

\* Mutant: the finalizer of Argo CD is left.
RemoveAppFinalizer_OwnOnly ==
    /\ work.pc = "release"
    /\ UpToDate /\ Exists(app[work.app])
    /\ Put(work.app, Finalized([app[work.app] EXCEPT !.fin = FALSE]))
    /\ Done
    /\ UNCHANGED <<cache, client, argo>>

\* Both finalizers.
RemoveAppFinalizer ==
    /\ work.pc = "release"
    /\ UpToDate /\ Exists(app[work.app])
    /\ Put(work.app, Finalized([app[work.app] EXCEPT !.fin = FALSE, !.cascade = FALSE]))
    /\ Done
    /\ UNCHANGED <<cache, client, argo>>

\* The Get of an Application in the cache does not find it, or the Update is
\* refused in every try.
UpdateFails ==
    /\ work.pc \in {"label", "finalize", "release"}
    /\ \/ ~Exists(cache[work.app])
       \/ "lag" \in Disturbances /\ ~UpToDate
       \/ /\ work.pc = "finalize"
          /\ UpToDate
          /\ ~Allowed(app[work.app], Finalizers)
    /\ Requeue
    /\ UNCHANGED argo
    /\ appsUnchanged

\* A name that is taken makes the creation fail, a generated one too.
NameTaken ==
    /\ work.pc = "create"
    /\ IF work.name = NoName THEN \A n \in Generated : argo[n].st # "absent"
       ELSE argo[work.name].st = "live"
    /\ Requeue
    /\ UNCHANGED argo
    /\ appsUnchanged

\* Any other call fails.
CallFails ==
    /\ "error" \in Disturbances
    /\ work.pc \notin {"idle", "delete"}
    /\ Requeue
    /\ UNCHANGED argo
    /\ appsUnchanged

\* The controller manager starts anew: informers list, every key is queued.
Restart ==
    /\ "crash" \in Disturbances
    /\ cache' = app
    /\ news' = {}
    /\ queue' = {a \in Apps : Exists(app[a])}
    /\ work' = Idle
    /\ UNCHANGED <<app, client, argo>>

----------------------------------------------------------------------------
\* Somebody else may have an Argo CD application of that name.
Init ==
    /\ app = [a \in Apps |-> Absent]
    /\ cache = app
    /\ news = {} /\ queue = {}
    /\ work = Idle
    /\ client = app
    /\ \E foreign \in BOOLEAN :
          argo = [n \in Names |-> [NoCounterpart EXCEPT
                                     !.st = IF foreign /\ n = Own THEN "live" ELSE @]]

Users(a) ==
    \/ \E s \in Specs :
          createApplication(a, s) \/ EditApplication(a, s) \/ UpdateApplication(a, s)
    \/ ClientReads(a) \/ AddCascade(a) \/ DelApplication(a)

Calls ==
    \/ CreateArgoApp \/ NameTaken \/ UpdateArgoApp \/ PassOnFinalizers \/ DeleteArgoApp
    \/ addArgoAppNameIntoLabels \/ ReadFinalizers \/ setArgoProject \/ RemoveAppFinalizer \/ UpdateFails

Failures == DeleteFails \/ CallFails \/ Restart

Worker == Calls \/ \E a \in Apps : Take(a)

Next ==
    \/ \E a \in Apps : Users(a) \/ Deliver(a)
    \/ Worker \/ Failures

Spec == Init /\ [][Next]_vars

\* Fairness: the worker takes each key that is queued and goes on, in spite of the
\* conflicts its retries meet, and the informer delivers.  Users owe nothing.
FairSpec ==
    /\ Spec
    /\ SF_vars(Calls)
    /\ \A a \in Apps : SF_vars(Take(a)) /\ WF_vars(Deliver(a))

----------------------------------------------------------------------------
(* Properties *)

NobodyWroteOver == \A a \in Apps : client[a] # Gone

\* "naming conflict happened": the name written into the label of an Application is
\* that of a counterpart made for it, whoever else has one of the same name.
LabelIsOwn ==
    [][\A a \in Apps :
          app'[a].label \notin {NoName, app[a].label} /\ client'[a] = client[a] =>
              argo[app'[a].label].owner = a]_vars

\* "In order to avoid the naming conflict": a Reconcile changes or deletes no Argo
\* CD application but that of the Application it is about.
TouchesOwnOnly ==
    [][\A n \in Names :
          argo[n].st = "live" /\ argo'[n] # argo[n] => argo[n].owner = work.app]_vars

\* An Application that has the finalizer goes only after its counterpart.
CounterpartGoesFirst ==
    [][\A a \in Apps :
          app[a].fin /\ app[a].st = "deleting" /\ app'[a].st = "gone" =>
              app[a].label # NoName /\ argo[app[a].label].st = "gone"]_vars

\* "support cascade delete": what was deployed goes with the counterpart.
CascadeIsPassedOn ==
    [][\A a \in Apps, n \in Names :
          /\ app[a].st = "deleting" /\ app[a].cascade /\ work.app = a
          /\ argo[n].owner = a /\ argo[n].st = "live" /\ argo'[n].st = "gone"
          => argo[n].cascade]_vars

\* What an Application asks for is what its counterpart has, or the wish changes,
\* or somebody has written over the label.
SpecIsDeployed ==
    \A a \in Apps, s \in Specs :
        []<>(app[a].st = "live" /\ app[a].spec = s /\ NobodyWroteOver =>
                /\ app[a].label # NoName
                /\ argo[app[a].label].st = "live" /\ argo[app[a].label].spec = s)

\* A deleted Application goes.
DeletedApplicationGoes == \A a \in Apps : []<>(app[a].st # "deleting")

=============================================================================
