---------------------------- MODULE GitRepository ----------------------------
(***************************************************************************)
(* GitRepository objects and the controllers that share them: the REST     *)
(* handler (kapis/devops/v1alpha3/scm), the amendment of URLs              *)
(* (controllers/gitrepository), Argo CD's repository secrets               *)
(* (controllers/argocd) and Flux CD's repositories (controllers/fluxcd).   *)
(* Argo CD's controller and Flux CD's guard what they create with one and  *)
(* the same finalizer, and each removes it when its own part is done.      *)
(*                                                                         *)
(* What is abstracted:                                                     *)
(*  - Of a specification only the URL is kept; "amended" says that it has  *)
(*    the form its provider's amendment gives it: all get it, though one   *)
(*    at GitLab that is empty, of a repository whose name ends in .git, is *)
(*    left empty.  Credentials are data.                                   *)
(*  - GitRepositories here have one name, in different namespaces: Argo CD *)
(*    has one secret for all of that name, Flux CD one object for each.    *)
(*  - The informer of GitRepositories delivers all that has changed; a     *)
(*    resourceVersion is only compared with the current one (fresh).       *)
(*  - A call that is refused because of a stale version is repeated by the *)
(*    work queue: a Reconcile whose first call it is has done nothing.     *)
(***************************************************************************)
CONSTANTS
    Repos,         \* GitRepositories of one name
    NoRepo,        \* the key of an idle worker
    Urls,          \* what a GitRepository may refer to
    NoUrl,         \* of nothing
    Scenarios      \* what may be enabled, and what may happen then

(***************************************************************************)
(* "error"   a call to Kubernetes fails, changing nothing                  *)
(* "lag"     the informer of secrets is behind when a GitRepository goes   *)
(* "crash"   the controller manager restarts                               *)
(* "client"  a client sends back an object read before the finalizer was   *)
(*           added                                                         *)
(***************************************************************************)
AllDisturbances == {"error", "lag", "crash", "client"}

Groups == {"argocd", "fluxcd"}

Scenario == [groups: SUBSET Groups, disturbances: SUBSET AllDisturbances]

ASSUME GitRepositoryAssumption ==
    /\ NoRepo \notin Repos
    /\ NoUrl \notin Urls
    /\ Scenarios \subseteq Scenario

VARIABLES
    scenario,     \* --enabled-controllers: the groups that run; the disturbances
    repo,         \* repo[r]: the GitRepository in the API server
    cache,        \* cache[r]: the GitRepository in the informer
    fresh,        \* those whose cached version is the current one
    moved,        \* those whose generation has changed since the cached version
    queue,        \* queue[c]: keys in the work queue of controller c
    argo,         \* the local variables of Argo CD's Reconcile under way
    flux,         \* the local variables of Flux CD's
    secret,       \* the secret for Argo CD
    seen,         \* what the informer of secrets has of it
    counterpart   \* counterpart[r]: the GitRepository for Flux CD

\* Auxiliary: why something may have been left behind.  It guards no action.
VARIABLE excuses

repoVars == <<repo, cache, fresh, moved>>
enabled == scenario.groups
mirrors == <<secret, seen, counterpart>>
vars == <<scenario, repoVars, queue, argo, flux, mirrors, excuses>>

----------------------------------------------------------------------------
(* Types *)

Url == [url: Urls \cup {NoUrl}, amended: BOOLEAN]
Nothing == [url |-> NoUrl, amended |-> FALSE]

\* What clients send: a URL in its provider's form, or one that is not yet.
Posted == {u \in Url : u.url # NoUrl}

\* fin: the finalizer; artifact: the label that makes it a source for Flux CD.
GitRepo ==
    [st: {"absent", "live", "deleting"}, of: Url,
     fin: BOOLEAN, artifact: BOOLEAN]

Absent == [st |-> "absent", of |-> Nothing, fin |-> FALSE, artifact |-> FALSE]

Exists(o) == o.st # "absent"

Worker ==
    [pc: {"idle", "apply", "release"}, repo: Repos \cup {NoRepo}, copy: GitRepo,
     current: BOOLEAN]

Idle == [pc |-> "idle", repo |-> NoRepo, copy |-> Absent, current |-> FALSE]

Controllers == Groups \cup {"amend"}

TypeOK ==
    /\ scenario \in Scenario
    /\ repo \in [Repos -> GitRepo]
    /\ cache \in [Repos -> GitRepo]
    /\ fresh \subseteq Repos
    /\ moved \subseteq Repos
    /\ queue \in [Controllers -> SUBSET Repos]
    /\ argo \in Worker /\ (argo.pc # "idle" => argo.repo \in Repos)
    /\ flux \in Worker /\ (flux.pc # "idle" => flux.repo \in Repos)
    /\ secret \in Url
    /\ seen \in {"none", "old", "current"}
    /\ counterpart \in [Repos -> Url]
    /\ excuses \subseteq {"client", "lag", "shared"}

----------------------------------------------------------------------------
(* The API server *)

\* A new version, of a new generation if the specification or the presence differs.
Put(r, o) ==
    /\ repo' = [repo EXCEPT ![r] = o]
    /\ fresh' = fresh \ {r}
    /\ moved' = IF <<o.st, o.of>> # <<repo[r].st, repo[r].of>> THEN moved \cup {r} ELSE moved
    /\ UNCHANGED cache

\* An object that is being deleted goes with its last finalizer.
Finalized(o) == IF o.st = "deleting" /\ ~o.fin THEN Absent ELSE o

\* The copy a worker holds is outdated by somebody else's write.
Outdated(w, r) == [w EXCEPT !.current = @ /\ w.repo # r]

ByUser(r) ==
    /\ argo' = Outdated(argo, r)
    /\ flux' = Outdated(flux, r)
    /\ UNCHANGED <<scenario, queue, mirrors>>

createGitRepositories(r, u, a) ==
    /\ ~Exists(repo[r])
    /\ Put(r, [st |-> "live", of |-> u, fin |-> FALSE, artifact |-> a])
    /\ ByUser(r)
    /\ UNCHANGED excuses

\* The latest resourceVersion, all else as the client has it.
updateGitRepositories(r, u, a) ==
    /\ Exists(repo[r])
    /\ Put(r, [repo[r] EXCEPT !.of = u, !.artifact = a])
    /\ ByUser(r)
    /\ UNCHANGED excuses

\* ... and the client has it without the finalizer.
updateWithOldCopy(r, u, a) ==
    /\ "client" \in scenario.disturbances
    /\ Exists(repo[r]) /\ repo[r].fin
    /\ Put(r, Finalized([repo[r] EXCEPT !.of = u, !.artifact = a, !.fin = FALSE]))
    /\ ByUser(r)
    /\ excuses' = excuses \cup {"client"}

deleteGitRepositories(r) ==
    /\ repo[r].st = "live"
    /\ Put(r, Finalized([repo[r] EXCEPT !.st = "deleting"]))
    /\ ByUser(r)
    /\ UNCHANGED excuses

\* Mutant: Flux CD's controller only hears of a new generation.
Deliver_Filtered ==
    /\ fresh # Repos
    /\ cache' = repo
    /\ fresh' = Repos /\ moved' = {}
    /\ queue' = [c \in Controllers |->
                    IF c \in enabled \cup {"amend"} THEN queue[c] \cup moved ELSE {}]
    /\ UNCHANGED <<scenario, repo, argo, flux, mirrors, excuses>>

\* GenerationChangedPredicate filters for all but Flux CD's controller.
Deliver ==
    /\ fresh # Repos
    /\ cache' = repo
    /\ fresh' = Repos /\ moved' = {}
    /\ queue' = [c \in Controllers |->
                    IF c = "fluxcd" /\ c \in enabled THEN queue[c] \cup (Repos \ fresh)
                    ELSE IF c \in enabled \cup {"amend"} THEN queue[c] \cup moved
                    ELSE {}]
    /\ UNCHANGED <<scenario, repo, argo, flux, mirrors, excuses>>

DeliverSecret ==
    /\ seen' = IF secret = Nothing THEN "none" ELSE "current"
    /\ UNCHANGED <<scenario, repoVars, queue, argo, flux, secret, counterpart, excuses>>

----------------------------------------------------------------------------
(* What the three Reconciles have in common *)

\* Get: the key is taken from the queue.
Dequeue(c, r) ==
    /\ r \in queue[c]
    /\ queue' = [queue EXCEPT ![c] = @ \ {r}]

\* Mutant: the worker has forgotten the key by then.
Requeue_Forgotten(c, w) == queue' = [queue EXCEPT ![c] = @ \cup {Idle.repo}]

Requeue(c, w) == queue' = [queue EXCEPT ![c] = @ \cup {w.repo}]

\* The GitRepository is not found.
Ignore(c, r) ==
    /\ Dequeue(c, r)
    /\ ~Exists(cache[r])
    /\ UNCHANGED <<scenario, repoVars, argo, flux, mirrors, excuses>>

\* Mutant: the finalizer is only added to the copy.
Guard_CopyOnly(r) == UNCHANGED repoVars

\* AddFinalizer and, if that changes the copy, Update.
Guard(r) ==
    \/ cache[r].fin /\ UNCHANGED repoVars
    \/ ~cache[r].fin /\ r \in fresh /\ Put(r, [repo[r] EXCEPT !.fin = TRUE])

Guarded(r) ==
    [pc |-> "apply", repo |-> r, copy |-> [cache[r] EXCEPT !.fin = TRUE], current |-> FALSE]

Released(r) == [pc |-> "release", repo |-> r, copy |-> cache[r], current |-> r \in fresh]

\* RemoveFinalizer and Update; an Update that changes nothing is no new version.
Release(w) ==
    /\ w.pc = "release"
    /\ w.current
    /\ IF w.copy.fin THEN Put(w.repo, Finalized([w.copy EXCEPT !.fin = FALSE]))
                     ELSE UNCHANGED repoVars

\* The other group's controller may have needed the finalizer.
Excused(c) == excuses' = excuses \cup (IF enabled = {c} THEN {} ELSE {"shared"})

----------------------------------------------------------------------------
(* AmendReconciler *)

Amend(r) ==
    /\ Dequeue("amend", r)
    /\ Exists(cache[r])
    /\ IF cache[r].of.amended THEN UNCHANGED <<repoVars, argo, flux>>
       ELSE /\ r \in fresh
            /\ Put(r, [repo[r] EXCEPT !.of.amended = TRUE])
            /\ argo' = Outdated(argo, r)
            /\ flux' = Outdated(flux, r)
    /\ UNCHANGED <<scenario, mirrors, excuses>>

----------------------------------------------------------------------------
(* GitRepositoryController of Argo CD *)

ArgoGuard(r) ==
    /\ argo.pc = "idle"
    /\ Dequeue("argocd", r)
    /\ cache[r].st = "live"
    /\ Guard(r)
    /\ argo' = Guarded(r)
    /\ flux' = IF cache[r].fin THEN flux ELSE Outdated(flux, r)
    /\ UNCHANGED <<scenario, mirrors, excuses>>

\* Mutant: a secret that is not there cannot be deleted.
ArgoDrop_MustExist(r) ==
    /\ argo.pc = "idle"
    /\ Dequeue("argocd", r)
    /\ cache[r].st = "deleting"
    /\ seen # "none" /\ secret # Nothing
    /\ secret' = Nothing
    /\ seen' = "old"
    /\ argo' = Released(r)
    /\ UNCHANGED <<scenario, repoVars, flux, counterpart, excuses>>

\* The secret is looked up in the cache and deleted if it is found.
ArgoDrop(r) ==
    /\ argo.pc = "idle"
    /\ Dequeue("argocd", r)
    /\ cache[r].st = "deleting"
    /\ \/ /\ seen # "none" /\ secret # Nothing
          /\ secret' = Nothing
          /\ seen' = "old"
          /\ UNCHANGED excuses
       \/ /\ seen = "none"
          /\ secret = Nothing \/ "lag" \in scenario.disturbances
          /\ excuses' = excuses \cup (IF secret = Nothing THEN {} ELSE {"lag"})
          /\ UNCHANGED <<secret, seen>>
    /\ argo' = Released(r)
    /\ UNCHANGED <<scenario, repoVars, flux, counterpart>>

\* handleArgoGitRepo: created, or updated in the version the cache has.
ArgoApply ==
    /\ argo.pc = "apply"
    /\ \/ seen = "none" /\ secret = Nothing /\ UNCHANGED seen
       \/ seen = "current" /\ seen' = "old"
    /\ secret' = argo.copy.of
    /\ argo' = Idle
    /\ UNCHANGED <<scenario, repoVars, queue, flux, counterpart, excuses>>

ArgoRelease ==
    /\ Release(argo)
    /\ argo' = Idle
    /\ flux' = Outdated(flux, argo.repo)
    /\ Excused("argocd")
    /\ UNCHANGED <<scenario, queue, mirrors>>

ArgoFails ==
    /\ \/ argo.pc = "apply" /\ (seen = "none" => secret # Nothing) /\ seen # "current"
       \/ argo.pc = "release" /\ ~argo.current
       \/ argo.pc # "idle" /\ "error" \in scenario.disturbances
    /\ argo' = Idle
    /\ Requeue("argocd", argo)
    /\ UNCHANGED <<scenario, repoVars, flux, mirrors, excuses>>

----------------------------------------------------------------------------
(* GitRepositoryReconciler of Flux CD; unstructured objects are read live *)

Wanted(o) == o.st = "live" /\ o.artifact

FluxGuard(r) ==
    /\ flux.pc = "idle"
    /\ Dequeue("fluxcd", r)
    /\ Wanted(cache[r])
    /\ Guard(r)
    /\ flux' = Guarded(r)
    /\ argo' = IF cache[r].fin THEN argo ELSE Outdated(argo, r)
    /\ UNCHANGED <<scenario, mirrors, excuses>>

\* Mutant: only a deletion makes the counterpart go.
FluxDrop_OnDeletion(r) ==
    /\ flux.pc = "idle"
    /\ Dequeue("fluxcd", r)
    /\ Exists(cache[r]) /\ ~Wanted(cache[r])
    /\ counterpart' = [counterpart EXCEPT ![r] = IF cache[r].st = "live" THEN @ ELSE Nothing]
    /\ flux' = Released(r)
    /\ UNCHANGED <<scenario, repoVars, argo, secret, seen, excuses>>

FluxDrop(r) ==
    /\ flux.pc = "idle"
    /\ Dequeue("fluxcd", r)
    /\ Exists(cache[r]) /\ ~Wanted(cache[r])
    /\ counterpart' = [counterpart EXCEPT ![r] = Nothing]
    /\ flux' = Released(r)
    /\ UNCHANGED <<scenario, repoVars, argo, secret, seen, excuses>>

\* Created, or updated with the latest resourceVersion.
FluxApply ==
    /\ flux.pc = "apply"
    /\ counterpart' = [counterpart EXCEPT ![flux.repo] = flux.copy.of]
    /\ flux' = Idle
    /\ UNCHANGED <<scenario, repoVars, queue, argo, secret, seen, excuses>>

FluxRelease ==
    /\ Release(flux)
    /\ flux' = Idle
    /\ argo' = IF flux.copy.fin THEN Outdated(argo, flux.repo) ELSE argo
    /\ Excused("fluxcd")
    /\ UNCHANGED <<scenario, queue, mirrors>>

FluxFails ==
    /\ \/ flux.pc = "release" /\ ~flux.current
       \/ flux.pc # "idle" /\ "error" \in scenario.disturbances
    /\ flux' = Idle
    /\ Requeue("fluxcd", flux)
    /\ UNCHANGED <<scenario, repoVars, argo, mirrors, excuses>>

----------------------------------------------------------------------------
\* The controller manager starts anew: informers list, every key is queued.
Restart ==
    /\ "crash" \in scenario.disturbances
    /\ cache' = repo
    /\ fresh' = Repos /\ moved' = {}
    /\ queue' = [c \in Controllers |-> IF c \in enabled \cup {"amend"}
                                       THEN {r \in Repos : Exists(repo[r])} ELSE {}]
    /\ argo' = Idle /\ flux' = Idle
    /\ seen' = IF secret = Nothing THEN "none" ELSE "current"
    /\ UNCHANGED <<scenario, repo, secret, counterpart, excuses>>

Init ==
    /\ scenario \in Scenarios
    /\ repo = [r \in Repos |-> Absent]
    /\ cache = repo
    /\ fresh = Repos /\ moved = {}
    /\ queue = [c \in Controllers |-> {}]
    /\ argo = Idle /\ flux = Idle
    /\ secret = Nothing /\ seen = "none"
    /\ counterpart = [r \in Repos |-> Nothing]
    /\ excuses = {}

Users(r) ==
    \/ \E u \in Posted, a \in BOOLEAN :
          \/ createGitRepositories(r, u, a)
          \/ updateGitRepositories(r, u, a) \/ updateWithOldCopy(r, u, a)
    \/ deleteGitRepositories(r)

Amends(r) == Ignore("amend", r) \/ Amend(r)

ArgoTakes(r) == (argo.pc = "idle" /\ Ignore("argocd", r)) \/ ArgoGuard(r) \/ ArgoDrop(r)

FluxTakes(r) == (flux.pc = "idle" /\ Ignore("fluxcd", r)) \/ FluxGuard(r) \/ FluxDrop(r)

Informers == Deliver \/ DeliverSecret

Argo == ArgoApply \/ ArgoRelease \/ ArgoFails

Flux == FluxApply \/ FluxRelease \/ FluxFails

Next ==
    \/ \E r \in Repos : Users(r) \/ Amends(r) \/ ArgoTakes(r) \/ FluxTakes(r)
    \/ Informers \/ Argo \/ Flux \/ Restart

Spec == Init /\ [][Next]_vars

\* Fairness: informers deliver, an idle worker takes what is queued, and a Reconcile
\* ends; one that is tried again and again gets through in spite of conflicts and
\* errors.  Users owe nothing.
FairSpec ==
    /\ Spec
    /\ WF_vars(Deliver) /\ WF_vars(DeliverSecret)
    /\ WF_vars(Argo) /\ SF_vars(ArgoApply \/ ArgoRelease)
    /\ WF_vars(Flux) /\ SF_vars(FluxApply \/ FluxRelease)
    /\ \A r \in Repos : WF_vars(Amends(r)) /\ WF_vars(ArgoTakes(r)) /\ WF_vars(FluxTakes(r))

----------------------------------------------------------------------------
(* Properties *)

\* handleFinalizer comes before handleArgoGitRepo: the secret never outlives the
\* last GitRepository of the name that keeps the finalizer for it - unless a client
\* or Flux CD's controller has removed the finalizer, or the secret was overlooked.
SecretIsGuarded ==
    secret # Nothing /\ excuses = {} => \E r \in Repos : repo[r].fin

\* Likewise Flux CD's repository, also when the label is taken from the GitRepository.
CounterpartIsGuarded ==
    \A r \in Repos : counterpart[r] # Nothing /\ excuses = {} => repo[r].fin

AtRest ==
    /\ \A c \in Controllers : queue[c] = {}
    /\ argo.pc = "idle" /\ flux.pc = "idle"
    /\ fresh = Repos

\* Once the controllers have nothing left to do, a GitRepository has an amended URL,
\* and what Argo CD and Flux CD have is that URL, or nothing where nothing is wanted.
RestShowsUrl ==
    AtRest => \A r \in Repos : repo[r].st = "live" =>
        /\ repo[r].of.amended
        /\ "argocd" \in enabled => secret = repo[r].of
        /\ "fluxcd" \in enabled =>
              counterpart[r] = IF repo[r].artifact THEN repo[r].of ELSE Nothing

\* Nobody writes to a GitRepository any more but the controllers, which run on.
Calms == <>[][~Restart /\ \A r \in Repos : ~Users(r)]_vars

\* Then none stays deleted but there, in spite of errors and of what was left before.
DeletedRepoGoes == Calms => \A r \in Repos : []<>(repo[r].st # "deleting")
=============================================================================
