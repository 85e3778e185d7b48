------------------------ MODULE GitRepositoryProofs ------------------------
(***************************************************************************)
(* What holds of GitRepository for any number of repositories of the name, *)
(* any URLs, and any groups and disturbances together.                     *)
(***************************************************************************)
EXTENDS GitRepository, TLAPS

----------------------------------------------------------------------------
(* The inductive invariant *)

\* Only a finalizer keeps what is deleted; a fresh copy is the current version.
PresenceInv ==
    \A r \in Repos :
        /\ repo[r].st = "deleting" => repo[r].fin
        /\ repo[r].st = "absent" => ~repo[r].fin
        /\ r \in fresh => cache[r] = repo[r]

\* A group that is not enabled has no work and leaves nothing.
EnabledInv ==
    /\ \A c \in Groups : queue[c] # {} => c \in enabled
    /\ argo.pc # "idle" \/ secret # Nothing => "argocd" \in enabled
    /\ flux.pc # "idle" => "fluxcd" \in enabled
    /\ \A r \in Repos : counterpart[r] # Nothing => "fluxcd" \in enabled

\* A copy nobody has outdated is what the informer and the API server have.
CopyInv ==
    /\ argo.current =>
          argo.repo \in Repos /\ repo[argo.repo] = argo.copy /\ cache[argo.repo] = argo.copy
    /\ flux.current =>
          flux.repo \in Repos /\ repo[flux.repo] = flux.copy /\ cache[flux.repo] = flux.copy
    /\ argo.pc = "release" => argo.copy.st = "deleting"
    /\ flux.pc = "release" => ~Wanted(flux.copy)

\* What a controller has seen guarded is guarded still, while it may act upon it.
ArgoInv ==
    "argocd" \in enabled =>
        /\ \A r \in Repos : cache[r].st = "live" /\ cache[r].fin => repo[r].fin
        /\ argo.pc = "apply" => repo[argo.repo].fin
        /\ argo.pc = "release" => secret = Nothing

FluxInv ==
    "fluxcd" \in enabled =>
        /\ \A r \in Repos : Wanted(cache[r]) /\ cache[r].fin => repo[r].fin
        /\ flux.pc = "apply" => repo[flux.repo].fin
        /\ flux.pc = "release" => counterpart[flux.repo] = Nothing

GuardInv == excuses = {} => ArgoInv /\ FluxInv /\ SecretIsGuarded /\ CounterpartIsGuarded

GitRepositoryInv == TypeOK /\ PresenceInv /\ EnabledInv /\ CopyInv /\ GuardInv

----------------------------------------------------------------------------
(* Types *)

LEMMA ValueTypes ==
    /\ Nothing \in Url
    /\ Absent \in GitRepo
    /\ Idle \in Worker /\ Idle.pc = "idle" /\ Idle.current = FALSE
<1>0. Nothing \in Url
  BY DEF Nothing, Url
<1>1. Absent \in GitRepo
  BY <1>0 DEF Absent, GitRepo
<1> QED
  BY <1>0, <1>1 DEF Idle, Worker

LEMMA FinalizedType ==
    ASSUME NEW o \in GitRepo
    PROVE  Finalized(o) \in GitRepo
BY ValueTypes DEF Finalized

LEMMA OutdatedType ==
    ASSUME NEW w \in Worker, NEW r \in Repos
    PROVE  /\ Outdated(w, r) \in Worker
           /\ Outdated(w, r).pc = w.pc /\ Outdated(w, r).repo = w.repo
           /\ Outdated(w, r).copy = w.copy
           /\ Outdated(w, r).current = (w.current /\ w.repo # r)
BY DEF Outdated, Worker

\* Every write keeps the types of what it touches.
LEMMA PutType ==
    ASSUME TypeOK, NEW r \in Repos, NEW o \in GitRepo, Put(r, o)
    PROVE  /\ repo' \in [Repos -> GitRepo] /\ cache' \in [Repos -> GitRepo]
           /\ fresh' \subseteq Repos /\ moved' \subseteq Repos
BY DEF TypeOK, Put

LEMMA UserTypes ==
    ASSUME TypeOK, NEW r \in Repos, Users(r)
    PROVE  TypeOK'
<1>1. ASSUME NEW o \in GitRepo, Put(r, o), ByUser(r),
             excuses' = excuses \/ excuses' = excuses \cup {"client"}
      PROVE  TypeOK'
  <2>1. /\ repo' \in [Repos -> GitRepo] /\ cache' \in [Repos -> GitRepo]
        /\ fresh' \subseteq Repos /\ moved' \subseteq Repos
    BY <1>1, PutType
  <2>2. argo' \in Worker /\ (argo'.pc # "idle" => argo'.repo \in Repos)
    BY <1>1, OutdatedType DEF TypeOK, ByUser
  <2>3. flux' \in Worker /\ (flux'.pc # "idle" => flux'.repo \in Repos)
    BY <1>1, OutdatedType DEF TypeOK, ByUser
  <2> QED
    BY <1>1, <2>1, <2>2, <2>3 DEF TypeOK, ByUser, mirrors
<1>2. ASSUME NEW u \in Posted, NEW a \in BOOLEAN,
             createGitRepositories(r, u, a) \/ updateGitRepositories(r, u, a)
                \/ updateWithOldCopy(r, u, a)
      PROVE  TypeOK'
  <2>1. repo[r] \in GitRepo /\ u \in Url
    BY <1>2 DEF TypeOK, Posted
  <2>2. CASE createGitRepositories(r, u, a)
    <3>1. [st |-> "live", of |-> u, fin |-> FALSE, artifact |-> a] \in GitRepo
      BY <2>1 DEF GitRepo
    <3> QED
      BY <3>1, <2>2, <1>1 DEF createGitRepositories
  <2>3. CASE updateGitRepositories(r, u, a)
    <3>1. [repo[r] EXCEPT !.of = u, !.artifact = a] \in GitRepo
      BY <2>1 DEF GitRepo
    <3> QED
      BY <3>1, <2>3, <1>1 DEF updateGitRepositories
  <2>4. CASE updateWithOldCopy(r, u, a)
    <3>1. [repo[r] EXCEPT !.of = u, !.artifact = a, !.fin = FALSE] \in GitRepo
      BY <2>1 DEF GitRepo
    <3> QED
      BY <3>1, <2>4, <1>1, FinalizedType DEF updateWithOldCopy
  <2> QED
    BY <1>2, <2>2, <2>3, <2>4
<1>3. ASSUME deleteGitRepositories(r)
      PROVE  TypeOK'
  <2>1. [repo[r] EXCEPT !.st = "deleting"] \in GitRepo
    BY DEF TypeOK, GitRepo
  <2> QED
    BY <2>1, <1>3, <1>1, FinalizedType DEF deleteGitRepositories
<1> QED
  BY <1>2, <1>3 DEF Users

\* Every key in a queue is a repository's, before and after it is taken.
LEMMA DequeueType ==
    ASSUME TypeOK, NEW c \in Controllers, NEW r \in Repos, Dequeue(c, r)
    PROVE  queue' \in [Controllers -> SUBSET Repos]
BY DEF TypeOK, Dequeue

LEMMA GuardTypes ==
    ASSUME TypeOK, NEW r \in Repos, Guard(r)
    PROVE  /\ repo' \in [Repos -> GitRepo] /\ cache' \in [Repos -> GitRepo]
           /\ fresh' \subseteq Repos /\ moved' \subseteq Repos
<1> repo[r] \in GitRepo
  BY DEF TypeOK
<1>1. [repo[r] EXCEPT !.fin = TRUE] \in GitRepo
  BY DEF GitRepo
<1>2. CASE cache[r].fin /\ UNCHANGED repoVars
  BY <1>2 DEF TypeOK, repoVars
<1>3. CASE Put(r, [repo[r] EXCEPT !.fin = TRUE])
  BY <1>1, <1>3, PutType
<1> QED
  BY <1>2, <1>3 DEF Guard

LEMMA WorkerTypes ==
    ASSUME TypeOK, NEW r \in Repos
    PROVE  /\ Guarded(r) \in Worker /\ Guarded(r).repo = r
           /\ Released(r) \in Worker /\ Released(r).repo = r
<1> cache[r] \in GitRepo
  BY DEF TypeOK
<1>1. [cache[r] EXCEPT !.fin = TRUE] \in GitRepo
  BY DEF GitRepo
<1> QED
  BY <1>1 DEF Guarded, Released, Worker

LEMMA ReleaseTypes ==
    ASSUME TypeOK, NEW w \in Worker, w.repo \in Repos, Release(w)
    PROVE  /\ repo' \in [Repos -> GitRepo] /\ cache' \in [Repos -> GitRepo]
           /\ fresh' \subseteq Repos /\ moved' \subseteq Repos
<1>1. [w.copy EXCEPT !.fin = FALSE] \in GitRepo
  BY DEF Worker, GitRepo
<1>2. CASE Put(w.repo, Finalized([w.copy EXCEPT !.fin = FALSE]))
  BY <1>1, <1>2, FinalizedType, PutType
<1>3. CASE UNCHANGED repoVars
  BY <1>3 DEF TypeOK, repoVars
<1> QED
  BY <1>2, <1>3 DEF Release

\* What most actions of a controller leave as it is, or change in one place only.
LEMMA TypeStep ==
    ASSUME TypeOK, Next
    PROVE  TypeOK'
<1>1. ASSUME NEW r \in Repos, Users(r)
      PROVE  TypeOK'
  BY <1>1, UserTypes
<1>2. ASSUME NEW r \in Repos, NEW c \in Controllers, Ignore(c, r)
      PROVE  TypeOK'
  BY <1>2, DequeueType DEF Ignore, TypeOK, repoVars, mirrors
<1>3. ASSUME NEW r \in Repos, Amend(r)
      PROVE  TypeOK'
  <2>1. queue' \in [Controllers -> SUBSET Repos]
    BY <1>3, DequeueType DEF Amend, Controllers
  <2>2. CASE UNCHANGED <<repoVars, argo, flux>>
    BY <1>3, <2>1, <2>2 DEF Amend, TypeOK, repoVars, mirrors
  <2>3. CASE /\ Put(r, [repo[r] EXCEPT !.of.amended = TRUE])
             /\ r \in fresh
             /\ argo' = Outdated(argo, r)
             /\ flux' = Outdated(flux, r)
    <3> repo[r] \in GitRepo /\ cache[r] \in GitRepo
      BY DEF TypeOK
    <3>1. [repo[r] EXCEPT !.of.amended = TRUE] \in GitRepo
      <4> DEFINE of == [repo[r].of EXCEPT !.amended = TRUE]
      <4>1. repo[r].of \in Url
        BY DEF GitRepo
      <4>2. of \in Url
        BY <4>1 DEF Url
      <4>3. [repo[r] EXCEPT !.of = of] \in GitRepo
        BY <4>2 DEF GitRepo
      <4> QED
        BY <4>3
    <3>2. /\ repo' \in [Repos -> GitRepo] /\ cache' \in [Repos -> GitRepo]
          /\ fresh' \subseteq Repos /\ moved' \subseteq Repos
      BY <3>1, <2>3, PutType
    <3>3. argo' \in Worker /\ (argo'.pc # "idle" => argo'.repo \in Repos)
      BY <2>3, OutdatedType DEF TypeOK
    <3>4. flux' \in Worker /\ (flux'.pc # "idle" => flux'.repo \in Repos)
      BY <2>3, OutdatedType DEF TypeOK
    <3> QED
      BY <1>3, <2>1, <3>2, <3>3, <3>4 DEF Amend, TypeOK, mirrors
  <2> QED
    BY <1>3, <2>2, <2>3 DEF Amend
<1>4. ASSUME NEW r \in Repos, ArgoGuard(r)
      PROVE  TypeOK'
  <2>1. queue' \in [Controllers -> SUBSET Repos]
    BY <1>4, DequeueType DEF ArgoGuard, Controllers, Groups
  <2>2. flux' \in Worker /\ (flux'.pc # "idle" => flux'.repo \in Repos)
    BY <1>4, OutdatedType DEF ArgoGuard, TypeOK
  <2> QED
    BY <1>4, <2>1, <2>2, GuardTypes, WorkerTypes DEF ArgoGuard, TypeOK, mirrors
<1>5. ASSUME NEW r \in Repos, ArgoDrop(r)
      PROVE  TypeOK'
  <2>1. queue' \in [Controllers -> SUBSET Repos]
    BY <1>5, DequeueType DEF ArgoDrop, Controllers, Groups
  <2>2. argo' \in Worker /\ argo'.repo \in Repos
    BY <1>5, WorkerTypes DEF ArgoDrop
  <2>3. secret' \in Url /\ seen' \in {"none", "old", "current"}
    BY <1>5, ValueTypes DEF ArgoDrop, TypeOK
  <2>4. excuses' \subseteq {"client", "lag", "shared"}
    BY <1>5 DEF ArgoDrop, TypeOK
  <2> QED
    BY <1>5, <2>1, <2>2, <2>3, <2>4 DEF ArgoDrop, TypeOK, repoVars
<1>6. ASSUME ArgoApply
      PROVE  TypeOK'
  <2>1. argo.copy.of \in Url
    BY DEF TypeOK, Worker, GitRepo
  <2> QED
    BY <1>6, <2>1, ValueTypes DEF ArgoApply, TypeOK, repoVars
<1>7. ASSUME ArgoRelease
      PROVE  TypeOK'
  <2> argo \in Worker /\ argo.repo \in Repos
    BY <1>7 DEF ArgoRelease, Release, TypeOK
  <2>1. flux' \in Worker /\ (flux'.pc # "idle" => flux'.repo \in Repos)
    BY <1>7, OutdatedType DEF ArgoRelease, TypeOK
  <2>2. excuses' \subseteq {"client", "lag", "shared"}
    BY <1>7 DEF ArgoRelease, Excused, TypeOK
  <2> QED
    BY <1>7, <2>1, <2>2, ReleaseTypes, ValueTypes DEF ArgoRelease, TypeOK, mirrors
<1>8. ASSUME ArgoFails
      PROVE  TypeOK'
  <2>1. argo.repo \in Repos
    BY <1>8 DEF ArgoFails, TypeOK
  <2> QED
    BY <1>8, <2>1, ValueTypes DEF ArgoFails, Requeue, TypeOK, repoVars, mirrors
<1>9. ASSUME NEW r \in Repos, FluxGuard(r)
      PROVE  TypeOK'
  <2>1. queue' \in [Controllers -> SUBSET Repos]
    BY <1>9, DequeueType DEF FluxGuard, Controllers, Groups
  <2>2. argo' \in Worker /\ (argo'.pc # "idle" => argo'.repo \in Repos)
    BY <1>9, OutdatedType DEF FluxGuard, TypeOK
  <2> QED
    BY <1>9, <2>1, <2>2, GuardTypes, WorkerTypes DEF FluxGuard, TypeOK, mirrors
<1>10. ASSUME NEW r \in Repos, FluxDrop(r)
       PROVE  TypeOK'
  <2>1. queue' \in [Controllers -> SUBSET Repos]
    BY <1>10, DequeueType DEF FluxDrop, Controllers, Groups
  <2>2. flux' \in Worker /\ flux'.repo \in Repos
    BY <1>10, WorkerTypes DEF FluxDrop
  <2>3. counterpart' \in [Repos -> Url]
    BY <1>10, ValueTypes DEF FluxDrop, TypeOK
  <2> QED
    BY <1>10, <2>1, <2>2, <2>3 DEF FluxDrop, TypeOK, repoVars
<1>11. ASSUME FluxApply
       PROVE  TypeOK'
  <2>1. flux.copy.of \in Url
    BY DEF TypeOK, Worker, GitRepo
  <2> QED
    BY <1>11, <2>1, ValueTypes DEF FluxApply, TypeOK, repoVars
<1>12. ASSUME FluxRelease
       PROVE  TypeOK'
  <2> flux \in Worker /\ flux.repo \in Repos
    BY <1>12 DEF FluxRelease, Release, TypeOK
  <2>1. argo' \in Worker /\ (argo'.pc # "idle" => argo'.repo \in Repos)
    BY <1>12, OutdatedType DEF FluxRelease, TypeOK
  <2>2. excuses' \subseteq {"client", "lag", "shared"}
    BY <1>12 DEF FluxRelease, Excused, TypeOK
  <2> QED
    BY <1>12, <2>1, <2>2, ReleaseTypes, ValueTypes DEF FluxRelease, TypeOK, mirrors
<1>13. ASSUME FluxFails
       PROVE  TypeOK'
  <2>1. flux.repo \in Repos
    BY <1>13 DEF FluxFails, TypeOK
  <2> QED
    BY <1>13, <2>1, ValueTypes DEF FluxFails, Requeue, TypeOK, repoVars, mirrors
<1>14. CASE Deliver
  <2>1. queue' \in [Controllers -> SUBSET Repos]
    BY <1>14 DEF Deliver, TypeOK
  <2> QED
    BY <1>14, <2>1 DEF Deliver, TypeOK, mirrors
<1>15. CASE DeliverSecret
  BY <1>15 DEF DeliverSecret, TypeOK, repoVars
<1>16. CASE Restart
  <2>1. queue' \in [Controllers -> SUBSET Repos]
    BY <1>16 DEF Restart
  <2> QED
    BY <1>16, <2>1, ValueTypes DEF Restart, TypeOK
<1> QED
  BY <1>1, <1>2, <1>3, <1>4, <1>5, <1>6, <1>7, <1>8, <1>9, <1>10, <1>11, <1>12, <1>13,
     <1>14, <1>15, <1>16, TypeOK, Next
     DEF Next, Amends, ArgoTakes, FluxTakes, Informers, Argo, Flux, Controllers, Groups

----------------------------------------------------------------------------
(* What a step writes *)

\* A version that may be stored: what is deleted has the finalizer.
Storable(o) == o \in GitRepo /\ (o.st = "deleting" => o.fin) /\ (o.st = "absent" => ~o.fin)

LEMMA FinalizedStorable ==
    ASSUME NEW o \in GitRepo, o.st # "absent"
    PROVE  Storable(Finalized(o)) /\ (o.fin => Finalized(o) = o)
BY ValueTypes DEF Storable, Finalized, Absent

\* Nobody but a client with an old copy takes a finalizer away from what is there.
LEMMA UserWrites ==
    ASSUME TypeOK, PresenceInv, NEW r \in Repos, Users(r)
    PROVE  \E o \in GitRepo :
              /\ Put(r, o) /\ ByUser(r) /\ Storable(o)
              /\ excuses' = {} => excuses = {} /\ (repo[r].fin => o.fin)
<1> DEFINE Written(o) ==
              /\ Put(r, o) /\ ByUser(r) /\ Storable(o)
              /\ excuses' = {} => excuses = {} /\ (repo[r].fin => o.fin)
<1>0. repo[r] \in GitRepo
  BY DEF TypeOK
<1>1. ASSUME NEW u \in Posted, NEW a \in BOOLEAN, createGitRepositories(r, u, a)
      PROVE  \E o \in GitRepo : Written(o)
  <2> DEFINE o == [st |-> "live", of |-> u, fin |-> FALSE, artifact |-> a]
  <2>1. o \in GitRepo /\ Storable(o)
    BY DEF GitRepo, Posted, Storable
  <2>2. ~repo[r].fin
    BY <1>0, <1>1 DEF createGitRepositories, Exists, PresenceInv, GitRepo
  <2>3. Written(o)
    BY <1>1, <2>1, <2>2 DEF createGitRepositories
  <2> QED
    BY <2>1, <2>3
<1>2. ASSUME NEW u \in Posted, NEW a \in BOOLEAN, updateGitRepositories(r, u, a)
      PROVE  \E o \in GitRepo : Written(o)
  <2> DEFINE o == [repo[r] EXCEPT !.of = u, !.artifact = a]
  <2>1. o \in GitRepo /\ o.fin = repo[r].fin /\ o.st = repo[r].st
    BY <1>0 DEF GitRepo, Posted
  <2>2. Storable(o)
    BY <2>1 DEF Storable, PresenceInv
  <2>3. Written(o)
    BY <1>2, <2>1, <2>2 DEF updateGitRepositories
  <2> QED
    BY <2>1, <2>3
<1>3. ASSUME NEW u \in Posted, NEW a \in BOOLEAN, updateWithOldCopy(r, u, a)
      PROVE  \E o \in GitRepo : Written(o)
  <2> DEFINE o == [repo[r] EXCEPT !.of = u, !.artifact = a, !.fin = FALSE]
  <2>1. o \in GitRepo /\ o.st # "absent"
    BY <1>0, <1>3 DEF GitRepo, Posted, updateWithOldCopy, Exists
  <2>2. Storable(Finalized(o)) /\ Finalized(o) \in GitRepo
    BY <2>1, FinalizedStorable, FinalizedType
  <2>3. Written(Finalized(o))
    BY <1>3, <2>2 DEF updateWithOldCopy
  <2> QED
    BY <2>2, <2>3
<1>4. ASSUME deleteGitRepositories(r)
      PROVE  \E o \in GitRepo : Written(o)
  <2> DEFINE o == [repo[r] EXCEPT !.st = "deleting"]
  <2>1. o \in GitRepo /\ o.fin = repo[r].fin /\ o.st # "absent"
    BY <1>0 DEF GitRepo
  <2>2. /\ Storable(Finalized(o)) /\ Finalized(o) \in GitRepo
        /\ repo[r].fin => Finalized(o).fin
    BY <2>1, FinalizedStorable, FinalizedType
  <2>3. Written(Finalized(o))
    BY <1>4, <2>2 DEF deleteGitRepositories
  <2> QED
    BY <2>2, <2>3
<1> QED
  BY <1>1, <1>2, <1>3, <1>4 DEF Users

\* Guard stores the fresh copy with the finalizer, or finds it there.
LEMMA GuardWrites ==
    ASSUME TypeOK, PresenceInv, NEW r \in Repos, Guard(r), cache[r].st = "live"
    PROVE  \/ cache[r].fin /\ UNCHANGED repoVars
           \/ /\ ~cache[r].fin
              /\ \E o \in GitRepo : Put(r, o) /\ Storable(o) /\ o.fin
<1>1. CASE ~cache[r].fin /\ r \in fresh /\ Put(r, [repo[r] EXCEPT !.fin = TRUE])
  <2> DEFINE o == [repo[r] EXCEPT !.fin = TRUE]
  <2>0. repo[r] \in GitRepo /\ repo[r].st = "live"
    BY <1>1 DEF TypeOK, PresenceInv
  <2>1. o \in GitRepo /\ o.fin = TRUE /\ o.st = "live"
    BY <2>0 DEF GitRepo
  <2>2. Storable(o)
    BY <2>1 DEF Storable
  <2> QED
    BY <1>1, <2>1, <2>2
<1> QED
  BY <1>1 DEF Guard

\* Amend leaves presence and finalizer as they are.
LEMMA AmendWrites ==
    ASSUME TypeOK, PresenceInv, NEW r \in Repos, Amend(r)
    PROVE  \/ UNCHANGED <<repoVars, argo, flux>>
           \/ \E o \in GitRepo :
                 /\ Put(r, o) /\ Storable(o) /\ o.fin = repo[r].fin
                 /\ argo' = Outdated(argo, r)
                 /\ flux' = Outdated(flux, r)
<1>1. CASE /\ Put(r, [repo[r] EXCEPT !.of.amended = TRUE])
           /\ argo' = Outdated(argo, r)
           /\ flux' = Outdated(flux, r)
  <2> DEFINE of == [repo[r].of EXCEPT !.amended = TRUE]
             o == [repo[r] EXCEPT !.of = of]
  <2>0. repo[r] \in GitRepo
    BY DEF TypeOK
  <2>1. repo[r].of \in Url
    BY <2>0 DEF GitRepo
  <2>2. of \in Url
    BY <2>1 DEF Url
  <2>3. o \in GitRepo /\ o.fin = repo[r].fin /\ o.st = repo[r].st
    BY <2>0, <2>2 DEF GitRepo
  <2>4. Storable(o)
    BY <2>3 DEF Storable, PresenceInv
  <2> QED
    BY <1>1, <2>3, <2>4
<1> QED
  BY <1>1 DEF Amend

\* A release stores the current version without its finalizer, unless it had none.
LEMMA ReleaseWrites ==
    ASSUME TypeOK, PresenceInv, NEW w \in Worker, w.repo \in Repos, Release(w),
           repo[w.repo] = w.copy
    PROVE  \/ UNCHANGED repoVars
           \/ \E o \in GitRepo : Put(w.repo, o) /\ Storable(o)
<1>1. CASE w.copy.fin /\ Put(w.repo, Finalized([w.copy EXCEPT !.fin = FALSE]))
  <2> DEFINE o == [w.copy EXCEPT !.fin = FALSE]
  <2>0. w.copy \in GitRepo /\ w.copy.st # "absent"
    BY <1>1 DEF TypeOK, PresenceInv
  <2>1. o \in GitRepo /\ o.st # "absent"
    BY <2>0 DEF GitRepo
  <2>2. Storable(Finalized(o)) /\ Finalized(o) \in GitRepo
    BY <2>1, FinalizedStorable, FinalizedType
  <2> QED
    BY <1>1, <2>2
<1> QED
  BY <1>1 DEF Release

LEMMA PutPresence ==
    ASSUME TypeOK, PresenceInv, NEW r \in Repos, NEW o \in GitRepo, Storable(o), Put(r, o)
    PROVE  PresenceInv'
BY DEF TypeOK, PresenceInv, Storable, Put

LEMMA PresenceStep ==
    ASSUME TypeOK, PresenceInv, CopyInv, Next
    PROVE  PresenceInv'
<1>1. ASSUME NEW r \in Repos, Users(r)
      PROVE  PresenceInv'
  BY <1>1, UserWrites, PutPresence
<1>2. ASSUME NEW r \in Repos, Amend(r)
      PROVE  PresenceInv'
  BY <1>2, AmendWrites, PutPresence DEF PresenceInv, repoVars
<1>3. ASSUME NEW r \in Repos, ArgoGuard(r) \/ FluxGuard(r)
      PROVE  PresenceInv'
  BY <1>3, GuardWrites, PutPresence DEF ArgoGuard, FluxGuard, Wanted, PresenceInv, repoVars
<1>4. CASE ArgoRelease
  BY <1>4, ReleaseWrites, PutPresence
     DEF ArgoRelease, Release, TypeOK, CopyInv, PresenceInv, repoVars
<1>5. CASE FluxRelease
  BY <1>5, ReleaseWrites, PutPresence
     DEF FluxRelease, Release, TypeOK, CopyInv, PresenceInv, repoVars
<1>6. CASE Deliver \/ Restart
  BY <1>6 DEF Deliver, Restart, PresenceInv
<1>7. CASE UNCHANGED repoVars
  BY <1>7 DEF PresenceInv, repoVars
<1>8. ASSUME NEW r \in Repos, NEW c \in Controllers, Ignore(c, r) \/ ArgoDrop(r) \/ FluxDrop(r)
      PROVE  UNCHANGED repoVars
  BY <1>8 DEF Ignore, ArgoDrop, FluxDrop, repoVars
<1>9. CASE DeliverSecret \/ ArgoApply \/ ArgoFails \/ FluxApply \/ FluxFails
  BY <1>9, <1>7 DEF DeliverSecret, ArgoApply, ArgoFails, FluxApply, FluxFails, repoVars
<1> QED
  BY <1>1, <1>2, <1>3, <1>4, <1>5, <1>6, <1>7, <1>8, <1>9
     DEF Next, Amends, ArgoTakes, FluxTakes, Informers, Argo, Flux, Controllers, Groups

----------------------------------------------------------------------------
(* Groups and copies *)

LEMMA EnabledStep ==
    ASSUME TypeOK, EnabledInv, Next
    PROVE  EnabledInv'
<1>1. ASSUME NEW r \in Repos, Users(r)
      PROVE  EnabledInv'
  <2>1. /\ UNCHANGED <<scenario, queue, mirrors>>
        /\ argo'.pc = argo.pc /\ flux'.pc = flux.pc
    <3>1. argo \in Worker /\ flux \in Worker
      BY DEF TypeOK
    <3>2. ByUser(r)
      BY <1>1
         DEF Users, createGitRepositories, updateGitRepositories, updateWithOldCopy,
             deleteGitRepositories
    <3> QED
      BY <3>1, <3>2, OutdatedType DEF ByUser
  <2> QED
    BY <2>1 DEF EnabledInv, enabled, mirrors
<1>2. ASSUME NEW r \in Repos, NEW c \in Controllers, Ignore(c, r)
      PROVE  EnabledInv'
  BY <1>2 DEF Ignore, Dequeue, EnabledInv, enabled, mirrors, TypeOK, Controllers
<1>3. ASSUME NEW r \in Repos, Amend(r)
      PROVE  EnabledInv'
  <2>1. argo'.pc = argo.pc /\ flux'.pc = flux.pc
    BY <1>3, OutdatedType DEF Amend, TypeOK
  <2> QED
    BY <1>3, <2>1 DEF Amend, Dequeue, EnabledInv, enabled, mirrors, TypeOK, Controllers, Groups
<1>4. ASSUME NEW r \in Repos, ArgoGuard(r)
      PROVE  EnabledInv'
  <2>1. flux'.pc = flux.pc
    BY <1>4, OutdatedType DEF ArgoGuard, TypeOK
  <2> QED
    BY <1>4, <2>1
       DEF ArgoGuard, Dequeue, EnabledInv, enabled, mirrors, TypeOK, Controllers, Groups
<1>5. ASSUME NEW r \in Repos, ArgoDrop(r)
      PROVE  EnabledInv'
  BY <1>5 DEF ArgoDrop, Dequeue, EnabledInv, enabled, TypeOK, Controllers, Groups
<1>6. ASSUME NEW r \in Repos, FluxGuard(r)
      PROVE  EnabledInv'
  <2>1. argo'.pc = argo.pc
    BY <1>6, OutdatedType DEF FluxGuard, TypeOK
  <2> QED
    BY <1>6, <2>1
       DEF FluxGuard, Dequeue, EnabledInv, enabled, mirrors, TypeOK, Controllers, Groups
<1>7. ASSUME NEW r \in Repos, FluxDrop(r)
      PROVE  EnabledInv'
  BY <1>7 DEF FluxDrop, Dequeue, EnabledInv, enabled, TypeOK, Controllers, Groups
<1>8. CASE ArgoApply
  BY <1>8, ValueTypes DEF ArgoApply, EnabledInv, enabled
<1>9. CASE FluxApply
  BY <1>9, ValueTypes DEF FluxApply, EnabledInv, enabled, TypeOK
<1>10. CASE ArgoRelease
  <2>1. flux'.pc = flux.pc
    BY <1>10, OutdatedType DEF ArgoRelease, Release, TypeOK
  <2> QED
    BY <1>10, <2>1, ValueTypes DEF ArgoRelease, EnabledInv, enabled, mirrors
<1>11. CASE FluxRelease
  <2>1. argo'.pc = argo.pc
    BY <1>11, OutdatedType DEF FluxRelease, Release, TypeOK
  <2> QED
    BY <1>11, <2>1, ValueTypes DEF FluxRelease, EnabledInv, enabled, mirrors
<1>12. CASE ArgoFails
  BY <1>12, ValueTypes
     DEF ArgoFails, Requeue, EnabledInv, enabled, mirrors, TypeOK, Controllers, Groups
<1>13. CASE FluxFails
  BY <1>13, ValueTypes
     DEF FluxFails, Requeue, EnabledInv, enabled, mirrors, TypeOK, Controllers, Groups
<1>14. CASE Deliver
  BY <1>14 DEF Deliver, EnabledInv, enabled, mirrors, TypeOK, Controllers, Groups
<1>15. CASE DeliverSecret
  BY <1>15 DEF DeliverSecret, EnabledInv, enabled
<1>16. CASE Restart
  BY <1>16, ValueTypes DEF Restart, EnabledInv, enabled, Controllers, Groups
<1> QED
  BY <1>1, <1>2, <1>3, <1>4, <1>5, <1>6, <1>7, <1>8, <1>9, <1>10, <1>11, <1>12, <1>13,
     <1>14, <1>15, <1>16
     DEF Next, Amends, ArgoTakes, FluxTakes, Informers, Argo, Flux, Controllers, Groups

\* What CopyInv says of one worker.
Current(w) == w.current => w.repo \in Repos /\ repo[w.repo] = w.copy /\ cache[w.repo] = w.copy

\* A write outdates the copies of its repository and leaves the others.
LEMMA PutOutdates ==
    ASSUME TypeOK, NEW w \in Worker, Current(w), NEW r \in Repos, NEW o \in GitRepo, Put(r, o),
           NEW x \in Worker, x = Outdated(w, r)
    PROVE  /\ x.current => x.repo \in Repos /\ repo'[x.repo] = x.copy /\ cache'[x.repo] = x.copy
           /\ x.pc = w.pc /\ x.copy = w.copy
BY OutdatedType DEF TypeOK, Current, Put

LEMMA CopyStep ==
    ASSUME TypeOK, TypeOK', PresenceInv, CopyInv, Next
    PROVE  CopyInv'
<1> Current(argo) /\ Current(flux) /\ argo \in Worker /\ flux \in Worker
  BY DEF CopyInv, Current, TypeOK
<1> argo' \in Worker /\ flux' \in Worker
  BY DEF TypeOK
<1>1. ASSUME NEW r \in Repos, NEW o \in GitRepo, Put(r, o),
             argo' = Outdated(argo, r), flux' = Outdated(flux, r)
      PROVE  CopyInv'
  BY <1>1, PutOutdates DEF CopyInv, Wanted
<1>2. ASSUME NEW r \in Repos, Users(r)
      PROVE  CopyInv'
  BY <1>1, <1>2, UserWrites DEF ByUser
<1>3. ASSUME NEW r \in Repos, Amend(r)
      PROVE  CopyInv'
  BY <1>1, <1>3, AmendWrites DEF CopyInv, Wanted, repoVars
<1>4. ASSUME NEW r \in Repos, ArgoGuard(r)
      PROVE  CopyInv'
  <2>1. argo'.current = FALSE /\ argo'.pc = "apply"
    BY <1>4 DEF ArgoGuard, Guarded
  <2>2. CASE cache[r].fin /\ UNCHANGED repoVars
    BY <1>4, <2>1, <2>2 DEF ArgoGuard, CopyInv, Wanted, repoVars
  <2>3. ASSUME ~cache[r].fin, NEW o \in GitRepo, Put(r, o)
        PROVE  CopyInv'
    BY <1>4, <2>1, <2>3, PutOutdates DEF ArgoGuard, CopyInv, Wanted
  <2> QED
    BY <1>4, <2>2, <2>3, GuardWrites DEF ArgoGuard
<1>5. ASSUME NEW r \in Repos, FluxGuard(r)
      PROVE  CopyInv'
  <2>1. flux'.current = FALSE /\ flux'.pc = "apply"
    BY <1>5 DEF FluxGuard, Guarded
  <2>2. CASE cache[r].fin /\ UNCHANGED repoVars
    BY <1>5, <2>1, <2>2 DEF FluxGuard, CopyInv, Wanted, repoVars
  <2>3. ASSUME ~cache[r].fin, NEW o \in GitRepo, Put(r, o)
        PROVE  CopyInv'
    BY <1>5, <2>1, <2>3, PutOutdates DEF FluxGuard, CopyInv, Wanted
  <2> QED
    BY <1>5, <2>2, <2>3, GuardWrites DEF FluxGuard, Wanted
<1>6. ASSUME NEW r \in Repos, ArgoDrop(r)
      PROVE  CopyInv'
  BY <1>6 DEF ArgoDrop, Released, PresenceInv, CopyInv, Wanted, repoVars
<1>7. ASSUME NEW r \in Repos, FluxDrop(r)
      PROVE  CopyInv'
  BY <1>7 DEF FluxDrop, Released, PresenceInv, CopyInv, Wanted, repoVars
<1>8. CASE ArgoRelease
  <2> argo.repo \in Repos /\ repo[argo.repo] = argo.copy
    BY <1>8 DEF ArgoRelease, Release, CopyInv
  <2>1. flux' = Outdated(flux, argo.repo) /\ argo' = Idle
    BY <1>8 DEF ArgoRelease
  <2>2. CASE UNCHANGED repoVars
    BY <2>1, <2>2, OutdatedType, ValueTypes DEF CopyInv, Wanted, repoVars
  <2>3. ASSUME NEW o \in GitRepo, Put(argo.repo, o)
        PROVE  CopyInv'
    BY <2>1, <2>3, PutOutdates, ValueTypes DEF CopyInv, Wanted
  <2> QED
    BY <1>8, <2>2, <2>3, ReleaseWrites DEF ArgoRelease
<1>9. CASE FluxRelease
  <2> flux.repo \in Repos /\ repo[flux.repo] = flux.copy
    BY <1>9 DEF FluxRelease, Release, CopyInv
  <2>1. flux' = Idle
    BY <1>9 DEF FluxRelease
  <2>2. CASE UNCHANGED repoVars
    BY <1>9, <2>1, <2>2, OutdatedType, ValueTypes DEF FluxRelease, CopyInv, Wanted, repoVars
  <2>3. ASSUME NEW o \in GitRepo, Put(flux.repo, o), flux.copy.fin
        PROVE  CopyInv'
    BY <1>9, <2>1, <2>3, PutOutdates, ValueTypes DEF FluxRelease, CopyInv, Wanted
  <2> QED
    BY <1>9, <2>2, <2>3, ReleaseWrites DEF FluxRelease, Release
<1>10. CASE Deliver \/ Restart
  BY <1>10, ValueTypes DEF Deliver, Restart, CopyInv, Wanted
<1>11. ASSUME NEW r \in Repos, NEW c \in Controllers, Ignore(c, r)
       PROVE  CopyInv'
  BY <1>11 DEF Ignore, CopyInv, Wanted, repoVars
<1>12. CASE DeliverSecret \/ ArgoApply \/ ArgoFails \/ FluxApply \/ FluxFails
  BY <1>12, ValueTypes
     DEF DeliverSecret, ArgoApply, ArgoFails, FluxApply, FluxFails, CopyInv, Wanted, repoVars
<1> QED
  BY <1>2, <1>3, <1>4, <1>5, <1>6, <1>7, <1>8, <1>9, <1>10, <1>11, <1>12
     DEF Next, Amends, ArgoTakes, FluxTakes, Informers, Argo, Flux, Controllers, Groups

----------------------------------------------------------------------------
(* The guards *)

\* Nothing is forgotten: an excuse stays one.
LEMMA ExcusesStay ==
    ASSUME Next, excuses' = {}
    PROVE  excuses = {}
BY DEF Next, Users, createGitRepositories, updateGitRepositories, updateWithOldCopy,
       deleteGitRepositories, Amends, ArgoTakes, FluxTakes, Informers, Argo, Flux, Ignore,
       Amend, ArgoGuard, ArgoDrop, ArgoApply, ArgoRelease, ArgoFails, FluxGuard, FluxDrop,
       FluxApply, FluxRelease, FluxFails, Deliver, DeliverSecret, Restart, Excused

Guards == ArgoInv /\ FluxInv /\ SecretIsGuarded /\ CounterpartIsGuarded

\* A write that keeps the finalizer disturbs none of it.
LEMMA PutGuards ==
    ASSUME TypeOK, Guards, NEW r \in Repos, NEW o \in GitRepo, Put(r, o), repo[r].fin => o.fin,
           argo'.pc = argo.pc, argo'.repo = argo.repo,
           flux'.pc = flux.pc, flux'.repo = flux.repo,
           UNCHANGED <<scenario, mirrors>>, excuses = {}
    PROVE  Guards'
<1>1. \A q \in Repos : repo[q].fin => repo'[q].fin
  BY DEF TypeOK, Put
<1>2. cache' = cache
  BY DEF Put
<1>3. argo.pc # "idle" => argo.repo \in Repos
  BY DEF TypeOK
<1>4. flux.pc # "idle" => flux.repo \in Repos
  BY DEF TypeOK
<1>5. ArgoInv'
  BY <1>1, <1>2, <1>3 DEF Guards, ArgoInv, enabled, mirrors
<1>6. FluxInv'
  BY <1>1, <1>2, <1>4 DEF Guards, FluxInv, Wanted, enabled, mirrors
<1>7. SecretIsGuarded' /\ CounterpartIsGuarded'
  BY <1>1 DEF Guards, SecretIsGuarded, CounterpartIsGuarded, mirrors
<1> QED
  BY <1>5, <1>6, <1>7 DEF Guards

LEMMA GuardsStep ==
    ASSUME GitRepositoryInv, Next, excuses' = {}
    PROVE  Guards'
<1> TypeOK /\ PresenceInv /\ EnabledInv /\ CopyInv
  BY DEF GitRepositoryInv
<1>0. excuses = {} /\ Guards
  BY ExcusesStay DEF GitRepositoryInv, GuardInv, Guards
<1> argo \in Worker /\ flux \in Worker
  BY DEF TypeOK
<1>1. ASSUME NEW r \in Repos, Users(r)
      PROVE  Guards'
  <2>1. PICK o \in GitRepo : /\ Put(r, o) /\ ByUser(r)
                             /\ excuses' = {} => excuses = {} /\ (repo[r].fin => o.fin)
    BY <1>1, UserWrites
  <2>2. /\ argo'.pc = argo.pc /\ argo'.repo = argo.repo
        /\ flux'.pc = flux.pc /\ flux'.repo = flux.repo
        /\ UNCHANGED <<scenario, mirrors>>
    BY <2>1, OutdatedType DEF ByUser
  <2> QED
    BY <1>0, <2>1, <2>2, PutGuards
<1>2. ASSUME NEW r \in Repos, Amend(r)
      PROVE  Guards'
  <2>1. CASE UNCHANGED <<repoVars, argo, flux>>
    BY <1>0, <1>2, <2>1
       DEF Amend, Guards, ArgoInv, FluxInv, SecretIsGuarded, CounterpartIsGuarded, Wanted,
           enabled, repoVars, mirrors
  <2>2. ASSUME NEW o \in GitRepo, Put(r, o), o.fin = repo[r].fin,
               argo' = Outdated(argo, r), flux' = Outdated(flux, r)
        PROVE  Guards'
    <3>1. /\ argo'.pc = argo.pc /\ argo'.repo = argo.repo
          /\ flux'.pc = flux.pc /\ flux'.repo = flux.repo
      BY <2>2, OutdatedType
    <3> QED
      BY <1>0, <1>2, <2>2, <3>1, PutGuards DEF Amend
  <2> QED
    BY <1>2, <2>1, <2>2, AmendWrites
<1>3. ASSUME NEW r \in Repos, ArgoGuard(r)
      PROVE  Guards'
  <2>1. /\ flux'.pc = flux.pc /\ flux'.repo = flux.repo
        /\ argo'.pc = "apply" /\ argo'.repo = r
        /\ cache[r].st = "live" /\ UNCHANGED <<scenario, mirrors>>
    BY <1>3, OutdatedType DEF ArgoGuard, Guarded
  <2>2. /\ cache' = cache /\ repo'[r].fin
        /\ \A q \in Repos : repo[q].fin => repo'[q].fin
    <3>1. CASE cache[r].fin /\ UNCHANGED repoVars
      <4>1. "argocd" \in enabled
        BY <1>3 DEF ArgoGuard, Dequeue, EnabledInv, Groups
      <4> QED
        BY <1>0, <2>1, <3>1, <4>1 DEF Guards, ArgoInv, repoVars
    <3>2. ASSUME NEW o \in GitRepo, Put(r, o), o.fin
          PROVE  /\ cache' = cache /\ repo'[r].fin
                 /\ \A q \in Repos : repo[q].fin => repo'[q].fin
      BY <3>2 DEF Put, TypeOK
    <3> QED
      BY <1>3, <2>1, <3>1, <3>2, GuardWrites DEF ArgoGuard
  <2>3. flux.pc # "idle" => flux.repo \in Repos
    BY DEF TypeOK
  <2> QED
    BY <1>0, <2>1, <2>2, <2>3
       DEF Guards, ArgoInv, FluxInv, SecretIsGuarded, CounterpartIsGuarded, Wanted, enabled, mirrors
<1>4. ASSUME NEW r \in Repos, FluxGuard(r)
      PROVE  Guards'
  <2>1. /\ argo'.pc = argo.pc /\ argo'.repo = argo.repo
        /\ flux'.pc = "apply" /\ flux'.repo = r
        /\ Wanted(cache[r]) /\ UNCHANGED <<scenario, mirrors>>
    BY <1>4, OutdatedType DEF FluxGuard, Guarded
  <2>2. /\ cache' = cache /\ repo'[r].fin
        /\ \A q \in Repos : repo[q].fin => repo'[q].fin
    <3>1. CASE cache[r].fin /\ UNCHANGED repoVars
      <4>1. "fluxcd" \in enabled
        BY <1>4 DEF FluxGuard, Dequeue, EnabledInv, Groups
      <4> QED
        BY <1>0, <2>1, <3>1, <4>1 DEF Guards, FluxInv, repoVars
    <3>2. ASSUME NEW o \in GitRepo, Put(r, o), o.fin
          PROVE  /\ cache' = cache /\ repo'[r].fin
                 /\ \A q \in Repos : repo[q].fin => repo'[q].fin
      BY <3>2 DEF Put, TypeOK
    <3> QED
      BY <1>4, <2>1, <3>1, <3>2, GuardWrites DEF FluxGuard, Wanted
  <2>3. argo.pc # "idle" => argo.repo \in Repos
    BY DEF TypeOK
  <2> QED
    BY <1>0, <2>1, <2>2, <2>3
       DEF Guards, ArgoInv, FluxInv, SecretIsGuarded, CounterpartIsGuarded, Wanted, enabled, mirrors
<1>5. ASSUME NEW r \in Repos, ArgoDrop(r)
      PROVE  Guards'
  <2>1. secret' = Nothing
    BY <1>5 DEF ArgoDrop
  <2> QED
    BY <1>0, <1>5, <2>1
       DEF ArgoDrop, Released, Guards, ArgoInv, FluxInv, SecretIsGuarded, CounterpartIsGuarded,
           Wanted, enabled, repoVars
<1>6. ASSUME NEW r \in Repos, FluxDrop(r)
      PROVE  Guards'
  <2>1. /\ counterpart'[r] = Nothing
        /\ \A q \in Repos : counterpart'[q] # Nothing => counterpart[q] # Nothing
    BY <1>6 DEF FluxDrop, TypeOK
  <2> QED
    BY <1>0, <1>6, <2>1
       DEF FluxDrop, Released, Guards, ArgoInv, FluxInv, SecretIsGuarded, CounterpartIsGuarded,
           Wanted, enabled, repoVars
<1>7. CASE ArgoApply
  <2>1. argo.repo \in Repos /\ repo[argo.repo].fin
    BY <1>0, <1>7 DEF ArgoApply, Guards, ArgoInv, EnabledInv, TypeOK
  <2> QED
    BY <1>0, <1>7, <2>1, ValueTypes
       DEF ArgoApply, Guards, ArgoInv, FluxInv, SecretIsGuarded, CounterpartIsGuarded, Wanted,
           enabled, repoVars
<1>8. CASE FluxApply
  <2>1. flux.repo \in Repos /\ repo[flux.repo].fin
    BY <1>0, <1>8 DEF FluxApply, Guards, FluxInv, EnabledInv, TypeOK
  <2> QED
    BY <1>0, <1>8, <2>1, ValueTypes
       DEF FluxApply, Guards, ArgoInv, FluxInv, SecretIsGuarded, CounterpartIsGuarded, Wanted,
           enabled, repoVars, TypeOK
\* Argo CD's controller is the only one: there is no secret, and nothing of Flux CD's.
<1>9. CASE ArgoRelease
  <2>1. /\ enabled = {"argocd"} /\ scenario' = scenario
        /\ secret = Nothing /\ UNCHANGED mirrors
        /\ argo' = Idle
    BY <1>0, <1>9 DEF ArgoRelease, Release, Excused, Guards, ArgoInv
  <2>2. \A q \in Repos : counterpart[q] = Nothing
    BY <2>1 DEF EnabledInv
  <2>3. /\ argo.repo \in Repos /\ cache[argo.repo].st = "deleting" /\ cache' = cache
        /\ repo[argo.repo] = argo.copy
    BY <1>9 DEF ArgoRelease, Release, CopyInv, Put, repoVars
  <2>4. \A q \in Repos \ {argo.repo} : repo'[q] = repo[q]
    BY <1>9 DEF ArgoRelease, Release, Put, repoVars, TypeOK
  <2>5. ArgoInv'
    BY <1>0, <2>1, <2>3, <2>4, ValueTypes DEF Guards, ArgoInv, enabled, mirrors
  <2> QED
    BY <2>1, <2>2, <2>5
       DEF Guards, FluxInv, SecretIsGuarded, CounterpartIsGuarded, enabled, mirrors
<1>10. CASE FluxRelease
  <2>1. /\ enabled = {"fluxcd"} /\ scenario' = scenario
        /\ counterpart[flux.repo] = Nothing /\ UNCHANGED mirrors
        /\ flux' = Idle
    BY <1>0, <1>10 DEF FluxRelease, Release, Excused, Guards, FluxInv
  <2>2. secret = Nothing
    BY <2>1 DEF EnabledInv
  <2>3. /\ flux.repo \in Repos /\ ~Wanted(cache[flux.repo]) /\ cache' = cache
    BY <1>10 DEF FluxRelease, Release, CopyInv, Put, repoVars
  <2>4. \A q \in Repos \ {flux.repo} : repo'[q] = repo[q]
    BY <1>10 DEF FluxRelease, Release, Put, repoVars, TypeOK
  <2>5. FluxInv'
    BY <1>0, <2>1, <2>3, <2>4, ValueTypes DEF Guards, FluxInv, Wanted, enabled, mirrors
  <2>6. CounterpartIsGuarded'
    BY <1>0, <2>1, <2>4 DEF Guards, CounterpartIsGuarded, mirrors
  <2> QED
    BY <2>1, <2>2, <2>5, <2>6
       DEF Guards, ArgoInv, SecretIsGuarded, enabled, mirrors
<1>11. CASE Deliver \/ Restart
  BY <1>0, <1>11, ValueTypes
     DEF Deliver, Restart, Guards, ArgoInv, FluxInv, SecretIsGuarded, CounterpartIsGuarded,
         Wanted, enabled, mirrors
<1>12. ASSUME NEW r \in Repos, NEW c \in Controllers, Ignore(c, r)
       PROVE  Guards'
  BY <1>0, <1>12
     DEF Ignore, Guards, ArgoInv, FluxInv, SecretIsGuarded, CounterpartIsGuarded, Wanted,
         enabled, repoVars, mirrors
<1>13. CASE DeliverSecret \/ ArgoFails \/ FluxFails
  BY <1>0, <1>13, ValueTypes
     DEF DeliverSecret, ArgoFails, FluxFails, Guards, ArgoInv, FluxInv, SecretIsGuarded,
         CounterpartIsGuarded, Wanted, enabled, repoVars, mirrors
<1> QED
  BY <1>1, <1>2, <1>3, <1>4, <1>5, <1>6, <1>7, <1>8, <1>9, <1>10, <1>11, <1>12, <1>13
     DEF Next, Amends, ArgoTakes, FluxTakes, Informers, Argo, Flux, Controllers, Groups

----------------------------------------------------------------------------
(* Theorems *)

LEMMA GitRepositoryInvariance == Spec => []GitRepositoryInv
<1>1. Init => GitRepositoryInv
  <2> SUFFICES ASSUME Init
               PROVE  GitRepositoryInv
    OBVIOUS
  <2>1. TypeOK
    BY ValueTypes, GitRepositoryAssumption DEF Init, TypeOK
  <2>2. PresenceInv /\ EnabledInv /\ CopyInv
    BY ValueTypes
       DEF Init, PresenceInv, EnabledInv, CopyInv, Absent, Controllers, Groups
  <2>3. GuardInv
    BY ValueTypes
       DEF Init, GuardInv, ArgoInv, FluxInv, SecretIsGuarded, CounterpartIsGuarded, Wanted, Absent
  <2> QED
    BY <2>1, <2>2, <2>3 DEF GitRepositoryInv
<1>2. GitRepositoryInv /\ [Next]_vars => GitRepositoryInv'
  <2> SUFFICES ASSUME GitRepositoryInv, [Next]_vars
               PROVE  GitRepositoryInv'
    OBVIOUS
  <2>1. CASE Next
    <3>1. TypeOK' /\ PresenceInv' /\ EnabledInv'
      BY <2>1, TypeStep, PresenceStep, EnabledStep DEF GitRepositoryInv
    <3>2. CopyInv'
      BY <2>1, <3>1, CopyStep DEF GitRepositoryInv
    <3>3. GuardInv'
      BY <2>1, GuardsStep DEF GuardInv, Guards
    <3> QED
      BY <3>1, <3>2, <3>3 DEF GitRepositoryInv
  <2>2. CASE UNCHANGED vars
    BY <2>2
       DEF vars, repoVars, mirrors, GitRepositoryInv, TypeOK, PresenceInv, EnabledInv, CopyInv,
           GuardInv, ArgoInv, FluxInv, SecretIsGuarded, CounterpartIsGuarded, Wanted, enabled
  <2> QED
    BY <2>1, <2>2
<1> QED
  BY <1>1, <1>2, PTL DEF Spec

\* Every variable keeps to its type.
THEOREM RepositoryTypeCorrect == Spec => []TypeOK
BY GitRepositoryInvariance, PTL DEF GitRepositoryInv

\* As long as nobody has taken the finalizer away, and the informer of secrets has kept
\* up with a deletion, Argo CD's secret is guarded by a repository of its name.
THEOREM SecretsAreGuarded == Spec => []SecretIsGuarded
<1>1. GitRepositoryInv => SecretIsGuarded
  BY DEF GitRepositoryInv, GuardInv, SecretIsGuarded
<1> QED
  BY <1>1, GitRepositoryInvariance, PTL

\* Likewise each of Flux CD's repositories by the one it is made from.
THEOREM CounterpartsAreGuarded == Spec => []CounterpartIsGuarded
<1>1. GitRepositoryInv => CounterpartIsGuarded
  BY DEF GitRepositoryInv, GuardInv, CounterpartIsGuarded
<1> QED
  BY <1>1, GitRepositoryInvariance, PTL

----------------------------------------------------------------------------
(* At rest *)

\* What the informer has not delivered is marked as such.
NewsInv ==
    /\ moved \cap fresh = {}
    /\ \A r \in Repos \ moved : cache[r].st = repo[r].st /\ cache[r].of = repo[r].of

\* Until a URL is amended there is an event or a key for it.
AmendInv ==
    \A r \in Repos : repo[r].st = "live" =>
        repo[r].of.amended \/ r \in moved \/ r \in queue["amend"]

\* The only GitRepository of its name: the secret has its URL, or will be given it by
\* the Reconcile under way, or there is an event or a key for it.
Sole(r) == \A q \in Repos : q = r

ArgoFollows ==
    \A r \in Repos : Sole(r) /\ repo[r].st = "live" /\ "argocd" \in enabled =>
        \/ r \in moved \/ r \in queue["argocd"]
        \/ IF argo.pc = "apply" THEN argo.copy.of = repo[r].of ELSE secret = repo[r].of

\* Likewise for Flux CD, where every GitRepository has a counterpart of its own.
Wants(r) == IF repo[r].artifact THEN repo[r].of ELSE Nothing

FluxFollows ==
    \A r \in Repos : repo[r].st = "live" /\ "fluxcd" \in enabled =>
        \/ r \notin fresh \/ r \in queue["fluxcd"]
        \/ IF flux.pc = "apply" /\ flux.repo = r
           THEN repo[r].artifact /\ flux.copy.of = repo[r].of
           ELSE counterpart[r] = Wants(r)

RestInv == NewsInv /\ AmendInv /\ ArgoFollows /\ FluxFollows

\* A step that is no delivery: what it changes is no longer fresh, and marked.
Marked ==
    /\ cache' = cache /\ moved \subseteq moved' /\ fresh' \subseteq fresh
    /\ moved' \cap fresh' \subseteq moved \cap fresh
    /\ \A q \in Repos \ moved' : repo'[q].st = repo[q].st /\ repo'[q].of = repo[q].of
    /\ \A q \in fresh' : repo'[q] = repo[q]

LEMMA PutMarks ==
    ASSUME TypeOK, NEW r \in Repos, NEW o \in GitRepo, Put(r, o)
    PROVE  Marked
<1>1. /\ cache' = cache /\ fresh' = fresh \ {r} /\ moved' \in {moved, moved \cup {r}}
      /\ \A q \in Repos \ {r} : repo'[q] = repo[q]
      /\ repo'[r] = o
  BY DEF TypeOK, Put
<1>2. r \notin moved' => o.st = repo[r].st /\ o.of = repo[r].of
  BY DEF Put
<1> QED
  BY <1>1, <1>2 DEF Marked, TypeOK

LEMMA NothingMarks ==
    ASSUME UNCHANGED repoVars
    PROVE  Marked
BY DEF Marked, repoVars

LEMMA StepsMark ==
    ASSUME GitRepositoryInv, Next
    PROVE  scenario' = scenario /\ (Marked \/ Deliver \/ Restart)
<1> TypeOK /\ PresenceInv /\ CopyInv /\ argo \in Worker /\ flux \in Worker
  BY DEF GitRepositoryInv, TypeOK
<1>1. scenario' = scenario
  BY DEF Next, Users, createGitRepositories, updateGitRepositories, updateWithOldCopy,
         deleteGitRepositories, ByUser, Amends, ArgoTakes, FluxTakes, Informers, Argo, Flux,
         Ignore, Amend, ArgoGuard, ArgoDrop, ArgoApply, ArgoRelease, ArgoFails, FluxGuard,
         FluxDrop, FluxApply, FluxRelease, FluxFails, Deliver, DeliverSecret, Restart
<1>2. ASSUME NEW r \in Repos, Users(r)
      PROVE  Marked
  BY <1>2, UserWrites, PutMarks
<1>3. ASSUME NEW r \in Repos, Amend(r)
      PROVE  Marked
  BY <1>3, AmendWrites, PutMarks, NothingMarks
<1>4. ASSUME NEW r \in Repos, Guard(r), cache[r].st = "live"
      PROVE  Marked
  BY <1>4, GuardWrites, PutMarks, NothingMarks
<1>5. CASE ArgoRelease \/ FluxRelease
  <2>1. PICK w \in {argo, flux} : Release(w)
    BY <1>5 DEF ArgoRelease, FluxRelease
  <2>2. w \in Worker /\ w.repo \in Repos /\ repo[w.repo] = w.copy
    BY <2>1 DEF Release, CopyInv
  <2> QED
    BY <1>1, <2>1, <2>2, ReleaseWrites, PutMarks, NothingMarks
<1>6. CASE UNCHANGED repoVars
  BY <1>1, <1>6, NothingMarks
<1> QED
  BY <1>1, <1>2, <1>3, <1>4, <1>5, <1>6
     DEF Next, Amends, ArgoTakes, FluxTakes, Informers, Argo, Flux, Ignore, ArgoGuard, ArgoDrop,
         ArgoApply, ArgoFails, FluxGuard, FluxDrop, FluxApply, FluxFails, DeliverSecret, Wanted

LEMMA NewsStep ==
    ASSUME TypeOK, NewsInv, Marked \/ Deliver \/ Restart
    PROVE  NewsInv'
<1>1. CASE Marked
  BY <1>1 DEF Marked, NewsInv
<1>2. CASE Deliver \/ Restart
  BY <1>2 DEF Deliver, Restart, NewsInv
<1> QED
  BY <1>1, <1>2

\* Amend takes the key of a GitRepository only when the cached URL is amended, as the
\* current one then is, or with a write that amends it.
LEMMA AmendStep ==
    ASSUME GitRepositoryInv, NewsInv, AmendInv, Next
    PROVE  AmendInv'
<1> TypeOK /\ PresenceInv
  BY DEF GitRepositoryInv
<1>1. CASE Deliver \/ Restart
  <2>1. "amend" \in Controllers /\ "amend" # "fluxcd"
    BY DEF Controllers
  <2>2. CASE Deliver
    <3>1. queue'["amend"] = queue["amend"] \cup moved
      BY <2>1, <2>2 DEF Deliver
    <3> QED
      BY <2>2, <3>1 DEF Deliver, AmendInv
  <2>3. CASE Restart
    <3>1. queue'["amend"] = {r \in Repos : Exists(repo[r])}
      BY <2>1, <2>3 DEF Restart
    <3> QED
      BY <2>3, <3>1 DEF Restart, Exists, AmendInv
  <2> QED
    BY <1>1, <2>2, <2>3
<1>2. ASSUME NEW r \in Repos, Amends(r), Marked
      PROVE  AmendInv'
  <2>1. \A q \in Repos \ {r} : q \in queue["amend"] => q \in queue'["amend"]
    BY <1>2 DEF Amends, Ignore, Amend, Dequeue, TypeOK, Controllers
  <2>2. repo'[r].st = "live" => repo'[r].of.amended \/ r \in moved'
    <3>1. CASE Ignore("amend", r)
      BY <3>1 DEF Ignore, Exists, NewsInv, repoVars
    <3>2. CASE Amend(r) /\ cache[r].of.amended
      BY <3>2 DEF Amend, NewsInv, repoVars
    <3>3. CASE Amend(r) /\ ~cache[r].of.amended
      <4>1. Put(r, [repo[r] EXCEPT !.of.amended = TRUE])
        BY <3>3 DEF Amend
      <4>2. repo[r] \in GitRepo /\ repo[r].of \in Url
        BY DEF TypeOK, GitRepo
      <4> QED
        BY <4>1, <4>2 DEF Put, TypeOK, GitRepo, Url
    <3> QED
      BY <1>2, <3>1, <3>2, <3>3 DEF Amends
  <2> QED
    BY <1>2, <2>1, <2>2 DEF Marked, AmendInv
<1>3. CASE Marked /\ queue'["amend"] = queue["amend"]
  BY <1>3 DEF Marked, AmendInv
<1>4. \/ Deliver \/ Restart \/ (\E r \in Repos : Amends(r))
      \/ queue'["amend"] = queue["amend"]
  BY DEF Next, Users, createGitRepositories, updateGitRepositories, updateWithOldCopy,
         deleteGitRepositories, ByUser, ArgoTakes, FluxTakes, Informers, Argo, Flux,
         Ignore, ArgoGuard, ArgoDrop, ArgoApply, ArgoRelease, ArgoFails, FluxGuard,
         FluxDrop, FluxApply, FluxRelease, FluxFails, DeliverSecret, Dequeue, Requeue,
         TypeOK, Controllers, Groups
<1> QED
  BY <1>1, <1>2, <1>3, <1>4, StepsMark

\* A GitRepository has a URL or is not there, so what is empty is not what it wants.
LEMMA ArgoFollowsStep ==
    ASSUME GitRepositoryInv, NewsInv, ArgoFollows, Next
    PROVE  ArgoFollows'
<1> TypeOK /\ PresenceInv /\ CopyInv /\ argo \in Worker
  BY DEF GitRepositoryInv, TypeOK
<1> "argocd" \in Controllers /\ "argocd" # "fluxcd" /\ Idle.pc = "idle"
  BY DEF Controllers, Groups, Idle
<1>1. scenario' = scenario
  BY StepsMark
<1>2. CASE Deliver
  <2>1. "argocd" \in enabled => queue'["argocd"] = queue["argocd"] \cup moved
    BY <1>2 DEF Deliver
  <2> QED
    BY <1>1, <1>2, <2>1 DEF Deliver, ArgoFollows, Sole, enabled, mirrors
<1>3. CASE Restart
  <2>1. "argocd" \in enabled => queue'["argocd"] = {r \in Repos : Exists(repo[r])}
    BY <1>3 DEF Restart
  <2> QED
    BY <1>1, <1>3, <2>1 DEF Restart, Exists, ArgoFollows, enabled
<1>4. ASSUME Marked, queue["argocd"] \subseteq queue'["argocd"],
             argo'.pc = argo.pc, argo'.copy = argo.copy, secret' = secret
      PROVE  ArgoFollows'
  BY <1>1, <1>4 DEF Marked, ArgoFollows, Sole, enabled
<1>5. ASSUME NEW r \in Repos, Marked, Ignore("argocd", r) \/ ArgoDrop(r)
      PROVE  ArgoFollows'
  <2>1. cache[r].st # "live"
    BY <1>5 DEF Ignore, ArgoDrop, Exists
  <2>2. r \notin moved' => repo'[r].st # "live"
    BY <1>5, <2>1 DEF Marked, NewsInv
  <2> QED
    BY <1>1, <2>2 DEF ArgoFollows, Sole, enabled
<1>6. ASSUME NEW r \in Repos, Marked, ArgoGuard(r)
      PROVE  ArgoFollows'
  <2>1. argo'.pc = "apply" /\ argo'.copy.of = cache[r].of
    BY <1>6 DEF ArgoGuard, Guarded, TypeOK, GitRepo
  <2>2. r \notin moved' => repo'[r].of = cache[r].of
    BY <1>6 DEF Marked, NewsInv
  <2> QED
    BY <1>1, <2>1, <2>2 DEF ArgoFollows, Sole, enabled
<1>7. CASE ArgoApply
  BY <1>1, <1>7 DEF ArgoApply, ArgoFollows, Sole, enabled, repoVars
<1>8. CASE ArgoRelease /\ Marked
  <2>1. /\ argo.pc = "release" /\ argo'.pc = "idle" /\ secret' = secret
        /\ queue' = queue
    BY <1>8 DEF ArgoRelease, Release, mirrors
  <2> QED
    BY <1>1, <1>8, <2>1 DEF Marked, ArgoFollows, Sole, enabled
<1>9. CASE ArgoFails
  <2>1. argo.pc # "idle" /\ argo.repo \in Repos /\ UNCHANGED <<repo, moved>>
    BY <1>9 DEF ArgoFails, TypeOK, repoVars
  <2>2. argo.repo \in queue'["argocd"]
    BY <1>9 DEF ArgoFails, Requeue, TypeOK
  <2> QED
    BY <1>1, <2>1, <2>2 DEF ArgoFollows, Sole, enabled
<1>10. ASSUME NEW r \in Repos, Users(r) \/ Amends(r) \/ FluxTakes(r)
       PROVE  /\ queue["argocd"] \subseteq queue'["argocd"]
              /\ argo'.pc = argo.pc /\ argo'.copy = argo.copy /\ secret' = secret
  <2>1. argo' \in {argo, Outdated(argo, r)} /\ secret' = secret
    BY <1>10
       DEF Users, createGitRepositories, updateGitRepositories, updateWithOldCopy,
           deleteGitRepositories, ByUser, Amends, FluxTakes, Ignore, Amend, FluxGuard, FluxDrop,
           mirrors
  <2>2. queue["argocd"] \subseteq queue'["argocd"]
    BY <1>10
       DEF Users, createGitRepositories, updateGitRepositories, updateWithOldCopy,
           deleteGitRepositories, ByUser, Amends, FluxTakes, Ignore, Amend, FluxGuard, FluxDrop,
           Dequeue, TypeOK
  <2> QED
    BY <2>1, <2>2, OutdatedType
<1>11. CASE DeliverSecret \/ Flux
  <2>1. argo' \in {argo, Outdated(argo, flux.repo)} /\ secret' = secret
    BY <1>11 DEF DeliverSecret, Flux, FluxApply, FluxRelease, FluxFails, mirrors
  <2>2. argo'.pc = argo.pc /\ argo'.copy = argo.copy
    BY <2>1 DEF Outdated, Worker
  <2>3. queue["argocd"] \subseteq queue'["argocd"]
    BY <1>11 DEF DeliverSecret, Flux, FluxApply, FluxRelease, FluxFails, Requeue, TypeOK
  <2>4. ~Deliver /\ ~Restart => Marked
    BY StepsMark
  <2> QED
    BY <1>2, <1>3, <1>4, <2>1, <2>2, <2>3, <2>4
<1> QED
  BY <1>2, <1>3, <1>4, <1>5, <1>6, <1>7, <1>8, <1>9, <1>10, <1>11, StepsMark
     DEF Next, ArgoTakes, Informers, Argo

\* A change of the label is an event for Flux CD's controller, too: it is the only one to
\* hear of new versions of the same generation.
LEMMA FluxFollowsStep ==
    ASSUME GitRepositoryInv, NewsInv, FluxFollows, Next
    PROVE  FluxFollows'
<1> TypeOK /\ PresenceInv /\ CopyInv /\ flux \in Worker
  BY DEF GitRepositoryInv, TypeOK
<1> "fluxcd" \in Controllers /\ Idle.pc = "idle"
  BY DEF Controllers, Groups, Idle
<1>1. scenario' = scenario
  BY StepsMark
<1>2. CASE Deliver
  <2>1. "fluxcd" \in enabled => queue'["fluxcd"] = queue["fluxcd"] \cup (Repos \ fresh)
    BY <1>2 DEF Deliver
  <2> QED
    BY <1>1, <1>2, <2>1 DEF Deliver, FluxFollows, Wants, enabled, mirrors
<1>3. CASE Restart
  <2>1. "fluxcd" \in enabled => queue'["fluxcd"] = {r \in Repos : Exists(repo[r])}
    BY <1>3 DEF Restart
  <2> QED
    BY <1>1, <1>3, <2>1 DEF Restart, Exists, FluxFollows, enabled
<1>4. ASSUME Marked, queue["fluxcd"] \subseteq queue'["fluxcd"], flux'.pc = flux.pc,
             flux'.repo = flux.repo, flux'.copy = flux.copy, counterpart' = counterpart
      PROVE  FluxFollows'
  BY <1>1, <1>4 DEF Marked, FluxFollows, Wants, enabled
<1>5. ASSUME NEW r \in Repos, Marked, flux.pc = "idle", flux'.pc = "idle" \/ flux'.repo = r,
             r \in fresh' /\ repo'[r].st = "live" =>
                IF flux'.pc = "apply"
                THEN repo'[r].artifact /\ flux'.copy.of = repo'[r].of
                ELSE counterpart'[r] = Wants(r)',
             \A q \in Repos \ {r} : /\ q \in queue["fluxcd"] => q \in queue'["fluxcd"]
                                    /\ counterpart'[q] = counterpart[q]
      PROVE  FluxFollows'
  BY <1>1, <1>5 DEF Marked, FluxFollows, Wants, enabled
<1>6. ASSUME NEW r \in Repos, Marked, flux.pc = "idle", Ignore("fluxcd", r)
      PROVE  FluxFollows'
  <2>1. r \notin fresh' \/ repo'[r].st # "live"
    BY <1>6 DEF Ignore, Exists, PresenceInv, repoVars
  <2>2. \A q \in Repos \ {r} : /\ q \in queue["fluxcd"] => q \in queue'["fluxcd"]
                               /\ counterpart'[q] = counterpart[q]
    BY <1>6 DEF Ignore, Dequeue, TypeOK, mirrors
  <2>3. flux'.pc = "idle"
    BY <1>6 DEF Ignore
  <2> QED
    BY <1>5, <1>6, <2>1, <2>2, <2>3
<1>7. ASSUME NEW r \in Repos, Marked, FluxGuard(r)
      PROVE  FluxFollows'
  <2>1. /\ flux'.pc = "apply" /\ flux'.repo = r /\ flux'.copy.of = cache[r].of
        /\ cache[r].artifact
    BY <1>7 DEF FluxGuard, Guarded, Wanted, TypeOK, GitRepo
  <2>2. r \in fresh' => repo'[r] = cache[r]
    BY <1>7 DEF Marked, PresenceInv
  <2>3. \A q \in Repos \ {r} : /\ q \in queue["fluxcd"] => q \in queue'["fluxcd"]
                               /\ counterpart'[q] = counterpart[q]
    BY <1>7 DEF FluxGuard, Dequeue, TypeOK, mirrors
  <2> QED
    BY <1>5, <1>7, <2>1, <2>2, <2>3 DEF FluxGuard
<1>8. ASSUME NEW r \in Repos, Marked, FluxDrop(r)
      PROVE  FluxFollows'
  <2>1. flux'.pc = "release" /\ flux'.repo = r /\ counterpart'[r] = Nothing
    BY <1>8 DEF FluxDrop, Released, TypeOK
  <2>2. r \in fresh' /\ repo'[r].st = "live" => ~repo'[r].artifact
    BY <1>8 DEF FluxDrop, Wanted, Marked, PresenceInv
  <2>3. \A q \in Repos \ {r} : /\ q \in queue["fluxcd"] => q \in queue'["fluxcd"]
                               /\ counterpart'[q] = counterpart[q]
    BY <1>8 DEF FluxDrop, Dequeue, TypeOK
  <2> QED
    BY <1>5, <1>8, <2>1, <2>2, <2>3 DEF FluxDrop, Wants
<1>9. CASE FluxApply
  <2>1. flux.repo \in Repos /\ flux.pc = "apply" /\ flux'.pc = "idle"
    BY <1>9 DEF FluxApply, TypeOK
  <2>2. \A q \in Repos : counterpart'[q] = IF q = flux.repo THEN flux.copy.of ELSE counterpart[q]
    BY <1>9 DEF FluxApply, TypeOK
  <2> QED
    BY <1>1, <1>9, <2>1, <2>2 DEF FluxApply, FluxFollows, Wants, enabled, repoVars
<1>10. CASE FluxRelease /\ Marked
  <2>1. /\ flux.pc = "release" /\ flux'.pc = "idle" /\ counterpart' = counterpart
        /\ queue' = queue
    BY <1>10 DEF FluxRelease, Release, mirrors
  <2> QED
    BY <1>1, <1>10, <2>1 DEF Marked, FluxFollows, Wants, enabled
<1>11. CASE FluxFails
  <2>1. /\ flux.pc # "idle" /\ flux.repo \in Repos /\ flux'.pc = "idle"
        /\ UNCHANGED <<repo, fresh, counterpart>>
    BY <1>11 DEF FluxFails, TypeOK, repoVars, mirrors
  <2>2. queue'["fluxcd"] = queue["fluxcd"] \cup {flux.repo}
    BY <1>11 DEF FluxFails, Requeue, TypeOK
  <2> QED
    BY <1>1, <2>1, <2>2 DEF FluxFollows, Wants, enabled
<1>12. ASSUME NEW r \in Repos, Users(r) \/ Amends(r) \/ ArgoTakes(r)
       PROVE  /\ queue["fluxcd"] \subseteq queue'["fluxcd"] /\ counterpart' = counterpart
              /\ flux'.pc = flux.pc /\ flux'.copy = flux.copy /\ flux'.repo = flux.repo
  <2>1. flux' \in {flux, Outdated(flux, r)} /\ counterpart' = counterpart
    BY <1>12
       DEF Users, createGitRepositories, updateGitRepositories, updateWithOldCopy,
           deleteGitRepositories, ByUser, Amends, ArgoTakes, Ignore, Amend, ArgoGuard, ArgoDrop,
           mirrors
  <2>2. queue["fluxcd"] \subseteq queue'["fluxcd"]
    BY <1>12
       DEF Users, createGitRepositories, updateGitRepositories, updateWithOldCopy,
           deleteGitRepositories, ByUser, Amends, ArgoTakes, Ignore, Amend, ArgoGuard, ArgoDrop,
           Dequeue, TypeOK
  <2> QED
    BY <2>1, <2>2, OutdatedType
<1>13. CASE DeliverSecret \/ Argo
  <2>1. flux' \in {flux, Outdated(flux, argo.repo)} /\ counterpart' = counterpart
    BY <1>13 DEF DeliverSecret, Argo, ArgoApply, ArgoRelease, ArgoFails, mirrors
  <2>2. flux'.pc = flux.pc /\ flux'.copy = flux.copy /\ flux'.repo = flux.repo
    BY <2>1 DEF Outdated, Worker
  <2>3. queue["fluxcd"] \subseteq queue'["fluxcd"]
    BY <1>13 DEF DeliverSecret, Argo, ArgoApply, ArgoRelease, ArgoFails, Requeue, TypeOK
  <2>4. ~Deliver /\ ~Restart => Marked
    BY StepsMark
  <2> QED
    BY <1>2, <1>3, <1>4, <2>1, <2>2, <2>3, <2>4
<1> QED
  BY <1>2, <1>3, <1>4, <1>6, <1>7, <1>8, <1>9, <1>10, <1>11, <1>12, <1>13, StepsMark
     DEF Next, FluxTakes, Informers, Flux

LEMMA RestInvariance == Spec => []RestInv
<1>1. Init => RestInv
  BY DEF Init, Absent, RestInv, NewsInv, AmendInv, ArgoFollows, FluxFollows
<1>2. GitRepositoryInv /\ RestInv /\ [Next]_vars => RestInv'
  <2> SUFFICES ASSUME GitRepositoryInv, RestInv, [Next]_vars
               PROVE  RestInv'
    OBVIOUS
  <2>1. CASE Next
    BY <2>1, StepsMark, NewsStep, AmendStep, ArgoFollowsStep, FluxFollowsStep
       DEF RestInv, GitRepositoryInv
  <2>2. CASE UNCHANGED vars
    BY <2>2
       DEF vars, repoVars, mirrors, RestInv, NewsInv, AmendInv, ArgoFollows, FluxFollows, Wants,
           enabled
  <2> QED
    BY <2>1, <2>2
<1> QED
  BY <1>1, <1>2, GitRepositoryInvariance, PTL DEF Spec

\* RestShowsUrl for the only repository of its name, whatever is enabled and whatever
\* has happened: no stale URL stays in Argo CD's secret or in Flux CD's repository.
THEOREM SoleRepositoryIsShown ==
    ASSUME \A q, r \in Repos : q = r
    PROVE  Spec => []RestShowsUrl
<1>1. TypeOK /\ RestInv => RestShowsUrl
  <2> SUFFICES ASSUME TypeOK, RestInv, AtRest, NEW r \in Repos, repo[r].st = "live"
               PROVE  /\ repo[r].of.amended
                      /\ "argocd" \in enabled => secret = repo[r].of
                      /\ "fluxcd" \in enabled =>
                            counterpart[r] = IF repo[r].artifact THEN repo[r].of ELSE Nothing
    BY DEF RestShowsUrl
  <2>1. /\ r \in fresh /\ r \notin moved
        /\ queue["amend"] = {} /\ queue["argocd"] = {} /\ queue["fluxcd"] = {}
        /\ argo.pc = "idle" /\ flux.pc = "idle"
    BY DEF AtRest, RestInv, NewsInv, Controllers, Groups
  <2>2. repo[r].of.amended
    BY <2>1 DEF RestInv, AmendInv
  <2>3. "argocd" \in enabled => secret = repo[r].of
    BY <2>1 DEF RestInv, ArgoFollows, Sole
  <2>4. "fluxcd" \in enabled => counterpart[r] = Wants(r)
    BY <2>1 DEF RestInv, FluxFollows
  <2> QED
    BY <2>2, <2>3, <2>4 DEF Wants
<1> QED
  BY <1>1, RestInvariance, RepositoryTypeCorrect, PTL

\* What of it holds however many repositories there are of the name: they only share
\* Argo CD's secret.
RestShowsCounterpart ==
    AtRest => \A r \in Repos : repo[r].st = "live" =>
        /\ repo[r].of.amended
        /\ "fluxcd" \in enabled => counterpart[r] = Wants(r)

\* RestShowsCounterpart, for any number of repositories of one name: each is amended and
\* has the Flux CD repository it asks for when the controllers have nothing left to do.
THEOREM CounterpartsAreShown == Spec => []RestShowsCounterpart
<1>1. RestInv => RestShowsCounterpart
  <2> SUFFICES ASSUME RestInv, AtRest
               PROVE  \A r \in Repos : repo[r].st = "live" =>
                          /\ repo[r].of.amended
                          /\ "fluxcd" \in enabled => counterpart[r] = Wants(r)
    BY DEF RestShowsCounterpart
  <2>1. /\ fresh = Repos /\ moved \cap Repos = {} /\ queue["amend"] = {}
        /\ queue["fluxcd"] = {} /\ flux.pc = "idle"
    BY DEF AtRest, RestInv, NewsInv, Controllers, Groups
  <2> QED
    BY <2>1 DEF RestInv, AmendInv, FluxFollows
<1> QED
  BY <1>1, RestInvariance, PTL
=============================================================================
