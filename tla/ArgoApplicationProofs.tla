------------------------ MODULE ArgoApplicationProofs ------------------------
(***************************************************************************)
(* What holds of ArgoApplication for any number of Applications and names: *)
(* under all disturbances, or under all but "client".                      *)
(***************************************************************************)
EXTENDS ArgoApplication, TLAPS

----------------------------------------------------------------------------
(* The inductive invariants *)

\* The name that is going to be written was used for a counterpart of the Application.
CreatedInv == work.pc = "label" => argo[work.name].owner = work.app

\* What an Application in the cache, o, tells of the one in the API server, n.  The
\* finalizer is set with the cache up to date, and nobody gives a name after that.
Later(o, n) ==
    /\ o.st = "gone" => n.st = "gone"
    /\ o.st = "deleting" => n.st \in {"deleting", "gone"} /\ (n.cascade => o.cascade)
    /\ o.label # NoName => n.label # NoName \/ n.st = "gone"
    /\ n.fin => n.label # NoName /\ o.label = n.label

VersionInv ==
    \A a \in Apps :
        /\ client[a] = Absent
        /\ app[a].fin \/ app[a].cascade \/ app[a].label # NoName => Exists(app[a])
        /\ Later(cache[a], app[a])

\* A generated name is used once, and nobody but its owner ever comes upon it.
Named(o, a, names) ==
    /\ o.label # NoName => names[o.label].st # "absent"
    /\ o.label \in Generated =>
          names[o.label].owner = a /\ (o.st = "live" => names[o.label].st = "live")

NameInv == \A a \in Apps : Named(app[a], a, argo) /\ Named(cache[a], a, argo)

\* The Reconcile under way.
WorkInv ==
    /\ work.pc = "create" => work.name \in {Own, NoName}
    /\ work.pc = "label" => argo[work.name].st = "live"
    /\ work.pc \in {"cascade", "delete"} /\ work.name \in Generated =>
          argo[work.name].owner = work.app
    /\ work.pc \in {"cascade", "delete", "release"} =>
          cache[work.app].st \in {"deleting", "gone"}
    /\ work.pc = "delete" /\ app[work.app].cascade => argo[work.name].cascade
    /\ work.pc \in {"update", "guard", "finalize"} =>
          app[work.app].label # NoName \/ app[work.app].st = "gone"

\* What it means for an Application with the finalizer.
GuardInv ==
    work.pc # "idle" /\ app[work.app].fin =>
        /\ work.pc \in {"create", "label"} => work.name = Own /\ app[work.app].label = Own
        /\ work.pc \in {"cascade", "delete"} => work.name = app[work.app].label
        /\ work.pc = "release" => argo[app[work.app].label].st = "gone"

ArgoInv == TypeOK /\ CreatedInv /\ VersionInv /\ NameInv /\ WorkInv /\ GuardInv

----------------------------------------------------------------------------
(* Types *)

WorkType ==
    /\ work \in [pc: {"idle", "create", "label", "update", "guard", "cascade",
                      "delete", "release", "finalize"},
                 app: Apps \cup {NoApp}, copy: Application, name: Names \cup {NoName}]
    /\ work.pc # "idle" => work.app \in Apps
    /\ work.pc \in {"label", "update", "cascade", "delete"} => work.name \in Names

LEMMA ValueTypes ==
    /\ Absent \in Application /\ Gone \in Application
    /\ Absent.st = "absent" /\ Absent.label = NoName /\ ~Absent.fin /\ ~Absent.cascade
    /\ Gone.st = "gone" /\ Gone.label = NoName /\ ~Gone.fin /\ ~Gone.cascade
    /\ Absent # Gone
    /\ Idle.pc = "idle"
    /\ Idle \in [pc: {"idle", "create", "label", "update", "guard", "cascade",
                      "delete", "release", "finalize"},
                 app: Apps \cup {NoApp}, copy: Application, name: Names \cup {NoName}]
  BY DEF Absent, Gone, Application, Idle

LEMMA FinalizedType ==
    ASSUME NEW o \in Application
    PROVE  Finalized(o) = o \/ (Finalized(o) = Gone /\ ~o.fin)
  BY DEF Finalized

LEMMA PutType ==
    ASSUME TypeOK, NEW a \in Apps, NEW o \in Application, Put(a, o)
    PROVE  /\ app' \in [Apps -> Application] /\ news' \subseteq Apps
           /\ app' = [app EXCEPT ![a] = o]
  BY DEF Put, TypeOK

LEMMA TypeInit == Init => TypeOK
<1> SUFFICES ASSUME Init PROVE TypeOK
  OBVIOUS
<1>1. PICK foreign \in BOOLEAN :
        argo = [n \in Names |-> [NoCounterpart EXCEPT
                                   !.st = IF foreign /\ n = Own THEN "live" ELSE @]]
  BY DEF Init
<1>2. argo \in [Names -> Counterpart]
  BY <1>1 DEF NoCounterpart, Counterpart
<1>3. /\ app \in [Apps -> Application] /\ cache \in [Apps -> Application]
      /\ client \in [Apps -> Application]
      /\ news \subseteq Apps /\ queue \subseteq Apps /\ work = Idle
  BY ValueTypes DEF Init
<1> QED
  BY <1>2, <1>3, ValueTypes DEF TypeOK

\* What users do without reading first: a new object, or a change of the latest one.
UserStep(a, o) ==
    /\ Put(a, o)
    /\ UNCHANGED <<cache, queue, work, client, argo>>
    /\ \/ app[a].st = "absent" /\ o.st = "live" /\ o.label = NoName /\ ~o.fin /\ ~o.cascade
       \/ /\ Exists(app[a])
          /\ o.label = app[a].label /\ o.fin = app[a].fin
          /\ o.cascade # app[a].cascade => app[a].st = "live" /\ o.st = "live"
          /\ o.st = app[a].st \/ (app[a].st = "live" /\ o.st = "deleting")
       \/ Exists(app[a]) /\ ~app[a].fin /\ o = Gone

LEMMA UsersStep ==
    ASSUME TypeOK, NEW a \in Apps, Users(a)
    PROVE  \/ \E o \in Application : UserStep(a, o)
           \/ ClientReads(a)
           \/ \E s \in Specs : UpdateApplication(a, s)
<1>1. app[a] \in Application
  BY DEF TypeOK
<1>2. CASE \E s \in Specs : createApplication(a, s)
  <2>1. PICK s \in Specs : createApplication(a, s)
    BY <1>2
  <2> DEFINE o == [Absent EXCEPT !.st = "live", !.spec = s]
  <2>2. o \in Application /\ o.st = "live" /\ o.label = NoName /\ ~o.fin /\ ~o.cascade
    BY DEF Absent, Application
  <2>3. Put(a, o)
    BY <2>1 DEF createApplication
  <2> HIDE DEF o
  <2> QED
    BY <2>1, <2>2, <2>3 DEF createApplication, UserStep
<1>3. CASE \E s \in Specs : EditApplication(a, s)
  <2>1. PICK s \in Specs : EditApplication(a, s)
    BY <1>3
  <2> DEFINE o == [app[a] EXCEPT !.spec = s]
  <2>2. o \in Application /\ o.st = app[a].st /\ o.label = app[a].label
        /\ o.fin = app[a].fin /\ o.cascade = app[a].cascade
    BY <1>1 DEF Application
  <2>3. Put(a, o)
    BY <2>1 DEF EditApplication
  <2> HIDE DEF o
  <2> QED
    BY <2>1, <2>2, <2>3 DEF EditApplication, UserStep
<1>4. CASE AddCascade(a)
  <2> DEFINE o == [app[a] EXCEPT !.cascade = TRUE]
  <2>1. o \in Application /\ o.st = app[a].st /\ o.label = app[a].label /\ o.fin = app[a].fin
    BY <1>1 DEF Application
  <2>2. Put(a, o) /\ app[a].st = "live"
    BY <1>4 DEF AddCascade
  <2> HIDE DEF o
  <2> QED
    BY <1>4, <2>1, <2>2 DEF AddCascade, UserStep, Exists
<1>5. CASE DelApplication(a)
  <2> DEFINE q == [app[a] EXCEPT !.st = "deleting"]
             o == Finalized(q)
  <2>1. q \in Application /\ q.st = "deleting" /\ q.label = app[a].label
        /\ q.fin = app[a].fin /\ q.cascade = app[a].cascade
    BY <1>1 DEF Application
  <2>2. o \in Application /\ (o = q \/ (o = Gone /\ ~app[a].fin))
    BY <2>1, FinalizedType, ValueTypes
  <2>3. Put(a, o) /\ app[a].st = "live"
    BY <1>5 DEF DelApplication
  <2> HIDE DEF q, o
  <2> QED
    BY <1>5, <2>1, <2>2, <2>3 DEF DelApplication, UserStep, Exists
<1> QED
  BY <1>2, <1>3, <1>4, <1>5 DEF Users

LEMMA UserTypes ==
    ASSUME TypeOK, NEW a \in Apps, Users(a)
    PROVE  TypeOK'
<1>1. CASE \E o \in Application : UserStep(a, o)
  <2>1. PICK o \in Application : UserStep(a, o)
    BY <1>1
  <2> QED
    BY <2>1, PutType DEF UserStep, TypeOK
<1>2. CASE ClientReads(a)
  BY <1>2 DEF ClientReads, TypeOK
<1>3. CASE \E s \in Specs : UpdateApplication(a, s)
  <2>1. PICK s \in Specs : UpdateApplication(a, s)
    BY <1>3
  <2> DEFINE q == [client[a] EXCEPT !.st = app[a].st, !.spec = s]
             o == Finalized(q)
  <2>2. q \in Application
    BY DEF TypeOK, Application
  <2>3. o \in Application
    BY <2>2, FinalizedType, ValueTypes
  <2>4. Put(a, o)
    BY <2>1 DEF UpdateApplication
  <2> HIDE DEF q, o
  <2> QED
    BY <2>1, <2>3, <2>4, PutType, ValueTypes DEF UpdateApplication, TypeOK
<1> QED
  BY <1>1, <1>2, <1>3, UsersStep

\* How a Reconcile begins: with the cached Application, and a call for which it has
\* a name if it needs one.
LEMMA TakeTypes ==
    ASSUME TypeOK, NEW a \in Apps, Take(a)
    PROVE  TypeOK'
<1>1. argoCDAppName(a) \in Names /\ Own \in Names
  BY DEF argoCDAppName, Names, TypeOK, Application
<1>2. CASE Ignore(a)
  BY <1>2 DEF Ignore, appsUnchanged, TypeOK
<1>3. CASE ~Ignore(a)
  <2>1. PICK call \in {"create", "update", "cascade", "delete", "release"},
             name \in Names \cup {NoName} :
          /\ Begin(a, call, name)
          /\ call \in {"update", "cascade", "delete"} => name \in Names
    BY <1>1, <1>3
       DEF Take, BeginCreate, BeginGenerate, BeginUpdate, BeginDelete, BeginRelease
  <2>2. WorkType'
    BY <2>1 DEF Begin, WorkType, TypeOK
  <2> QED
    BY <2>1, <2>2 DEF Begin, appsUnchanged, WorkType, TypeOK
<1> QED
  BY <1>2, <1>3

\* The three updates of an Application.
LEMMA LabelWrite ==
    ASSUME TypeOK, addArgoAppNameIntoLabels
    PROVE  \E o \in Application :
              /\ app' = [app EXCEPT ![work.app] = o] /\ news' \subseteq Apps
              /\ o.st = app[work.app].st /\ Exists(app[work.app])
              /\ o.label = work.name /\ o.fin = app[work.app].fin
              /\ o.cascade = app[work.app].cascade
<1> DEFINE o == [app[work.app] EXCEPT !.label = work.name]
<1>1. work.app \in Apps /\ work.name \in Names
  BY DEF addArgoAppNameIntoLabels, TypeOK
<1>2. /\ o \in Application /\ o.st = app[work.app].st /\ o.label = work.name
      /\ o.fin = app[work.app].fin /\ o.cascade = app[work.app].cascade
  BY <1>1 DEF TypeOK, Application
<1>3. Put(work.app, o) /\ Exists(app[work.app])
  BY DEF addArgoAppNameIntoLabels
<1> HIDE DEF o
<1> QED
  BY <1>1, <1>2, <1>3, PutType

LEMMA FinalizerWrite ==
    ASSUME TypeOK, setArgoProject
    PROVE  \E o \in Application :
              /\ app' = [app EXCEPT ![work.app] = o] /\ news' \subseteq Apps
              /\ o.st = app[work.app].st /\ Exists(app[work.app])
              /\ o.label = app[work.app].label
              /\ app[work.app].st = "deleting" => (o.cascade => app[work.app].cascade)
<1> DEFINE o == Finalizers
<1>1. work.app \in Apps /\ work.copy \in Application /\ app[work.app] \in Application
  BY DEF setArgoProject, TypeOK
<1>2. o \in Application /\ o.st = app[work.app].st /\ o.label = app[work.app].label
  BY <1>1 DEF Finalizers, Application
<1>3. Put(work.app, o) /\ Exists(app[work.app]) /\ Allowed(app[work.app], o)
  BY DEF setArgoProject
<1>4. app[work.app].st = "deleting" => (o.cascade => app[work.app].cascade)
  BY <1>3 DEF Allowed
<1> HIDE DEF o
<1> QED
  BY <1>1, <1>2, <1>3, <1>4, PutType

LEMMA ReleaseWrite ==
    ASSUME TypeOK, RemoveAppFinalizer
    PROVE  \E o \in Application :
              /\ app' = [app EXCEPT ![work.app] = o] /\ news' \subseteq Apps
              /\ Exists(app[work.app]) /\ ~o.fin /\ ~o.cascade
              /\ o = Gone \/ (o.st = app[work.app].st /\ o.label = app[work.app].label)
<1> DEFINE q == [app[work.app] EXCEPT !.fin = FALSE, !.cascade = FALSE]
           o == Finalized(q)
<1>1. work.app \in Apps
  BY DEF RemoveAppFinalizer, TypeOK
<1>2. /\ q \in Application /\ q.st = app[work.app].st /\ q.label = app[work.app].label
      /\ ~q.fin /\ ~q.cascade
  BY <1>1 DEF TypeOK, Application
<1>3. o \in Application /\ (o = q \/ o = Gone)
  BY <1>2, FinalizedType, ValueTypes
<1>4. Put(work.app, o) /\ Exists(app[work.app])
  BY DEF RemoveAppFinalizer
<1> HIDE DEF q, o
<1> QED
  BY <1>1, <1>2, <1>3, <1>4, PutType, ValueTypes

\* The creation of a counterpart: under the name it has been given.
LEMMA Creation ==
    ASSUME TypeOK, CreateArgoApp
    PROVE  \E n \in Names :
              /\ argo[n].st # "live"
              /\ work.name = NoName => argo[n].st = "absent" /\ n \in Generated
              /\ work.name # NoName => n = work.name
              /\ argo' = [argo EXCEPT ![n] = createUnstructuredApplication]
              /\ work' = [work EXCEPT !.pc = "label", !.name = n]
<1>1. PICK n \in (IF work.name = NoName THEN Generated ELSE {work.name}) :
          /\ argo[n].st # "live"
          /\ work.name = NoName => argo[n].st = "absent"
          /\ argo' = [argo EXCEPT ![n] = createUnstructuredApplication]
          /\ work' = [work EXCEPT !.pc = "label", !.name = n]
  BY DEF CreateArgoApp
<1>2. n \in Names /\ (work.name = NoName => n \in Generated) /\ (work.name # NoName => n = work.name)
  BY <1>1 DEF Names, TypeOK
<1> QED
  BY <1>1, <1>2

LEMMA CreatedType ==
    ASSUME TypeOK, work.app \in Apps
    PROVE  createUnstructuredApplication \in Counterpart
  BY DEF createUnstructuredApplication, Counterpart, TypeOK, Application

\* The three changes of a counterpart: its owner stays.
LEMMA CounterpartWrite ==
    ASSUME TypeOK, UpdateArgoApp \/ PassOnFinalizers \/ DeleteArgoApp
    PROVE  /\ work.name \in Names
           /\ \E c \in Counterpart :
                /\ argo' = [argo EXCEPT ![work.name] = c]
                /\ c.owner = argo[work.name].owner
                /\ ~DeleteArgoApp => c.st = argo[work.name].st
                /\ PassOnFinalizers => c.cascade
                /\ DeleteArgoApp => c.st = "gone"
<1>1. work.name \in Names /\ work.copy \in Application
  BY DEF UpdateArgoApp, PassOnFinalizers, DeleteArgoApp, TypeOK
<1>2. argo[work.name] \in Counterpart
  BY <1>1 DEF TypeOK
<1>3. CASE UpdateArgoApp
  <2> DEFINE c == [argo[work.name] EXCEPT !.spec = work.copy.spec, !.cascade = work.copy.cascade]
  <2>1. c \in Counterpart /\ c.owner = argo[work.name].owner /\ c.st = argo[work.name].st
    BY <1>1, <1>2 DEF Counterpart, Application
  <2>2. argo' = [argo EXCEPT ![work.name] = c]
    BY <1>1, <1>2, <1>3 DEF UpdateArgoApp, TypeOK, Counterpart
  <2>3. ~DeleteArgoApp /\ ~PassOnFinalizers
    BY <1>3 DEF UpdateArgoApp, DeleteArgoApp, PassOnFinalizers
  <2> HIDE DEF c
  <2> QED
    BY <1>1, <2>1, <2>2, <2>3
<1>4. CASE PassOnFinalizers
  <2> DEFINE c == [argo[work.name] EXCEPT !.cascade = TRUE]
  <2>1. c \in Counterpart /\ c.owner = argo[work.name].owner /\ c.st = argo[work.name].st
        /\ c.cascade
    BY <1>2 DEF Counterpart
  <2>2. argo' = [argo EXCEPT ![work.name] = c] /\ ~DeleteArgoApp
    BY <1>4 DEF PassOnFinalizers, DeleteArgoApp
  <2> HIDE DEF c
  <2> QED
    BY <1>1, <2>1, <2>2
<1>5. CASE DeleteArgoApp
  <2> DEFINE c == [argo[work.name] EXCEPT !.st = "gone"]
  <2>1. c \in Counterpart /\ c.owner = argo[work.name].owner /\ c.st = "gone"
    BY <1>2 DEF Counterpart
  <2>2. argo' = [argo EXCEPT ![work.name] = c] /\ ~PassOnFinalizers
    BY <1>5 DEF PassOnFinalizers, DeleteArgoApp
  <2> HIDE DEF c
  <2> QED
    BY <1>1, <1>5, <2>1, <2>2
<1> QED
  BY <1>3, <1>4, <1>5

\* What follows a call: the next one, or nothing.
LEMMA AfterCall ==
    ASSUME TypeOK, work.pc # "idle",
           \/ Done \/ Requeue \/ Goto("guard") \/ Goto("release")
           \/ work.pc = "cascade" /\ Goto("delete")
    PROVE  WorkType' /\ queue' \subseteq Apps
<1>1. CASE Done \/ Requeue
  BY <1>1, ValueTypes DEF Done, Requeue, WorkType, TypeOK
<1>2. CASE Goto("guard") \/ Goto("release") \/ (work.pc = "cascade" /\ Goto("delete"))
  <2>1. PICK pc \in {"guard", "release", "delete"} :
          Goto(pc) /\ (pc = "delete" => work.pc = "cascade")
    BY <1>2
  <2>2. /\ work'.pc = pc /\ work'.app = work.app /\ work'.name = work.name
        /\ work' \in [pc: {"idle", "create", "label", "update", "guard", "cascade",
                          "delete", "release", "finalize"},
                     app: Apps \cup {NoApp}, copy: Application, name: Names \cup {NoName}]
    BY <2>1 DEF Goto, TypeOK
  <2> QED
    BY <2>1, <2>2 DEF Goto, WorkType, TypeOK
<1> QED
  BY <1>1, <1>2

LEMMA CallTypes ==
    ASSUME TypeOK, Calls \/ DeleteFails \/ CallFails
    PROVE  TypeOK'
<1>1. CASE CreateArgoApp
  <2>1. PICK n \in Names :
          /\ argo' = [argo EXCEPT ![n] = createUnstructuredApplication]
          /\ work' = [work EXCEPT !.pc = "label", !.name = n]
    BY <1>1, Creation
  <2>2. argo' \in [Names -> Counterpart]
    BY <1>1, <2>1, CreatedType DEF CreateArgoApp, TypeOK
  <2>3. WorkType'
    BY <1>1, <2>1 DEF CreateArgoApp, WorkType, TypeOK
  <2> QED
    BY <1>1, <2>2, <2>3 DEF CreateArgoApp, appsUnchanged, WorkType, TypeOK
<1>2. CASE UpdateArgoApp \/ PassOnFinalizers \/ DeleteArgoApp
  <2>2. argo' \in [Names -> Counterpart]
    BY <1>2, CounterpartWrite DEF TypeOK
  <2>3. WorkType' /\ queue' \subseteq Apps
    BY <1>2, AfterCall DEF UpdateArgoApp, PassOnFinalizers, DeleteArgoApp
  <2> QED
    BY <1>2, <2>2, <2>3
       DEF UpdateArgoApp, PassOnFinalizers, DeleteArgoApp, appsUnchanged, WorkType, TypeOK
<1>3. CASE NameTaken \/ UpdateFails \/ DeleteFails \/ CallFails
  <2>1. WorkType' /\ queue' \subseteq Apps
    BY <1>3, AfterCall DEF NameTaken, UpdateFails, DeleteFails, CallFails
  <2> QED
    BY <1>3, <2>1
       DEF NameTaken, UpdateFails, DeleteFails, CallFails, appsUnchanged, WorkType, TypeOK
<1>4. CASE ReadFinalizers
  <2>1. WorkType' /\ queue' \subseteq Apps
    <3>1. CASE Done
      BY <1>4, <3>1, AfterCall DEF ReadFinalizers
    <3>2. CASE work' = [work EXCEPT !.pc = "finalize", !.copy = cache[work.app]]
               /\ UNCHANGED queue
      BY <1>4, <3>2 DEF ReadFinalizers, WorkType, TypeOK
    <3> QED
      BY <1>4, <3>1, <3>2 DEF ReadFinalizers
  <2> QED
    BY <1>4, <2>1 DEF ReadFinalizers, appsUnchanged, WorkType, TypeOK
<1>5. CASE addArgoAppNameIntoLabels \/ setArgoProject \/ RemoveAppFinalizer
  <2>1. app' \in [Apps -> Application] /\ news' \subseteq Apps
    BY <1>5, LabelWrite, FinalizerWrite, ReleaseWrite DEF TypeOK
  <2>2. WorkType' /\ queue' \subseteq Apps
    BY <1>5, AfterCall DEF addArgoAppNameIntoLabels, setArgoProject, RemoveAppFinalizer
  <2> QED
    BY <1>5, <2>1, <2>2
       DEF addArgoAppNameIntoLabels, setArgoProject, RemoveAppFinalizer, WorkType, TypeOK
<1> QED
  BY <1>1, <1>2, <1>3, <1>4, <1>5 DEF Calls

LEMMA TypeStep ==
    ASSUME TypeOK, [Next]_vars
    PROVE  TypeOK'
<1>1. CASE Restart
  BY <1>1, ValueTypes DEF Restart, TypeOK
<1>2. CASE \E a \in Apps : Deliver(a)
  BY <1>2 DEF Deliver, TypeOK
<1>3. CASE UNCHANGED vars
  BY <1>3 DEF vars, TypeOK
<1> QED
  BY <1>1, <1>2, <1>3, UserTypes, TakeTypes, CallTypes DEF Next, Worker, Failures

----------------------------------------------------------------------------
(* Labels: under all disturbances *)

\* Only CreateArgoApp leads to the writing of a label.
LEMMA OthersKeepCreated ==
    ASSUME TypeOK, [Next]_vars, ~CreateArgoApp
    PROVE  work'.pc # "label" \/ (work' = work /\ argo' = argo)
<1>1. CASE \E a \in Apps : Users(a)
  BY <1>1, UsersStep DEF UserStep, ClientReads, UpdateApplication
<1>2. CASE Restart \/ \E a \in Apps : Deliver(a)
  BY <1>2, ValueTypes DEF Restart, Deliver
<1>3. CASE \E a \in Apps : Take(a)
  BY <1>3 DEF Take, Ignore, BeginCreate, BeginGenerate, BeginUpdate, BeginDelete,
     BeginRelease, Begin
<1>4. CASE Calls \/ DeleteFails \/ CallFails
  <2>1. CASE UpdateArgoApp \/ DeleteArgoApp \/ PassOnFinalizers \/ addArgoAppNameIntoLabels
    BY <2>1 DEF UpdateArgoApp, DeleteArgoApp, PassOnFinalizers, addArgoAppNameIntoLabels,
       Goto, TypeOK
  <2>2. CASE ReadFinalizers
    BY <2>2, ValueTypes DEF ReadFinalizers, Done, TypeOK
  <2>3. CASE \/ NameTaken \/ setArgoProject \/ RemoveAppFinalizer \/ UpdateFails
             \/ DeleteFails \/ CallFails
    BY <2>3, ValueTypes DEF NameTaken, setArgoProject, RemoveAppFinalizer, UpdateFails,
       DeleteFails, CallFails, Done, Requeue
  <2> QED
    BY <1>4, <2>1, <2>2, <2>3 DEF Calls
<1>5. CASE UNCHANGED vars
  BY <1>5 DEF vars
<1> QED
  BY <1>1, <1>2, <1>3, <1>4, <1>5 DEF Next, Worker, Failures

LEMMA CreatedStep ==
    ASSUME TypeOK, CreatedInv, [Next]_vars
    PROVE  CreatedInv'
<1>1. CASE CreateArgoApp
  <2>1. PICK n \in Names :
          /\ argo' = [argo EXCEPT ![n] = createUnstructuredApplication]
          /\ work' = [work EXCEPT !.pc = "label", !.name = n]
    BY <1>1, Creation
  <2>2. argo'[n].owner = work.app
    BY <2>1 DEF createUnstructuredApplication, TypeOK
  <2>3. work'.name = n /\ work'.app = work.app
    BY <2>1 DEF TypeOK
  <2> QED
    BY <2>2, <2>3 DEF CreatedInv
<1>2. CASE ~CreateArgoApp
  BY <1>2, OthersKeepCreated DEF CreatedInv
<1> QED
  BY <1>1, <1>2

\* Of the steps that do not change what clients hold, one writes labels.
LEMMA LabelSteps ==
    ASSUME TypeOK, Next, NEW a \in Apps, client'[a] = client[a],
           app'[a].label \notin {NoName, app[a].label}
    PROVE  addArgoAppNameIntoLabels
<1>1. CASE \E b \in Apps : Users(b)
  <2>1. PICK b \in Apps : Users(b)
    BY <1>1
  <2>2. CASE \E o \in Application : UserStep(b, o)
    BY <2>2, PutType, ValueTypes DEF UserStep, TypeOK
  <2>3. CASE ClientReads(b)
    BY <2>3 DEF ClientReads
  <2>4. CASE \E s \in Specs : UpdateApplication(b, s)
    <3>1. app'[a] = app[a] \/ a = b
      BY <2>4 DEF UpdateApplication, Put, TypeOK
    <3>2. a = b /\ client'[b] = Gone /\ client[b] # Gone
      BY <2>4, <3>1, ValueTypes DEF UpdateApplication, Put, TypeOK, Exists
    <3> QED
      BY <3>2
  <2> QED
    BY <2>1, <2>2, <2>3, <2>4, UsersStep
<1>2. CASE setArgoProject
  BY <1>2, FinalizerWrite DEF TypeOK
<1>3. CASE RemoveAppFinalizer
  BY <1>3, ReleaseWrite, ValueTypes DEF TypeOK
<1>4. CASE \/ Restart \/ (\E b \in Apps : Deliver(b) \/ Take(b))
           \/ CreateArgoApp \/ NameTaken \/ UpdateArgoApp \/ PassOnFinalizers \/ DeleteArgoApp
           \/ ReadFinalizers \/ UpdateFails \/ DeleteFails \/ CallFails
  <2>1. app' = app
    BY <1>4 DEF Restart, Deliver, Take, Ignore, BeginCreate, BeginGenerate, BeginUpdate,
       BeginDelete, BeginRelease, Begin, CreateArgoApp, NameTaken, UpdateArgoApp,
       PassOnFinalizers, DeleteArgoApp, ReadFinalizers, UpdateFails, DeleteFails,
       CallFails, appsUnchanged
  <2> QED
    BY <2>1
<1> QED
  BY <1>1, <1>2, <1>3, <1>4 DEF Next, Worker, Calls, Failures

\* TypeOK: every call that needs a name has one.
THEOREM ArgoTypeCorrect == Spec => []TypeOK
  BY TypeInit, TypeStep, PTL DEF Spec

\* LabelIsOwn: between the creation of a counterpart and the update of the label nothing
\* takes the name away from the Application, whatever fails, and whoever else wants it.
THEOREM LabelsAreOwn == Spec => LabelIsOwn
<1>1. Init => CreatedInv
  BY ValueTypes DEF Init, CreatedInv
<1>2. ASSUME TypeOK, CreatedInv, [Next]_vars, NEW a \in Apps, client'[a] = client[a],
             app'[a].label \notin {NoName, app[a].label}
      PROVE  argo[app'[a].label].owner = a
  <2>1. addArgoAppNameIntoLabels
    BY <1>2, LabelSteps DEF vars
  <2>2. PICK o \in Application :
          app' = [app EXCEPT ![work.app] = o] /\ o.label = work.name
    BY <1>2, <2>1, LabelWrite
  <2>3. a = work.app /\ app'[a].label = work.name
    BY <1>2, <2>2 DEF TypeOK
  <2> QED
    BY <1>2, <2>1, <2>3 DEF addArgoAppNameIntoLabels, CreatedInv
<1>3. TypeOK /\ CreatedInv /\ [Next]_vars =>
        [\A a \in Apps :
            app'[a].label \notin {NoName, app[a].label} /\ client'[a] = client[a] =>
                argo[app'[a].label].owner = a]_vars
  BY <1>2
<1>4. TypeOK /\ CreatedInv /\ [Next]_vars => TypeOK' /\ CreatedInv'
  BY TypeStep, CreatedStep
<1> QED
  BY <1>1, <1>3, <1>4, TypeInit, PTL DEF Spec, LabelIsOwn

----------------------------------------------------------------------------
(* Users and the informer keep the invariant when nobody sends back old objects *)

LEMMA UserKeeps ==
    ASSUME ArgoInv, NEW a \in Apps, NEW o \in Application, UserStep(a, o)
    PROVE  VersionInv' /\ NameInv' /\ WorkInv' /\ GuardInv'
<1>1. /\ app' = [app EXCEPT ![a] = o]
      /\ UNCHANGED <<cache, work, client, argo>>
  BY PutType DEF UserStep, ArgoInv
<1>2. /\ app'[a] = o /\ \A b \in Apps \ {a} : app'[b] = app[b]
  BY <1>1 DEF ArgoInv, TypeOK
<1>3. Later(cache[a], app[a]) /\ (app[a].fin \/ app[a].cascade \/ app[a].label # NoName => Exists(app[a]))
  BY DEF ArgoInv, VersionInv
<1>4. Later(cache[a], o) /\ (o.fin \/ o.cascade \/ o.label # NoName => Exists(o))
  BY <1>3, ValueTypes DEF UserStep, Later, Exists
<1>5. VersionInv'
  BY <1>1, <1>2, <1>4 DEF ArgoInv, VersionInv
<1>6. o.label # NoName => o.label = app[a].label /\ (o.st = "live" => app[a].st = "live")
  BY ValueTypes DEF UserStep
<1>7. NameInv'
  <2>1. Named(o, a, argo')
    BY <1>1, <1>6, ValueTypes, ArgoAssumption DEF ArgoInv, NameInv, Named, Names
  <2> QED
    BY <1>1, <1>2, <2>1 DEF ArgoInv, NameInv, Named
<1>8. WorkInv'
  <2>1. work.pc \in {"cascade", "delete", "release"} /\ work.app = a =>
          app[a].st \in {"deleting", "gone"}
    BY <1>3 DEF ArgoInv, WorkInv, Later
  <2>2. work.pc = "delete" /\ work.app = a /\ o.cascade => app[a].cascade
    BY <2>1, ValueTypes DEF UserStep, Exists
  <2>3. work.pc \in {"update", "guard", "finalize"} /\ work.app = a =>
          o.label # NoName \/ o.st = "gone"
    BY <1>3, ValueTypes DEF ArgoInv, WorkInv, UserStep, Exists
  <2>4. work.pc # "idle" => work.app \in Apps
    BY DEF ArgoInv, TypeOK
  <2> QED
    BY <1>1, <1>2, <2>2, <2>3, <2>4 DEF ArgoInv, WorkInv
<1>9. GuardInv'
  <2>1. o.fin => app[a].fin /\ o.label = app[a].label
    BY ValueTypes DEF UserStep
  <2> QED
    BY <1>1, <1>2, <2>1 DEF ArgoInv, TypeOK, GuardInv
<1> QED
  BY <1>5, <1>7, <1>8, <1>9

LEMMA NewsKeeps ==
    ASSUME ArgoInv, UNCHANGED <<app, client, argo>>,
           \A a \in Apps : cache'[a] \in {cache[a], app[a]},
           work' = work \/ work'.pc = "idle"
    PROVE  VersionInv' /\ NameInv' /\ WorkInv' /\ GuardInv'
<1>1. VersionInv'
  <2> SUFFICES ASSUME NEW a \in Apps PROVE Later(cache'[a], app[a])
    BY DEF ArgoInv, VersionInv
  <2>1. Later(app[a], app[a])
    BY DEF ArgoInv, VersionInv, Later
  <2> QED
    BY <2>1 DEF ArgoInv, VersionInv
<1>2. NameInv'
  BY DEF ArgoInv, NameInv, Named
<1>3. WorkInv'
  <2>1. CASE work'.pc = "idle"
    BY <2>1 DEF WorkInv
  <2>2. CASE work' = work /\ work.pc # "idle"
    <3>1. work.app \in Apps
      BY <2>2 DEF ArgoInv, TypeOK
    <3>2. cache[work.app].st \in {"deleting", "gone"} => cache'[work.app].st \in {"deleting", "gone"}
      BY <3>1 DEF ArgoInv, VersionInv, Later
    <3> QED
      BY <2>2, <3>2 DEF ArgoInv, WorkInv
  <2> QED
    BY <2>1, <2>2
<1>4. GuardInv'
  BY DEF ArgoInv, GuardInv
<1> QED
  BY <1>1, <1>2, <1>3, <1>4

\* A Reconcile begins with what the cache says: of an Application with the finalizer
\* that is its name, and of a deleted one whether to cascade.
LEMMA TakeKeeps ==
    ASSUME ArgoInv, NEW a \in Apps, Take(a)
    PROVE  VersionInv' /\ NameInv' /\ WorkInv' /\ GuardInv'
<1>1. UNCHANGED <<app, cache, client, argo>>
  BY DEF Take, Ignore, BeginCreate, BeginGenerate, BeginUpdate, BeginDelete, BeginRelease,
     Begin, appsUnchanged
<1>2. VersionInv' /\ NameInv'
  BY <1>1 DEF ArgoInv, VersionInv, NameInv, Named
<1>3. Later(cache[a], app[a])
  BY DEF ArgoInv, VersionInv
<1>4. app[a].fin => cache[a].label # NoName /\ argoCDAppName(a) = app[a].label
                    /\ app[a].label \in Names
  BY <1>3 DEF Later, argoCDAppName, ArgoInv, TypeOK, Application
<1>5. CASE Ignore(a)
  BY <1>2, <1>5 DEF Ignore, WorkInv, GuardInv
<1>6. CASE BeginCreate(a)
  <2>1. app[a].fin => app[a].label = Own
    <3>1. cache[a].st = "live" /\ argo[argoCDAppName(a)].st # "live"
      BY <1>6 DEF BeginCreate, Found
    <3>2. ASSUME app[a].fin PROVE app[a].label \notin Generated
      BY <1>3, <1>4, <3>1, <3>2 DEF Later, ArgoInv, NameInv, Named
    <3> QED
      BY <1>4, <3>2 DEF Names
  <2>2. work'.pc = "create" /\ work'.app = a /\ work'.name = Own
    BY <1>6 DEF BeginCreate, Begin
  <2>3. WorkInv'
    BY <2>2 DEF WorkInv
  <2>4. GuardInv'
    BY <1>1, <2>1, <2>2 DEF GuardInv
  <2> QED
    BY <1>2, <2>3, <2>4
<1>7. CASE BeginGenerate(a)
  <2>1. work'.pc = "create" /\ work'.app = a /\ work'.name = NoName /\ ~app[a].fin
    BY <1>4, <1>7 DEF BeginGenerate, Begin
  <2> QED
    BY <1>1, <1>2, <2>1 DEF WorkInv, GuardInv
<1>8. CASE BeginUpdate(a)
  <2>1. work'.pc = "update" /\ work'.app = a /\ cache[a].label # NoName
    BY <1>8 DEF BeginUpdate, Begin
  <2> QED
    BY <1>1, <1>2, <1>3, <2>1 DEF Later, WorkInv, GuardInv
<1>9. CASE BeginDelete(a)
  <2>1. /\ work'.pc = (IF cache[a].cascade THEN "cascade" ELSE "delete")
        /\ work'.app = a /\ work'.name = argoCDAppName(a) /\ cache[a].st = "deleting"
    BY <1>9 DEF BeginDelete, Begin
  <2>2. app[a].cascade => cache[a].cascade
    BY <1>3, <2>1 DEF Later
  <2>3. argoCDAppName(a) \in Generated => argo[argoCDAppName(a)].owner = a
    BY ArgoAssumption DEF argoCDAppName, ArgoInv, NameInv, Named
  <2> QED
    BY <1>1, <1>2, <1>4, <2>1, <2>2, <2>3 DEF WorkInv, GuardInv
<1>10. CASE BeginRelease(a)
  <2>1. work'.pc = "release" /\ work'.app = a /\ cache[a].st = "deleting" /\ ~Found(a)
    BY <1>10 DEF BeginRelease, Begin
  <2>2. app[a].fin => argo[app[a].label].st = "gone"
    <3>1. ASSUME app[a].fin PROVE argo[app[a].label].st \notin {"live", "absent"}
      BY <1>4, <2>1, <3>1, ArgoAssumption DEF Found, ArgoInv, NameInv, Named
    <3> QED
      BY <1>4, <3>1 DEF ArgoInv, TypeOK, Counterpart
  <2> QED
    BY <1>1, <1>2, <2>1, <2>2 DEF WorkInv, GuardInv
<1> QED
  BY <1>5, <1>6, <1>7, <1>8, <1>9, <1>10 DEF Take

----------------------------------------------------------------------------
(* Calls keep the invariant when nobody sends back old objects *)

\* A free name is taken, and it is nobody's that could be live.
LEMMA CreateKeeps ==
    ASSUME ArgoInv, CreateArgoApp
    PROVE  VersionInv' /\ NameInv' /\ WorkInv' /\ GuardInv'
<1>1. UNCHANGED <<app, cache, client>> /\ work.pc = "create" /\ work.app \in Apps
  BY DEF CreateArgoApp, appsUnchanged, ArgoInv, TypeOK
<1>2. PICK n \in Names :
          /\ argo[n].st # "live"
          /\ work.name = NoName => argo[n].st = "absent" /\ n \in Generated
          /\ work.name # NoName => n = work.name
          /\ argo' = [argo EXCEPT ![n] = createUnstructuredApplication]
          /\ work' = [work EXCEPT !.pc = "label", !.name = n]
  BY Creation DEF ArgoInv
<1>3. /\ argo'[n].st = "live" /\ argo'[n].owner = work.app
      /\ \A k \in Names \ {n} : argo'[k] = argo[k]
  BY <1>2 DEF createUnstructuredApplication, ArgoInv, TypeOK
<1>4. work'.pc = "label" /\ work'.name = n /\ work'.app = work.app
  BY <1>2 DEF ArgoInv, TypeOK
<1>5. VersionInv'
  BY <1>1 DEF ArgoInv, VersionInv
<1>6. WorkInv'
  BY <1>3, <1>4 DEF WorkInv
<1>7. GuardInv'
  BY <1>1, <1>2, <1>4, ArgoAssumption DEF ArgoInv, GuardInv, Names
<1>8. NameInv'
  <2>1. n \in Generated => argo[n].st = "absent"
    BY <1>1, <1>2, ArgoAssumption DEF ArgoInv, WorkInv
  <2>2. ASSUME NEW a \in Apps, NEW o \in Application, Named(o, a, argo)
        PROVE  Named(o, a, argo')
    <3>1. o.label \in Names \cup {NoName}
      BY DEF Application
    <3>2. CASE o.label = n
      BY <1>2, <1>3, <2>1, <2>2, <3>2, ArgoAssumption DEF Named
    <3>3. CASE o.label \in Names \ {n}
      BY <1>3, <2>2, <3>3 DEF Named
    <3>4. CASE o.label = NoName
      BY <3>4, ArgoAssumption DEF Named, Names
    <3> QED
      BY <3>1, <3>2, <3>3, <3>4
  <2>3. \A a \in Apps : app[a] \in Application /\ cache[a] \in Application
    BY DEF ArgoInv, TypeOK
  <2> QED
    BY <1>1, <2>2, <2>3 DEF ArgoInv, NameInv, Named
<1> QED
  BY <1>5, <1>6, <1>7, <1>8

LEMMA ChangeKeeps ==
    ASSUME ArgoInv, UpdateArgoApp \/ PassOnFinalizers
    PROVE  VersionInv' /\ NameInv' /\ WorkInv' /\ GuardInv'
<1>1. UNCHANGED <<app, cache, client>> /\ work.app \in Apps
  BY DEF UpdateArgoApp, PassOnFinalizers, appsUnchanged, ArgoInv, TypeOK
<1>2. PICK c \in Counterpart :
         /\ argo' = [argo EXCEPT ![work.name] = c]
         /\ c.owner = argo[work.name].owner
         /\ c.st = argo[work.name].st
         /\ PassOnFinalizers => c.cascade
  BY CounterpartWrite DEF ArgoInv, UpdateArgoApp, PassOnFinalizers, DeleteArgoApp
<1>3. /\ work.name \in Names
      /\ PassOnFinalizers => argo'[work.name].cascade
      /\ \A k \in Names : argo'[k].owner = argo[k].owner /\ argo'[k].st = argo[k].st
  BY <1>2, CounterpartWrite DEF ArgoInv, TypeOK
<1>4. /\ work'.name = work.name /\ work'.app = work.app
      /\ UpdateArgoApp => work.pc = "update" /\ work'.pc = "guard"
      /\ PassOnFinalizers => work.pc = "cascade" /\ work'.pc = "delete"
  BY DEF UpdateArgoApp, PassOnFinalizers, Goto, ArgoInv, TypeOK
<1>5. VersionInv'
  BY <1>1 DEF ArgoInv, VersionInv
<1>6. NameInv'
  <2>1. \A a \in Apps : app[a].label \in Names \cup {NoName} /\ cache[a].label \in Names \cup {NoName}
    BY DEF ArgoInv, TypeOK, Application
  <2> QED
    BY <1>1, <1>3, <2>1, ArgoAssumption DEF ArgoInv, NameInv, Named, Names
<1>7. WorkInv' /\ GuardInv'
  <2>1. CASE UpdateArgoApp
    BY <1>1, <1>4, <2>1 DEF ArgoInv, WorkInv, GuardInv
  <2>2. CASE PassOnFinalizers
    <3>1. WorkInv'
      BY <1>1, <1>3, <1>4, <2>2 DEF ArgoInv, WorkInv
    <3>2. GuardInv'
      BY <1>1, <1>4, <2>2 DEF ArgoInv, GuardInv
    <3> QED
      BY <3>1, <3>2
  <2> QED
    BY <2>1, <2>2
<1> QED
  BY <1>5, <1>6, <1>7

\* A counterpart under a generated name is deleted for its owner only, who is deleted.
LEMMA DeleteKeeps ==
    ASSUME ArgoInv, DeleteArgoApp
    PROVE  VersionInv' /\ NameInv' /\ WorkInv' /\ GuardInv'
<1>1. UNCHANGED <<app, cache, client>> /\ work.app \in Apps /\ work.pc = "delete"
  BY DEF DeleteArgoApp, appsUnchanged, ArgoInv, TypeOK
<1>2. /\ work.name \in Names
      /\ argo'[work.name].st = "gone" /\ argo'[work.name].owner = argo[work.name].owner
      /\ \A k \in Names \ {work.name} : argo'[k] = argo[k]
  BY CounterpartWrite DEF ArgoInv, TypeOK
<1>3. work'.pc = "release" /\ work'.app = work.app
  BY DEF DeleteArgoApp, Goto, ArgoInv, TypeOK
<1>4. VersionInv'
  BY <1>1 DEF ArgoInv, VersionInv
<1>5. WorkInv'
  BY <1>1, <1>3 DEF ArgoInv, WorkInv
<1>6. GuardInv'
  BY <1>1, <1>2, <1>3 DEF ArgoInv, GuardInv
<1>7. NameInv'
  <2>1. /\ cache[work.app].st \in {"deleting", "gone"}
        /\ app[work.app].st \in {"deleting", "gone"}
        /\ work.name \in Generated => argo[work.name].owner = work.app
    BY <1>1 DEF ArgoInv, WorkInv, VersionInv, Later
  <2>2. ASSUME NEW a \in Apps, NEW o \in {app[a], cache[a]}, Named(o, a, argo)
        PROVE  Named(o, a, argo')
    <3>1. o.label \in Names \cup {NoName}
      BY DEF ArgoInv, TypeOK, Application
    <3>2. CASE o.label = work.name
      <4>1. o.label # NoName => argo'[o.label].st # "absent"
        BY <1>2, <3>2
      <4>2. o.label \in Generated => argo'[o.label].owner = a /\ a = work.app
        BY <1>2, <2>1, <2>2, <3>2 DEF Named
      <4>3. a = work.app => o.st # "live"
        BY <2>1, <2>2
      <4> QED
        BY <4>1, <4>2, <4>3 DEF Named
    <3>3. CASE o.label \in Names \ {work.name}
      BY <1>2, <2>2, <3>3 DEF Named
    <3>4. CASE o.label = NoName
      BY <3>4, ArgoAssumption DEF Named, Names
    <3> QED
      BY <3>1, <3>2, <3>3, <3>4
  <2> QED
    BY <1>1, <2>2 DEF ArgoInv, NameInv, Named
<1> QED
  BY <1>4, <1>5, <1>6, <1>7

\* With the finalizer, an Application is named anew only by the name it has.
LEMMA LabelKeeps ==
    ASSUME ArgoInv, addArgoAppNameIntoLabels
    PROVE  VersionInv' /\ NameInv' /\ WorkInv' /\ GuardInv'
<1>1. /\ UNCHANGED <<cache, client, argo>> /\ work.pc = "label"
      /\ work.app \in Apps /\ work.name \in Names
      /\ cache[work.app] = app[work.app]
  BY DEF addArgoAppNameIntoLabels, UpToDate, ArgoInv, TypeOK
<1>2. PICK o \in Application :
         /\ app' = [app EXCEPT ![work.app] = o]
         /\ o.st = app[work.app].st /\ Exists(app[work.app])
         /\ o.label = work.name /\ o.fin = app[work.app].fin
         /\ o.cascade = app[work.app].cascade
  BY LabelWrite DEF ArgoInv
<1>3. app'[work.app] = o /\ \A a \in Apps \ {work.app} : app'[a] = app[a]
  BY <1>1, <1>2 DEF ArgoInv, TypeOK
<1>4. work'.pc = "guard" /\ work'.app = work.app
  BY DEF addArgoAppNameIntoLabels, Goto, ArgoInv, TypeOK
<1>5. work.name # NoName
  BY <1>1, ArgoAssumption
<1>6. VersionInv'
  <2>1. o.fin => cache[work.app].label = work.name
    BY <1>1, <1>2 DEF ArgoInv, GuardInv
  <2>2. Later(cache[work.app], o) /\ Exists(o)
    BY <1>1, <1>2, <1>5, <2>1 DEF ArgoInv, VersionInv, Later, Exists
  <2> QED
    BY <1>1, <1>3, <2>2 DEF ArgoInv, VersionInv
<1>7. NameInv'
  <2>1. Named(o, work.app, argo')
    BY <1>1, <1>2 DEF ArgoInv, CreatedInv, WorkInv, Named
  <2> QED
    BY <1>1, <1>3, <2>1 DEF ArgoInv, NameInv, Named
<1>8. WorkInv'
  BY <1>2, <1>3, <1>4, <1>5 DEF WorkInv
<1>9. GuardInv'
  BY <1>4 DEF GuardInv
<1> QED
  BY <1>6, <1>7, <1>8, <1>9

\* The finalizer is set on an Application with a name, the cache being up to date.
LEMMA FinalizeKeeps ==
    ASSUME ArgoInv, setArgoProject
    PROVE  VersionInv' /\ NameInv' /\ WorkInv' /\ GuardInv'
<1>1. /\ UNCHANGED <<cache, client, argo>> /\ work.pc = "finalize"
      /\ work.app \in Apps /\ cache[work.app] = app[work.app] /\ work'.pc = "idle"
  BY ValueTypes DEF setArgoProject, UpToDate, Done, ArgoInv, TypeOK
<1>2. PICK o \in Application :
         /\ app' = [app EXCEPT ![work.app] = o]
         /\ o.st = app[work.app].st /\ Exists(app[work.app])
         /\ o.label = app[work.app].label
         /\ app[work.app].st = "deleting" => (o.cascade => app[work.app].cascade)
  BY FinalizerWrite DEF ArgoInv
<1>3. app'[work.app] = o /\ \A a \in Apps \ {work.app} : app'[a] = app[a]
  BY <1>1, <1>2 DEF ArgoInv, TypeOK
<1>4. VersionInv'
  <2>1. o.label # NoName
    BY <1>1, <1>2 DEF ArgoInv, WorkInv, Exists
  <2>2. Later(cache[work.app], o) /\ Exists(o)
    BY <1>1, <1>2, <2>1 DEF Later, Exists
  <2> QED
    BY <1>1, <1>3, <2>2 DEF ArgoInv, VersionInv
<1>5. NameInv'
  BY <1>1, <1>2, <1>3 DEF ArgoInv, NameInv, Named
<1>6. WorkInv' /\ GuardInv'
  BY <1>1 DEF WorkInv, GuardInv
<1> QED
  BY <1>4, <1>5, <1>6

LEMMA ReleaseKeeps ==
    ASSUME ArgoInv, RemoveAppFinalizer
    PROVE  VersionInv' /\ NameInv' /\ WorkInv' /\ GuardInv'
<1>1. /\ UNCHANGED <<cache, client, argo>> /\ work.pc = "release"
      /\ work.app \in Apps /\ cache[work.app] = app[work.app] /\ work'.pc = "idle"
  BY ValueTypes DEF RemoveAppFinalizer, UpToDate, Done, ArgoInv, TypeOK
<1>2. PICK o \in Application :
         /\ app' = [app EXCEPT ![work.app] = o]
         /\ Exists(app[work.app]) /\ ~o.fin /\ ~o.cascade
         /\ o = Gone \/ (o.st = app[work.app].st /\ o.label = app[work.app].label)
  BY ReleaseWrite DEF ArgoInv
<1>3. app'[work.app] = o /\ \A a \in Apps \ {work.app} : app'[a] = app[a]
  BY <1>1, <1>2 DEF ArgoInv, TypeOK
<1>4. cache[work.app].st = "deleting"
  BY <1>1, <1>2 DEF ArgoInv, WorkInv, Exists
<1>5. VersionInv'
  <2>1. Later(cache[work.app], o) /\ (o.label # NoName => Exists(o))
    BY <1>1, <1>2, <1>4, ValueTypes DEF Later, Exists
  <2> QED
    BY <1>1, <1>2, <1>3, <2>1 DEF ArgoInv, VersionInv
<1>6. NameInv'
  <2>1. Named(o, work.app, argo')
    BY <1>1, <1>2, <1>4, ValueTypes, ArgoAssumption DEF ArgoInv, NameInv, Named, Names
  <2> QED
    BY <1>1, <1>3, <2>1 DEF ArgoInv, NameInv, Named
<1>7. WorkInv' /\ GuardInv'
  BY <1>1 DEF WorkInv, GuardInv
<1> QED
  BY <1>5, <1>6, <1>7

\* Every other call, and every failure, is the end of a Reconcile or leads to the
\* last read before the finalizer is set.
LEMMA EndKeeps ==
    ASSUME ArgoInv, NameTaken \/ UpdateFails \/ DeleteFails \/ CallFails \/ ReadFinalizers
    PROVE  VersionInv' /\ NameInv' /\ WorkInv' /\ GuardInv'
<1>1. UNCHANGED <<app, cache, client, argo>>
  BY DEF NameTaken, UpdateFails, DeleteFails, CallFails, ReadFinalizers, appsUnchanged
<1>2. \/ work'.pc = "idle"
      \/ work.pc = "guard" /\ work'.pc = "finalize" /\ work'.app = work.app
  BY ValueTypes DEF NameTaken, UpdateFails, DeleteFails, CallFails, ReadFinalizers,
     Requeue, Done, ArgoInv, TypeOK
<1>3. VersionInv' /\ NameInv'
  BY <1>1 DEF ArgoInv, VersionInv, NameInv
<1>4. WorkInv' /\ GuardInv'
  BY <1>1, <1>2 DEF ArgoInv, WorkInv, GuardInv
<1> QED
  BY <1>3, <1>4

LEMMA ArgoInit == Init => ArgoInv
<1> SUFFICES ASSUME Init PROVE ArgoInv
  OBVIOUS
<1>1. TypeOK
  BY TypeInit
<1>2. CreatedInv /\ WorkInv /\ GuardInv
  BY ValueTypes DEF Init, CreatedInv, WorkInv, GuardInv
<1>3. VersionInv /\ NameInv
  BY ValueTypes, ArgoAssumption DEF Init, VersionInv, Later, NameInv, Named, Names
<1> QED
  BY <1>1, <1>2, <1>3 DEF ArgoInv

LEMMA ArgoStep ==
    ASSUME "client" \notin Disturbances, ArgoInv, [Next]_vars
    PROVE  ArgoInv'
<1>1. TypeOK' /\ CreatedInv'
  BY TypeStep, CreatedStep DEF ArgoInv
<1>2. VersionInv' /\ NameInv' /\ WorkInv' /\ GuardInv'
  <2>1. CASE \E a \in Apps : Users(a)
    <3>1. PICK a \in Apps : Users(a)
      BY <2>1
    <3>2. \E o \in Application : UserStep(a, o)
      BY <3>1, UsersStep, ValueTypes
         DEF ClientReads, UpdateApplication, ArgoInv, VersionInv, Exists
    <3> QED
      BY <3>2, UserKeeps
  <2>2. CASE Restart \/ \E a \in Apps : Deliver(a)
    <3>1. /\ UNCHANGED <<app, client, argo>>
          /\ \A a \in Apps : cache'[a] \in {cache[a], app[a]}
          /\ work' = work \/ work'.pc = "idle"
      BY <2>2, ValueTypes DEF Restart, Deliver, ArgoInv, TypeOK
    <3> QED
      BY <3>1, NewsKeeps
  <2>3. CASE UNCHANGED vars
    <3>1. \A a \in Apps : cache'[a] \in {cache[a], app[a]}
      BY <2>3 DEF vars
    <3> QED
      BY <2>3, <3>1, NewsKeeps DEF vars
  <2>4. CASE \E a \in Apps : Take(a)
    BY <2>4, TakeKeeps
  <2>5. CASE Calls \/ DeleteFails \/ CallFails
    BY <2>5, CreateKeeps, ChangeKeeps, DeleteKeeps, LabelKeeps, FinalizeKeeps,
       ReleaseKeeps, EndKeeps DEF Calls
  <2> QED
    BY <2>1, <2>2, <2>3, <2>4, <2>5 DEF Next, Worker, Failures
<1> QED
  BY <1>1, <1>2 DEF ArgoInv

----------------------------------------------------------------------------
(* Deletion: when nobody sends back old objects *)

\* Among the steps of an Application in deletion, one lets it go.
LEMMA GoingStep ==
    ASSUME "client" \notin Disturbances, ArgoInv, Next, NEW a \in Apps,
           app[a].fin, app[a].st = "deleting", app'[a].st = "gone"
    PROVE  RemoveAppFinalizer /\ work.app = a
<1>1. CASE \E b \in Apps : Users(b)
  <2>1. PICK b \in Apps : Users(b)
    BY <1>1
  <2>2. PICK o \in Application : UserStep(b, o)
    BY <2>1, UsersStep, ValueTypes
       DEF ClientReads, UpdateApplication, ArgoInv, VersionInv, Exists
  <2>3. app' = [app EXCEPT ![b] = o]
    BY <2>2, PutType DEF UserStep, ArgoInv
  <2> QED
    BY <2>2, <2>3 DEF UserStep, ArgoInv, TypeOK
<1>2. CASE addArgoAppNameIntoLabels
  BY <1>2, LabelWrite DEF ArgoInv, TypeOK
<1>3. CASE setArgoProject
  BY <1>3, FinalizerWrite DEF ArgoInv, TypeOK
<1>4. CASE RemoveAppFinalizer
  <2>1. PICK o \in Application : app' = [app EXCEPT ![work.app] = o]
    BY <1>4, ReleaseWrite DEF ArgoInv
  <2> QED
    BY <1>4, <2>1 DEF ArgoInv, TypeOK
<1>5. CASE \/ Restart \/ (\E b \in Apps : Deliver(b) \/ Take(b))
           \/ CreateArgoApp \/ NameTaken \/ UpdateArgoApp \/ PassOnFinalizers \/ DeleteArgoApp
           \/ ReadFinalizers \/ UpdateFails \/ DeleteFails \/ CallFails
  <2>1. app' = app
    BY <1>5 DEF Restart, Deliver, Take, Ignore, BeginCreate, BeginGenerate, BeginUpdate,
       BeginDelete, BeginRelease, Begin, CreateArgoApp, NameTaken, UpdateArgoApp,
       PassOnFinalizers, DeleteArgoApp, ReadFinalizers, UpdateFails, DeleteFails,
       CallFails, appsUnchanged
  <2> QED
    BY <2>1
<1> QED
  BY <1>1, <1>2, <1>3, <1>4, <1>5 DEF Next, Worker, Calls, Failures

\* Among the steps of a Reconcile, one makes a counterpart go.
LEMMA DeletingStep ==
    ASSUME TypeOK, Next, NEW n \in Names, argo[n].st = "live", argo'[n].st = "gone"
    PROVE  DeleteArgoApp /\ work.name = n
<1>1. CASE UpdateArgoApp \/ PassOnFinalizers \/ DeleteArgoApp
  BY <1>1, CounterpartWrite DEF TypeOK
<1>2. CASE CreateArgoApp
  BY <1>2, Creation DEF createUnstructuredApplication, TypeOK
<1>3. CASE \E a \in Apps : Users(a)
  BY <1>3, UsersStep DEF UserStep, ClientReads, UpdateApplication
<1>4. CASE \/ Restart \/ (\E a \in Apps : Deliver(a) \/ Take(a))
           \/ NameTaken \/ addArgoAppNameIntoLabels \/ ReadFinalizers \/ setArgoProject
           \/ RemoveAppFinalizer \/ UpdateFails \/ DeleteFails \/ CallFails
  <2>1. argo' = argo
    BY <1>4 DEF Restart, Deliver, Take, Ignore, BeginCreate, BeginGenerate, BeginUpdate,
       BeginDelete, BeginRelease, Begin, NameTaken, addArgoAppNameIntoLabels,
       ReadFinalizers, setArgoProject, RemoveAppFinalizer, UpdateFails, DeleteFails, CallFails
  <2> QED
    BY <2>1
<1> QED
  BY <1>1, <1>2, <1>3, <1>4 DEF Next, Worker, Calls, Failures

\* CounterpartGoesFirst: reconcileArgoApplication takes the finalizer off only when the
\* counterpart the label names is gone, whatever fails, lags behind or restarts.
THEOREM CounterpartsGoFirst ==
    ASSUME "client" \notin Disturbances
    PROVE  Spec => CounterpartGoesFirst
<1>1. ASSUME ArgoInv, Next, NEW a \in Apps,
             app[a].fin, app[a].st = "deleting", app'[a].st = "gone"
      PROVE  app[a].label # NoName /\ argo[app[a].label].st = "gone"
  <2>1. work.pc = "release" /\ work.app = a
    BY <1>1, GoingStep DEF RemoveAppFinalizer
  <2> QED
    BY <1>1, <2>1 DEF ArgoInv, VersionInv, Later, GuardInv
<1>2. ArgoInv /\ [Next]_vars =>
        [\A a \in Apps :
            app[a].fin /\ app[a].st = "deleting" /\ app'[a].st = "gone" =>
                app[a].label # NoName /\ argo[app[a].label].st = "gone"]_vars
  BY <1>1
<1> QED
  BY <1>2, ArgoInit, ArgoStep, PTL DEF Spec, CounterpartGoesFirst

\* CascadeIsPassedOn: DeleteArgoApp deletes the counterpart of an Application that is
\* deleted with all it has deployed only after the finalizer is on the counterpart.
THEOREM CascadesArePassedOn ==
    ASSUME "client" \notin Disturbances
    PROVE  Spec => CascadeIsPassedOn
<1>1. ASSUME ArgoInv, Next, NEW a \in Apps, NEW n \in Names,
             app[a].st = "deleting", app[a].cascade, work.app = a,
             argo[n].owner = a, argo[n].st = "live", argo'[n].st = "gone"
      PROVE  argo[n].cascade
  <2>1. work.pc = "delete" /\ work.name = n
    BY <1>1, DeletingStep DEF ArgoInv, DeleteArgoApp
  <2> QED
    BY <1>1, <2>1 DEF ArgoInv, WorkInv
<1>2. ArgoInv /\ [Next]_vars =>
        [\A a \in Apps, n \in Names :
            /\ app[a].st = "deleting" /\ app[a].cascade /\ work.app = a
            /\ argo[n].owner = a /\ argo[n].st = "live" /\ argo'[n].st = "gone"
            => argo[n].cascade]_vars
  BY <1>1
<1> QED
  BY <1>2, ArgoInit, ArgoStep, PTL DEF Spec, CascadeIsPassedOn
=============================================================================
