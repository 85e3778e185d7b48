-------------------- MODULE PipelineRunControllerProofs --------------------
(***************************************************************************)
(* Proofs about PipelineRunController, for any runs, builds, data store    *)
(* and disturbances.                                                       *)
(***************************************************************************)
EXTENDS PipelineRunController, TLAPS

\* What is not created yet is well formed.
LEMMA AbsentType == NoData \in RunData /\ Absent \in PipelineRun
BY DEF PipelineRun, Absent, RunData, NoData, Seen, Phases

\* Every object the controller or a user writes is a well-formed PipelineRun.
LEMMA ObjectTypes ==
    ASSUME NEW o \in PipelineRun
    PROVE  /\ Deleted(o) \in PipelineRun
           /\ [Absent EXCEPT !.st = "live"] \in PipelineRun
           /\ \A b \in Builds : [Absent EXCEPT !.st = "live", !.id = b] \in PipelineRun
           /\ [o EXCEPT !.fin = FALSE, !.st = "gone"] \in PipelineRun
           /\ \A i \in Builds \cup {NoBuild}, r \in BOOLEAN, d \in RunData :
                 [o EXCEPT !.id = i, !.orphan = r, !.data = d, !.fin = TRUE] \in PipelineRun
           /\ \A f \in Phases, b \in Builds \cup {NoBuild} :
                 [o EXCEPT !.phase = f, !.src = b] \in PipelineRun
BY DEF PipelineRun, Absent, Deleted, RunData, NoData, Seen, Phases

\* An idle worker, and one that moves on to another call, is well formed.
LEMMA WorkTypes ==
    /\ Idle \in Work
    /\ \A w \in Work, c \in Calls, b \in BOOLEAN :
          /\ [w EXCEPT !.pc = c] \in Work
          /\ [w EXCEPT !.current = b] \in Work
          /\ \A g \in Builds : [w EXCEPT !.pc = c, !.got = g] \in Work
          /\ \A s \in Seen : [w EXCEPT !.pc = c, !.seen = s] \in Work
          /\ \A p \in Runs, o \in PipelineRun :
                [Idle EXCEPT !.pc = c, !.run = p, !.copy = o, !.current = b] \in Work
<1>2. Idle \in Work
  BY AbsentType DEF Work, Idle, Seen
<1>3. ASSUME NEW w \in Work, NEW c \in Calls, NEW b \in BOOLEAN
      PROVE  /\ [w EXCEPT !.pc = c] \in Work
             /\ [w EXCEPT !.current = b] \in Work
  BY DEF Work
<1>4. ASSUME NEW w \in Work, NEW c \in Calls, NEW g \in Builds
      PROVE  [w EXCEPT !.pc = c, !.got = g] \in Work
  BY DEF Work
<1>5. ASSUME NEW w \in Work, NEW c \in Calls, NEW s \in Seen
      PROVE  [w EXCEPT !.pc = c, !.seen = s] \in Work
  BY DEF Work
<1>6. ASSUME NEW c \in Calls, NEW b \in BOOLEAN, NEW p \in Runs, NEW o \in PipelineRun
      PROVE  [Idle EXCEPT !.pc = c, !.run = p, !.copy = o, !.current = b] \in Work
  BY <1>2 DEF Work
<1> QED
  BY <1>2, <1>3, <1>4, <1>5, <1>6

----------------------------------------------------------------------------
(* The inductive invariant *)

\* The phases of a Reconcile that has not found a run ID, and of one that has.
FirstRun == {"trigger", "check", "writeId", "writeStart"}
Following == {"poll", "store", "writeStatus"}
Deleting == {"deleteHistory", "removeFinalizer"}

\* What is not outdated is the same as in the API server.  The worker's copy
\* matters where it is sent as it is, in the deletion branch.
FreshInv ==
    /\ \A p \in fresh : cache[p] = api[p]
    /\ work.pc \in Deleting /\ work.current => work.copy = api[work.run]

\* A run that is not created yet, or that has no Pipeline, has not started, and
\* a copy of a run that has started is the copy of a run that has started.
StartInv ==
    /\ \A p \in Runs : api[p].st = "absent" =>
          ~HasStarted(api[p]) /\ ~Reported(api[p]) /\ ~api[p].fin
    /\ \A p \in NoRef : ~HasStarted(api[p])
    /\ \A p \in Runs : HasStarted(cache[p]) => HasStarted(api[p])
    /\ work.pc # "idle" /\ HasStarted(work.copy) => HasStarted(api[work.run])
    /\ \A p \in Runs : api[p].st = "absent" => cache[p].st = "absent"
    /\ work.pc # "idle" => api[work.run].st # "absent"

\* A run created for a build keeps to it, and is never seen without it.
AdoptInv ==
    /\ \A p \in adopted :
          /\ HasStarted(api[p]) /\ p \notin NoRef
          /\ cache[p].st = "absent" \/ cache[p].id = api[p].id
    /\ work.pc # "idle" /\ work.run \in adopted => work.copy.id = api[work.run].id

\* Run IDs, wherever they are kept, are those of builds Jenkins accepted.
AcceptInv ==
    /\ RunIdIsAccepted
    /\ \A p \in Runs : HasStarted(cache[p]) => cache[p].id \in asked[p]
    /\ work.pc # "idle" /\ HasStarted(work.copy) => work.copy.id \in asked[work.run]
    /\ work.pc # "idle" /\ work.got # NoBuild => work.got \in asked[work.run]
    /\ \A p \in Runs : \A b \in asked[p] : builds[b] # "unused"

\* What the worker knows at each of its calls.
WorkInv ==
    /\ work.pc \in {"check", "writeId"} => work.got # NoBuild
    /\ work.pc \in FirstRun => ~HasStarted(work.copy)
    /\ work.pc \in Following => HasStarted(work.copy)
    /\ work.pc \in Deleting => work.copy.st = "deleting"
    /\ work.pc = "orphan" => work.run \in NoRef
    /\ work.pc \in FirstRun \cup Following => work.run \notin NoRef
    /\ work.pc = "removeFinalizer" /\ HasStarted(work.copy) => work.copy.id \in CleanedUp

\* Once a run is reported on, nobody has a copy of it with another run ID.
ReportInv ==
    /\ \A p \in Runs : Reported(api[p]) => HasStarted(api[p]) /\ cache[p].id = api[p].id
    /\ work.pc # "idle" /\ Reported(api[work.run]) => work.copy.id = api[work.run].id

IInv ==
    /\ TypeOK
    /\ FreshInv
    /\ StartInv
    /\ AcceptInv
    /\ WorkInv
    /\ ReportInv
    /\ AdoptInv
    /\ StartedRunHasFinalizer

----------------------------------------------------------------------------
(* Types *)

\* Writing a well-formed object leaves the API server well formed.
LEMMA PutTypes ==
    ASSUME TypeOK, NEW p \in Runs, NEW o \in PipelineRun, Put(p, o)
    PROVE  api' \in [Runs -> PipelineRun] /\ fresh' \subseteq Runs
BY DEF TypeOK, Put

\* So does an update of the labels and annotations, retried on conflict.
LEMMA LabelTypes ==
    ASSUME TypeOK, NEW p \in Runs, NEW i \in Builds \cup {NoBuild}, NEW r \in BOOLEAN,
           NEW d \in RunData, updateLabelsAndAnnotations(p, i, r, d)
    PROVE  api' \in [Runs -> PipelineRun] /\ fresh' \subseteq Runs
<1>1. [api[p] EXCEPT !.id = i, !.orphan = r, !.data = d, !.fin = TRUE] \in PipelineRun
  BY ObjectTypes DEF TypeOK
<1>2. CASE UNCHANGED <<api, fresh>>
  BY <1>2 DEF TypeOK
<1>3. CASE Put(p, [api[p] EXCEPT !.id = i, !.orphan = r, !.data = d, !.fin = TRUE])
  BY <1>1, <1>3, PutTypes
<1> QED
  BY <1>2, <1>3 DEF updateLabelsAndAnnotations

\* And an update of the status.
LEMMA StatusTypes ==
    ASSUME TypeOK, NEW p \in Runs, NEW f \in Phases, NEW b \in Builds \cup {NoBuild},
           updateStatus(p, f, b)
    PROVE  api' \in [Runs -> PipelineRun] /\ fresh' \subseteq Runs
<1>1. [api[p] EXCEPT !.phase = f, !.src = b] \in PipelineRun
  BY ObjectTypes DEF TypeOK
<1> QED
  BY <1>1, PutTypes DEF updateStatus

LEMMA TypeInit == Init => TypeOK
<1>1. Idle \in Work /\ Idle.pc = "idle"
  BY WorkTypes DEF Idle
<1> QED
  BY <1>1, AbsentType DEF Init, TypeOK, BuildStates

\* Every action leaves every variable well formed.
LEMMA TypeStep == TypeOK /\ [Next]_vars => TypeOK'
<1> SUFFICES ASSUME TypeOK, [Next]_vars PROVE TypeOK'
  OBVIOUS
<1> USE DEF k8sVars, auxVars
<1>1. ASSUME NEW p \in Runs, createPipelineRun(p) PROVE TypeOK'
  <2>1. [Absent EXCEPT !.st = "live"] \in PipelineRun
    BY AbsentType, ObjectTypes
  <2>2. api' \in [Runs -> PipelineRun] /\ fresh' \subseteq Runs
    BY <1>1, <2>1, PutTypes DEF createPipelineRun
  <2> QED
    BY <1>1, <2>2 DEF createPipelineRun, TypeOK
<1>a. ASSUME NEW p \in Runs, NEW b \in Builds, AdoptBuild(p, b) PROVE TypeOK'
  <2>1. [Absent EXCEPT !.st = "live", !.id = b] \in PipelineRun
    BY AbsentType, ObjectTypes
  <2>2. api' \in [Runs -> PipelineRun] /\ fresh' \subseteq Runs
    BY <1>a, <2>1, PutTypes DEF AdoptBuild
  <2> QED
    BY <1>a, <2>2 DEF AdoptBuild, TypeOK
<1>2. ASSUME NEW p \in Runs, EditRun(p) PROVE TypeOK'
  <2>1. api' \in [Runs -> PipelineRun] /\ fresh' \subseteq Runs
    BY <1>2, PutTypes DEF EditRun, TypeOK
  <2>2. work' \in Work /\ work'.pc = work.pc /\ work'.run = work.run
    BY <1>2 DEF EditRun, Outdate, TypeOK, Work
  <2> QED
    BY <1>2, <2>1, <2>2 DEF EditRun, TypeOK
<1>3. ASSUME NEW p \in Runs, DeleteRun(p) PROVE TypeOK'
  <2>1. Deleted(api[p]) \in PipelineRun
    BY ObjectTypes DEF TypeOK
  <2>2. api' \in [Runs -> PipelineRun] /\ fresh' \subseteq Runs
    BY <1>3, <2>1, PutTypes DEF DeleteRun
  <2>3. work' \in Work /\ work'.pc = work.pc /\ work'.run = work.run
    BY <1>3 DEF DeleteRun, Outdate, TypeOK, Work
  <2> QED
    BY <1>3, <2>2, <2>3 DEF DeleteRun, TypeOK
<1>4. CASE RemovePipeline
  BY <1>4 DEF RemovePipeline, TypeOK, BuildStates
<1>5. CASE SyncCache
  BY <1>5 DEF SyncCache, TypeOK
<1>6. CASE Restart
  BY <1>6, WorkTypes DEF Restart, TypeOK, Idle
<1>7. ASSUME NEW b \in Builds, Jenkins(b) PROVE TypeOK'
  BY <1>7 DEF Jenkins, StartElsewhere, BuildStarts, BuildFinishes, SkipBuild, CancelQueued, DiscardBuild, TypeOK, BuildStates
<1>8. ASSUME NEW p \in Runs, NEW c \in Calls, Begin(p, c) PROVE TypeOK'
  <2>1. work' \in Work
    <3>1. cache[p] \in PipelineRun /\ (p \in fresh) \in BOOLEAN
      BY DEF TypeOK
    <3>2. work' = [Idle EXCEPT !.pc = c, !.run = p, !.copy = cache[p], !.current = p \in fresh]
      BY <1>8 DEF Begin
    <3> QED
      BY <3>1, <3>2, WorkTypes
  <2>2. work'.run = p
    BY <1>8 DEF Begin, Idle
  <2> QED
    BY <1>8, <2>1, <2>2 DEF Begin, TypeOK
<1>9. ASSUME NEW p \in Runs, Take(p) PROVE TypeOK'
  <2>1. CASE Ignore(p)
    BY <2>1 DEF Ignore, TypeOK
  <2> QED
    BY <1>8, <1>9, <2>1 DEF Take, BeginDelete, BeginOrphan, BeginPoll, BeginTrigger, Calls
<1>10. Idle \in Work /\ Idle.pc = "idle"
  BY WorkTypes DEF Idle
<1>11. CASE Fail
  BY <1>10, <1>11 DEF Fail, UpdateFails, SaveConflict, CallFails, TriggerReplyLost, Accept, Requeue, TypeOK, BuildStates, Calls
<1>12. CASE triggerJenkinsJob
  <2>1. work' \in Work
    <3>1. PICK b \in Builds : work' = [work EXCEPT !.pc = "check", !.got = b]
      BY <1>12 DEF triggerJenkinsJob
    <3> QED
      BY <3>1 DEF TypeOK, Work, Calls
  <2>2. work.run \in Runs /\ work'.run = work.run
    BY <1>12 DEF triggerJenkinsJob, TypeOK, Work
  <2> QED
    BY <1>12, <2>1, <2>2 DEF triggerJenkinsJob, Accept, TypeOK, BuildStates
<1>13. CASE GiveUp
  <2>1. work.run \in Runs
    BY <1>13 DEF GiveUp, TypeOK
  <2>2. Deleted(api[work.run]) \in PipelineRun
    BY <2>1, ObjectTypes DEF TypeOK
  <2>3. api' \in [Runs -> PipelineRun] /\ fresh' \subseteq Runs
    BY <1>13, <2>1, <2>2, PutTypes DEF GiveUp, TypeOK
  <2> QED
    BY <1>10, <1>13, <2>3 DEF GiveUp, Done, TypeOK
<1>14. ASSUME NEW c \in Calls, Goto(c), work.run \in Runs
       PROVE  work' \in Work /\ work'.run \in Runs /\ queue' \subseteq Runs
  BY <1>14, WorkTypes DEF Goto, TypeOK, Work
<1>15. CASE NoSameRun
  BY <1>14, <1>15 DEF NoSameRun, TypeOK, Calls
<1>16. CASE WriteRunId
  <2>1. work.run \in Runs /\ work.copy.orphan \in BOOLEAN /\ work.copy.data \in RunData
        /\ work.got \in Builds \cup {NoBuild}
    BY <1>16 DEF WriteRunId, TypeOK, Work, PipelineRun
  <2>2. api' \in [Runs -> PipelineRun] /\ fresh' \subseteq Runs
    BY <1>16, <2>1, LabelTypes DEF WriteRunId
  <2> QED
    BY <1>14, <1>16, <2>1, <2>2 DEF WriteRunId, TypeOK, Calls
<1>17. CASE WriteStartTime
  <2>1. work.run \in Runs /\ work.copy.src \in Builds \cup {NoBuild}
    BY <1>17 DEF WriteStartTime, TypeOK, Work, PipelineRun
  <2>2. api' \in [Runs -> PipelineRun] /\ fresh' \subseteq Runs
    BY <1>17, <2>1, StatusTypes DEF WriteStartTime, Phases
  <2> QED
    BY <1>10, <1>17, <2>2 DEF WriteStartTime, Done, TypeOK
<1>18. CASE makePipelineRunOrphan
  <2>1. work.run \in Runs /\ work.copy.id \in Builds \cup {NoBuild} /\ work.copy.data \in RunData
    BY <1>18 DEF makePipelineRunOrphan, TypeOK, Work, PipelineRun
  <2>2. api' \in [Runs -> PipelineRun] /\ fresh' \subseteq Runs
    BY <1>18, <2>1, LabelTypes DEF makePipelineRunOrphan
  <2> QED
    BY <1>10, <1>18, <2>2 DEF makePipelineRunOrphan, Done, TypeOK
<1>19. CASE PollMissing
  BY <1>10, <1>19 DEF PollMissing, Requeue, TypeOK
<1>20. CASE getPipelineRunResult
  <2>1. work' \in Work
    BY <1>20, WorkTypes DEF getPipelineRunResult, SeenOf, TypeOK, Calls, Seen
  <2>2. work.run \in Runs /\ work'.run = work.run
    BY <1>20 DEF getPipelineRunResult, TypeOK, Work
  <2> QED
    BY <1>20, <2>1, <2>2 DEF getPipelineRunResult, TypeOK
<1>21. CASE storePipelineRunData
  <2>1. work.run \in Runs /\ work.copy.id \in Builds \cup {NoBuild} /\ work.copy.orphan \in BOOLEAN
    BY <1>21 DEF storePipelineRunData, TypeOK, Work, PipelineRun
  <2>2. [of |-> work.copy.id, seen |-> work.seen] \in RunData
    BY <2>1 DEF TypeOK, Work, RunData
  <2>3. CASE StoreInAnnotations
    <3>1. api' \in [Runs -> PipelineRun] /\ fresh' \subseteq Runs
      BY <2>1, <2>2, <2>3, LabelTypes DEF StoreInAnnotations
    <3> QED
      BY <1>14, <1>21, <2>1, <2>3, <3>1 DEF storePipelineRunData, StoreInAnnotations, TypeOK, Calls
  <2>4. CASE StoreInConfigMap
    <3>1. configMaps' \in [Runs -> RunData]
      BY <2>1, <2>2, <2>4 DEF StoreInConfigMap, TypeOK
    <3> QED
      BY <1>14, <1>21, <2>1, <2>4, <3>1 DEF storePipelineRunData, StoreInConfigMap, TypeOK, Calls
  <2> QED
    BY <1>21, <2>3, <2>4 DEF storePipelineRunData
<1>22. CASE WriteStatus
  <2>1. work.run \in Runs /\ work.copy.id \in Builds \cup {NoBuild}
    BY <1>22 DEF WriteStatus, TypeOK, Work, PipelineRun
  <2>2. api' \in [Runs -> PipelineRun] /\ fresh' \subseteq Runs
    BY <1>22, <2>1, StatusTypes DEF WriteStatus, Phases
  <2> QED
    BY <1>10, <1>22, <2>1, <2>2 DEF WriteStatus, Requeue, TypeOK
<1>23. CASE deleteJenkinsJobHistory
  BY <1>14, <1>23 DEF deleteJenkinsJobHistory, TypeOK, Calls, BuildStates, Work, PipelineRun, HasStarted
<1>24. CASE RemoveFinalizer
  <2>1. work.run \in Runs /\ work.copy \in PipelineRun
    BY <1>24 DEF RemoveFinalizer, TypeOK, Work
  <2>2. [work.copy EXCEPT !.fin = FALSE, !.st = "gone"] \in PipelineRun
    BY <2>1, ObjectTypes
  <2>3. api' \in [Runs -> PipelineRun] /\ fresh' \subseteq Runs
    BY <1>24, <2>1, <2>2, PutTypes DEF RemoveFinalizer
  <2> QED
    BY <1>10, <1>24, <2>3 DEF RemoveFinalizer, Done, TypeOK
<1>25. CASE RemoveFinalizerConflict
  BY <1>10, <1>25 DEF RemoveFinalizerConflict, Requeue, TypeOK
<1>26. CASE UNCHANGED vars
  BY <1>26 DEF vars, TypeOK
<1> QED
  BY <1>1, <1>a, <1>2, <1>3, <1>4, <1>5, <1>6, <1>7, <1>9, <1>11, <1>12, <1>13, <1>15, <1>16, <1>17,
     <1>18, <1>19, <1>20, <1>21, <1>22, <1>23, <1>24, <1>25, <1>26
     DEF Next, Users, CollectGarbage, Proceed

\* TypeOK: every variable keeps to its type, whoever acts and whatever fails.
THEOREM TypeCorrect == Spec => []TypeOK
  BY TypeInit, TypeStep, PTL DEF Spec

----------------------------------------------------------------------------
(* What the writes change of the fields the invariants are about *)

\* An update of labels and annotations gives an existing run its new run ID and
\* the finalizer, or finds nothing to do; the other fields stay.
LEMMA LabelEffect ==
    ASSUME TypeOK, FreshInv, NEW p \in Runs, NEW i, NEW r, NEW d,
           updateLabelsAndAnnotations(p, i, r, d)
    PROVE  /\ \A q \in Runs \ {p} : api'[q] = api[q] /\ (q \in fresh' <=> q \in fresh)
           /\ \/ api' = api /\ fresh' = fresh /\ cache[p].id = i
              \/ /\ p \in fresh /\ p \notin fresh' /\ Exists(api[p]) /\ cache[p] = api[p]
                 /\ api'[p].id = i /\ api'[p].fin
                 /\ api'[p].st = api[p].st /\ api'[p].phase = api[p].phase
<1> DEFINE new == [api[p] EXCEPT !.id = i, !.orphan = r, !.data = d, !.fin = TRUE]
<1>1. \/ cache[p].id = i /\ api' = api /\ fresh' = fresh
      \/ p \in fresh /\ Exists(cache[p]) /\ Put(p, new)
  BY DEF updateLabelsAndAnnotations
<1>2. CASE p \in fresh /\ Exists(cache[p]) /\ Put(p, new)
  <2>1. new.id = i /\ new.fin /\ new.st = api[p].st /\ new.phase = api[p].phase
    BY DEF TypeOK, PipelineRun
  <2>2. api' = [api EXCEPT ![p] = new] /\ fresh' = fresh \ {p} /\ cache[p] = api[p]
    BY <1>2 DEF Put, FreshInv
  <2> QED
    BY <1>2, <2>1, <2>2 DEF TypeOK
<1> QED
  BY <1>1, <1>2

\* An update of the status gives an existing run its new phase.
LEMMA StatusEffect ==
    ASSUME TypeOK, FreshInv, NEW p \in Runs, NEW f, NEW b, updateStatus(p, f, b)
    PROVE  /\ \A q \in Runs \ {p} : api'[q] = api[q] /\ (q \in fresh' <=> q \in fresh)
           /\ p \in fresh /\ p \notin fresh' /\ Exists(api[p]) /\ cache[p] = api[p]
           /\ api'[p].id = api[p].id /\ api'[p].fin = api[p].fin
           /\ api'[p].st = api[p].st /\ api'[p].phase = f
BY DEF updateStatus, Put, TypeOK, FreshInv, PipelineRun, Exists

\* A deletion leaves all but the presence of the run.
LEMMA DeleteEffect ==
    ASSUME TypeOK, NEW p \in Runs, Put(p, Deleted(api[p]))
    PROVE  /\ \A q \in Runs \ {p} : api'[q] = api[q] /\ (q \in fresh' <=> q \in fresh)
           /\ p \notin fresh'
           /\ api'[p].id = api[p].id /\ api'[p].fin = api[p].fin /\ api'[p].phase = api[p].phase
           /\ api'[p].st = IF api[p].fin THEN "deleting" ELSE "gone"
BY DEF Put, Deleted, TypeOK, PipelineRun

\* Removing the finalizer lets the run go, otherwise as it is.
LEMMA RemoveEffect ==
    ASSUME TypeOK, FreshInv, RemoveFinalizer
    PROVE  /\ work.run \in Runs /\ work.copy = api[work.run] /\ work' = Idle
           /\ \A q \in Runs \ {work.run} : api'[q] = api[q] /\ (q \in fresh' <=> q \in fresh)
           /\ work.run \notin fresh'
           /\ api'[work.run].id = api[work.run].id /\ api'[work.run].phase = api[work.run].phase
           /\ api'[work.run].st = "gone" /\ ~api'[work.run].fin
BY DEF RemoveFinalizer, Done, Put, TypeOK, FreshInv, PipelineRun, Deleting, Work

\* A new run has not started.
LEMMA CreateEffect ==
    ASSUME TypeOK, NEW p \in Runs, createPipelineRun(p)
    PROVE  /\ \A q \in Runs \ {p} : api'[q] = api[q] /\ (q \in fresh' <=> q \in fresh)
           /\ p \notin fresh' /\ api[p].st = "absent"
           /\ api'[p].id = NoBuild /\ api'[p].st = "live" /\ api'[p].phase = "None"
           /\ ~api'[p].fin
BY DEF createPipelineRun, Put, TypeOK, Absent

\* A run created for a build has its run ID, and no finalizer.
LEMMA AdoptEffect ==
    ASSUME TypeOK, NEW p \in Runs, NEW b \in Builds, AdoptBuild(p, b)
    PROVE  /\ \A q \in Runs \ {p} : api'[q] = api[q] /\ (q \in fresh' <=> q \in fresh)
           /\ \A q \in Runs \ {p} : q \in adopted' <=> q \in adopted
           /\ p \notin fresh' /\ api[p].st = "absent" /\ p \in adopted' /\ p \notin NoRef
           /\ api'[p].id = b /\ api'[p].st = "live" /\ api'[p].phase = "None"
           /\ ~api'[p].fin /\ b \in asked'[p]
BY DEF AdoptBuild, Put, TypeOK, Absent

\* The worker's state after each of the ways to leave a call.
LEMMA Moves ==
    ASSUME TypeOK
    PROVE  /\ Idle.pc = "idle"
           /\ Requeue \/ Done => work' = Idle
           /\ \A c : Goto(c) =>
                 /\ work'.pc = c /\ work'.run = work.run /\ work'.copy = work.copy
                 /\ work'.got = work.got /\ work'.current = work.current
BY DEF Idle, Requeue, Done, Goto, TypeOK, Work

----------------------------------------------------------------------------
(* The invariant is inductive *)

LEMMA InvInit == Init => IInv
<1> SUFFICES ASSUME Init PROVE IInv
  OBVIOUS
<1>1. /\ \A p \in Runs : api[p] = Absent /\ cache[p] = Absent /\ asked[p] = {}
      /\ work.pc = "idle"
  BY DEF Init, Idle
<1>2. ~HasStarted(Absent) /\ ~Reported(Absent) /\ ~Exists(Absent) /\ ~Absent.fin
  BY DEF Absent, HasStarted, Reported, Exists
<1>3. FreshInv
  BY <1>1 DEF FreshInv, Deleting, Init
<1>4. StartInv
  BY <1>1, <1>2, ConstantsAssumption DEF StartInv
<1>5. AcceptInv
  BY <1>1, <1>2 DEF AcceptInv, RunIdIsAccepted
<1>6. WorkInv
  BY <1>1 DEF WorkInv, FirstRun, Following, Deleting
<1>7. ReportInv /\ AdoptInv /\ StartedRunHasFinalizer
  BY <1>1, <1>2 DEF ReportInv, AdoptInv, StartedRunHasFinalizer, Init
<1> QED
  BY <1>3, <1>4, <1>5, <1>6, <1>7, TypeInit DEF IInv

\* The copies that count as current are current.
LEMMA FreshStep == IInv /\ TypeOK' /\ [Next]_vars => FreshInv'
<1> SUFFICES ASSUME IInv, TypeOK', [Next]_vars PROVE FreshInv'
  OBVIOUS
<1> USE DEF IInv, k8sVars, auxVars
<1>1. ASSUME NEW p \in Runs, createPipelineRun(p) PROVE FreshInv'
  BY <1>1, CreateEffect DEF createPipelineRun, FreshInv, WorkInv, TypeOK, Deleting
<1>a. ASSUME NEW p \in Runs, NEW b \in Builds, AdoptBuild(p, b) PROVE FreshInv'
  <2>1. /\ \A q \in Runs \ {p} : api'[q] = api[q] /\ (q \in fresh' <=> q \in fresh)
        /\ p \notin fresh' /\ api[p].st = "absent"
    BY <1>a, AdoptEffect
  <2>2. UNCHANGED <<cache, work>>
    BY <1>a DEF AdoptBuild
  <2>3. work.pc \in Deleting => work.run \in Runs \ {p}
    BY <2>1 DEF StartInv, TypeOK, Deleting
  <2> QED
    BY <2>1, <2>2, <2>3 DEF FreshInv, TypeOK
<1>2. ASSUME NEW p \in Runs, EditRun(p) PROVE FreshInv'
  BY <1>2 DEF EditRun, Put, Outdate, FreshInv, TypeOK, Work
<1>3. ASSUME NEW p \in Runs, DeleteRun(p) PROVE FreshInv'
  <2>1. work'.pc = work.pc /\ work'.run = work.run /\ work'.copy = work.copy
        /\ (work'.current => work.current /\ work.run # p)
    BY <1>3 DEF DeleteRun, Outdate, TypeOK, Work
  <2> QED
    BY <1>3, <2>1, DeleteEffect DEF DeleteRun, FreshInv, TypeOK, Deleting
<1>4. CASE SyncCache \/ Restart
  BY <1>4 DEF SyncCache, Restart, FreshInv, Deleting, Idle, TypeOK
<1>5. ASSUME NEW p \in Runs, NEW c \in Calls, Begin(p, c) PROVE FreshInv'
  BY <1>5 DEF Begin, FreshInv, TypeOK, Idle
<1>6. ASSUME NEW p \in Runs, Take(p) PROVE FreshInv'
  BY <1>5, <1>6 DEF Take, Ignore, BeginDelete, BeginOrphan, BeginPoll, BeginTrigger, Calls, FreshInv
<1>7. ASSUME UNCHANGED <<api, cache, fresh>>, work'.pc \notin Deleting PROVE FreshInv'
  BY <1>7 DEF FreshInv
<1>8. CASE Fail \/ triggerJenkinsJob \/ NoSameRun \/ PollMissing \/ getPipelineRunResult
           \/ RemoveFinalizerConflict
  <2>1. UNCHANGED <<api, cache, fresh>>
    BY <1>8 DEF Fail, UpdateFails, SaveConflict, CallFails, TriggerReplyLost, triggerJenkinsJob, NoSameRun,
                PollMissing, getPipelineRunResult, RemoveFinalizerConflict
  <2>2. work'.pc \in {"idle", "check", "writeId", "store"}
    BY <1>8, Moves DEF Fail, UpdateFails, SaveConflict, CallFails, TriggerReplyLost, triggerJenkinsJob,
                       NoSameRun, PollMissing, getPipelineRunResult, RemoveFinalizerConflict,
                       TypeOK, Work
  <2> QED
    BY <1>7, <2>1, <2>2 DEF Deleting
<1>9. CASE GiveUp
  BY <1>9, DeleteEffect, Moves DEF GiveUp, FreshInv, Deleting, TypeOK
<1>10. ASSUME cache' = cache, work'.pc \notin Deleting, work.run \in Runs,
              NEW i, NEW r, NEW d, updateLabelsAndAnnotations(work.run, i, r, d)
       PROVE  FreshInv'
  BY <1>10, LabelEffect DEF FreshInv, TypeOK
<1>11. ASSUME cache' = cache, work'.pc \notin Deleting, work.run \in Runs,
              NEW f, NEW b, updateStatus(work.run, f, b)
       PROVE  FreshInv'
  BY <1>11, StatusEffect DEF FreshInv, TypeOK
<1>12. CASE WriteRunId \/ makePipelineRunOrphan
  <2>1. cache' = cache /\ work.run \in Runs /\ (Goto("writeStart") \/ Done)
    BY <1>12 DEF WriteRunId, makePipelineRunOrphan, TypeOK
  <2>2. work'.pc \notin Deleting
    BY <2>1, Moves DEF Deleting
  <2> QED
    BY <1>10, <1>12, <2>1, <2>2 DEF WriteRunId, makePipelineRunOrphan
<1>13. CASE WriteStartTime \/ WriteStatus
  <2>1. cache' = cache /\ work'.pc \notin Deleting /\ work.run \in Runs
    BY <1>13, Moves DEF WriteStartTime, WriteStatus, Deleting, TypeOK
  <2> QED
    BY <1>11, <1>13, <2>1 DEF WriteStartTime, WriteStatus
<1>14. CASE storePipelineRunData
  <2>1. cache' = cache /\ work'.pc \notin Deleting /\ work.run \in Runs
    BY <1>14, Moves DEF storePipelineRunData, Deleting, TypeOK
  <2> QED
    BY <1>7, <1>10, <1>14, <2>1 DEF storePipelineRunData, StoreInAnnotations, StoreInConfigMap
<1>15. CASE deleteJenkinsJobHistory
  BY <1>15, Moves DEF deleteJenkinsJobHistory, FreshInv, Deleting
<1>16. CASE RemoveFinalizer
  <2>1. cache' = cache /\ work'.pc \notin Deleting
    BY <1>16, RemoveEffect, Moves DEF RemoveFinalizer, Deleting
  <2> QED
    BY <1>16, <2>1, RemoveEffect DEF FreshInv, TypeOK
<1>17. CASE RemovePipeline \/ (\E b \in Builds : Jenkins(b)) \/ UNCHANGED vars
  BY <1>17 DEF RemovePipeline, Jenkins, StartElsewhere, BuildStarts, BuildFinishes, SkipBuild, CancelQueued, DiscardBuild,
               vars, FreshInv
<1> QED
  BY <1>1, <1>a, <1>2, <1>3, <1>4, <1>6, <1>8, <1>9, <1>12, <1>13, <1>14, <1>15, <1>16, <1>17
     DEF Next, Users, CollectGarbage, Proceed

----------------------------------------------------------------------------
(* What any step may do to a run, to the worker, to the cache and to Jenkins *)

Same(p) ==
    /\ api'[p].st = api[p].st /\ api'[p].id = api[p].id
    /\ api'[p].fin = api[p].fin /\ api'[p].phase = api[p].phase

Created(p) ==
    /\ api[p].st = "absent" /\ api'[p].st = "live"
    /\ api'[p].id = NoBuild /\ api'[p].phase = "None" /\ ~api'[p].fin

Adopted(p) ==
    /\ api[p].st = "absent" /\ api'[p].st = "live"
    /\ api'[p].id \in Builds /\ api'[p].phase = "None" /\ ~api'[p].fin
    /\ p \in adopted' /\ p \notin NoRef /\ api'[p].id \in asked'[p]
    /\ UNCHANGED <<cache, work>>

\* Only a run the controller started, and not reported on, is given another run ID.
Named(p) ==
    /\ Exists(api[p]) /\ api'[p].st = api[p].st /\ api'[p].phase = api[p].phase
    /\ api'[p].fin
    /\ \/ api'[p].id = api[p].id
       \/ /\ p \notin NoRef /\ p \notin adopted /\ ~Reported(api[p])
          /\ api'[p].id # NoBuild /\ api'[p].id \in asked[p]

\* Only a run that has started is reported on, and it is not taken back.
Phased(p) ==
    /\ Exists(api[p]) /\ api'[p].st = api[p].st /\ api'[p].id = api[p].id
    /\ api'[p].fin = api[p].fin /\ cache[p] = api[p] /\ cache' = cache /\ work'.pc = "idle"
    /\ IF Reported(api'[p]) THEN HasStarted(api[p]) ELSE ~Reported(api[p])

\* With its finalizer a run goes only after the record of its build.
Departed(p) ==
    /\ Exists(api[p]) /\ api'[p].id = api[p].id /\ api'[p].phase = api[p].phase
    /\ \/ api'[p].st = "deleting" /\ api'[p].fin = api[p].fin
       \/ /\ api'[p].st = "gone" /\ ~api'[p].fin
          /\ HasStarted(api[p]) /\ api[p].fin => api[p].id \in CleanedUp

RunStep(p) ==
    \/ Adopted(p)
    \/ /\ p \in adopted' <=> p \in adopted
       /\ Same(p) \/ Created(p) \/ Named(p) \/ Phased(p) \/ Departed(p)

\* Only webhook and synchronizer, creating a run, make it one that was adopted.
LEMMA AdoptedSteps ==
    [Next]_vars => UNCHANGED adopted \/ \E p \in Runs, b \in Builds : AdoptBuild(p, b)
<1> SUFFICES ASSUME [Next]_vars, \A p \in Runs, b \in Builds : ~AdoptBuild(p, b)
             PROVE  UNCHANGED adopted
  OBVIOUS
<1> USE DEF k8sVars, auxVars
<1>1. CASE \E p \in Runs : Users(p) \/ Take(p)
  BY <1>1 DEF Users, createPipelineRun, EditRun, DeleteRun, CollectGarbage,
              Take, Ignore, Begin, BeginDelete, BeginOrphan, BeginPoll, BeginTrigger
<1>2. CASE Proceed
  BY <1>2 DEF Proceed, triggerJenkinsJob, GiveUp, NoSameRun, WriteRunId, WriteStartTime,
       makePipelineRunOrphan, PollMissing, getPipelineRunResult, storePipelineRunData, WriteStatus,
       deleteJenkinsJobHistory, RemoveFinalizer, RemoveFinalizerConflict
<1>3. CASE Fail \/ RemovePipeline \/ SyncCache \/ Restart \/ UNCHANGED vars
  BY <1>3 DEF Fail, UpdateFails, SaveConflict, CallFails, TriggerReplyLost, RemovePipeline,
       SyncCache, Restart, vars
<1>4. CASE \E b \in Builds : Jenkins(b)
  BY <1>4 DEF Jenkins, StartElsewhere, BuildStarts, BuildFinishes, SkipBuild, CancelQueued, DiscardBuild
<1> QED
  BY <1>1, <1>2, <1>3, <1>4 DEF Next

\* Whatever happens, each run is left alone, created, named, reported on or removed.
LEMMA RunSteps == IInv /\ [Next]_vars => \A p \in Runs : RunStep(p)
<1> SUFFICES ASSUME IInv, [Next]_vars PROVE \A p \in Runs : RunStep(p)
  OBVIOUS
<1> USE DEF IInv, k8sVars, auxVars
<1>a. ASSUME NEW p \in Runs, NEW b \in Builds, AdoptBuild(p, b) PROVE \A q \in Runs : RunStep(q)
  <2>1. UNCHANGED <<cache, work>>
    BY <1>a DEF AdoptBuild
  <2> QED
    BY <1>a, <2>1, AdoptEffect DEF RunStep, Same, Adopted
<1>b. CASE \E p \in Runs, b \in Builds : AdoptBuild(p, b)
  BY <1>a, <1>b
<1> SUFFICES ASSUME UNCHANGED adopted, \A p \in Runs, b \in Builds : ~AdoptBuild(p, b)
             PROVE  \A p \in Runs : RunStep(p)
  BY <1>b, AdoptedSteps
<1>1. ASSUME UNCHANGED api PROVE \A p \in Runs : RunStep(p)
  BY <1>1 DEF RunStep, Same
<1>2. ASSUME NEW p \in Runs, createPipelineRun(p) PROVE \A q \in Runs : RunStep(q)
  BY <1>2, CreateEffect DEF RunStep, Same, Created
<1>3. ASSUME NEW p \in Runs, EditRun(p) PROVE \A q \in Runs : RunStep(q)
  BY <1>3 DEF EditRun, Put, TypeOK, RunStep, Same
<1>4. ASSUME NEW p \in Runs, Put(p, Deleted(api[p])), api[p].st = "live"
      PROVE  \A q \in Runs : RunStep(q)
  <2>1. Departed(p)
    BY <1>4, DeleteEffect DEF Departed, Exists, TypeOK, PipelineRun
  <2> QED
    BY <1>4, <2>1, DeleteEffect DEF RunStep, Same
<1>5. CASE GiveUp
  BY <1>1, <1>4, <1>5 DEF GiveUp, TypeOK
<1>6. ASSUME work.pc # "idle", NEW i \in Builds \cup {NoBuild}, NEW r, NEW d,
             updateLabelsAndAnnotations(work.run, i, r, d),
             \/ i = api[work.run].id
             \/ /\ work.run \notin NoRef /\ work.run \notin adopted
                /\ ~Reported(api[work.run]) /\ i # NoBuild /\ i \in asked[work.run]
      PROVE  \A q \in Runs : RunStep(q)
  <2>1. work.run \in Runs
    BY <1>6 DEF TypeOK
  <2>2. UNCHANGED api \/ Named(work.run)
    BY <1>6, <2>1, LabelEffect DEF Named
  <2> QED
    BY <1>1, <1>6, <2>1, <2>2, LabelEffect DEF RunStep, Same
<1>7. CASE WriteRunId
  <2>1. work.got # NoBuild /\ work.got \in asked[work.run] /\ work.run \notin NoRef
        /\ work.run \in Runs /\ ~HasStarted(work.copy)
    BY <1>7 DEF WriteRunId, WorkInv, AcceptInv, FirstRun, TypeOK
  <2>2. ~Reported(api[work.run]) /\ work.run \notin adopted
    BY <1>7, <2>1 DEF WriteRunId, ReportInv, AdoptInv, HasStarted
  <2> QED
    BY <1>6, <1>7, <2>1, <2>2 DEF WriteRunId, TypeOK, Work
<1>8. CASE makePipelineRunOrphan
  <2>1. work.run \in NoRef /\ work.run \in Runs /\ ~HasStarted(api[work.run])
    BY <1>8 DEF makePipelineRunOrphan, WorkInv, StartInv, TypeOK
  <2>2. ~HasStarted(work.copy)
    BY <1>8, <2>1 DEF makePipelineRunOrphan, StartInv
  <2> QED
    BY <1>6, <1>8, <2>1, <2>2 DEF makePipelineRunOrphan, HasStarted
<1>9. CASE storePipelineRunData
  <2>1. CASE StoreInConfigMap
    BY <1>1, <2>1 DEF StoreInConfigMap
  <2>2. CASE StoreInAnnotations
    <3>1. /\ work.run \notin NoRef /\ HasStarted(work.copy)
          /\ work.copy.id \in Builds \cup {NoBuild} /\ work.copy.id \in asked[work.run]
      BY <1>9 DEF storePipelineRunData, WorkInv, Following, AcceptInv, TypeOK, Work, PipelineRun
    <3>2. Reported(api[work.run]) \/ work.run \in adopted => work.copy.id = api[work.run].id
      BY <1>9 DEF storePipelineRunData, ReportInv, AdoptInv
    <3> QED
      BY <1>6, <1>9, <2>2, <3>1, <3>2 DEF storePipelineRunData, StoreInAnnotations, HasStarted
  <2> QED
    BY <1>9, <2>1, <2>2 DEF storePipelineRunData
<1>10. ASSUME work.pc # "idle", work' = Idle, cache' = cache, NEW f, NEW b,
              updateStatus(work.run, f, b),
              IF f \in {"Running", "Completed"} THEN HasStarted(api[work.run])
                                               ELSE ~Reported(api[work.run])
       PROVE  \A q \in Runs : RunStep(q)
  <2>1. work.run \in Runs
    BY <1>10 DEF TypeOK
  <2>2. Phased(work.run)
    BY <1>10, <2>1, StatusEffect, Moves DEF Phased, Reported
  <2> QED
    BY <1>10, <2>1, <2>2, StatusEffect DEF RunStep, Same
<1>11. CASE WriteStartTime
  <2>1. ~HasStarted(work.copy)
    BY <1>11 DEF WriteStartTime, WorkInv, FirstRun
  <2>2. work.run \in Runs /\ ~Reported(api[work.run])
    BY <1>11, <2>1 DEF WriteStartTime, ReportInv, TypeOK, HasStarted
  <2> QED
    BY <1>10, <1>11, <2>2, Moves DEF WriteStartTime
<1>12. CASE WriteStatus
  <2>1. work.pc # "idle" /\ HasStarted(api[work.run])
    BY <1>12 DEF WriteStatus, WorkInv, Following, StartInv
  <2>2. work' = Idle /\ cache' = cache
    BY <1>12, Moves DEF WriteStatus
  <2> QED
    BY <1>10, <1>12, <2>1, <2>2 DEF WriteStatus
<1>13. CASE RemoveFinalizer
  <2>1. Departed(work.run)
    BY <1>13, RemoveEffect DEF RemoveFinalizer, Departed, WorkInv, Deleting, Exists
  <2> QED
    BY <1>13, <2>1, RemoveEffect DEF RunStep, Same
<1>14. CASE Fail \/ triggerJenkinsJob \/ NoSameRun \/ PollMissing \/ getPipelineRunResult
            \/ RemoveFinalizerConflict \/ deleteJenkinsJobHistory
  BY <1>1, <1>14 DEF Fail, UpdateFails, SaveConflict, CallFails, TriggerReplyLost, triggerJenkinsJob, NoSameRun,
       PollMissing, getPipelineRunResult, RemoveFinalizerConflict, deleteJenkinsJobHistory
<1>15. CASE RemovePipeline \/ SyncCache \/ Restart \/ (\E b \in Builds : Jenkins(b)) \/ UNCHANGED vars
  BY <1>1, <1>15 DEF RemovePipeline, SyncCache, Restart, Jenkins, StartElsewhere, BuildStarts, BuildFinishes, SkipBuild,
       CancelQueued, DiscardBuild, vars
<1>16. ASSUME NEW p \in Runs, Take(p) PROVE \A q \in Runs : RunStep(q)
  BY <1>1, <1>16 DEF Take, Ignore, Begin, BeginDelete, BeginOrphan, BeginPoll, BeginTrigger
<1>17. ASSUME NEW p \in Runs, DeleteRun(p) PROVE \A q \in Runs : RunStep(q)
  BY <1>4, <1>17 DEF DeleteRun
<1> QED
  BY <1>2, <1>3, <1>5, <1>7, <1>8, <1>9, <1>11, <1>12, <1>13, <1>14, <1>15, <1>16, <1>17
     DEF Next, Users, CollectGarbage, Proceed

\* The informer moves to what the API server has, in a step that writes nothing.
LEMMA CacheSteps == IInv /\ [Next]_vars => UNCHANGED cache \/ (cache' = api /\ UNCHANGED api)
<1> SUFFICES ASSUME [Next]_vars PROVE UNCHANGED cache \/ (cache' = api /\ UNCHANGED api)
  OBVIOUS
<1> USE DEF k8sVars, auxVars
<1>1. CASE \E p \in Runs : Users(p) \/ Take(p)
  BY <1>1 DEF Users, createPipelineRun, AdoptBuild, EditRun, DeleteRun, CollectGarbage,
              Take, Ignore, Begin, BeginDelete, BeginOrphan, BeginPoll, BeginTrigger
<1>2. CASE Proceed
  BY <1>2 DEF Proceed, triggerJenkinsJob, GiveUp, NoSameRun, WriteRunId, WriteStartTime,
       makePipelineRunOrphan, PollMissing, getPipelineRunResult, storePipelineRunData, WriteStatus,
       deleteJenkinsJobHistory, RemoveFinalizer, RemoveFinalizerConflict
<1>3. CASE Fail \/ RemovePipeline \/ SyncCache \/ Restart \/ UNCHANGED vars
  BY <1>3 DEF Fail, UpdateFails, SaveConflict, CallFails, TriggerReplyLost, RemovePipeline, SyncCache, Restart, vars
<1>4. CASE \E b \in Builds : Jenkins(b)
  BY <1>4 DEF Jenkins, StartElsewhere, BuildStarts, BuildFinishes, SkipBuild, CancelQueued, DiscardBuild
<1> QED
  BY <1>1, <1>2, <1>3, <1>4 DEF Next

\* Jenkins forgets neither what it accepted nor what was cleaned up.
JenkinsStep ==
    /\ \A p \in Runs : asked[p] \subseteq asked'[p]
    /\ \A p \in Runs : \A b \in asked'[p] : b \in Builds /\ builds'[b] # "unused"
    /\ CleanedUp \subseteq CleanedUp'

LEMMA JenkinsSteps == IInv /\ TypeOK' /\ [Next]_vars => JenkinsStep
<1> SUFFICES ASSUME IInv, TypeOK', [Next]_vars PROVE JenkinsStep
  OBVIOUS
<1> USE DEF IInv, k8sVars, auxVars
<1>1. ASSUME UNCHANGED <<builds, asked, missed>> PROVE JenkinsStep
  BY <1>1 DEF JenkinsStep, AcceptInv, TypeOK, CleanedUp
<1>a. ASSUME NEW p \in Runs, NEW b \in Builds, AdoptBuild(p, b) PROVE JenkinsStep
  <2>1. UNCHANGED <<builds, missed>> /\ builds[b] # "unused"
        /\ asked' = [asked EXCEPT ![p] = @ \cup {b}]
    BY <1>a DEF AdoptBuild
  <2> QED
    BY <2>1 DEF JenkinsStep, AcceptInv, TypeOK, CleanedUp
<1>2. CASE \E p \in Runs : Users(p) \/ Take(p)
  BY <1>1, <1>a, <1>2 DEF Users, createPipelineRun, EditRun, DeleteRun, CollectGarbage,
                    Take, Ignore, Begin, BeginDelete, BeginOrphan, BeginPoll, BeginTrigger
<1>3. CASE GiveUp \/ NoSameRun \/ WriteRunId \/ WriteStartTime
           \/ makePipelineRunOrphan \/ PollMissing \/ getPipelineRunResult \/ storePipelineRunData
           \/ WriteStatus \/ RemoveFinalizer \/ RemoveFinalizerConflict
  BY <1>1, <1>3 DEF GiveUp, NoSameRun, WriteRunId, WriteStartTime,
       makePipelineRunOrphan, PollMissing, getPipelineRunResult, storePipelineRunData, WriteStatus,
       RemoveFinalizer, RemoveFinalizerConflict
<1>4. CASE UpdateFails \/ SaveConflict \/ CallFails \/ SyncCache \/ Restart \/ UNCHANGED vars
  BY <1>1, <1>4 DEF UpdateFails, SaveConflict, CallFails, SyncCache, Restart, vars
<1>5. ASSUME NEW b \in Builds, Accept(b), work.run \in Runs, UNCHANGED missed PROVE JenkinsStep
  BY <1>5 DEF Accept, JenkinsStep, AcceptInv, TypeOK, CleanedUp
<1>6. CASE triggerJenkinsJob \/ TriggerReplyLost
  BY <1>5, <1>6 DEF triggerJenkinsJob, TriggerReplyLost, TypeOK
<1>7. CASE deleteJenkinsJobHistory
  <2>1. \A b \in Builds :
           /\ builds[b] # "unused" => builds'[b] # "unused"
           /\ builds[b] = "deleted" => builds'[b] = builds[b]
    BY <1>7 DEF deleteJenkinsJobHistory, TypeOK
  <2>2. missed \subseteq missed' /\ asked' = asked
    BY <1>7 DEF deleteJenkinsJobHistory
  <2>3. CleanedUp \subseteq CleanedUp'
    BY <2>1, <2>2 DEF CleanedUp
  <2> QED
    BY <2>1, <2>2, <2>3 DEF JenkinsStep, AcceptInv, TypeOK
<1>8. CASE RemovePipeline \/ \E b \in Builds : Jenkins(b)
  <2>1. \A b \in Builds :
           /\ builds[b] # "unused" => builds'[b] # "unused"
           /\ builds[b] = "deleted" => builds'[b] = "deleted"
    BY <1>8 DEF RemovePipeline, Jenkins, StartElsewhere, BuildStarts, BuildFinishes, SkipBuild, CancelQueued, DiscardBuild, TypeOK
  <2>2. UNCHANGED <<missed, asked>>
    BY <1>8 DEF RemovePipeline, Jenkins, StartElsewhere, BuildStarts, BuildFinishes, SkipBuild, CancelQueued, DiscardBuild
  <2>3. CleanedUp \subseteq CleanedUp'
    BY <2>1, <2>2 DEF CleanedUp
  <2> QED
    BY <2>1, <2>2, <2>3 DEF JenkinsStep, AcceptInv, TypeOK
<1> QED
  BY <1>2, <1>3, <1>4, <1>6, <1>7, <1>8 DEF Next, Proceed, Fail

\* A Reconcile begins with the cached object, and with what it says.
Taken(p) ==
    /\ UNCHANGED api
    /\ work'.run = p /\ work'.copy = cache[p] /\ work'.got = NoBuild
    /\ cache[p].st # "absent"
    /\ \/ work'.pc = "deleteHistory" /\ cache[p].st = "deleting"
       \/ work'.pc = "orphan" /\ p \in NoRef
       \/ work'.pc = "poll" /\ HasStarted(cache[p]) /\ p \notin NoRef
       \/ work'.pc = "trigger" /\ ~HasStarted(cache[p]) /\ p \notin NoRef

\* It goes on with the object it began with, from call to call.
Advanced ==
    /\ work.pc # "idle" /\ work'.run = work.run /\ work'.copy = work.copy
    /\ \/ work'.pc = work.pc /\ work'.got = work.got
       \/ /\ work.pc = "trigger" /\ work'.pc = "check"
          /\ work'.got \in asked'[work.run] /\ work'.got # NoBuild
       \/ /\ <<work.pc, work'.pc>> \in {<<"check", "writeId">>, <<"writeId", "writeStart">>,
                                       <<"poll", "store">>, <<"store", "writeStatus">>}
          /\ work'.got = work.got
       \/ /\ work.pc = "deleteHistory" /\ work'.pc = "removeFinalizer" /\ work'.got = work.got
          /\ HasStarted(work.copy) => work.copy.id \in CleanedUp'

WorkStep == work'.pc = "idle" \/ (\E p \in Runs : Taken(p)) \/ Advanced

LEMMA WorkSteps == IInv /\ TypeOK' /\ [Next]_vars => WorkStep
<1> SUFFICES ASSUME IInv, TypeOK', [Next]_vars PROVE WorkStep
  OBVIOUS
<1> USE DEF IInv, k8sVars, auxVars
<1>1. ASSUME work'.pc = work.pc, work'.run = work.run, work'.copy = work.copy, work'.got = work.got
      PROVE  WorkStep
  BY <1>1 DEF WorkStep, Advanced
<1>2. ASSUME work' = Idle PROVE WorkStep
  BY <1>2, Moves DEF WorkStep
<1>3. CASE \E p \in Runs : Users(p)
  BY <1>1, <1>3 DEF Users, createPipelineRun, AdoptBuild, EditRun, DeleteRun, CollectGarbage, Outdate, TypeOK, Work
<1>4. ASSUME NEW p \in Runs, Take(p) PROVE WorkStep
  <2>1. ASSUME NEW c, Begin(p, c)
        PROVE  work'.pc = c /\ work'.run = p /\ work'.copy = cache[p] /\ work'.got = NoBuild
               /\ UNCHANGED api
    BY <2>1 DEF Begin, Idle
  <2>2. CASE Ignore(p)
    BY <1>1, <2>2 DEF Ignore
  <2>3. CASE BeginDelete(p) \/ BeginOrphan(p) \/ BeginPoll(p) \/ BeginTrigger(p)
    BY <2>1, <2>3 DEF BeginDelete, BeginOrphan, BeginPoll, BeginTrigger, Workable, Taken, WorkStep
  <2> QED
    BY <1>4, <2>2, <2>3 DEF Take
<1>5. CASE triggerJenkinsJob
  <2>1. PICK b \in Builds : Accept(b) /\ work' = [work EXCEPT !.pc = "check", !.got = b]
    BY <1>5 DEF triggerJenkinsJob
  <2>2. work.run \in Runs /\ b \in asked'[work.run] /\ b # NoBuild
    BY <1>5, <2>1, ConstantsAssumption DEF triggerJenkinsJob, Accept, TypeOK
  <2>3. /\ work'.pc = "check" /\ work'.got = b
        /\ work'.run = work.run /\ work'.copy = work.copy
    BY <2>1 DEF TypeOK, Work
  <2> QED
    BY <1>5, <2>2, <2>3 DEF triggerJenkinsJob, WorkStep, Advanced
<1>6. CASE NoSameRun \/ WriteRunId \/ storePipelineRunData
  BY <1>6, Moves DEF NoSameRun, WriteRunId, storePipelineRunData, WorkStep, Advanced
<1>7. CASE getPipelineRunResult
  <2>1. /\ work'.pc = "store" /\ work'.got = work.got
        /\ work'.run = work.run /\ work'.copy = work.copy
    BY <1>7 DEF getPipelineRunResult, TypeOK, Work
  <2> QED
    BY <1>7, <2>1 DEF getPipelineRunResult, WorkStep, Advanced
<1>8. CASE deleteJenkinsJobHistory
  <2>1. ASSUME HasStarted(work.copy) PROVE work.copy.id \in CleanedUp'
    <3>1. work.copy.id \in asked[work.run] /\ work.run \in Runs
      BY <1>8, <2>1 DEF deleteJenkinsJobHistory, AcceptInv, TypeOK
    <3>2. work.copy.id \in Builds /\ builds[work.copy.id] \in BuildStates \ {"unused"}
      BY <3>1 DEF AcceptInv, TypeOK
    <3> QED
      BY <1>8, <2>1, <3>2 DEF deleteJenkinsJobHistory, CleanedUp, BuildStates, TypeOK
  <2>2. work.pc = "deleteHistory" /\ Goto("removeFinalizer")
    BY <1>8 DEF deleteJenkinsJobHistory
  <2> QED
    BY <2>1, <2>2, Moves DEF WorkStep, Advanced
<1>9. CASE Fail \/ GiveUp \/ WriteStartTime \/ makePipelineRunOrphan \/ PollMissing
           \/ WriteStatus \/ RemoveFinalizer \/ RemoveFinalizerConflict \/ Restart
  BY <1>2, <1>9, Moves DEF Fail, UpdateFails, SaveConflict, CallFails, TriggerReplyLost, GiveUp, WriteStartTime,
       makePipelineRunOrphan, PollMissing, WriteStatus, RemoveFinalizer, RemoveFinalizerConflict,
       Restart
<1>10. CASE RemovePipeline \/ SyncCache \/ (\E b \in Builds : Jenkins(b)) \/ UNCHANGED vars
  BY <1>1, <1>10 DEF RemovePipeline, SyncCache, Jenkins, StartElsewhere, BuildStarts, BuildFinishes, SkipBuild, CancelQueued,
       DiscardBuild, vars
<1> QED
  BY <1>3, <1>4, <1>5, <1>6, <1>7, <1>8, <1>9, <1>10 DEF Next, Proceed

----------------------------------------------------------------------------
(* The invariant is inductive: its other conjuncts *)

LEMMA Steps ==
    IInv /\ TypeOK' /\ [Next]_vars =>
        /\ \A p \in Runs : RunStep(p)
        /\ UNCHANGED cache \/ (cache' = api /\ UNCHANGED api)
        /\ JenkinsStep
        /\ WorkStep
BY RunSteps, CacheSteps, JenkinsSteps, WorkSteps

\* A run that has started stays started, and a run that is there stays created.
LEMMA StartedStays ==
    ASSUME IInv, NEW p \in Runs, RunStep(p)
    PROVE  /\ HasStarted(api[p]) => HasStarted(api'[p])
           /\ api'[p].st = "absent" => Same(p) /\ api[p].st = "absent"
           /\ p \in NoRef => ~HasStarted(api'[p])
BY DEF RunStep, Same, Created, Adopted, Named, Phased, Departed, IInv, StartInv, HasStarted, Exists

LEMMA StartStep == IInv /\ TypeOK' /\ [Next]_vars => StartInv'
<1> SUFFICES ASSUME IInv, TypeOK', [Next]_vars PROVE StartInv'
  OBVIOUS
<1>1. \A p \in Runs : RunStep(p)
  BY Steps
<1>2. \A p \in Runs : /\ HasStarted(api[p]) => HasStarted(api'[p])
                      /\ api'[p].st = "absent" => api[p].st = "absent"
  BY <1>1, StartedStays
<1>3. \A p \in Runs : api'[p].st = "absent" =>
         ~HasStarted(api'[p]) /\ ~Reported(api'[p]) /\ ~api'[p].fin
  BY <1>1, StartedStays DEF Same, IInv, StartInv, HasStarted, Reported
<1>4. \A p \in NoRef : ~HasStarted(api'[p])
  BY <1>1, StartedStays, ConstantsAssumption
<1>5. \A p \in Runs : /\ HasStarted(cache'[p]) => HasStarted(api'[p])
                      /\ api'[p].st = "absent" => cache'[p].st = "absent"
  BY <1>2, Steps DEF IInv, StartInv
<1>6. work'.pc # "idle" => /\ HasStarted(work'.copy) => HasStarted(api'[work'.run])
                           /\ api'[work'.run].st # "absent"
  <2>1. CASE \E p \in Runs : Taken(p)
    BY <1>2, <2>1 DEF Taken, IInv, StartInv
  <2>2. CASE Advanced
    BY <1>2, <2>2 DEF Advanced, IInv, StartInv, TypeOK
  <2> QED
    BY <2>1, <2>2, Steps DEF WorkStep
<1> QED
  BY <1>3, <1>4, <1>5, <1>6 DEF StartInv

LEMMA AdoptStep == IInv /\ TypeOK' /\ [Next]_vars => AdoptInv'
<1> SUFFICES ASSUME IInv, TypeOK', [Next]_vars PROVE AdoptInv'
  OBVIOUS
<1>1. \A p \in Runs : RunStep(p)
  BY Steps
<1>2. ASSUME NEW p \in Runs, p \in adopted, p \in adopted'
      PROVE  api'[p].id = api[p].id
  BY <1>1, <1>2 DEF RunStep, Same, Created, Adopted, Named, Phased, Departed, IInv, StartInv, AdoptInv
<1>3. ASSUME NEW p \in Runs, p \in adopted', p \notin adopted
      PROVE  Adopted(p)
  BY <1>1, <1>3 DEF RunStep
<1>4. ASSUME NEW p \in adopted'
      PROVE  /\ p \in Runs /\ HasStarted(api'[p]) /\ p \notin NoRef
             /\ cache'[p].st = "absent" \/ cache'[p].id = api'[p].id
  <2>1. p \in Runs
    BY DEF TypeOK
  <2>2. CASE p \in adopted
    <3>1. p \in adopted /\ api'[p].id = api[p].id
      BY <1>2, <2>1, <2>2
    <3>2. HasStarted(api[p]) /\ p \notin NoRef /\ (cache[p].st = "absent" \/ cache[p].id = api[p].id)
      BY <3>1 DEF IInv, AdoptInv
    <3>3. cache'[p] = cache[p] \/ cache'[p] = api[p]
      BY <2>1, Steps
    <3> QED
      BY <2>1, <3>1, <3>2, <3>3 DEF HasStarted
  <2>3. CASE p \notin adopted
    <3>1. Adopted(p) /\ cache[p].st = "absent"
      BY <1>3, <2>1, <2>3 DEF Adopted, IInv, StartInv
    <3> QED
      BY <2>1, <3>1, ConstantsAssumption DEF Adopted, HasStarted
  <2> QED
    BY <2>2, <2>3
<1>5. work'.pc # "idle" /\ work'.run \in adopted' => work'.copy.id = api'[work'.run].id
  <2> SUFFICES ASSUME work'.pc # "idle", work'.run \in adopted'
               PROVE  work'.copy.id = api'[work'.run].id
    OBVIOUS
  <2>1. work'.run \in Runs
    BY <1>4
  <2>2. CASE Adopted(work'.run)
    BY <2>1, <2>2 DEF Adopted, IInv, StartInv
  <2>3. CASE \E p \in Runs : Taken(p)
    <3>1. PICK p \in Runs : Taken(p)
      BY <2>3
    <3>2. api' = api /\ work'.run = p /\ work'.copy = cache[p] /\ cache[p].st # "absent"
      BY <3>1 DEF Taken
    <3>3. p \in adopted
      BY <1>3, <3>2 DEF Adopted
    <3> QED
      BY <3>2, <3>3 DEF IInv, AdoptInv
  <2>4. CASE Advanced /\ ~Adopted(work'.run)
    <3>1. work.run = work'.run /\ work.pc # "idle" /\ work'.copy = work.copy /\ work.run \in adopted
      BY <1>3, <2>1, <2>4 DEF Advanced
    <3>2. api'[work.run].id = api[work.run].id
      BY <1>2, <2>1, <3>1
    <3> QED
      BY <3>1, <3>2 DEF IInv, AdoptInv
  <2> QED
    BY <2>2, <2>3, <2>4, Steps DEF WorkStep
<1> QED
  BY <1>4, <1>5 DEF AdoptInv

LEMMA AcceptStep == IInv /\ TypeOK' /\ [Next]_vars => AcceptInv'
<1> SUFFICES ASSUME IInv, TypeOK', [Next]_vars PROVE AcceptInv'
  OBVIOUS
<1>1. \A p \in Runs : asked[p] \subseteq asked'[p]
  BY Steps DEF JenkinsStep
<1>2. \A p \in Runs : HasStarted(api'[p]) => api'[p].id \in asked'[p]
  <2> SUFFICES ASSUME NEW p \in Runs, HasStarted(api'[p]) PROVE api'[p].id \in asked'[p]
    OBVIOUS
  <2>1. api'[p].id = api[p].id \/ api'[p].id \in asked[p] \/ api'[p].id \in asked'[p]
    BY Steps DEF RunStep, Same, Created, Adopted, Named, Phased, Departed, HasStarted
  <2> QED
    BY <1>1, <2>1 DEF IInv, AcceptInv, RunIdIsAccepted, HasStarted
<1>3. \A p \in Runs : HasStarted(cache'[p]) => cache'[p].id \in asked'[p]
  BY <1>1, Steps DEF IInv, AcceptInv, RunIdIsAccepted
<1>4. /\ work'.pc # "idle" /\ HasStarted(work'.copy) => work'.copy.id \in asked'[work'.run]
      /\ work'.pc # "idle" /\ work'.got # NoBuild => work'.got \in asked'[work'.run]
  <2>1. CASE \E p \in Runs : Taken(p)
    BY <1>1, <2>1 DEF Taken, IInv, AcceptInv
  <2>2. CASE Advanced
    BY <1>1, <2>2 DEF Advanced, IInv, AcceptInv, TypeOK
  <2> QED
    BY <2>1, <2>2, Steps DEF WorkStep
<1>5. \A p \in Runs : \A b \in asked'[p] : builds'[b] # "unused"
  BY Steps DEF JenkinsStep
<1> QED
  BY <1>2, <1>3, <1>4, <1>5 DEF AcceptInv, RunIdIsAccepted

LEMMA WorkInvStep == IInv /\ TypeOK' /\ [Next]_vars => WorkInv'
<1> SUFFICES ASSUME IInv, TypeOK', [Next]_vars PROVE WorkInv'
  OBVIOUS
<1> USE DEF WorkInv, FirstRun, Following, Deleting
<1>1. CASE work'.pc = "idle"
  BY <1>1
<1>2. CASE \E p \in Runs : Taken(p)
  BY <1>2 DEF Taken
<1>3. CASE Advanced
  BY <1>3, Steps DEF Advanced, IInv, JenkinsStep
<1> QED
  BY <1>1, <1>2, <1>3, Steps DEF WorkStep

LEMMA ReportStep == IInv /\ TypeOK' /\ [Next]_vars => ReportInv'
<1> SUFFICES ASSUME IInv, TypeOK', [Next]_vars PROVE ReportInv'
  OBVIOUS
<1>1. \A p \in Runs : RunStep(p)
  BY Steps
<1>2. ASSUME NEW p \in Runs, Reported(api'[p])
      PROVE  /\ HasStarted(api'[p]) /\ cache'[p].id = api'[p].id
             /\ \/ Reported(api[p]) /\ api'[p].id = api[p].id
                \/ work'.pc = "idle"
  <2>1. CASE Phased(p)
    BY <1>2, <2>1 DEF Phased, HasStarted
  <2>2. CASE Same(p) \/ Created(p) \/ Adopted(p) \/ Named(p) \/ Departed(p)
    <3>1. Reported(api[p]) /\ api'[p].id = api[p].id
      BY <1>2, <2>2 DEF Same, Created, Adopted, Named, Departed, Reported
    <3> QED
      BY <3>1, Steps DEF IInv, ReportInv, HasStarted
  <2> QED
    BY <1>1, <2>1, <2>2 DEF RunStep
<1>3. work'.pc # "idle" /\ Reported(api'[work'.run]) => work'.copy.id = api'[work'.run].id
  <2>1. CASE \E p \in Runs : Taken(p)
    BY <1>2, <2>1 DEF Taken, IInv, ReportInv
  <2>2. CASE Advanced
    BY <1>2, <2>2 DEF Advanced, IInv, ReportInv, TypeOK
  <2> QED
    BY <2>1, <2>2, Steps DEF WorkStep
<1> QED
  BY <1>2, <1>3 DEF ReportInv

LEMMA FinalizerStep == IInv /\ TypeOK' /\ [Next]_vars => StartedRunHasFinalizer'
BY Steps DEF RunStep, Same, Created, Adopted, Named, Phased, Departed, IInv, StartedRunHasFinalizer,
             HasStarted, Exists

LEMMA InvStep == IInv /\ [Next]_vars => IInv'
BY TypeStep, FreshStep, StartStep, AcceptStep, WorkInvStep, ReportStep, AdoptStep, FinalizerStep
   DEF IInv

LEMMA Invariance == Spec => []IInv
BY InvInit, InvStep, PTL DEF Spec

\* RunIdIsAccepted: a run names a build that triggerJenkinsJob was answered for it,
\* or the one webhook or synchronizer created it for.
THEOREM IdsAccepted == Spec => []RunIdIsAccepted
<1>1. IInv => RunIdIsAccepted
  BY DEF IInv, AcceptInv
<1> QED
  BY <1>1, Invariance, PTL

\* StartedRunHasFinalizer: no run the controller started can vanish behind its back.
THEOREM FinalizersKept == Spec => []StartedRunHasFinalizer
<1>1. IInv => StartedRunHasFinalizer
  BY DEF IInv
<1> QED
  BY <1>1, Invariance, PTL

\* HistoryGoesWithRun: the record of its build is cleaned up before a run goes that
\* the controller started or gave its finalizer, with the exception
\* deleteJenkinsJobHistory makes for a queued build.
THEOREM HistoryGoes == Spec => HistoryGoesWithRun
<1> DEFINE Cleans ==
        \A p \in Runs :
           /\ HasStarted(api[p]) /\ Exists(api[p]) /\ api'[p].st = "gone"
           /\ p \notin adopted \/ api[p].fin
           => api[p].id \in CleanedUp
<1>1. IInv /\ [Next]_vars => [Cleans]_vars
  <2> SUFFICES ASSUME IInv, [Next]_vars, NEW p \in Runs,
                      HasStarted(api[p]), Exists(api[p]), api'[p].st = "gone",
                      p \notin adopted \/ api[p].fin
               PROVE  api[p].id \in CleanedUp
    OBVIOUS
  <2>1. api[p].fin
    BY DEF IInv, StartedRunHasFinalizer
  <2>2. Departed(p)
    BY RunSteps DEF RunStep, Same, Created, Adopted, Named, Phased, Exists
  <2> QED
    BY <2>1, <2>2 DEF Departed
<1> QED
  BY <1>1, Invariance, PTL DEF Spec, HistoryGoesWithRun

----------------------------------------------------------------------------
(* Runs that are reported on, their data kept in annotations *)

\* Run data and finalizer come in one write, so the object or copy that has the one
\* has the other; and the finalizer stays for as long as the run does.
GuardInv ==
    /\ \A p \in Runs : Exists(api[p]) /\ (api[p].data.seen # "none" \/ Reported(api[p]))
                          => api[p].fin
    /\ \A p \in Runs : Exists(cache[p]) /\ cache[p].data.seen # "none" => cache[p].fin
    /\ \A p \in Runs : Exists(cache[p]) /\ cache[p].fin /\ Exists(api[p]) => api[p].fin
    /\ work.pc = "store" => work.seen # "none"
    /\ work.pc = "writeStatus" /\ Exists(api[work.run]) => api[work.run].fin

\* A step gives a run the finalizer, or no data and no report.
Guards(p) ==
    \/ ~Exists(api'[p]) \/ api'[p].fin
    \/ api'[p].data.seen = "none" /\ ~Reported(api'[p])
    \/ /\ api'[p].data = api[p].data /\ api'[p].fin = api[p].fin
       /\ Exists(api'[p]) => Exists(api[p])
       /\ Reported(api'[p]) => Reported(api[p])

LEMMA GuardSteps == IInv /\ GuardInv /\ [Next]_vars => \A p \in Runs : Guards(p)
<1> SUFFICES ASSUME IInv, GuardInv, [Next]_vars PROVE \A p \in Runs : Guards(p)
  OBVIOUS
<1> USE DEF IInv, k8sVars, auxVars
<1>1. ASSUME UNCHANGED api PROVE \A p \in Runs : Guards(p)
  BY <1>1 DEF Guards
<1>2. ASSUME NEW p \in Runs, NEW o, Put(p, o), Guards(p) PROVE \A q \in Runs : Guards(q)
  BY <1>2 DEF Put, Guards, TypeOK
<1>3. ASSUME NEW p \in Runs, createPipelineRun(p) PROVE \A q \in Runs : Guards(q)
  <2>1. Guards(p)
    BY <1>3 DEF createPipelineRun, Put, TypeOK, Absent, NoData, Guards, Reported
  <2> QED
    BY <1>2, <1>3, <2>1 DEF createPipelineRun
<1>4. ASSUME NEW p \in Runs, NEW b \in Builds, AdoptBuild(p, b) PROVE \A q \in Runs : Guards(q)
  <2>1. Guards(p)
    BY <1>4 DEF AdoptBuild, Put, TypeOK, Absent, NoData, Guards, Reported
  <2> QED
    BY <1>2, <1>4, <2>1 DEF AdoptBuild
<1>5. ASSUME NEW p \in Runs, EditRun(p) PROVE \A q \in Runs : Guards(q)
  BY <1>5 DEF EditRun, Put, TypeOK, Guards
<1>6. ASSUME NEW p \in Runs, Put(p, Deleted(api[p])), api[p].st = "live"
      PROVE  \A q \in Runs : Guards(q)
  <2>1. api'[p] = [api[p] EXCEPT !.st = IF api[p].fin THEN "deleting" ELSE "gone"]
    BY <1>6 DEF Put, Deleted, TypeOK
  <2>2. Guards(p)
    BY <1>6, <2>1 DEF TypeOK, PipelineRun, Guards, Exists, Reported
  <2> QED
    BY <1>2, <1>6, <2>2
<1>7. ASSUME NEW p \in Runs, DeleteRun(p) PROVE \A q \in Runs : Guards(q)
  BY <1>6, <1>7 DEF DeleteRun
<1>8. CASE GiveUp
  BY <1>1, <1>6, <1>8 DEF GiveUp, TypeOK
<1>9. ASSUME work.run \in Runs, NEW i, NEW r, NEW d, updateLabelsAndAnnotations(work.run, i, r, d)
      PROVE  \A q \in Runs : Guards(q)
  BY <1>9, LabelEffect DEF Guards
<1>10. CASE WriteRunId \/ makePipelineRunOrphan \/ storePipelineRunData
  BY <1>1, <1>9, <1>10 DEF WriteRunId, makePipelineRunOrphan, storePipelineRunData,
       StoreInAnnotations, StoreInConfigMap, TypeOK
<1>11. CASE WriteStartTime
  <2>1. work.run \in Runs /\ Put(work.run, [api[work.run] EXCEPT !.phase = "Started", !.src = work.copy.src])
    BY <1>11 DEF WriteStartTime, updateStatus, TypeOK
  <2>2. Guards(work.run)
    BY <2>1 DEF Put, TypeOK, PipelineRun, Guards, Exists, Reported
  <2> QED
    BY <1>2, <2>1, <2>2
<1>12. CASE WriteStatus
  <2>1. work.run \in Runs
    BY <1>12 DEF WriteStatus, TypeOK
  <2>2. Exists(api[work.run]) /\ api'[work.run].fin = api[work.run].fin
    BY <1>12, <2>1, StatusEffect DEF WriteStatus
  <2>3. Guards(work.run)
    BY <1>12, <2>2 DEF WriteStatus, GuardInv, Guards
  <2>4. \A q \in Runs \ {work.run} : api'[q] = api[q]
    BY <1>12, <2>1, StatusEffect DEF WriteStatus
  <2> QED
    BY <2>3, <2>4 DEF Guards
<1>13. CASE RemoveFinalizer
  BY <1>13, RemoveEffect DEF Guards, Exists
<1>14. CASE Fail \/ triggerJenkinsJob \/ NoSameRun \/ PollMissing \/ getPipelineRunResult
            \/ RemoveFinalizerConflict \/ deleteJenkinsJobHistory
  BY <1>1, <1>14 DEF Fail, UpdateFails, SaveConflict, CallFails, TriggerReplyLost, triggerJenkinsJob, NoSameRun,
       PollMissing, getPipelineRunResult, RemoveFinalizerConflict, deleteJenkinsJobHistory
<1>15. CASE RemovePipeline \/ SyncCache \/ Restart \/ (\E b \in Builds : Jenkins(b)) \/ UNCHANGED vars
  BY <1>1, <1>15 DEF RemovePipeline, SyncCache, Restart, Jenkins, StartElsewhere, BuildStarts, BuildFinishes, SkipBuild,
       CancelQueued, DiscardBuild, vars
<1>16. ASSUME NEW p \in Runs, Take(p) PROVE \A q \in Runs : Guards(q)
  BY <1>1, <1>16 DEF Take, Ignore, Begin, BeginDelete, BeginOrphan, BeginPoll, BeginTrigger
<1> QED
  BY <1>3, <1>4, <1>5, <1>7, <1>8, <1>10, <1>11, <1>12, <1>13, <1>14, <1>15, <1>16
     DEF Next, Users, CollectGarbage, Proceed

\* The worker gets to the write of the status by storing the run data it has seen.
LEMMA StoringSteps ==
    ASSUME IInv, TypeOK', [Next]_vars
    PROVE  /\ work'.pc = "store" => \/ work.pc = "store" /\ work'.seen = work.seen
                                    \/ work'.seen # "none"
           /\ work'.pc = "writeStatus" => \/ work.pc = "writeStatus" /\ work'.run = work.run
                                          \/ storePipelineRunData /\ work'.run = work.run
<1> USE DEF IInv, k8sVars, auxVars
<1>1. CASE work'.pc = work.pc /\ work'.run = work.run /\ work'.seen = work.seen
  BY <1>1
<1>2. CASE work'.pc \notin {"store", "writeStatus"}
  BY <1>2
<1>3. CASE \E p \in Runs : Users(p)
  BY <1>1, <1>3 DEF Users, createPipelineRun, AdoptBuild, EditRun, DeleteRun, CollectGarbage, Outdate, TypeOK, Work
<1>4. CASE \E p \in Runs : Take(p)
  BY <1>1, <1>2, <1>4 DEF Take, Ignore, Begin, Idle, BeginDelete, BeginOrphan, BeginPoll, BeginTrigger
<1>5. CASE getPipelineRunResult
  BY <1>5 DEF getPipelineRunResult, SeenOf, TypeOK, Work
<1>6. CASE storePipelineRunData
  BY <1>6, Moves DEF storePipelineRunData
<1>7. CASE triggerJenkinsJob
  BY <1>2, <1>7 DEF triggerJenkinsJob, TypeOK, Work
<1>8. CASE NoSameRun \/ WriteRunId \/ deleteJenkinsJobHistory
  BY <1>2, <1>8, Moves DEF NoSameRun, WriteRunId, deleteJenkinsJobHistory
<1>9. CASE Fail \/ GiveUp \/ WriteStartTime \/ makePipelineRunOrphan \/ PollMissing
           \/ WriteStatus \/ RemoveFinalizer \/ RemoveFinalizerConflict \/ Restart
  BY <1>2, <1>9, Moves DEF Fail, UpdateFails, SaveConflict, CallFails, TriggerReplyLost, GiveUp, WriteStartTime,
       makePipelineRunOrphan, PollMissing, WriteStatus, RemoveFinalizer, RemoveFinalizerConflict,
       Restart
<1>10. CASE RemovePipeline \/ SyncCache \/ (\E b \in Builds : Jenkins(b)) \/ UNCHANGED vars
  BY <1>1, <1>10 DEF RemovePipeline, SyncCache, Jenkins, StartElsewhere, BuildStarts, BuildFinishes, SkipBuild, CancelQueued,
       DiscardBuild, vars
<1> QED
  BY <1>3, <1>4, <1>5, <1>6, <1>7, <1>8, <1>9, <1>10 DEF Next, Proceed

\* A run keeps its finalizer for as long as it is there, and does not come back.
LEMMA FinalizerStays ==
    ASSUME IInv, NEW p \in Runs, RunStep(p), Exists(api'[p])
    PROVE  /\ Exists(api[p]) /\ api[p].fin => api'[p].fin
           /\ Exists(api[p]) \/ api[p].st = "absent"
BY DEF RunStep, Same, Created, Adopted, Named, Phased, Departed, Exists

LEMMA GuardStep ==
    DataStore = "annotations" /\ IInv /\ TypeOK' /\ GuardInv /\ [Next]_vars => GuardInv'
<1> SUFFICES ASSUME DataStore = "annotations", IInv, TypeOK', GuardInv, [Next]_vars PROVE GuardInv'
  OBVIOUS
<1>1. \A p \in Runs : RunStep(p) /\ Guards(p)
  BY GuardSteps, Steps
<1>2. \A p \in Runs : Exists(api'[p]) /\ (api'[p].data.seen # "none" \/ Reported(api'[p]))
                         => api'[p].fin
  BY <1>1 DEF Guards, GuardInv
<1>3. UNCHANGED cache \/ (cache' = api /\ UNCHANGED api)
  BY Steps
<1>4. \A p \in Runs : Exists(cache'[p]) /\ cache'[p].data.seen # "none" => cache'[p].fin
  BY <1>3 DEF GuardInv
<1>5. \A p \in Runs : Exists(cache'[p]) /\ cache'[p].fin /\ Exists(api'[p]) => api'[p].fin
  BY <1>1, <1>3, FinalizerStays DEF GuardInv, IInv, StartInv, Exists
<1>6. work'.pc = "store" => work'.seen # "none"
  BY StoringSteps DEF IInv, GuardInv
<1>7. work'.pc = "writeStatus" /\ Exists(api'[work'.run]) => api'[work'.run].fin
  <2>1. CASE work.pc = "writeStatus" /\ work'.run = work.run
    <3>1. work.run \in Runs /\ api[work.run].st # "absent"
      BY <2>1 DEF IInv, TypeOK, StartInv
    <3> QED
      BY <1>1, <2>1, <3>1, FinalizerStays DEF GuardInv
  <2>2. CASE storePipelineRunData /\ work'.run = work.run
    <3>1. /\ work.run \in Runs /\ work.seen # "none"
          /\ updateLabelsAndAnnotations(work.run, work.copy.id, work.copy.orphan,
                                        [of |-> work.copy.id, seen |-> work.seen])
      BY <2>2 DEF storePipelineRunData, StoreInAnnotations, StoreInConfigMap, IInv, TypeOK, GuardInv
    <3>2. CASE UNCHANGED api /\ cache[work.run].data.seen = work.seen /\ Exists(cache[work.run])
      BY <2>2, <3>1, <3>2 DEF GuardInv
    <3>3. CASE api'[work.run].fin
      BY <2>2, <3>3
    <3>4. \/ UNCHANGED api /\ cache[work.run].data.seen = work.seen /\ Exists(cache[work.run])
          \/ api'[work.run].fin
      <4> DEFINE d == [of |-> work.copy.id, seen |-> work.seen]
      <4>1. d.seen = work.seen /\ updateLabelsAndAnnotations(work.run, work.copy.id, work.copy.orphan, d)
        BY <3>1
      <4> HIDE DEF d
      <4>2. /\ Exists(cache[work.run])
            /\ \/ UNCHANGED api /\ cache[work.run].data = d
               \/ Put(work.run, [api[work.run] EXCEPT !.id = work.copy.id, !.orphan = work.copy.orphan,
                                                     !.data = d, !.fin = TRUE])
        BY <4>1 DEF updateLabelsAndAnnotations
      <4>3. CASE UNCHANGED api /\ cache[work.run].data = d
        BY <4>1, <4>2, <4>3
      <4>4. CASE Put(work.run, [api[work.run] EXCEPT !.id = work.copy.id, !.orphan = work.copy.orphan,
                                                    !.data = d, !.fin = TRUE])
        <5> DEFINE new == [api[work.run] EXCEPT !.id = work.copy.id, !.orphan = work.copy.orphan,
                                                !.data = d, !.fin = TRUE]
        <5>1. new.fin
          BY <3>1 DEF IInv, TypeOK, PipelineRun
        <5>2. api'[work.run] = new
          BY <3>1, <4>4 DEF Put, IInv, TypeOK
        <5> QED
          BY <5>1, <5>2
      <4> QED
        BY <4>2, <4>3, <4>4
    <3> QED
      BY <3>2, <3>3, <3>4
  <2> QED
    BY <2>1, <2>2, StoringSteps DEF IInv
<1> QED
  BY <1>2, <1>4, <1>5, <1>6, <1>7 DEF GuardInv

\* ReportedRunHasFinalizer: with the run data in annotations, every run the controller
\* has reported on has the finalizer, whoever created it and whatever fails.
THEOREM ReportedFinalizers == Spec => []ReportedRunHasFinalizer
<1> DEFINE AnnInv == IInv /\ (DataStore = "annotations" => GuardInv)
<1>1. Init => AnnInv
  BY InvInit DEF Init, GuardInv, Absent, Idle, Exists
<1>2. AnnInv /\ [Next]_vars => AnnInv'
  BY InvStep, GuardStep DEF IInv
<1>3. AnnInv => ReportedRunHasFinalizer
  BY DEF GuardInv, ReportedRunHasFinalizer
<1> QED
  BY <1>1, <1>2, <1>3, PTL DEF Spec

----------------------------------------------------------------------------
(* The controller implements the life cycle *)

\* A step that writes a run writes no other and leaves Jenkins alone.
LEMMA OneRunAtATime ==
    IInv /\ [Next]_vars =>
        \/ UNCHANGED <<api, adopted>>
        \/ /\ UNCHANGED CleanedUp
           /\ \E p \in Runs : \A q \in Runs \ {p} :
                 api'[q] = api[q] /\ (q \in adopted' <=> q \in adopted)
<1> DEFINE Alone(p) ==
              \A q \in Runs \ {p} : api'[q] = api[q] /\ (q \in adopted' <=> q \in adopted)
<1> SUFFICES ASSUME IInv, [Next]_vars
             PROVE  \/ UNCHANGED <<api, adopted>>
                    \/ UNCHANGED CleanedUp /\ \E p \in Runs : Alone(p)
  OBVIOUS
<1> USE DEF IInv, k8sVars, auxVars
<1>1. ASSUME UNCHANGED <<builds, missed>> PROVE UNCHANGED CleanedUp
  BY <1>1 DEF CleanedUp
<1>a. CASE \E p \in Runs, b \in Builds : AdoptBuild(p, b)
  <2>1. PICK p \in Runs, b \in Builds : AdoptBuild(p, b)
    BY <1>a
  <2> QED
    BY <1>1, <2>1, AdoptEffect DEF AdoptBuild
<1> SUFFICES ASSUME UNCHANGED adopted, \A p \in Runs, b \in Builds : ~AdoptBuild(p, b)
             PROVE  UNCHANGED api \/ (UNCHANGED CleanedUp /\ \E p \in Runs : Alone(p))
  BY <1>a, AdoptedSteps
<1>2. ASSUME NEW p \in Runs, NEW o, Put(p, o) PROVE Alone(p)
  BY <1>2 DEF Put, TypeOK
<1>3. ASSUME NEW p \in Runs, Users(p) PROVE Alone(p) /\ UNCHANGED CleanedUp
  <2>1. UNCHANGED <<builds, missed>>
    BY <1>3 DEF Users, createPipelineRun, AdoptBuild, EditRun, DeleteRun, CollectGarbage
  <2> QED
    BY <1>1, <1>2, <1>3, <2>1 DEF Users, createPipelineRun, AdoptBuild, EditRun, DeleteRun, CollectGarbage
<1>4. CASE GiveUp \/ WriteRunId \/ WriteStartTime \/ makePipelineRunOrphan
           \/ storePipelineRunData \/ WriteStatus \/ RemoveFinalizer
  <2>1. work.run \in Runs /\ UNCHANGED <<builds, missed>>
    BY <1>4 DEF GiveUp, WriteRunId, WriteStartTime, makePipelineRunOrphan, storePipelineRunData,
                WriteStatus, RemoveFinalizer, TypeOK
  <2>2. UNCHANGED api \/ \E o : Put(work.run, o)
    BY <1>4 DEF GiveUp, WriteRunId, WriteStartTime, makePipelineRunOrphan, storePipelineRunData,
                WriteStatus, RemoveFinalizer, StoreInAnnotations, StoreInConfigMap,
                updateLabelsAndAnnotations, updateStatus
  <2> QED
    BY <1>1, <1>2, <2>1, <2>2
<1>5. CASE Fail \/ triggerJenkinsJob \/ NoSameRun \/ PollMissing \/ getPipelineRunResult
           \/ RemoveFinalizerConflict \/ deleteJenkinsJobHistory
  BY <1>5 DEF Fail, UpdateFails, SaveConflict, CallFails, TriggerReplyLost, triggerJenkinsJob, NoSameRun,
       PollMissing, getPipelineRunResult, RemoveFinalizerConflict, deleteJenkinsJobHistory
<1>6. CASE RemovePipeline \/ SyncCache \/ Restart \/ (\E b \in Builds : Jenkins(b)) \/ UNCHANGED vars
  BY <1>6 DEF RemovePipeline, SyncCache, Restart, Jenkins, StartElsewhere, BuildStarts, BuildFinishes, SkipBuild,
       CancelQueued, DiscardBuild, vars
<1>7. ASSUME NEW p \in Runs, Take(p) PROVE UNCHANGED api
  BY <1>7 DEF Take, Ignore, Begin, BeginDelete, BeginOrphan, BeginPoll, BeginTrigger
<1> QED
  BY <1>3, <1>4, <1>5, <1>6, <1>7 DEF Next, Proceed

\* Each step of the controller, of Jenkins and of the users is a step of the life
\* cycle or none at all.
LEMMA LifecycleStep == IInv /\ TypeOK' /\ [Next]_vars => [Lifecycle!LifeNext]_(Lifecycle!lifeVars)
<1> DEFINE life == [p \in Runs |-> LifeOf(p)]
           build == [p \in Runs |-> api[p].id]
           owed == {p \in Runs : api[p].fin}
<1> SUFFICES ASSUME IInv, TypeOK', [Next]_vars
             PROVE  Lifecycle!LifeNext \/ UNCHANGED <<life, build, owed, CleanedUp>>
  BY DEF Lifecycle!lifeVars
<1>1. CASE UNCHANGED <<api, adopted>>
  <2>1. UNCHANGED <<life, build, owed>>
    BY <1>1 DEF LifeOf
  <2>2. CleanedUp' \in SUBSET Builds /\ CleanedUp' = CleanedUp \cup CleanedUp'
    BY Steps DEF JenkinsStep, CleanedUp, TypeOK
  <2>3. Lifecycle!Clean
    BY <2>1, <2>2 DEF Lifecycle!Clean
  <2> QED
    BY <2>3 DEF Lifecycle!LifeNext
<1>2. ASSUME UNCHANGED CleanedUp, NEW p \in Runs,
             \A q \in Runs \ {p} : api'[q] = api[q] /\ (q \in adopted' <=> q \in adopted)
      PROVE  Lifecycle!LifeNext \/ UNCHANGED <<life, build, owed, CleanedUp>>
  <2>1. /\ life' = [life EXCEPT ![p] = LifeOf(p)']
        /\ build' = [build EXCEPT ![p] = api'[p].id]
        /\ owed' = IF api'[p].fin THEN owed \cup {p} ELSE owed \ {p}
        /\ life[p] = LifeOf(p) /\ build[p] = api[p].id /\ (p \in owed <=> api[p].fin)
    <3>1. \A q \in Runs \ {p} : LifeOf(q)' = LifeOf(q) /\ api'[q] = api[q]
      BY <1>2 DEF LifeOf, Exists, Reported, HasStarted
    <3>2. /\ life' = [q \in Runs |-> LifeOf(q)']
          /\ build' = [q \in Runs |-> api'[q].id]
          /\ owed' = {q \in Runs : api'[q].fin}
      OBVIOUS
    <3>3. life' = [life EXCEPT ![p] = LifeOf(p)']
      BY <3>1, <3>2
    <3>4. build' = [build EXCEPT ![p] = api'[p].id]
      BY <3>1, <3>2
    <3>5. owed' = IF api'[p].fin THEN owed \cup {p} ELSE owed \ {p}
      BY <3>1, <3>2
    <3> QED
      BY <3>3, <3>4, <3>5
  <2>2. ASSUME LifeOf(p)' = LifeOf(p), api'[p].id = api[p].id, api'[p].fin = api[p].fin
        PROVE  UNCHANGED <<life, build, owed, CleanedUp>>
    BY <1>2, <2>1, <2>2
  <2>a. CASE Adopted(p)
    <3>1. LifeOf(p) = "absent" /\ LifeOf(p)' = "adopted"
      BY <2>a DEF Adopted, LifeOf, Exists, Reported
    <3>2. api'[p].id \in Builds /\ ~api'[p].fin
      BY <2>a DEF Adopted
    <3>3. p \notin owed
      BY <2>1, <2>a DEF Adopted, IInv, StartInv
    <3>4. Lifecycle!Adopt(p)
      BY <1>2, <2>1, <3>1, <3>2, <3>3 DEF Lifecycle!Adopt
    <3> QED
      BY <3>4 DEF Lifecycle!LifeNext
  <2>b. CASE ~Adopted(p)
    <3>1. /\ p \in adopted' <=> p \in adopted
          /\ Same(p) \/ Created(p) \/ Named(p) \/ Phased(p) \/ Departed(p)
      BY <2>b, Steps DEF RunStep
    <3>2. CASE Same(p)
      BY <2>2, <3>1, <3>2 DEF Same, LifeOf, Exists, Reported, HasStarted
    <3>3. CASE Created(p)
      <4>1. LifeOf(p) = "absent" /\ p \notin adopted
        BY <3>3 DEF Created, LifeOf, Exists, IInv, AdoptInv, StartInv
      <4>2. LifeOf(p)' = "pending"
        BY <3>1, <3>3, <4>1 DEF Created, LifeOf, Exists, Reported, HasStarted
      <4>3. api'[p].id = api[p].id /\ ~api'[p].fin /\ ~api[p].fin
        BY <3>3 DEF Created, IInv, StartInv, HasStarted
      <4>4. Lifecycle!Create(p)
        BY <1>2, <2>1, <4>1, <4>2, <4>3 DEF Lifecycle!Create
      <4> QED
        BY <4>4 DEF Lifecycle!LifeNext
    <3>4. CASE Named(p) /\ api'[p].id = api[p].id
      <4>1. LifeOf(p)' = LifeOf(p)
        BY <3>1, <3>4 DEF Named, LifeOf, Exists, Reported, HasStarted
      <4>2. CASE api[p].fin
        BY <2>2, <3>4, <4>1, <4>2 DEF Named, IInv, TypeOK, PipelineRun
      <4>3. CASE ~api[p].fin
        <5>1. LifeOf(p) \in {"pending", "adopted", "reported"}
          BY <3>4, <4>3 DEF Named, LifeOf, IInv, StartedRunHasFinalizer
        <5>2. Lifecycle!Oblige(p)
          BY <1>2, <2>1, <3>4, <4>1, <5>1 DEF Named, Lifecycle!Oblige
        <5> QED
          BY <5>2 DEF Lifecycle!LifeNext
      <4> QED
        BY <4>2, <4>3
    <3>5. CASE Named(p) /\ api'[p].id # api[p].id
      <4>1. LifeOf(p) \in {"pending", "started"} /\ LifeOf(p)' = "started"
        BY <3>1, <3>5 DEF Named, LifeOf, Exists, Reported, HasStarted
      <4>2. api'[p].id \in Builds
        BY <3>5 DEF Named, IInv, TypeOK
      <4>3. Lifecycle!Start(p)
        BY <1>2, <2>1, <3>5, <4>1, <4>2 DEF Named, Lifecycle!Start
      <4> QED
        BY <4>3 DEF Lifecycle!LifeNext
    <3>6. CASE Phased(p)
      <4>1. CASE Reported(api'[p]) /\ ~Reported(api[p])
        <5>1. LifeOf(p) \in {"started", "adopted"} /\ LifeOf(p)' = "reported"
          BY <3>6, <4>1 DEF Phased, LifeOf, Exists
        <5>2. Lifecycle!Report(p)
          BY <1>2, <2>1, <3>6, <5>1 DEF Phased, Lifecycle!Report
        <5> QED
          BY <5>2 DEF Lifecycle!LifeNext
      <4>2. CASE Reported(api'[p]) <=> Reported(api[p])
        BY <2>2, <3>1, <3>6, <4>2 DEF Phased, LifeOf, Exists, HasStarted
      <4> QED
        BY <3>6, <4>1, <4>2 DEF Phased
    <3>7. CASE Departed(p)
      <4>1. CASE api'[p].st = "deleting"
        BY <2>2, <3>1, <3>7, <4>1 DEF Departed, LifeOf, Exists, Reported, HasStarted
      <4>2. CASE api'[p].st = "gone"
        <5>1. /\ LifeOf(p) \in {"pending", "started", "adopted", "reported"}
              /\ LifeOf(p)' = "gone"
          BY <3>7, <4>2 DEF Departed, LifeOf, Exists
        <5>2. Lifecycle!Remove(p)
          BY <1>2, <2>1, <3>7, <4>2, <5>1 DEF Departed, HasStarted, Lifecycle!Remove
        <5> QED
          BY <5>2 DEF Lifecycle!LifeNext
      <4> QED
        BY <3>7, <4>1, <4>2 DEF Departed
    <3> QED
      BY <3>1, <3>2, <3>3, <3>4, <3>5, <3>6, <3>7
  <2> QED
    BY <2>a, <2>b
<1> QED
  BY <1>1, <1>2, OneRunAtATime

\* FollowsLifecycle: what the REST handler, the controller, Jenkins and the users do
\* to a run together implements PipelineRunLifecycle, whatever fails.
THEOREM Implements == Spec => FollowsLifecycle
<1>1. Init => Lifecycle!LifeInit
  BY DEF Init, Lifecycle!LifeInit, LifeOf, Exists, Absent, CleanedUp
<1>2. IInv /\ IInv' /\ [Next]_vars => [Lifecycle!LifeNext]_(Lifecycle!lifeVars)
  BY LifecycleStep DEF IInv
<1> QED
  BY <1>1, <1>2, Invariance, PTL DEF Spec, FollowsLifecycle, Lifecycle!LifeSpec
=============================================================================
