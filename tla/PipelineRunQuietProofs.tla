----------------------- MODULE PipelineRunQuietProofs -----------------------
(***************************************************************************)
(* Proofs about PipelineRunController while no call fails and the cache    *)
(* catches up before a retry gives up: the controller never begins anew    *)
(* with a run whose cached version lacks what it has just written.         *)
(***************************************************************************)
EXTENDS PipelineRunControllerProofs

Quiet == Disturbances \cap {"error", "lag"} = {}

\* No Reconcile ends between the acceptance of a build and the record of its ID.
Unbroken == Disturbances \cap {"lostReply", "crash"} = {}

----------------------------------------------------------------------------
(* The inductive invariant *)

\* What a cache may say of the presence of a run, and which runs have a finalizer.
PresenceInv ==
    /\ \A p \in Runs : api[p].st = "absent" => api[p] = Absent /\ cache[p] = Absent
    /\ \A p \in Runs : cache[p].st = "absent" => cache[p] = Absent
    /\ \A p \in Runs : cache[p].st = "gone" => cache[p] = api[p]
    /\ \A p \in Runs : api[p].st = "deleting" => api[p].fin
    /\ \A p \in Runs \ NoRef : ~HasStarted(api[p]) => ~api[p].fin
    /\ work.pc # "idle" => cache[work.run].st # "absent"

\* A run is given one run ID, or created with it, and whoever triggers or is about
\* to name it knows that it has none.
NamingInv ==
    /\ \A p \in Runs : HasStarted(cache[p]) => cache[p].id = api[p].id
    /\ work.pc # "idle" /\ HasStarted(work.copy) => work.copy.id = api[work.run].id
    /\ \A p \in Runs : HasStarted(api[p]) /\ ~HasStarted(cache[p]) =>
          \/ work.pc = "writeStart" /\ work.run = p
          \/ p \in adopted /\ cache[p].st = "absent"
    /\ work.pc \in {"trigger", "check", "writeId"} => ~HasStarted(api[work.run])

\* A build that was asked for and is not the run's yet is in the worker's hand, if
\* nothing makes the worker forget it.
AskedInv ==
    /\ TriggeredOnce
    /\ \A p \in Runs : asked[p] # {} /\ ~HasStarted(api[p]) =>
          \/ api[p].st = "gone"
          \/ work.pc \in {"check", "writeId"} /\ work.run = p /\ asked[p] = {work.got}

\* The ID about to be written is that of no run the controller started.
OwnerInv ==
    /\ OneRunPerBuild
    /\ work.pc = "writeId" => \A q \in Runs \ adopted : Exists(api[q]) => api[q].id # work.got

\* Who has copies of the run data, and what is known of a build that was seen finished.
DataInv ==
    /\ \A p \in Runs : cache[p].data = api[p].data \/ (work.pc = "writeStatus" /\ work.run = p)
    /\ work.pc \notin {"idle", "writeStatus"} => work.copy.data = api[work.run].data
    /\ work.pc = "writeStatus" =>
          RunDataOf(work.run) = [of |-> work.copy.id, seen |-> work.seen]

Over == {b \in Builds : builds[b] \in {"finished", "deleted"}}

SeenInv ==
    /\ \A p \in Runs : HasCompleted(api[p]) => api[p].id \in Over
    /\ work.pc \in {"store", "writeStatus"} /\ work.seen = "finished" => work.copy.id \in Over
    /\ work.pc \in {"store", "writeStatus"} /\ HasCompleted(api[work.run]) => work.seen = "finished"

QuietInv ==
    /\ IInv
    /\ PresenceInv
    /\ NamingInv
    /\ OwnerInv
    /\ DataInv
    /\ SeenInv
    /\ CompletedRunIsFinal

LEMMA QuietInit == Init => QuietInv /\ AskedInv
<1> SUFFICES ASSUME Init PROVE QuietInv /\ AskedInv
  OBVIOUS
<1>1. /\ \A p \in Runs : api[p] = Absent /\ cache[p] = Absent /\ asked[p] = {}
      /\ work.pc = "idle"
  BY DEF Init, Idle
<1>2. /\ ~HasStarted(Absent) /\ ~Reported(Absent) /\ ~HasCompleted(Absent) /\ ~Exists(Absent)
      /\ Absent.st = "absent" /\ ~Absent.fin
  BY DEF Absent, HasStarted, Reported, HasCompleted, Exists
<1>3. PresenceInv
  BY <1>1, <1>2 DEF PresenceInv
<1>4. NamingInv /\ AskedInv /\ TriggeredOnce
  BY <1>1, <1>2 DEF NamingInv, AskedInv, TriggeredOnce
<1>5. OwnerInv
  BY <1>1, <1>2 DEF OwnerInv, OneRunPerBuild
<1>6. DataInv /\ SeenInv /\ CompletedRunIsFinal
  BY <1>1, <1>2 DEF DataInv, SeenInv, CompletedRunIsFinal
<1> QED
  BY <1>3, <1>4, <1>5, <1>6, InvInit DEF QuietInv

----------------------------------------------------------------------------
(* What the writes change of the fields these invariants are about *)

LEMMA LabelFields ==
    ASSUME TypeOK, FreshInv, NEW p \in Runs, NEW i, NEW r, NEW d,
           updateLabelsAndAnnotations(p, i, r, d)
    PROVE  /\ \A q \in Runs \ {p} : api'[q] = api[q]
           /\ \/ api' = api /\ cache[p].id = i /\ cache[p].data = d
              \/ /\ p \in fresh /\ Exists(api[p]) /\ cache[p] = api[p]
                 /\ api'[p].id = i /\ api'[p].data = d /\ api'[p].fin
                 /\ api'[p].st = api[p].st /\ api'[p].phase = api[p].phase
                 /\ api'[p].src = api[p].src
<1> DEFINE new == [api[p] EXCEPT !.id = i, !.orphan = r, !.data = d, !.fin = TRUE]
<1>1. \/ cache[p].id = i /\ cache[p].data = d /\ api' = api
      \/ p \in fresh /\ Exists(cache[p]) /\ Put(p, new)
  BY DEF updateLabelsAndAnnotations
<1>2. CASE p \in fresh /\ Exists(cache[p]) /\ Put(p, new)
  <2>1. /\ new.id = i /\ new.data = d /\ new.fin
        /\ new.st = api[p].st /\ new.phase = api[p].phase /\ new.src = api[p].src
    BY DEF TypeOK, PipelineRun
  <2>2. api' = [api EXCEPT ![p] = new] /\ cache[p] = api[p]
    BY <1>2 DEF Put, FreshInv
  <2> QED
    BY <1>2, <2>1, <2>2 DEF TypeOK
<1> QED
  BY <1>1, <1>2

LEMMA StatusFields ==
    ASSUME TypeOK, FreshInv, NEW p \in Runs, NEW f, NEW b, updateStatus(p, f, b)
    PROVE  /\ \A q \in Runs \ {p} : api'[q] = api[q]
           /\ p \in fresh /\ Exists(api[p]) /\ cache[p] = api[p]
           /\ api'[p].id = api[p].id /\ api'[p].fin = api[p].fin
           /\ api'[p].st = api[p].st /\ api'[p].data = api[p].data
           /\ api'[p].phase = f /\ api'[p].src = b
BY DEF updateStatus, Put, TypeOK, FreshInv, PipelineRun, Exists

\* The fields no deletion touches.
Kept(p) ==
    /\ api'[p].id = api[p].id /\ api'[p].data = api[p].data
    /\ api'[p].phase = api[p].phase /\ api'[p].src = api[p].src

LEMMA DeleteFields ==
    ASSUME TypeOK, NEW p \in Runs, Put(p, Deleted(api[p]))
    PROVE  /\ \A q \in Runs \ {p} : api'[q] = api[q]
           /\ Kept(p) /\ api'[p].fin = api[p].fin
           /\ api'[p].st = IF api[p].fin THEN "deleting" ELSE "gone"
BY DEF Put, Deleted, Kept, TypeOK, PipelineRun

LEMMA RemoveFields ==
    ASSUME TypeOK, FreshInv, RemoveFinalizer
    PROVE  /\ work.run \in Runs
           /\ \A q \in Runs \ {work.run} : api'[q] = api[q]
           /\ Kept(work.run) /\ ~api'[work.run].fin /\ api'[work.run].st = "gone"
BY DEF RemoveFinalizer, Put, Kept, TypeOK, FreshInv, PipelineRun, Deleting, Work

----------------------------------------------------------------------------
(* What any step may do to a run *)

Left(p) == api'[p] = api[p]

Born(p) == api[p].st = "absent" /\ api'[p] = [Absent EXCEPT !.st = "live"]

\* Created for a build, with its run ID.
Adopting(p) ==
    /\ api[p].st = "absent" /\ p \notin NoRef /\ p \in adopted'
    /\ api'[p].st = "live" /\ HasStarted(api'[p]) /\ ~api'[p].fin
    /\ api'[p].data = NoData /\ api'[p].phase = "None"
    /\ asked'[p] = asked[p] \cup {api'[p].id}

Marked(p) ==
    /\ p \in NoRef /\ Exists(api[p])
    /\ Kept(p) /\ api'[p].st = api[p].st /\ api'[p].fin

\* The one write that changes a run ID.
GivenId(p) ==
    /\ work.pc = "writeId" /\ work.run = p /\ work'.pc = "writeStart"
    /\ Exists(api[p]) /\ ~HasStarted(api[p]) /\ p \notin NoRef
    /\ api'[p].id = work.got /\ work.got # NoBuild
    /\ api'[p].st = api[p].st /\ api'[p].fin /\ api'[p].data = api[p].data
    /\ api'[p].phase = api[p].phase /\ api'[p].src = api[p].src

\* The one write that changes run data.
Stored(p) ==
    /\ work.pc = "store" /\ work.run = p /\ work'.pc = "writeStatus"
    /\ Exists(api[p]) /\ HasStarted(api[p]) /\ DataStore = "annotations"
    /\ api'[p].data = [of |-> work.copy.id, seen |-> work.seen]
    /\ api'[p].id = api[p].id /\ api'[p].st = api[p].st /\ api'[p].fin
    /\ api'[p].phase = api[p].phase /\ api'[p].src = api[p].src

Dated(p) ==
    /\ work.pc = "writeStart" /\ work.run = p /\ work'.pc = "idle"
    /\ Exists(api[p]) /\ ~Reported(api[p]) /\ api'[p].phase = "Started"
    /\ api'[p].id = api[p].id /\ api'[p].st = api[p].st
    /\ api'[p].fin = api[p].fin /\ api'[p].data = api[p].data

Followed(p) ==
    /\ work.pc = "writeStatus" /\ work.run = p /\ work'.pc = "idle"
    /\ Exists(api[p]) /\ HasStarted(work.copy)
    /\ api'[p].phase = IF work.seen = "finished" THEN "Completed" ELSE "Running"
    /\ api'[p].src = work.copy.id
    /\ api'[p].id = api[p].id /\ api'[p].st = api[p].st
    /\ api'[p].fin = api[p].fin /\ api'[p].data = api[p].data

Leaving(p) ==
    /\ Exists(api[p]) /\ Kept(p)
    /\ api'[p].fin => api[p].fin
    /\ \/ api'[p].st = "deleting" /\ api'[p].fin
       \/ api'[p].st = "gone"

QuietRun(p) ==
    \/ Left(p) \/ Born(p) \/ Adopting(p) \/ Marked(p) \/ GivenId(p)
    \/ Stored(p) \/ Dated(p) \/ Followed(p) \/ Leaving(p)

LEMMA AdoptFields ==
    ASSUME TypeOK, NEW p \in Runs, NEW b \in Builds, AdoptBuild(p, b)
    PROVE  /\ Adopting(p)
           /\ \A q \in Runs \ {p} : api'[q] = api[q] /\ asked'[q] = asked[q]
<1> DEFINE new == [Absent EXCEPT !.st = "live", !.id = b]
<1>1. /\ new.st = "live" /\ new.id = b /\ ~new.fin /\ new.data = NoData /\ new.phase = "None"
  BY DEF Absent
<1>2. /\ api' = [api EXCEPT ![p] = new] /\ asked' = [asked EXCEPT ![p] = @ \cup {b}]
      /\ adopted' = adopted \cup {p} /\ api[p].st = "absent" /\ p \notin NoRef
  BY DEF AdoptBuild, Put
<1> HIDE DEF new
<1>3. api'[p] = new /\ asked'[p] = asked[p] \cup {b}
  BY <1>2 DEF TypeOK
<1>4. Adopting(p)
  BY <1>1, <1>2, <1>3, ConstantsAssumption DEF Adopting, HasStarted
<1>5. \A q \in Runs \ {p} : api'[q] = api[q] /\ asked'[q] = asked[q]
  BY <1>2 DEF TypeOK
<1> QED
  BY <1>4, <1>5

LEMMA QuietRuns == QuietInv /\ [Next]_vars => \A p \in Runs : QuietRun(p)
<1> SUFFICES ASSUME QuietInv, [Next]_vars PROVE \A p \in Runs : QuietRun(p)
  OBVIOUS
<1> USE DEF QuietInv, IInv, k8sVars, auxVars
<1>1. ASSUME UNCHANGED api PROVE \A p \in Runs : QuietRun(p)
  BY <1>1 DEF QuietRun, Left
<1>2. ASSUME NEW p \in Runs, createPipelineRun(p) PROVE \A q \in Runs : QuietRun(q)
  BY <1>2 DEF createPipelineRun, Put, TypeOK, QuietRun, Left, Born
<1>a. ASSUME NEW p \in Runs, NEW b \in Builds, AdoptBuild(p, b) PROVE \A q \in Runs : QuietRun(q)
  BY <1>a, AdoptFields DEF QuietRun, Left
<1>3. ASSUME NEW p \in Runs, EditRun(p) PROVE \A q \in Runs : QuietRun(q)
  BY <1>3 DEF EditRun, Put, TypeOK, QuietRun, Left
<1>4. ASSUME NEW p \in Runs, Put(p, Deleted(api[p])), api[p].st = "live"
      PROVE  \A q \in Runs : QuietRun(q)
  <2>1. Leaving(p)
    BY <1>4, DeleteFields DEF Leaving, Exists
  <2> QED
    BY <1>4, <2>1, DeleteFields DEF QuietRun, Left
<1>5. CASE GiveUp
  BY <1>1, <1>4, <1>5 DEF GiveUp, TypeOK
<1>6. ASSUME NEW p \in Runs, QuietRun(p), \A q \in Runs \ {p} : api'[q] = api[q]
      PROVE  \A q \in Runs : QuietRun(q)
  BY <1>6 DEF QuietRun, Left
<1>7. CASE WriteRunId
  <2>1. /\ work.run \in Runs /\ work.run \notin NoRef /\ work.got # NoBuild
        /\ ~HasStarted(api[work.run]) /\ work.pc = "writeId"
        /\ work.copy.data = api[work.run].data
    BY <1>7 DEF WriteRunId, WorkInv, FirstRun, TypeOK, NamingInv, DataInv
  <2>2. work'.pc = "writeStart"
    BY <1>7, Moves DEF WriteRunId
  <2>3. /\ \A q \in Runs \ {work.run} : api'[q] = api[q]
        /\ api' = api \/ GivenId(work.run)
    BY <1>7, <2>1, <2>2, LabelFields DEF WriteRunId, GivenId
  <2> QED
    BY <1>1, <1>6, <2>1, <2>3 DEF QuietRun
<1>8. CASE makePipelineRunOrphan
  <2>1. /\ work.run \in NoRef /\ work.run \in Runs /\ ~HasStarted(api[work.run])
        /\ work.copy.data = api[work.run].data
    BY <1>8 DEF makePipelineRunOrphan, WorkInv, StartInv, TypeOK, DataInv
  <2>2. work.copy.id = api[work.run].id
    BY <1>8, <2>1 DEF makePipelineRunOrphan, StartInv, HasStarted
  <2> DEFINE d == work.copy.data
  <2>3. PICK r \in BOOLEAN : updateLabelsAndAnnotations(work.run, work.copy.id, r, d)
    BY <1>8 DEF makePipelineRunOrphan
  <2>4. /\ \A q \in Runs \ {work.run} : api'[q] = api[q]
        /\ \/ api' = api
           \/ /\ Exists(api[work.run])
              /\ api'[work.run].id = work.copy.id /\ api'[work.run].data = d
              /\ api'[work.run].fin /\ api'[work.run].st = api[work.run].st
              /\ api'[work.run].phase = api[work.run].phase
              /\ api'[work.run].src = api[work.run].src
    BY <2>1, <2>3, LabelFields
  <2>5. api' = api \/ Marked(work.run)
    BY <2>1, <2>2, <2>4 DEF Marked, Kept
  <2> QED
    BY <1>1, <1>6, <2>1, <2>4, <2>5 DEF QuietRun
<1>9. CASE storePipelineRunData
  <2>1. CASE StoreInConfigMap
    BY <1>1, <2>1 DEF StoreInConfigMap
  <2>2. CASE StoreInAnnotations
    <3>1. /\ work.run \in Runs /\ HasStarted(api[work.run]) /\ work.pc = "store"
          /\ work.copy.id = api[work.run].id
      BY <1>9 DEF storePipelineRunData, WorkInv, Following, StartInv, NamingInv, TypeOK
    <3>2. work'.pc = "writeStatus"
      BY <1>9, Moves DEF storePipelineRunData
    <3> DEFINE d == [of |-> work.copy.id, seen |-> work.seen]
    <3>3. /\ DataStore = "annotations"
          /\ updateLabelsAndAnnotations(work.run, work.copy.id, work.copy.orphan, d)
      BY <2>2 DEF StoreInAnnotations
    <3>4. /\ \A q \in Runs \ {work.run} : api'[q] = api[q]
          /\ \/ api' = api
             \/ /\ Exists(api[work.run])
                /\ api'[work.run].id = work.copy.id /\ api'[work.run].data = d
                /\ api'[work.run].fin /\ api'[work.run].st = api[work.run].st
                /\ api'[work.run].phase = api[work.run].phase
                /\ api'[work.run].src = api[work.run].src
      BY <3>1, <3>3, LabelFields
    <3>5. api' = api \/ Stored(work.run)
      BY <3>1, <3>2, <3>3, <3>4 DEF Stored
    <3> QED
      BY <1>1, <1>6, <3>1, <3>4, <3>5 DEF QuietRun
  <2> QED
    BY <1>9, <2>1, <2>2 DEF storePipelineRunData
<1>10. CASE WriteStartTime
  <2>1. work.run \in Runs /\ ~HasStarted(work.copy) /\ work.pc = "writeStart"
    BY <1>10 DEF WriteStartTime, WorkInv, FirstRun, TypeOK
  <2>2. ~Reported(api[work.run])
    BY <2>1 DEF ReportInv, HasStarted
  <2>3. work'.pc = "idle"
    BY <1>10, Moves DEF WriteStartTime
  <2>4. Dated(work.run) /\ \A q \in Runs \ {work.run} : api'[q] = api[q]
    BY <1>10, <2>1, <2>2, <2>3, StatusFields DEF WriteStartTime, Dated
  <2> QED
    BY <1>6, <2>1, <2>4 DEF QuietRun
<1>11. CASE WriteStatus
  <2>1. work.run \in Runs /\ HasStarted(work.copy) /\ work.pc = "writeStatus"
    BY <1>11 DEF WriteStatus, WorkInv, Following, TypeOK
  <2>2. work'.pc = "idle"
    BY <1>11, Moves DEF WriteStatus
  <2>3. Followed(work.run) /\ \A q \in Runs \ {work.run} : api'[q] = api[q]
    BY <1>11, <2>1, <2>2, StatusFields DEF WriteStatus, Followed
  <2> QED
    BY <1>6, <2>1, <2>3 DEF QuietRun
<1>12. CASE RemoveFinalizer
  <2>1. Exists(api[work.run])
    BY <1>12, RemoveEffect DEF RemoveFinalizer, WorkInv, Deleting, Exists
  <2>2. Leaving(work.run)
    BY <1>12, <2>1, RemoveFields DEF Leaving
  <2> QED
    BY <1>6, <1>12, <2>2, RemoveFields DEF QuietRun
<1>13. CASE Fail \/ triggerJenkinsJob \/ NoSameRun \/ PollMissing \/ getPipelineRunResult
            \/ RemoveFinalizerConflict \/ deleteJenkinsJobHistory
  BY <1>1, <1>13 DEF Fail, UpdateFails, SaveConflict, CallFails, TriggerReplyLost, triggerJenkinsJob,
                     NoSameRun, PollMissing, getPipelineRunResult, RemoveFinalizerConflict,
                     deleteJenkinsJobHistory
<1>14. CASE RemovePipeline \/ SyncCache \/ Restart \/ (\E b \in Builds : Jenkins(b)) \/ UNCHANGED vars
  BY <1>1, <1>14 DEF RemovePipeline, SyncCache, Restart, Jenkins, StartElsewhere, BuildStarts, BuildFinishes, SkipBuild,
       CancelQueued, DiscardBuild, vars
<1>15. ASSUME NEW p \in Runs, Take(p) PROVE \A q \in Runs : QuietRun(q)
  BY <1>1, <1>15 DEF Take, Ignore, Begin, BeginDelete, BeginOrphan, BeginPoll, BeginTrigger
<1>16. ASSUME NEW p \in Runs, DeleteRun(p) PROVE \A q \in Runs : QuietRun(q)
  BY <1>4, <1>16 DEF DeleteRun
<1> QED
  BY <1>2, <1>a, <1>3, <1>5, <1>7, <1>8, <1>9, <1>10, <1>11, <1>12, <1>13, <1>14, <1>15, <1>16
     DEF Next, Users, CollectGarbage, Proceed

----------------------------------------------------------------------------
(* What any step may do to the worker *)

Beside == UNCHANGED <<asked, configMaps>>

\* Everybody else, the informer among them, leaves the worker alone.
Holding ==
    /\ UNCHANGED configMaps
    /\ \A p \in Runs : asked'[p] = asked[p] \/ Adopting(p)
    /\ work'.pc = work.pc /\ work'.run = work.run /\ work'.copy = work.copy
    /\ work'.got = work.got /\ work'.seen = work.seen

Taking(p) ==
    /\ Beside /\ UNCHANGED <<api, cache, builds>>
    /\ work.pc = "idle"
    /\ work'.run = p /\ work'.copy = cache[p] /\ cache[p].st # "absent"
    /\ \/ work'.pc \in {"deleteHistory", "orphan"}
       \/ work'.pc = "poll" /\ HasStarted(cache[p])
       \/ work'.pc = "trigger" /\ ~HasStarted(cache[p])

\* A Reconcile ends before the trigger, after the run has gone, or with a cache
\* that has caught up.
Dropping ==
    /\ Beside /\ UNCHANGED <<cache, builds>>
    /\ work.pc # "idle" /\ work'.pc = "idle"
    /\ \/ work.pc \in {"trigger", "orphan", "poll", "store", "deleteHistory", "removeFinalizer"}
       \/ work.pc = "check" /\ api'[work.run].st = "gone"
       \/ UNCHANGED api /\ cache[work.run].st = "gone"
       \/ work.pc \in {"writeStart", "writeStatus"} /\ work.run \in fresh

Triggering ==
    /\ UNCHANGED <<api, cache, configMaps>>
    /\ work.pc = "trigger" /\ work'.pc = "check"
    /\ work'.run = work.run /\ work'.copy = work.copy
    /\ asked' = [asked EXCEPT ![work.run] = @ \cup {work'.got}]

Clearing ==
    /\ Beside /\ UNCHANGED <<api, cache>>
    /\ work.pc = "check" /\ ~hasSamePipelineRun /\ work'.pc = "writeId"
    /\ work'.run = work.run /\ work'.copy = work.copy /\ work'.got = work.got

Naming ==
    /\ Beside /\ UNCHANGED cache
    /\ work.pc = "writeId" /\ work'.pc = "writeStart"
    /\ work'.run = work.run /\ work'.copy = work.copy
    /\ GivenId(work.run)

Polling ==
    /\ Beside /\ UNCHANGED <<api, cache, builds>>
    /\ work.pc = "poll" /\ work'.pc = "store"
    /\ work'.run = work.run /\ work'.copy = work.copy
    /\ builds[work.copy.id] \in {"queued", "running", "skipped", "finished"}
    /\ work'.seen = "finished" <=> builds[work.copy.id] = "finished"

Storing ==
    /\ UNCHANGED <<asked, cache, builds>>
    /\ work.pc = "store" /\ work'.pc = "writeStatus"
    /\ work'.run = work.run /\ work'.copy = work.copy /\ work'.seen = work.seen
    /\ RunDataOf(work.run)' = [of |-> work.copy.id, seen |-> work.seen]
    /\ \A p \in Runs \ {work.run} : RunDataOf(p)' = RunDataOf(p)

Erasing ==
    /\ Beside /\ UNCHANGED <<api, cache>>
    /\ work.pc = "deleteHistory" /\ work'.pc = "removeFinalizer"
    /\ work'.run = work.run /\ work'.copy = work.copy

\* The worker forgets what it was about: the reply to the trigger is lost, or the
\* controller starts anew, with a cache that has been filled.
Broken ==
    /\ UNCHANGED <<api, configMaps>> /\ work'.pc = "idle"
    /\ \/ "lostReply" \in Disturbances /\ work.pc = "trigger" /\ UNCHANGED cache
       \/ "crash" \in Disturbances /\ cache' = api

QuietWork ==
    \/ Holding \/ (\E p \in Runs : Taking(p)) \/ Dropping \/ Broken
    \/ Triggering \/ Clearing \/ Naming \/ Polling \/ Storing \/ Erasing

LEMMA QuietWorks == Quiet /\ QuietInv /\ TypeOK' /\ [Next]_vars => QuietWork
<1> SUFFICES ASSUME Quiet, QuietInv, TypeOK', [Next]_vars PROVE QuietWork
  OBVIOUS
<1> USE DEF QuietInv, IInv, k8sVars, auxVars
<1>1. ASSUME UNCHANGED <<work, asked, configMaps>> PROVE QuietWork
  BY <1>1 DEF QuietWork, Holding, Beside
<1>2. ASSUME NEW p \in Runs, Users(p) PROVE QuietWork
  <2>1. CASE createPipelineRun(p)
    BY <1>1, <2>1 DEF createPipelineRun
  <2>2. CASE EditRun(p) \/ DeleteRun(p)
    BY <2>2 DEF EditRun, DeleteRun, Outdate, TypeOK, Work, QuietWork, Holding, Beside
  <2>3. ASSUME NEW b \in Builds, AdoptBuild(p, b) PROVE QuietWork
    <3>1. UNCHANGED <<work, configMaps>>
      BY <2>3 DEF AdoptBuild
    <3>2. \A q \in Runs : asked'[q] = asked[q] \/ Adopting(q)
      BY <2>3, AdoptFields
    <3> QED
      BY <3>1, <3>2 DEF QuietWork, Holding
  <2> QED
    BY <1>2, <2>1, <2>2, <2>3 DEF Users, CollectGarbage
<1>3. CASE RemovePipeline \/ SyncCache \/ (\E b \in Builds : Jenkins(b)) \/ UNCHANGED vars
  BY <1>1, <1>3 DEF RemovePipeline, SyncCache, Jenkins, StartElsewhere, BuildStarts, BuildFinishes, SkipBuild, CancelQueued,
       DiscardBuild, vars
<1>4. CASE Restart \/ TriggerReplyLost
  BY <1>4 DEF Restart, TriggerReplyLost, Requeue, Idle, QuietWork, Broken
<1>5. ASSUME NEW p \in Runs, Take(p) PROVE QuietWork
  <2>1. CASE Ignore(p)
    BY <1>1, <2>1 DEF Ignore
  <2>2. ASSUME NEW c, Begin(p, c)
        PROVE  /\ work'.pc = c /\ work'.run = p /\ work'.copy = cache[p] /\ work.pc = "idle"
               /\ Beside /\ UNCHANGED <<api, cache, builds>>
    BY <2>2 DEF Begin, Idle, Beside
  <2>3. CASE BeginDelete(p) \/ BeginOrphan(p) \/ BeginPoll(p) \/ BeginTrigger(p)
    <3>1. cache[p].st # "absent"
      BY <2>3 DEF BeginDelete, BeginOrphan, BeginPoll, BeginTrigger, Workable
    <3>2. Taking(p)
      BY <2>2, <2>3, <3>1 DEF BeginDelete, BeginOrphan, BeginPoll, BeginTrigger, Taking
    <3> QED
      BY <3>2 DEF QuietWork
  <2> QED
    BY <1>5, <2>1, <2>3 DEF Take
<1>6. CASE triggerJenkinsJob
  <2>1. PICK b \in Builds : Accept(b) /\ work' = [work EXCEPT !.pc = "check", !.got = b]
    BY <1>6 DEF triggerJenkinsJob
  <2>2. /\ work'.pc = "check" /\ work'.got = b
        /\ work'.run = work.run /\ work'.copy = work.copy
    BY <2>1 DEF TypeOK, Work
  <2>3. Triggering
    BY <1>6, <2>1, <2>2 DEF triggerJenkinsJob, Triggering, Accept
  <2> QED
    BY <2>3 DEF QuietWork
<1>7. CASE UpdateFails
  <2>1. work'.pc = "idle" /\ Beside /\ UNCHANGED <<api, cache, builds>> /\ work.pc # "idle"
    BY <1>7, Moves DEF UpdateFails, Beside
  <2>2. work.run \in Runs /\ cache[work.run].st \in {"absent", "live", "deleting", "gone"}
    BY <2>1 DEF TypeOK, PipelineRun
  <2>3. cache[work.run].st = "gone"
    BY <1>7, <2>1, <2>2 DEF UpdateFails, Quiet, PresenceInv, Exists
  <2> QED
    BY <2>1, <2>3 DEF QuietWork, Dropping
<1>8. CASE CallFails
  <2>1. work.pc = "trigger"
    BY <1>8 DEF CallFails, Quiet
  <2> QED
    BY <1>8, <2>1, Moves DEF CallFails, QuietWork, Dropping, Beside
<1>9. CASE GiveUp
  <2>1. /\ work.run \in Runs /\ work.run \notin NoRef /\ ~HasStarted(api[work.run])
        /\ work.pc = "check" /\ work'.pc = "idle"
    BY <1>9, Moves DEF GiveUp, WorkInv, FirstRun, TypeOK, NamingInv
  <2>2. ~api[work.run].fin /\ api[work.run].st \in {"live", "gone"}
    BY <2>1 DEF PresenceInv, TypeOK, PipelineRun, Absent
  <2>3. api'[work.run].st = "gone"
    BY <1>9, <2>1, <2>2, DeleteFields DEF GiveUp
  <2> QED
    BY <1>9, <2>1, <2>3 DEF GiveUp, QuietWork, Dropping, Beside
<1>10. CASE NoSameRun
  BY <1>10, Moves DEF NoSameRun, QuietWork, Clearing, Beside
<1>11. CASE WriteRunId
  <2>1. /\ work.run \in Runs /\ work.run \notin NoRef /\ work.got # NoBuild
        /\ ~HasStarted(api[work.run]) /\ work.pc = "writeId"
        /\ work.copy.data = api[work.run].data
    BY <1>11 DEF WriteRunId, WorkInv, FirstRun, TypeOK, NamingInv, DataInv
  <2>2. cache[work.run].id # work.got
    BY <2>1 DEF NamingInv, HasStarted
  <2>3. /\ work'.pc = "writeStart" /\ work'.run = work.run /\ work'.copy = work.copy
    BY <1>11, Moves DEF WriteRunId
  <2>4. GivenId(work.run)
    BY <1>11, <2>1, <2>2, <2>3, LabelFields DEF WriteRunId, GivenId
  <2> QED
    BY <1>11, <2>1, <2>3, <2>4 DEF WriteRunId, QuietWork, Naming, Beside
<1>12. CASE WriteStartTime \/ WriteStatus
  <2>1. work.run \in fresh
    BY <1>12 DEF WriteStartTime, WriteStatus, updateStatus
  <2> QED
    BY <1>12, <2>1, Moves DEF WriteStartTime, WriteStatus, QuietWork, Dropping, Beside
<1>13. CASE makePipelineRunOrphan \/ PollMissing \/ RemoveFinalizer \/ RemoveFinalizerConflict
            \/ SaveConflict
  BY <1>13, Moves DEF makePipelineRunOrphan, SaveConflict, PollMissing, RemoveFinalizer,
                      RemoveFinalizerConflict, QuietWork, Dropping, Beside
<1>14. CASE getPipelineRunResult
  <2>1. /\ work'.pc = "store" /\ work'.run = work.run /\ work'.copy = work.copy
        /\ work'.seen = SeenOf(builds[work.copy.id])
    BY <1>14 DEF getPipelineRunResult, TypeOK, Work
  <2>2. Polling
    BY <1>14, <2>1 DEF getPipelineRunResult, Polling, SeenOf, Beside
  <2> QED
    BY <2>2 DEF QuietWork
<1>15. CASE storePipelineRunData
  <2> DEFINE d == [of |-> work.copy.id, seen |-> work.seen]
  <2>1. /\ work'.pc = "writeStatus" /\ work'.run = work.run /\ work'.copy = work.copy
        /\ work'.seen = work.seen
    BY <1>15 DEF storePipelineRunData, Goto, TypeOK, Work
  <2>2. work.pc = "store" /\ work.run \in Runs /\ UNCHANGED <<asked, cache, builds>>
    BY <1>15 DEF storePipelineRunData, TypeOK
  <2>3. CASE StoreInConfigMap
    <3>1. /\ DataStore = "configmap"
          /\ configMaps' = [configMaps EXCEPT ![work.run] = d]
      BY <2>3 DEF StoreInConfigMap
    <3>2. /\ RunDataOf(work.run)' = d
          /\ \A p \in Runs \ {work.run} : RunDataOf(p)' = RunDataOf(p)
      BY <2>1, <2>2, <3>1 DEF RunDataOf, TypeOK
    <3> QED
      BY <2>1, <2>2, <3>2 DEF Storing, QuietWork
  <2>4. CASE StoreInAnnotations
    <3>1. /\ DataStore = "annotations"
          /\ updateLabelsAndAnnotations(work.run, work.copy.id, work.copy.orphan, d)
      BY <2>4 DEF StoreInAnnotations
    <3>2. cache[work.run].data = api[work.run].data
      BY <2>2 DEF DataInv
    <3>3. /\ \A q \in Runs \ {work.run} : api'[q] = api[q]
          /\ api'[work.run].data = d
      BY <2>2, <3>1, <3>2, LabelFields
    <3>4. /\ RunDataOf(work.run)' = d
          /\ \A p \in Runs \ {work.run} : RunDataOf(p)' = RunDataOf(p)
      BY <2>1, <3>1, <3>3 DEF RunDataOf
    <3> QED
      BY <2>1, <2>2, <3>4 DEF Storing, QuietWork
  <2> QED
    BY <1>15, <2>3, <2>4 DEF storePipelineRunData
<1>16. CASE deleteJenkinsJobHistory
  BY <1>16, Moves DEF deleteJenkinsJobHistory, QuietWork, Erasing, Beside
<1> QED
  BY <1>2, <1>3, <1>4, <1>5, <1>6, <1>7, <1>8, <1>9, <1>10, <1>11, <1>12, <1>13, <1>14, <1>15,
     <1>16 DEF Next, Proceed, Fail

----------------------------------------------------------------------------
(* The invariant is inductive *)

QuietStep ==
    /\ QuietInv /\ IInv' /\ TypeOK'
    /\ adopted \subseteq adopted'
    /\ \A p \in Runs : QuietRun(p)
    /\ QuietWork
    /\ UNCHANGED cache \/ (cache' = api /\ UNCHANGED api)

\* A run that is gone or not created yet is written by nobody but its creator.
LEMMA PresenceStep == QuietStep => PresenceInv'
<1> SUFFICES ASSUME QuietStep PROVE PresenceInv'
  OBVIOUS
<1> USE DEF QuietStep, QuietInv, PresenceInv
<1>1. \A p \in Runs : /\ api'[p].st = "absent" => api[p].st = "absent" /\ api'[p] = api[p]
                      /\ api[p].st = "gone" => api'[p] = api[p]
  BY DEF QuietRun, Left, Born, Adopting, Marked, GivenId, Stored, Dated, Followed, Leaving, Exists, Absent
<1>2. \A p \in Runs : api'[p].st = "absent" => api'[p] = Absent /\ cache'[p] = Absent
  BY <1>1
<1>3. \A p \in Runs : /\ cache'[p].st = "absent" => cache'[p] = Absent
                      /\ cache'[p].st = "gone" => cache'[p] = api'[p]
  BY <1>1
<1>4. \A p \in Runs : api'[p].st = "deleting" => api'[p].fin
  BY DEF QuietRun, Left, Born, Adopting, Marked, GivenId, Stored, Dated, Followed, Leaving, Exists, Absent
<1>5. ASSUME NEW p \in Runs \ NoRef, ~HasStarted(api'[p]) PROVE ~api'[p].fin
  BY <1>5 DEF QuietRun, Left, Born, Adopting, Marked, GivenId, Stored, Dated, Followed, Leaving, Kept,
              HasStarted, Absent
<1>6. work'.pc # "idle" => cache'[work'.run].st # "absent"
  <2>1. \A p \in Runs : cache[p].st # "absent" => cache'[p].st # "absent"
    BY DEF Absent
  <2>2. work.pc # "idle" => work.run \in Runs
    BY DEF IInv, TypeOK
  <2> QED
    BY <2>1, <2>2 DEF QuietWork, Holding, Taking, Dropping, Broken, Triggering, Clearing,
                      Naming, Polling, Storing, Erasing
<1> QED
  BY <1>2, <1>3, <1>4, <1>5, <1>6

\* A run ID changes in one way.
LEMMA IdFields ==
    ASSUME QuietStep, NEW p \in Runs
    PROVE  \/ api'[p].id = api[p].id
           \/ GivenId(p) /\ api'[p].id = work.got
           \/ Adopting(p)
BY DEF QuietStep, QuietInv, PresenceInv, QuietRun, Left, Born, Adopting, Marked, GivenId, Stored, Dated,
       Followed, Leaving, Kept, Absent

LEMMA NamingStep == QuietStep => NamingInv'
<1> SUFFICES ASSUME QuietStep PROVE NamingInv'
  OBVIOUS
<1> USE DEF QuietStep, QuietInv, NamingInv
<1>0. work.pc # "idle" => work.run \in Runs
  BY DEF IInv, TypeOK
<1>1. ASSUME NEW p \in Runs, HasStarted(api[p]) PROVE api'[p].id = api[p].id
  <2>1. ~Adopting(p)
    BY <1>1 DEF Adopting, IInv, StartInv
  <2> QED
    BY <1>1, <2>1, IdFields DEF GivenId
<1>2. \A p \in Runs : HasStarted(cache[p]) => HasStarted(api[p])
  BY DEF HasStarted
<1>3. \A p \in Runs : HasStarted(cache'[p]) => cache'[p].id = api'[p].id
  BY <1>1, <1>2
<1>4. work'.pc # "idle" /\ HasStarted(work'.copy) => work'.copy.id = api'[work'.run].id
  <2>1. ASSUME NEW p \in Runs, Taking(p) PROVE HasStarted(work'.copy) => work'.copy.id = api'[p].id
    BY <2>1 DEF Taking
  <2>2. work.pc # "idle" /\ HasStarted(work.copy) => work.copy.id = api'[work.run].id
    BY <1>0, <1>1 DEF HasStarted
  <2> QED
    BY <2>1, <2>2 DEF QuietWork, Holding, Taking, Dropping, Broken, Triggering, Clearing,
                      Naming, Polling, Storing, Erasing
<1>5. ASSUME NEW p \in Runs, HasStarted(api'[p]), ~HasStarted(cache'[p])
      PROVE  \/ work'.pc = "writeStart" /\ work'.run = p
             \/ p \in adopted' /\ cache'[p].st = "absent"
  <2>a. CASE Adopting(p)
    <3>1. cache[p].st = "absent" /\ api'[p] # api[p]
      BY <2>a DEF Adopting, PresenceInv, Absent
    <3> QED
      BY <2>a, <3>1 DEF Adopting
  <2>b. CASE p \in adopted /\ cache[p].st = "absent" /\ api'[p].id = api[p].id
    <3>1. cache' = cache
      BY <1>5, <2>b DEF HasStarted
    <3> QED
      BY <2>b, <3>1
  <2>1. CASE GivenId(p)
    BY <2>1 DEF GivenId, QuietWork, Holding, Taking, Dropping, Broken, Triggering, Clearing,
                Naming, Polling, Storing, Erasing
  <2>2. CASE api'[p].id = api[p].id /\ ~(p \in adopted /\ cache[p].st = "absent")
    <3>1. HasStarted(api[p]) /\ ~HasStarted(cache[p])
      BY <1>5, <2>2 DEF HasStarted
    <3>2. work.pc = "writeStart" /\ work.run = p
      BY <2>2, <3>1
    <3>3. cache[p] # api[p]
      BY <3>1
    <3>4. ~Dropping
      BY <3>2, <3>3 DEF Dropping, PresenceInv, IInv, FreshInv
    <3> QED
      BY <1>5, <3>2, <3>4 DEF QuietWork, Holding, Taking, Broken, Triggering, Clearing, Naming,
                              Polling, Storing, Erasing
  <2> QED
    BY <2>a, <2>b, <2>1, <2>2, IdFields
<1>6. work'.pc \in {"trigger", "check", "writeId"} => ~HasStarted(api'[work'.run])
  <2>1. ASSUME NEW p \in Runs, Taking(p), work'.pc = "trigger" PROVE ~HasStarted(api'[p])
    BY <2>1 DEF Taking
  <2>2. ASSUME work'.pc \in {"trigger", "check", "writeId"}, work'.run = work.run,
               work.pc \in {"trigger", "check", "writeId"}
        PROVE  ~HasStarted(api'[work'.run])
    <3>1. ~Adopting(work.run)
      BY <2>2 DEF Adopting, IInv, StartInv
    <3> QED
      BY <1>0, <2>2, <3>1, IdFields DEF GivenId, HasStarted
  <2> QED
    BY <2>1, <2>2 DEF QuietWork, Holding, Taking, Dropping, Broken, Triggering, Clearing,
                      Naming, Polling, Storing, Erasing
<1> QED
  BY <1>3, <1>4, <1>5, <1>6

\* Only triggerJenkinsJob asks for a build.
LEMMA AskedStep == Unbroken /\ AskedInv /\ QuietStep => AskedInv'
<1> SUFFICES ASSUME Unbroken, AskedInv, QuietStep PROVE AskedInv'
  OBVIOUS
<1> USE DEF QuietStep, QuietInv
<1>a. ~Broken
  BY DEF Unbroken, Broken
<1>0. work.pc # "idle" => work.run \in Runs
  BY DEF IInv, TypeOK
<1>1. \/ \A p \in Runs : asked'[p] = asked[p] \/ Adopting(p)
      \/ Triggering
  BY <1>a DEF QuietWork, Holding, Taking, Dropping, Clearing, Naming, Polling, Storing, Erasing,
              Beside
<1>b. ASSUME NEW p \in Runs, api[p].st = "absent" PROVE asked[p] = {}
  <2>1. ~HasStarted(api[p]) /\ (work.pc # "idle" => work.run # p)
    BY <1>b DEF IInv, StartInv
  <2> QED
    BY <1>b, <2>1 DEF AskedInv
<1>c. ASSUME NEW p \in Runs, Adopting(p) PROVE api[p].st = "absent" /\ HasStarted(api'[p])
  BY <1>c DEF Adopting
<1>2. ASSUME NEW p \in Runs, HasStarted(api'[p]) PROVE asked'[p] = {api'[p].id}
  <2>a. CASE Adopting(p)
    <3>1. asked[p] = {}
      BY <1>b, <2>a DEF Adopting
    <3> QED
      BY <2>a, <3>1 DEF Adopting
  <2>1. CASE GivenId(p) /\ api'[p].id = work.got
    <3>1. work.got \in asked[p] /\ api[p].st # "gone" /\ ~HasStarted(api[p])
      BY <2>1 DEF GivenId, IInv, AcceptInv, Exists
    <3>2. asked[p] = {work.got}
      BY <3>1 DEF AskedInv
    <3> QED
      BY <1>1, <1>c, <2>1, <3>1, <3>2 DEF GivenId, Triggering, Adopting, Exists
  <2>2. CASE api'[p].id = api[p].id
    <3>1. HasStarted(api[p]) /\ asked[p] = {api[p].id}
      BY <1>2, <2>2 DEF HasStarted, AskedInv, TriggeredOnce
    <3>2. ASSUME Triggering PROVE work.run # p
      BY <3>1, <3>2 DEF Triggering, NamingInv
    <3>3. ~Adopting(p)
      BY <1>c, <3>1 DEF IInv, StartInv
    <3> QED
      BY <1>1, <2>2, <3>1, <3>2, <3>3 DEF Triggering, IInv, TypeOK
  <2> QED
    BY <2>a, <2>1, <2>2, IdFields
<1>3. ASSUME NEW p \in Runs, asked'[p] # {}, ~HasStarted(api'[p])
      PROVE  \/ api'[p].st = "gone"
             \/ work'.pc \in {"check", "writeId"} /\ work'.run = p /\ asked'[p] = {work'.got}
  <2>1. api'[p].id = api[p].id /\ ~HasStarted(api[p]) /\ ~Adopting(p)
    BY <1>3, <1>c, IdFields DEF GivenId, HasStarted
  <2>2. api[p].st = "gone" => api'[p].st = "gone"
    BY DEF QuietRun, Left, Born, Adopting, Marked, GivenId, Stored, Dated, Followed, Leaving, Exists
  <2>3. CASE Triggering
    <3>1. CASE work.run = p
      <4>1. asked'[p] = asked[p] \cup {work'.got}
        BY <2>3, <3>1 DEF Triggering, IInv, TypeOK
      <4>2. asked[p] = {} \/ api[p].st = "gone"
        BY <2>1, <2>3 DEF Triggering, AskedInv
      <4> QED
        BY <2>2, <2>3, <3>1, <4>1, <4>2 DEF Triggering
    <3>2. CASE work.run # p
      <4>1. asked'[p] = asked[p]
        BY <2>3, <3>2 DEF Triggering, IInv, TypeOK
      <4> QED
        BY <1>3, <2>1, <2>2, <2>3, <3>2, <4>1 DEF Triggering, AskedInv
    <3> QED
      BY <3>1, <3>2
  <2>4. CASE asked'[p] = asked[p]
    <3>1. CASE api[p].st = "gone"
      BY <2>2, <3>1
    <3>2. CASE work.pc \in {"check", "writeId"} /\ work.run = p /\ asked[p] = {work.got}
      <4>1. CASE Holding \/ Clearing
        BY <2>4, <3>2, <4>1 DEF Holding, Clearing
      <4>2. CASE Dropping
        BY <3>2, <4>2 DEF Dropping, PresenceInv
      <4>3. ~Naming
        BY <2>1, <3>2, IdFields DEF Naming, GivenId, HasStarted
      <4> QED
        BY <1>a, <3>2, <4>1, <4>2, <4>3, <2>3
           DEF QuietWork, Taking, Polling, Storing, Erasing
    <3> QED
      BY <1>3, <2>1, <2>4, <3>1, <3>2 DEF AskedInv
  <2> QED
    BY <1>1, <2>1, <2>3, <2>4
<1> QED
  BY <1>2, <1>3 DEF AskedInv, TriggeredOnce

LEMMA OwnerStep == QuietStep => OwnerInv'
<1> SUFFICES ASSUME QuietStep PROVE OwnerInv'
  OBVIOUS
<1> USE DEF QuietStep, QuietInv
<1>1. \A p \in Runs \ adopted' : Exists(api'[p]) /\ HasStarted(api'[p]) => Exists(api[p])
  BY DEF QuietRun, Left, Born, Adopting, Marked, GivenId, Stored, Dated, Followed, Leaving, Exists,
         HasStarted, Absent
<1>a. ASSUME NEW p \in Runs \ adopted' PROVE p \notin adopted /\ ~Adopting(p)
  BY <1>a DEF Adopting
<1>2. ASSUME NEW p \in Runs \ adopted', NEW q \in Runs \ adopted', p # q, GivenId(p), Exists(api'[q]), HasStarted(api'[q])
      PROVE  api'[q].id # work.got
  <2>1. api'[q].id = api[q].id
    BY <1>a, <1>2, IdFields DEF GivenId
  <2> QED
    BY <1>1, <1>a, <1>2, <2>1 DEF GivenId, OwnerInv
<1>3. ASSUME NEW p \in Runs \ adopted', NEW q \in Runs \ adopted', HasStarted(api'[p]), Exists(api'[p]),
             Exists(api'[q]), api'[q].id = api'[p].id, p # q
      PROVE  FALSE
  <2>1. HasStarted(api'[q])
    BY <1>3 DEF HasStarted
  <2>2. api'[p].id = api[p].id /\ api'[q].id = api[q].id
    BY <1>2, <1>a, <1>3, <2>1, IdFields
  <2> QED
    BY <1>1, <1>a, <1>3, <2>1, <2>2 DEF OwnerInv, OneRunPerBuild, HasStarted
<1>4. ASSUME work'.pc = "writeId", NEW q \in Runs \ adopted', Exists(api'[q])
      PROVE  api'[q].id # work'.got
  <2>1. work'.got # NoBuild
    BY <1>4 DEF IInv, WorkInv
  <2>2. api'[q].id = api[q].id /\ q \notin adopted
    BY <1>a, <1>4, IdFields DEF GivenId
  <2>3. CASE Clearing
    <3>1. UNCHANGED <<api, cache>> /\ work'.got = work.got /\ ~hasSamePipelineRun /\ work.pc = "check"
      BY <2>3 DEF Clearing
    <3>2. ASSUME api[q].id = work.got PROVE FALSE
      <4>1. HasStarted(api[q]) /\ HasStarted(cache[q]) /\ cache[q].id = work.got
        BY <2>1, <2>2, <3>1, <3>2 DEF HasStarted, NamingInv
      <4>2. cache[q].st \notin {"absent", "gone"}
        BY <1>4, <3>1, <4>1 DEF PresenceInv, Exists, Absent, HasStarted
      <4>3. Exists(cache[q])
        BY <4>2 DEF IInv, TypeOK, PipelineRun, Exists
      <4> QED
        BY <3>1, <4>1, <4>3 DEF hasSamePipelineRun
    <3> QED
      BY <2>2, <3>1, <3>2
  <2>4. CASE Holding
    <3>1. work'.got = work.got /\ work.pc = "writeId"
      BY <1>4, <2>4 DEF Holding
    <3>2. HasStarted(api'[q]) => Exists(api[q])
      BY <1>1, <1>4
    <3> QED
      BY <2>1, <2>2, <3>1, <3>2 DEF OwnerInv, HasStarted
  <2> QED
    BY <1>4, <2>3, <2>4 DEF QuietWork, Taking, Dropping, Broken, Triggering, Naming, Polling,
                            Storing, Erasing
<1> QED
  BY <1>3, <1>4 DEF OwnerInv, OneRunPerBuild

\* Run data change in one way.
LEMMA DataFields ==
    ASSUME QuietStep, NEW p \in Runs
    PROVE  \/ api'[p].data = api[p].data
           \/ Stored(p) /\ Storing
<1>1. api'[p].data = api[p].data \/ Stored(p)
  BY DEF QuietStep, QuietInv, PresenceInv, QuietRun, Left, Born, Adopting, Marked, GivenId, Dated,
         Followed, Leaving, Kept, Absent
<1>2. Stored(p) => Storing
  BY DEF QuietStep, Stored, QuietWork, Holding, Taking, Dropping, Broken, Triggering, Clearing,
         Naming, Polling, Erasing
<1> QED
  BY <1>1, <1>2

LEMMA DataOf ==
    ASSUME QuietStep, NEW p \in Runs
    PROVE  RunDataOf(p)' = RunDataOf(p) \/ (Storing /\ p = work.run)
<1>1. CASE Storing
  BY <1>1 DEF Storing
<1>2. CASE ~Storing
  <2>1. api'[p].data = api[p].data
    BY <1>2, DataFields
  <2>2. configMaps' = configMaps
    BY <1>2 DEF QuietStep, QuietWork, Holding, Taking, Dropping, Broken, Triggering, Clearing,
                Naming, Polling, Erasing, Beside
  <2> QED
    BY <2>1, <2>2 DEF RunDataOf
<1> QED
  BY <1>1, <1>2

LEMMA DataStep == QuietStep => DataInv'
<1> SUFFICES ASSUME QuietStep PROVE DataInv'
  OBVIOUS
<1> USE DEF QuietStep, QuietInv, DataInv
<1>0. work.pc # "idle" => work.run \in Runs
  BY DEF IInv, TypeOK
<1>1. ASSUME NEW p \in Runs
      PROVE  cache'[p].data = api'[p].data \/ (work'.pc = "writeStatus" /\ work'.run = p)
  <2>1. CASE Stored(p) /\ Storing
    BY <2>1 DEF Stored, Storing
  <2>2. CASE api'[p].data = api[p].data /\ cache[p].data = api[p].data
    BY <2>2
  <2>3. CASE cache[p].data # api[p].data
    <3>1. work.pc = "writeStatus" /\ work.run = p
      BY <2>3
    <3>2. cache[p] # api[p]
      BY <2>3
    <3>3. ~Dropping
      BY <3>1, <3>2 DEF Dropping, PresenceInv, IInv, FreshInv
    <3>4. CASE Broken
      BY <3>1, <3>4 DEF Broken
    <3>5. CASE Holding
      BY <3>1, <3>5 DEF Holding
    <3> QED
      BY <3>1, <3>3, <3>4, <3>5
         DEF QuietWork, Taking, Triggering, Clearing, Naming, Polling, Storing, Erasing
  <2> QED
    BY <2>1, <2>2, <2>3, DataFields
<1>2. work'.pc \notin {"idle", "writeStatus"} => work'.copy.data = api'[work'.run].data
  <2>1. ASSUME NEW p \in Runs, Taking(p) PROVE work'.copy.data = api'[p].data
    BY <2>1 DEF Taking
  <2>2. ASSUME work.pc \notin {"idle", "writeStatus"}, work'.pc # "writeStatus"
        PROVE  work.copy.data = api'[work.run].data
    BY <1>0, <2>2, DataFields DEF Storing
  <2> QED
    BY <2>1, <2>2 DEF QuietWork, Holding, Taking, Dropping, Broken, Triggering, Clearing,
                      Naming, Polling, Storing, Erasing
<1>3. (work.pc = "writeStatus" =>
          RunDataOf(work.run) = [of |-> work.copy.id, seen |-> work.seen])'
  <2>1. CASE Holding /\ work.pc = "writeStatus"
    <3>1. \A p \in Runs : RunDataOf(p)' = RunDataOf(p)
      BY <2>1, DataOf DEF Storing
    <3> QED
      BY <1>0, <2>1, <3>1 DEF Holding, RunDataOf
  <2>2. CASE Storing
    BY <2>2 DEF Storing
  <2>3. CASE work'.pc # "writeStatus"
    BY <2>3
  <2> QED
    BY <2>1, <2>2, <2>3 DEF QuietWork, Holding, Taking, Dropping, Broken, Triggering, Clearing,
                            Naming, Polling, Erasing
<1> QED
  BY <1>1, <1>2, <1>3

\* No build that has finished or is deleted starts again.
LEMMA OverStays == IInv /\ [Next]_vars => Over \subseteq Over'
<1> SUFFICES ASSUME IInv, [Next]_vars PROVE Over \subseteq Over'
  OBVIOUS
<1> USE DEF IInv, TypeOK, Over, k8sVars, auxVars
<1>1. ASSUME UNCHANGED builds PROVE Over \subseteq Over'
  BY <1>1
<1>2. ASSUME NEW b \in Builds, Jenkins(b) PROVE Over \subseteq Over'
  BY <1>2 DEF Jenkins, StartElsewhere, BuildStarts, BuildFinishes, SkipBuild, CancelQueued, DiscardBuild
<1>3. CASE RemovePipeline
  BY <1>3 DEF RemovePipeline
<1>4. ASSUME NEW b \in Builds, Accept(b) PROVE Over \subseteq Over'
  BY <1>4 DEF Accept
<1>5. CASE deleteJenkinsJobHistory
  BY <1>5 DEF deleteJenkinsJobHistory
<1>6. ASSUME NEW p \in Runs, Users(p) \/ Take(p) PROVE UNCHANGED builds
  BY <1>6 DEF Users, createPipelineRun, AdoptBuild, EditRun, DeleteRun, CollectGarbage, Take, Ignore, Begin,
              BeginDelete, BeginOrphan, BeginPoll, BeginTrigger
<1>7. CASE GiveUp \/ NoSameRun \/ WriteRunId \/ WriteStartTime \/ makePipelineRunOrphan
           \/ PollMissing \/ getPipelineRunResult \/ storePipelineRunData \/ WriteStatus
           \/ RemoveFinalizer \/ RemoveFinalizerConflict \/ UpdateFails \/ SaveConflict \/ CallFails
           \/ SyncCache \/ Restart \/ UNCHANGED vars
  BY <1>1, <1>7 DEF GiveUp, NoSameRun, WriteRunId, WriteStartTime, makePipelineRunOrphan,
       PollMissing, getPipelineRunResult, storePipelineRunData, WriteStatus, RemoveFinalizer,
       RemoveFinalizerConflict, UpdateFails, SaveConflict, CallFails, SyncCache, Restart, vars
<1> QED
  BY <1>1, <1>2, <1>3, <1>4, <1>5, <1>6, <1>7
     DEF Next, Proceed, Fail, triggerJenkinsJob, TriggerReplyLost

\* A run is completed by the worker that follows it, and keeps the ID it has.
LEMMA CompletedFields ==
    ASSUME QuietStep, NEW p \in Runs, HasCompleted(api'[p])
    PROVE  \/ Followed(p) /\ work.seen = "finished"
           \/ HasCompleted(api[p]) /\ api'[p].id = api[p].id /\ ~Followed(p)
<1>1. HasCompleted(api[p]) => HasStarted(api[p])
  BY DEF QuietStep, QuietInv, IInv, ReportInv, HasCompleted, Reported
<1>2. CASE Followed(p)
  BY <1>2 DEF Followed, HasCompleted
<1>3. CASE ~Followed(p)
  BY <1>1, <1>3 DEF QuietStep, QuietRun, Left, Born, Adopting, Marked, GivenId, Stored, Dated, Leaving,
                    Kept, Absent, HasCompleted
<1> QED
  BY <1>2, <1>3

LEMMA SeenStep == QuietStep /\ Over \subseteq Over' => SeenInv'
<1> SUFFICES ASSUME QuietStep, Over \subseteq Over' PROVE SeenInv'
  OBVIOUS
<1> USE DEF QuietStep, QuietInv, SeenInv
<1>0. work.pc # "idle" => work.run \in Runs
  BY DEF IInv, TypeOK
<1>1. ASSUME NEW p \in Runs, HasCompleted(api'[p]) PROVE api'[p].id \in Over'
  <2>1. CASE Followed(p) /\ work.seen = "finished"
    BY <2>1 DEF Followed, NamingInv
  <2> QED
    BY <1>1, <2>1, CompletedFields
<1>2. work'.pc \in {"store", "writeStatus"} /\ work'.seen = "finished" => work'.copy.id \in Over'
  <2>1. ASSUME Polling, work'.seen = "finished" PROVE work'.copy.id \in Over
    <3>1. HasStarted(work.copy) /\ work.copy.id \in Builds
      BY <2>1 DEF Polling, IInv, TypeOK, WorkInv, Following, Work, PipelineRun, HasStarted
    <3> QED
      BY <2>1, <3>1 DEF Polling, Over
  <2> QED
    BY <2>1 DEF QuietWork, Holding, Taking, Dropping, Broken, Triggering, Clearing, Naming,
                Storing, Erasing
<1>3. work'.pc \in {"store", "writeStatus"} /\ HasCompleted(api'[work'.run])
         => work'.seen = "finished"
  <2> SUFFICES ASSUME work'.pc \in {"store", "writeStatus"}, HasCompleted(api'[work'.run])
               PROVE  work'.seen = "finished"
    OBVIOUS
  <2>1. Polling \/ Storing \/ Holding
    BY DEF QuietWork, Taking, Dropping, Broken, Triggering, Clearing, Naming, Erasing
  <2>2. work'.run = work.run /\ work.pc # "idle" /\ work.run \in Runs
    BY <1>0, <2>1 DEF Polling, Storing, Holding
  <2>3. HasCompleted(api[work.run])
    BY <2>2, CompletedFields DEF Followed
  <2>4. CASE Polling
    <3>1. HasStarted(work.copy) /\ work.copy.id \in Over
      BY <2>2, <2>3, <2>4 DEF Polling, IInv, WorkInv, Following, NamingInv
    <3> QED
      BY <2>4, <3>1 DEF Polling, Over
  <2>5. CASE Storing \/ Holding
    BY <2>3, <2>5 DEF Storing, Holding
  <2> QED
    BY <2>1, <2>4, <2>5
<1> QED
  BY <1>1, <1>2, <1>3

LEMMA FinalStep == QuietStep => CompletedRunIsFinal'
<1> SUFFICES ASSUME QuietStep PROVE CompletedRunIsFinal'
  OBVIOUS
<1> USE DEF QuietStep, QuietInv
<1>1. ASSUME NEW p \in Runs, Reported(api'[p]) PROVE api'[p].src = api'[p].id
  <2>1. CASE Followed(p)
    BY <2>1 DEF Followed, NamingInv
  <2>2. CASE GivenId(p)
    BY <1>1, <2>2 DEF GivenId, IInv, ReportInv, Reported
  <2> QED
    BY <1>1, <2>1, <2>2 DEF QuietRun, Left, Born, Adopting, Marked, Stored, Dated, Leaving, Kept, Absent,
                            Reported, CompletedRunIsFinal
<1>2. ASSUME NEW p \in Runs, HasCompleted(api'[p])
      PROVE  RunDataOf(p)' = [of |-> api'[p].id, seen |-> "finished"]
  <2>1. CASE Followed(p) /\ work.seen = "finished"
    <3>1. RunDataOf(p)' = RunDataOf(p)
      BY <2>1, DataOf DEF Followed, Storing
    <3>2. work.copy.id = api'[p].id
      BY <2>1 DEF Followed, NamingInv
    <3> QED
      BY <2>1, <3>1, <3>2 DEF Followed, DataInv
  <2>2. CASE HasCompleted(api[p]) /\ api'[p].id = api[p].id
    <3>1. CASE Storing /\ p = work.run
      <4>1. work.seen = "finished"
        BY <2>2, <3>1 DEF Storing, SeenInv
      <4>2. work.copy.id = api[p].id
        BY <3>1 DEF Storing, IInv, WorkInv, Following, NamingInv
      <4> QED
        BY <2>2, <3>1, <4>1, <4>2 DEF Storing
    <3> QED
      BY <2>2, <3>1, DataOf DEF CompletedRunIsFinal
  <2> QED
    BY <1>2, <2>1, <2>2, CompletedFields
<1> QED
  BY <1>1, <1>2 DEF CompletedRunIsFinal

LEMMA QuietInvStep == Quiet /\ QuietInv /\ [Next]_vars => QuietInv' /\ QuietStep
<1> SUFFICES ASSUME Quiet, QuietInv, [Next]_vars PROVE QuietInv' /\ QuietStep
  OBVIOUS
<1>1. IInv' /\ TypeOK'
  BY InvStep DEF QuietInv, IInv
<1>a. adopted \subseteq adopted'
  BY RunSteps DEF QuietInv, IInv, TypeOK, RunStep, Adopted
<1>2. QuietStep
  BY <1>1, <1>a, QuietRuns, QuietWorks, CacheSteps DEF QuietStep, QuietInv
<1>3. Over \subseteq Over'
  BY OverStays DEF QuietInv
<1> QED
  BY <1>1, <1>2, <1>3, PresenceStep, NamingStep, OwnerStep, DataStep, SeenStep, FinalStep
     DEF QuietInv

LEMMA QuietInvariance == ASSUME Quiet PROVE Spec => []QuietInv
<1>1. QuietInv /\ [Next]_vars => QuietInv'
  BY QuietInvStep
<1>2. Init => QuietInv
  BY QuietInit
<1> QED
  BY <1>1, <1>2, PTL DEF Spec

----------------------------------------------------------------------------
(* What the controller promises *)

\* TriggeredOnce: triggerJenkinsJob asks for no build of a run that has one, and
\* the build it asked for is the one whose ID the run keeps.
THEOREM RunsTriggeredOnce ==
    ASSUME Quiet, Unbroken
    PROVE  Spec => []TriggeredOnce
<1>1. QuietInv /\ AskedInv /\ [Next]_vars => QuietInv' /\ AskedInv'
  BY QuietInvStep, AskedStep
<1>2. AskedInv => TriggeredOnce
  BY DEF AskedInv
<1> QED
  BY <1>1, <1>2, QuietInit, PTL DEF Spec

\* OneRunPerBuild: hasSamePipelineRun keeps two runs from the build that Jenkins
\* answered to both, also when a reply is lost or the controller starts anew.
THEOREM BuildsHaveOneRun == ASSUME Quiet PROVE Spec => []OneRunPerBuild
<1>1. QuietInv => OneRunPerBuild
  BY DEF QuietInv, OwnerInv
<1> QED
  BY <1>1, QuietInvariance, PTL

\* CompletedRunIsFinal: the status and the run data of a completed run are those
\* of its finished build.
THEOREM CompletedRunsFinal == ASSUME Quiet PROVE Spec => []CompletedRunIsFinal
<1>1. QuietInv => CompletedRunIsFinal
  BY DEF QuietInv
<1> QED
  BY <1>1, QuietInvariance, PTL

\* CompletedRunStays: no status computed from an older poll undoes the completion.
THEOREM CompletedRunsStay == ASSUME Quiet PROVE Spec => CompletedRunStays
<1> DEFINE Stays == \A p \in Runs : HasCompleted(api[p]) => HasCompleted(api[p]')
<1>1. QuietInv /\ [Next]_vars => [Stays]_vars
  <2> SUFFICES ASSUME QuietInv, [Next]_vars, NEW p \in Runs, HasCompleted(api[p])
               PROVE  HasCompleted(api'[p])
    BY DEF vars
  <2>1. QuietStep
    BY QuietInvStep
  <2>2. CASE Followed(p)
    BY <2>2 DEF Followed, QuietInv, SeenInv, HasCompleted
  <2>3. ~Dated(p)
    BY DEF Dated, Reported, HasCompleted
  <2>4. ~Born(p)
    BY DEF Born, QuietInv, PresenceInv, Absent, HasCompleted
  <2>5. ~Adopting(p)
    BY DEF Adopting, QuietInv, PresenceInv, Absent, HasCompleted
  <2> QED
    BY <2>1, <2>2, <2>3, <2>4, <2>5 DEF QuietStep, QuietRun, Left, Marked, GivenId, Stored, Leaving,
                                  Kept, HasCompleted
<1> QED
  BY <1>1, QuietInvariance, PTL DEF Spec, CompletedRunStays

\* GivesUpForAnother: the run that makes the controller delete the one it works on
\* is another one.
THEOREM GiveUpsAreForAnother == ASSUME Quiet PROVE Spec => GivesUpForAnother
<1> DEFINE Another == GiveUp =>
              \E q \in Runs \ {work.run} : Exists(cache[q]) /\ cache[q].id = work.got
<1>1. QuietInv => Another
  <2> SUFFICES ASSUME QuietInv, GiveUp
               PROVE  \E q \in Runs \ {work.run} : Exists(cache[q]) /\ cache[q].id = work.got
    OBVIOUS
  <2>1. work.pc = "check" /\ work.got # NoBuild /\ work.run \in Runs
    BY DEF GiveUp, QuietInv, IInv, WorkInv, TypeOK
  <2>2. PICK q \in Runs : Exists(cache[q]) /\ cache[q].id = work.got
    BY DEF GiveUp, hasSamePipelineRun
  <2>3. q # work.run
    <3>1. ~HasStarted(api[work.run]) /\ ~HasStarted(cache[work.run])
      BY <2>1 DEF QuietInv, NamingInv, HasStarted
    <3> QED
      BY <2>1, <2>2, <3>1 DEF HasStarted
  <2> QED
    BY <2>2, <2>3
<1> QED
  BY <1>1, QuietInvariance, PTL DEF Spec, GivesUpForAnother
=============================================================================
