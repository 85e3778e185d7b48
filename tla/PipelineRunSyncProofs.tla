------------------------ MODULE PipelineRunSyncProofs ------------------------
(***************************************************************************)
(* What holds of PipelineRunSync for any number of runs and builds, under  *)
(* all disturbances.                                                       *)
(***************************************************************************)
EXTENDS PipelineRunSync, TLAPS

----------------------------------------------------------------------------
(* The inductive invariant *)

\* The run the PipelineRun controller has a build for has none yet, or has gone.
HandInv ==
    hand.pc # "idle" =>
        \/ api[hand.run].st = "gone"
        \/ Exists(api[hand.run]) /\ api[hand.run].id = NoBuild

ShownInv == \A p \in Runs : api[p].id # NoBuild => api[p].id \in shown

\* A list may be old, but it tells of runs that have been, and of IDs they keep.
Known(p, b) ==
    /\ \/ api[p].st = "gone"
       \/ Exists(api[p]) /\ (b # NoBuild => api[p].id = b)
    /\ b # NoBuild => b \in shown

ListInv == \A e \in cache \cup sync.list : Known(e[1], e[2])

\* What the synchronizer works from, and is going to delete, has an ID.
SyncInv ==
    /\ \A e \in sync.list : e[2] # NoBuild
    /\ \A p \in sync.delete :
          api[p].st = "gone" \/ (Exists(api[p]) /\ api[p].id # NoBuild)

\* Once Jenkins has been asked, a build that is wanted has been seen.
WantedInv ==
    /\ \A b \in wanted : builds[b] \in {"running", "deleted"}
    /\ sync.pc = "write" =>
          \A b \in wanted : b \in sync.create \/ b \in shown \/ builds[b] = "deleted"

RunSyncInv == TypeOK /\ HandInv /\ ShownInv /\ ListInv /\ SyncInv /\ WantedInv

----------------------------------------------------------------------------
(* Writes of PipelineRuns *)

\* What a write may do to a run: make it, delete it, or give it an ID once.
Write(p, o) ==
    /\ Put(p, o)
    /\ o.st = "deleting" => o.fin
    /\ \/ api[p].st = "absent" /\ o.st = "live"
       \/ /\ Exists(api[p])
          /\ \/ o = Gone
             \/ /\ Exists(o)
                /\ o.id = api[p].id \/ (api[p].id = NoBuild /\ hand'.pc = "idle")

Writes == \E p \in Runs, o \in PipelineRun : Write(p, o)

LEMMA Objects == Absent \in PipelineRun /\ Gone \in PipelineRun /\ Gone.st = "gone"
  BY DEF Absent, Gone, PipelineRun

LEMMA CreateWrites ==
    ASSUME TypeOK, NEW names \in SUBSET Runs, NEW b \in Builds \cup {NoBuild},
           CreateBarePipelineRun(names, b)
    PROVE  Writes
<1> DEFINE unused == {p \in names : api[p].st = "absent"}
           p0 == CHOOSE p \in unused : TRUE
           o == [Absent EXCEPT !.st = "live", !.id = b]
<1>1. p0 \in unused /\ Put(p0, o)
  BY DEF CreateBarePipelineRun
<1>2. o \in PipelineRun /\ o.st = "live"
  BY DEF Absent, PipelineRun
<1> HIDE DEF o, p0
<1> QED
  BY <1>1, <1>2 DEF Writes, Write

LEMMA DeleteWrites ==
    ASSUME TypeOK, NEW p \in Runs, Delete(p)
    PROVE  UNCHANGED <<api, shown>> \/ Writes
<1>1. CASE api[p].st # "live"
  BY <1>1 DEF Delete
<1>2. CASE api[p].st = "live"
  <2> DEFINE o == Deleted(api[p])
  <2>1. api[p] \in PipelineRun
    BY DEF TypeOK
  <2>2. /\ o \in PipelineRun
        /\ o.st = "deleting" => o.fin
        /\ o = Gone \/ (Exists(o) /\ o.id = api[p].id)
    BY <2>1, Objects DEF Deleted, PipelineRun, Exists
  <2>3. Put(p, o)
    BY <1>2 DEF Delete
  <2> HIDE DEF o
  <2> QED
    BY <1>2, <2>2, <2>3 DEF Writes, Write, Exists
<1> QED
  BY <1>1, <1>2

\* Every step leaves the PipelineRuns alone or makes one such write.
LEMMA StepsWrite ==
    ASSUME TypeOK, HandInv, Next
    PROVE  UNCHANGED <<api, shown>> \/ Writes
<1>1. CASE createPipelineRun
  BY <1>1, CreateWrites, RunSyncAssumption DEF createPipelineRun
<1>2. CASE \E b \in Builds : HookCreates(b) \/ SyncCreates(b)
  BY <1>2, CreateWrites DEF HookCreates, SyncCreates
<1>3. CASE GiveUp
  BY <1>3, DeleteWrites DEF GiveUp, TypeOK
<1>4. CASE \E p \in Runs : DeleteRun(p) \/ SyncDeletes(p)
  BY <1>4, DeleteWrites DEF DeleteRun, SyncDeletes
<1>5. CASE RecordRunId
  <2>1. CASE ~Exists(api[hand.run])
    BY <1>5, <2>1 DEF RecordRunId
  <2>2. CASE Exists(api[hand.run])
    <3> DEFINE o == [api[hand.run] EXCEPT !.id = hand.got, !.fin = TRUE]
    <3>1. hand.run \in Runs /\ hand.got \in Builds /\ api[hand.run] \in PipelineRun
      BY <1>5 DEF RecordRunId, TypeOK
    <3>2. api[hand.run].id = NoBuild
      BY <1>5, <2>2 DEF RecordRunId, HandInv, Exists
    <3>3. o \in PipelineRun /\ o.fin /\ o.st = api[hand.run].st
      BY <3>1 DEF PipelineRun
    <3>4. Put(hand.run, o) /\ hand'.pc = "idle"
      BY <1>5, <2>2 DEF RecordRunId, HandIdle
    <3> HIDE DEF o
    <3> QED
      BY <2>2, <3>1, <3>2, <3>3, <3>4 DEF Writes, Write, Exists
  <2> QED
    BY <2>1, <2>2
<1>6. CASE \E p \in Runs : StoreRunData(p)
  <2>1. PICK p \in Runs : StoreRunData(p)
    BY <1>6
  <2> DEFINE o == [api[p] EXCEPT !.fin = TRUE]
  <2>2. o \in PipelineRun /\ o.fin /\ o.st = api[p].st /\ o.id = api[p].id
    BY DEF TypeOK, PipelineRun
  <2>3. Put(p, o) /\ Exists(api[p])
    BY <2>1 DEF StoreRunData, Exists
  <2> HIDE DEF o
  <2> QED
    BY <2>2, <2>3 DEF Writes, Write, Exists
<1>7. CASE \E p \in Runs : FinalizeRun(p)
  BY <1>7, Objects DEF FinalizeRun, Writes, Write, Exists
<1>8. CASE \/ \E p \in Runs : Trigger(p)
           \/ NoSameRun \/ Request \/ TouchPipeline \/ Failures
           \/ DeliverRuns \/ DeliverPipeline
           \/ SyncSkips \/ SyncLists \/ SyncAsks \/ SyncEnds
           \/ \E b \in Builds :
                 \/ HookFinds(b) \/ HookMisses(b)
                 \/ QueueBuild(b) \/ StartBuild(b) \/ DiscardBuild(b)
  BY <1>8 DEF Trigger, NoSameRun, Request, TouchPipeline, Failures, DeliverRuns,
       DeliverPipeline, SyncSkips, SyncLists, SyncAsks, SyncEnds, HookFinds,
       HookMisses, QueueBuild, StartBuild, DiscardBuild, SyncWriteFails, SyncFails,
       Restart, HookEnds
<1> QED
  BY <1>1, <1>2, <1>3, <1>4, <1>5, <1>6, <1>7, <1>8
     DEF Next, Controller, Webhook, Synchronizer, Users

\* What all of that means for a run.
Follows(p) ==
    /\ api[p].st = "gone" => api'[p].st = "gone"
    /\ Exists(api[p]) =>
          \/ api'[p].st = "gone"
          \/ /\ Exists(api'[p])
             /\ api[p].id # NoBuild \/ hand'.pc # "idle" => api'[p].id = api[p].id

LEMMA RunsFollow ==
    ASSUME TypeOK, HandInv, ShownInv, Next
    PROVE  /\ api' \in [Runs -> PipelineRun]
           /\ \A p \in Runs : api'[p].st = "deleting" => api'[p].fin
           /\ shown' \in SUBSET Builds
           /\ ShownInv'
           /\ shown \subseteq shown'
           /\ \A p \in Runs : Follows(p)
<1>1. CASE UNCHANGED <<api, shown>>
  BY <1>1 DEF TypeOK, ShownInv, Follows
<1>2. CASE Writes
  <2>1. PICK p \in Runs, o \in PipelineRun : Write(p, o)
    BY <1>2 DEF Writes
  <2>2. /\ api' = [api EXCEPT ![p] = o]
        /\ shown' = shown \cup ({o.id} \ {NoBuild})
        /\ o.id \in Builds \cup {NoBuild}
    BY <2>1 DEF Write, Put, PipelineRun
  <2>3. /\ api' \in [Runs -> PipelineRun]
        /\ shown' \in SUBSET Builds
        /\ shown \subseteq shown'
        /\ api'[p] = o
        /\ \A q \in Runs \ {p} : api'[q] = api[q]
    BY <2>2 DEF TypeOK
  <2>4. \A q \in Runs : api'[q].st = "deleting" => api'[q].fin
    BY <2>1, <2>3 DEF Write, TypeOK
  <2>5. ShownInv'
    BY <2>2, <2>3 DEF ShownInv
  <2>6. Follows(p)
    BY <2>1, <2>3, Objects DEF Follows, Write, Exists
  <2>7. \A q \in Runs \ {p} : Follows(q)
    BY <2>3 DEF Follows
  <2> QED
    BY <2>3, <2>4, <2>5, <2>6, <2>7
<1> QED
  BY <1>1, <1>2, StepsWrite

----------------------------------------------------------------------------
(* Types *)

LEMMA IdleTypes ==
    /\ SyncIdle \in Sync
    /\ HandIdle \in [pc: {"idle", "check", "write"}, run: Runs \cup {NoRun},
                     got: Builds \cup {NoBuild}]
    /\ HandIdle.pc = "idle" /\ SyncIdle.pc = "idle" /\ SyncIdle.list = {}
    /\ SyncIdle.create = {} /\ SyncIdle.delete = {}
  BY DEF SyncIdle, HandIdle, Sync, Lists

LEMMA TypeInit == Init => TypeOK
<1> SUFFICES ASSUME Init PROVE TypeOK
  OBVIOUS
<1>1. api \in [Runs -> PipelineRun] /\ \A p \in Runs : api[p].st = "absent"
  BY Objects DEF Init, Absent
<1>2. cache \in Lists /\ {request, noticed, news, queued} \subseteq BOOLEAN
  BY DEF Init, Lists
<1>3. /\ hook \in [Builds -> {"none", "check", "create"}]
      /\ builds \in [Builds -> {"unused", "queued", "running", "deleted"}]
      /\ wanted \subseteq Builds /\ shown \subseteq Builds
  BY DEF Init
<1>4. sync = SyncIdle /\ hand = HandIdle
  BY DEF Init
<1> QED
  BY <1>1, <1>2, <1>3, <1>4, IdleTypes DEF TypeOK

HandType ==
    /\ hand \in [pc: {"idle", "check", "write"}, run: Runs \cup {NoRun},
                 got: Builds \cup {NoBuild}]
    /\ hand.pc # "idle" => hand.run \in Runs /\ hand.got \in Builds

BuildsType == builds \in [Builds -> {"unused", "queued", "running", "deleted"}]

FlagsType == {request, noticed, news, queued} \subseteq BOOLEAN

HookType == hook \in [Builds -> {"none", "check", "create"}]

\* The variables but for those RunsFollow is about.
RestTypes ==
    cache \in Lists /\ HandType /\ BuildsType /\ FlagsType /\ HookType
    /\ sync \in Sync /\ wanted \subseteq Builds

LEMMA ControllerTypes ==
    ASSUME TypeOK, Controller \/ \E p \in Runs : StoreRunData(p)
    PROVE  RestTypes'
<1>1. UNCHANGED <<cache, pipelineVars, queued, sync, hook>>
  BY DEF Controller, Trigger, FinalizeRun, GiveUp, NoSameRun, RecordRunId, StoreRunData,
         HandUnchanged
<1>2. HandType'
  <2>1. CASE \E p \in Runs : Trigger(p)
    BY <2>1 DEF Trigger, HandType
  <2>2. CASE GiveUp \/ RecordRunId
    BY <2>2, IdleTypes DEF GiveUp, RecordRunId, HandType
  <2>3. CASE NoSameRun
    <3>1. hand' = [hand EXCEPT !.pc = "write"] /\ hand.pc # "idle"
      BY <2>3 DEF NoSameRun
    <3>2. HandType
      BY DEF TypeOK, HandType
    <3> QED
      BY <3>1, <3>2 DEF HandType
  <2>4. CASE \E p \in Runs : FinalizeRun(p) \/ StoreRunData(p)
    BY <2>4 DEF FinalizeRun, StoreRunData, HandType, TypeOK
  <2> QED
    BY <2>1, <2>2, <2>3, <2>4 DEF Controller
<1>3. BuildsType'
  BY DEF Controller, Trigger, FinalizeRun, GiveUp, NoSameRun, RecordRunId,
     StoreRunData, BuildsType, TypeOK, PipelineRun
<1> QED
  BY <1>1, <1>2, <1>3 DEF RestTypes, FlagsType, HookType, pipelineVars, TypeOK

LEMMA SyncTypes ==
    ASSUME TypeOK, Synchronizer \/ SyncWriteFails \/ SyncFails
    PROVE  RestTypes'
<1>1. UNCHANGED <<cache, noticed, news, hand, hook, builds>>
  BY DEF Synchronizer, SyncSkips, SyncLists, SyncAsks, SyncEnds, SyncCreates,
         SyncDeletes, SyncWriteFails, SyncFails, SyncUnchanged
<1>2. FlagsType' /\ wanted' \subseteq Builds
  BY DEF Synchronizer, SyncSkips, SyncLists, SyncAsks, SyncEnds, SyncCreates,
         SyncDeletes, SyncWriteFails, SyncFails, SyncUnchanged, FlagsType, TypeOK
<1>3. sync' \in Sync
  <2>1. CASE SyncSkips \/ SyncEnds \/ SyncFails
    BY <2>1, IdleTypes DEF SyncSkips, SyncEnds, SyncFails, TypeOK
  <2>2. CASE SyncLists
    BY <2>2 DEF SyncLists, SyncIdle, Sync, TypeOK
  <2>3. CASE SyncAsks
    <3>1. sync.list \in Lists
      BY DEF TypeOK, Sync
    <3>2. {e[1] : e \in sync.list} \in SUBSET Runs
      BY <3>1 DEF Lists
    <3> QED
      BY <2>3, <3>2 DEF SyncAsks, SyncIdle, Sync, Lists
  <2>4. CASE \/ \E b \in Builds : SyncCreates(b)
             \/ \E p \in Runs : SyncDeletes(p)
             \/ SyncWriteFails
    BY <2>4 DEF SyncCreates, SyncDeletes, SyncWriteFails, Sync, TypeOK
  <2> QED
    BY <2>1, <2>2, <2>3, <2>4 DEF Synchronizer
<1> QED
  BY <1>1, <1>2, <1>3 DEF RestTypes, HandType, BuildsType, HookType, TypeOK

LEMMA OtherTypes ==
    ASSUME TypeOK,
           \/ Webhook \/ Users \/ Restart \/ DeliverRuns \/ DeliverPipeline
           \/ \E b \in Builds :
                 HookEnds(b) \/ QueueBuild(b) \/ StartBuild(b) \/ DiscardBuild(b)
    PROVE  RestTypes'
<1>1. RestTypes
  BY DEF RestTypes, HandType, BuildsType, FlagsType, HookType, TypeOK
<1>2. CASE createPipelineRun \/ \E p \in Runs : DeleteRun(p)
  BY <1>1, <1>2 DEF createPipelineRun, DeleteRun, RestTypes, HandType, BuildsType,
     FlagsType, HookType, pipelineVars
<1>3. CASE Webhook \/ \E b \in Builds : HookEnds(b)
  <2>1. UNCHANGED <<cache, pipelineVars, queued, sync, hand, builds>>
    BY <1>3 DEF Webhook, HookFinds, HookMisses, HookCreates, HookEnds, HookUnchanged
  <2>2. HookType'
    BY <1>3 DEF Webhook, HookFinds, HookMisses, HookCreates, HookEnds, HookType, TypeOK
  <2> QED
    BY <1>1, <2>1, <2>2 DEF RestTypes, HandType, BuildsType, FlagsType, pipelineVars
<1>4. CASE Request \/ TouchPipeline \/ DeliverPipeline
  BY <1>1, <1>4 DEF Request, TouchPipeline, DeliverPipeline, RestTypes, HandType,
     BuildsType, FlagsType, HookType
<1>5. CASE Restart \/ DeliverRuns
  <2>1. Listed \in Lists
    BY DEF Listed, Lists, TypeOK, PipelineRun
  <2> QED
    BY <1>1, <1>5, <2>1, IdleTypes DEF Restart, DeliverRuns, RestTypes, HandType,
       BuildsType, FlagsType, HookType, pipelineVars
<1>6. CASE \E b \in Builds : QueueBuild(b) \/ StartBuild(b) \/ DiscardBuild(b)
  BY <1>1, <1>6 DEF QueueBuild, StartBuild, DiscardBuild, RestTypes, HandType,
     BuildsType, FlagsType, HookType, pipelineVars
<1> QED
  BY <1>2, <1>3, <1>4, <1>5, <1>6 DEF Users

LEMMA TypeStep ==
    ASSUME TypeOK, HandInv, ShownInv, Next
    PROVE  TypeOK'
<1>1. RestTypes'
  BY ControllerTypes, SyncTypes, OtherTypes DEF Next, Failures
<1> QED
  BY <1>1, RunsFollow DEF RestTypes, HandType, BuildsType, FlagsType, HookType, TypeOK

----------------------------------------------------------------------------
(* Steps keep the invariant *)

\* Who changes what the lists and the hands hold.
LEMMA ListSteps ==
    ASSUME TypeOK, Next
    PROVE  /\ \/ cache' = cache
              \/ cache' = Listed /\ api' = api /\ shown' = shown
           /\ sync'.list \in {{}, sync.list, cache}
           /\ sync'.list # {} /\ sync'.list # sync.list => ~hasPendingPipelineRuns
<1>1. CASE DeliverRuns \/ Restart
  BY <1>1, IdleTypes DEF DeliverRuns, Restart
<1>2. CASE Controller \/ \E p \in Runs : StoreRunData(p)
  BY <1>2 DEF Controller, Trigger, FinalizeRun, GiveUp, NoSameRun, RecordRunId,
     StoreRunData, HandUnchanged
<1>3. CASE Synchronizer \/ SyncWriteFails \/ SyncFails
  <2>1. cache' = cache
    BY <1>3 DEF Synchronizer, SyncSkips, SyncLists, SyncAsks, SyncEnds, SyncCreates,
       SyncDeletes, SyncWriteFails, SyncFails, SyncUnchanged
  <2>2. CASE SyncLists
    BY <2>1, <2>2 DEF SyncLists, SyncIdle
  <2>3. CASE SyncAsks
    BY <2>1, <2>3 DEF SyncAsks, SyncIdle
  <2>4. CASE SyncSkips \/ SyncEnds \/ SyncFails
    BY <2>1, <2>4, IdleTypes DEF SyncSkips, SyncEnds, SyncFails
  <2>5. CASE \/ \E b \in Builds : SyncCreates(b)
             \/ \E p \in Runs : SyncDeletes(p)
             \/ SyncWriteFails
    <3>1. sync'.list = sync.list
      BY <2>5 DEF SyncCreates, SyncDeletes, SyncWriteFails, TypeOK, Sync
    <3> QED
      BY <2>1, <3>1
  <2> QED
    BY <1>3, <2>2, <2>3, <2>4, <2>5 DEF Synchronizer
<1>4. CASE \/ Webhook \/ Users \/ DeliverPipeline
           \/ \E b \in Builds :
                 HookEnds(b) \/ QueueBuild(b) \/ StartBuild(b) \/ DiscardBuild(b)
  BY <1>4 DEF Webhook, HookFinds, HookMisses, HookCreates, HookUnchanged, HookEnds,
     Users, createPipelineRun, Request, TouchPipeline, DeleteRun, DeliverPipeline,
     QueueBuild, StartBuild, DiscardBuild
<1> QED
  BY <1>1, <1>2, <1>3, <1>4 DEF Next, Failures

\* Apart from a restart, each component keeps its own.
LEMMA OthersStep ==
    ASSUME Next
    PROVE  /\ \/ Controller \/ \E p \in Runs : StoreRunData(p)
              \/ hand' \in {hand, HandIdle}
           /\ \/ Synchronizer \/ SyncWriteFails \/ SyncFails
              \/ sync' \in {sync, SyncIdle}
<1>1. CASE Controller \/ \E p \in Runs : StoreRunData(p)
  BY <1>1 DEF Controller, Trigger, FinalizeRun, GiveUp, NoSameRun, RecordRunId,
     StoreRunData, HandUnchanged
<1>2. CASE Synchronizer \/ SyncWriteFails \/ SyncFails
  BY <1>2 DEF Synchronizer, SyncSkips, SyncLists, SyncAsks, SyncEnds, SyncCreates,
     SyncDeletes, SyncWriteFails, SyncFails, SyncUnchanged
<1>3. CASE \/ Webhook \/ Users \/ Restart \/ DeliverRuns \/ DeliverPipeline
           \/ \E b \in Builds :
                 HookEnds(b) \/ QueueBuild(b) \/ StartBuild(b) \/ DiscardBuild(b)
  BY <1>3 DEF Webhook, HookFinds, HookMisses, HookCreates, HookUnchanged, HookEnds,
     Users, createPipelineRun, Request, TouchPipeline, DeleteRun, Restart, DeliverRuns,
     DeliverPipeline, QueueBuild, StartBuild, DiscardBuild
<1> QED
  BY <1>1, <1>2, <1>3 DEF Next, Failures

LEMMA HandStep ==
    ASSUME RunSyncInv, Next
    PROVE  HandInv'
<1> SUFFICES ASSUME hand'.pc # "idle"
             PROVE  \/ api'[hand'.run].st = "gone"
                    \/ Exists(api'[hand'.run]) /\ api'[hand'.run].id = NoBuild
  BY DEF HandInv
<1>1. CASE \E p \in Runs : Trigger(p)
  BY <1>1 DEF Trigger, Exists
<1>2. CASE ~ \E p \in Runs : Trigger(p)
  <2>1. hand'.run = hand.run /\ hand.pc # "idle"
    BY <1>2, OthersStep, IdleTypes DEF Controller, FinalizeRun, GiveUp, NoSameRun,
       RecordRunId, StoreRunData, RunSyncInv, TypeOK
  <2>2. hand.run \in Runs
    BY <2>1 DEF RunSyncInv, TypeOK
  <2>3. Follows(hand.run)
    BY <2>2, RunsFollow DEF RunSyncInv
  <2> QED
    BY <2>1, <2>3 DEF RunSyncInv, HandInv, Follows
<1> QED
  BY <1>1, <1>2

LEMMA ListStep ==
    ASSUME RunSyncInv, Next
    PROVE  ListInv'
<1> SUFFICES ASSUME NEW e \in cache' \cup sync'.list
             PROVE  Known(e[1], e[2])'
  BY DEF ListInv
<1>1. CASE e \in cache \cup sync.list
  <2>1. Known(e[1], e[2]) /\ e[1] \in Runs
    BY <1>1 DEF RunSyncInv, ListInv, TypeOK, Sync, Lists
  <2>2. Follows(e[1]) /\ shown \subseteq shown'
    BY <2>1, RunsFollow DEF RunSyncInv
  <2> QED
    BY <2>1, <2>2 DEF Known, Follows
<1>2. CASE e \notin cache \cup sync.list
  <2>1. e \in Listed /\ api' = api /\ shown' = shown
    BY <1>2, ListSteps DEF RunSyncInv
  <2>2. PICK p \in Runs : e = <<p, api[p].id>> /\ Exists(api[p])
    BY <2>1 DEF Listed
  <2> QED
    BY <2>1, <2>2 DEF Known, RunSyncInv, ShownInv
<1> QED
  BY <1>1, <1>2

LEMMA SyncStep ==
    ASSUME RunSyncInv, Next
    PROVE  SyncInv'
<1>1. \A e \in sync'.list : e[2] # NoBuild
  <2> SUFFICES ASSUME NEW e \in sync'.list PROVE e[2] # NoBuild
    OBVIOUS
  <2>1. CASE e \in sync.list
    BY <2>1 DEF RunSyncInv, SyncInv
  <2>2. CASE e \notin sync.list
    <3>1. e \in cache /\ ~hasPendingPipelineRuns
      BY <2>2, ListSteps DEF RunSyncInv
    <3>2. e[1] \in Runs /\ e = <<e[1], e[2]>>
      BY <3>1 DEF RunSyncInv, TypeOK, Lists
    <3> QED
      BY <3>1, <3>2 DEF hasPendingPipelineRuns
  <2> QED
    BY <2>1, <2>2
<1>2. ASSUME NEW p \in sync'.delete
      PROVE  api'[p].st = "gone" \/ (Exists(api'[p]) /\ api'[p].id # NoBuild)
  <2>1. p \in Runs /\ (api[p].st = "gone" \/ (Exists(api[p]) /\ api[p].id # NoBuild))
    <3>1. CASE p \in sync.delete
      BY <3>1 DEF RunSyncInv, SyncInv, TypeOK, Sync
    <3>2. CASE p \notin sync.delete
      <4>1. SyncAsks
        <5>1. CASE SyncLists \/ SyncEnds \/ SyncFails
          BY <1>2, <5>1, IdleTypes DEF SyncLists, SyncEnds, SyncFails, SyncIdle
        <5>2. CASE \/ SyncSkips \/ SyncWriteFails
                   \/ \E b \in Builds : SyncCreates(b)
                   \/ \E q \in Runs : SyncDeletes(q)
          BY <1>2, <3>2, <5>2
             DEF SyncSkips, SyncWriteFails, SyncCreates, SyncDeletes, RunSyncInv, TypeOK, Sync
        <5>3. CASE sync' \in {sync, SyncIdle}
          BY <1>2, <3>2, <5>3, IdleTypes
        <5> QED
          BY <5>1, <5>2, <5>3, OthersStep DEF Synchronizer
      <4>2. sync'.delete \subseteq {e[1] : e \in sync.list}
        BY <4>1 DEF SyncAsks, SyncIdle
      <4>3. PICK e \in sync.list : p = e[1]
        BY <1>2, <4>2
      <4> QED
        BY <4>3 DEF RunSyncInv, ListInv, SyncInv, Known, TypeOK, Sync, Lists
    <3> QED
      BY <3>1, <3>2
  <2>2. Follows(p)
    BY <2>1, RunsFollow DEF RunSyncInv
  <2> QED
    BY <2>1, <2>2 DEF Follows
<1> QED
  BY <1>1, <1>2 DEF SyncInv

\* Builds that have run are not forgotten, and no deleted one comes back.
LEMMA BuildsStep ==
    ASSUME TypeOK, Next, NEW b \in Builds
    PROVE  /\ builds[b] = "deleted" => builds'[b] = "deleted"
           /\ builds[b] = "running" => builds'[b] \in {"running", "deleted"}
<1>1. CASE Controller \/ \E p \in Runs : StoreRunData(p)
  BY <1>1 DEF Controller, Trigger, FinalizeRun, GiveUp, NoSameRun, RecordRunId,
     StoreRunData, TypeOK
<1>2. CASE \E c \in Builds : QueueBuild(c) \/ StartBuild(c) \/ DiscardBuild(c)
  BY <1>2 DEF QueueBuild, StartBuild, DiscardBuild, TypeOK
<1>3. CASE Synchronizer \/ SyncWriteFails \/ SyncFails
  <2>1. builds' = builds
    BY <1>3 DEF Synchronizer, SyncSkips, SyncLists, SyncAsks, SyncEnds, SyncCreates,
       SyncDeletes, SyncWriteFails, SyncFails, SyncUnchanged
  <2> QED
    BY <2>1
<1>4. CASE \/ Webhook \/ Users \/ Restart \/ DeliverRuns \/ DeliverPipeline
           \/ \E c \in Builds : HookEnds(c)
  <2>1. builds' = builds
    BY <1>4 DEF Webhook, HookFinds, HookMisses, HookCreates, HookUnchanged, HookEnds,
       Users, createPipelineRun, Request, TouchPipeline, DeleteRun, Restart,
       DeliverRuns, DeliverPipeline
  <2> QED
    BY <2>1
<1> QED
  BY <1>1, <1>2, <1>3, <1>4 DEF Next, Failures

LEMMA WantedSteps ==
    ASSUME Next
    PROVE  Request \/ wanted' \in {{}, wanted} \/ SyncWriteFails
  BY DEF Next, Controller, Trigger, FinalizeRun, GiveUp, NoSameRun, RecordRunId,
     StoreRunData, HandUnchanged, Failures, Restart, SyncFails, SyncUnchanged, HookEnds,
     HookUnchanged, Webhook, HookFinds, HookMisses, HookCreates, Users,
     createPipelineRun, TouchPipeline, DeleteRun, DeliverPipeline, DeliverRuns,
     QueueBuild, StartBuild, DiscardBuild, Synchronizer, SyncSkips, SyncLists, SyncAsks,
     SyncEnds, SyncCreates, SyncDeletes, pipelineVars

\* Asked, Jenkins has each wanted build: it is listed with its run, or to be created.
LEMMA AsksShow ==
    ASSUME RunSyncInv, SyncAsks
    PROVE  \A b \in wanted :
              b \in sync'.create \/ b \in shown \/ builds[b] = "deleted"
<1> SUFFICES ASSUME NEW b \in wanted, builds[b] # "deleted", b \notin shown
             PROVE  b \in sync'.create
  OBVIOUS
<1>1. b \in Builds /\ b # NoBuild /\ builds[b] = "running"
  BY RunSyncAssumption DEF RunSyncInv, WantedInv, TypeOK
<1>2. Owners(b) = {}
  <2> SUFFICES ASSUME NEW p \in Runs, <<p, b>> \in sync.list PROVE FALSE
    BY DEF Owners
  <2> QED
    BY <1>1 DEF RunSyncInv, ListInv, Known
<1>3. sync'.create = {c \in {d \in Builds : builds[d] = "running"} : Owners(c) = {}}
  BY DEF SyncAsks, SyncIdle
<1> QED
  BY <1>1, <1>2, <1>3

LEMMA WantedStep ==
    ASSUME RunSyncInv, Next
    PROVE  WantedInv'
<1>1. \A b \in wanted' : builds'[b] \in {"running", "deleted"}
  <2>1. CASE Request
    BY <2>1 DEF Request
  <2>2. CASE wanted' \in {{}, wanted} \/ SyncWriteFails
    <3>1. wanted' \subseteq wanted
      BY <2>2 DEF SyncWriteFails
    <3> QED
      BY <3>1, BuildsStep DEF RunSyncInv, WantedInv, TypeOK
  <2> QED
    BY <2>1, <2>2, WantedSteps
<1>2. ASSUME sync'.pc = "write", NEW b \in wanted'
      PROVE  b \in sync'.create \/ b \in shown' \/ builds'[b] = "deleted"
  <2>1. shown \subseteq shown'
    BY RunsFollow DEF RunSyncInv
  <2>2. CASE Request
    BY <1>2, <2>2 DEF Request, AtRest
  <2>3. CASE SyncAsks
    <3>1. UNCHANGED <<wanted, builds, shown>>
      BY <2>3 DEF SyncAsks, SyncUnchanged
    <3> QED
      BY <1>2, <2>3, <3>1, AsksShow
  <2>4. CASE ~Request /\ ~SyncAsks
    <3>1. b \in wanted /\ b \in Builds
      BY <1>2, <2>4, WantedSteps DEF SyncWriteFails, RunSyncInv, TypeOK
    <3>2. CASE sync.pc = "write" /\ (b \in sync.create => b \in sync'.create \cup shown')
      BY <2>1, <3>1, <3>2, BuildsStep DEF RunSyncInv, WantedInv
    <3>3. CASE \E c \in Builds : SyncCreates(c)
      <4>1. PICK c \in Builds : SyncCreates(c)
        BY <3>3
      <4>2. c \in shown'
        BY <4>1, RunSyncAssumption DEF SyncCreates, CreateBarePipelineRun, Put, Absent
      <4>3. sync.pc = sync'.pc /\ sync'.create = sync.create \ {c}
        BY <4>1 DEF SyncCreates, RunSyncInv, TypeOK, Sync
      <4> QED
        BY <1>2, <3>2, <4>2, <4>3
    <3>4. CASE SyncWriteFails \/ \E p \in Runs : SyncDeletes(p)
      <4>1. sync.pc = sync'.pc
        BY <3>4 DEF SyncWriteFails, SyncDeletes, RunSyncInv, TypeOK, Sync
      <4>2. sync.create \subseteq sync'.create \cup {c \in Builds : c \notin wanted'}
        BY <3>4 DEF SyncWriteFails, SyncDeletes, RunSyncInv, TypeOK, Sync
      <4> QED
        BY <1>2, <3>2, <4>1, <4>2
    <3>5. CASE SyncSkips \/ SyncLists \/ SyncEnds \/ SyncFails
      <4>1. sync' = sync \/ sync'.pc # "write"
        BY <3>5, IdleTypes DEF SyncSkips, SyncLists, SyncEnds, SyncFails, SyncIdle
      <4> QED
        BY <1>2, <3>2, <4>1
    <3>6. CASE sync' \in {sync, SyncIdle}
      BY <1>2, <3>2, <3>6, IdleTypes
    <3> QED
      BY <2>4, <3>3, <3>4, <3>5, <3>6, OthersStep DEF Synchronizer
  <2> QED
    BY <2>2, <2>3, <2>4
<1> QED
  BY <1>1, <1>2 DEF WantedInv

LEMMA RunSyncInit == Init => RunSyncInv
<1> SUFFICES ASSUME Init PROVE RunSyncInv
  OBVIOUS
<1>1. TypeOK
  BY TypeInit
<1>2. HandInv /\ ListInv /\ SyncInv /\ WantedInv
  BY IdleTypes DEF Init, HandInv, ListInv, SyncInv, WantedInv
<1>3. ShownInv
  BY DEF Init, ShownInv, Absent
<1> QED
  BY <1>1, <1>2, <1>3 DEF RunSyncInv

LEMMA RunSyncStep == RunSyncInv /\ [Next]_vars => RunSyncInv'
<1>1. CASE UNCHANGED vars
  BY <1>1 DEF vars, pipelineVars, RunSyncInv, TypeOK, HandInv, ShownInv, ListInv, Known,
     SyncInv, WantedInv
<1>2. ASSUME RunSyncInv, Next PROVE RunSyncInv'
  BY <1>2, TypeStep, RunsFollow, HandStep, ListStep, SyncStep, WantedStep DEF RunSyncInv
<1> QED
  BY <1>1, <1>2

----------------------------------------------------------------------------
(* Theorems *)

\* TypeOK, in particular that only what has the finalizer is ever being deleted.
THEOREM RunSyncTypeCorrect == Spec => []TypeOK
<1>1. RunSyncInv => TypeOK
  BY DEF RunSyncInv
<1> QED
  BY <1>1, RunSyncInit, RunSyncStep, PTL DEF Spec

\* PendingRunIsKept: what collectPipelineRunsDeletedInJenkins deletes has an ID, however
\* old the list it works from, because such a list tells of IDs that runs keep.
THEOREM PendingRunsAreKept == Spec => []PendingRunIsKept
<1>1. RunSyncInv => PendingRunIsKept
  BY DEF RunSyncInv, SyncInv, PendingRunIsKept, Exists
<1> QED
  BY <1>1, RunSyncInit, RunSyncStep, PTL DEF Spec

\* RequestedIsShown: synchronizedSuccessfully removes the annotation only when all that
\* the request is owed has had a PipelineRun, whoever has created it.
THEOREM RequestedBuildsAreShown == Spec => RequestedIsShown
<1>1. ASSUME RunSyncInv, [Next]_vars, request, ~request',
             NEW b \in wanted, builds[b] = "running"
      PROVE  b \in shown
  <2>1. Next
    BY <1>1 DEF vars, pipelineVars
  <2>2. SyncEnds
    BY <1>1, <2>1 DEF Next, Controller, Trigger, FinalizeRun, GiveUp, NoSameRun,
       RecordRunId, StoreRunData, HandUnchanged, Failures, Restart, SyncFails,
       SyncWriteFails, SyncUnchanged, HookEnds, HookUnchanged, Webhook, HookFinds,
       HookMisses, HookCreates, Users, createPipelineRun, Request, TouchPipeline,
       DeleteRun, DeliverPipeline, DeliverRuns, QueueBuild, StartBuild, DiscardBuild,
       Synchronizer, SyncSkips, SyncLists, SyncAsks, SyncCreates, SyncDeletes,
       pipelineVars
  <2> QED
    BY <1>1, <2>2 DEF SyncEnds, RunSyncInv, WantedInv
<1>2. RunSyncInv /\ [Next]_vars =>
        [request /\ ~request' => \A b \in wanted : builds[b] = "running" => b \in shown]_vars
  BY <1>1
<1> QED
  BY <1>2, RunSyncInit, RunSyncStep, PTL DEF Spec, RequestedIsShown
=============================================================================
