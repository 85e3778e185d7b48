------------------------- MODULE PipelineSyncProofs -------------------------
(***************************************************************************)
(* What holds of PipelineSync for any specs and under any disturbance, but *)
(* for clients that send back old objects and specs that are put back,     *)
(* where a theorem excludes them: the refinement of PipelineJob, too.      *)
(***************************************************************************)
EXTENDS PipelineSync, TLAPS

----------------------------------------------------------------------------
(* The inductive invariant *)

\* The worker is about to put the finalizer on the Pipeline, or to take it off.
Guarding == work.pc = "sync" \/ (work.pc = "write" /\ work.copy.fin)
Letting == work.pc = "delete" \/ (work.pc = "write" /\ ~work.copy.fin)

\* Only an object with the finalizer can be in deletion, and no one but the
\* deletion branch takes the finalizer off.
FinalizerInv ==
    /\ client = NoPipeline
    /\ obj.fin => guarded
    /\ obj.st = "deleting" => obj.fin
    /\ obj.st = "live" /\ guarded => obj.fin
    /\ cache.st = "deleting" => cache.fin
    /\ work.pc = "sync" => work.copy.fin
    /\ work.pc = "delete" => ~work.copy.fin

\* The cache showing the deletion is old news to the API server: the Pipeline is
\* in deletion, or gone for good; one created since has no finalizer and no job.
DeletionInv ==
    /\ cache.st = "deleting" /\ guarded => obj.st # "live"
    /\ cache.st = "deleting" /\ Guarding => obj.st = "deleting"
    /\ Letting /\ guarded => obj.st # "live" /\ cache.st # "live"
    /\ work.pc = "write" /\ ~work.copy.fin /\ guarded => job = NoSpec
    /\ cache.st = "deleting" /\ obj.st # "deleting" => job = NoSpec
    /\ work.pc = "delete" /\ obj.st # "deleting" => job = NoSpec

\* A guarded Pipeline has gone: no job, and nobody about to make one.
GoneInv == guarded /\ obj.st = "gone" => job = NoSpec /\ cache.st # "live" /\ ~Guarding

GuardInv == TypeOK /\ FinalizerInv /\ DeletionInv /\ GoneInv

----------------------------------------------------------------------------
(* Types *)

LEMMA NoPipelineType == NoPipeline \in Pipeline /\ NoAnnotations \in Annotations
  BY DEF NoPipeline, NoAnnotations, Pipeline, Annotations

LEMMA IdleType ==
    /\ Idle \in [pc: {"idle", "sync", "delete", "write"}, copy: Pipeline]
    /\ Idle.pc = "idle"
    /\ NoCopy \in [held: BOOLEAN, ann: Annotations]
  BY NoPipelineType DEF Idle, NoCopy

\* A write of an object of the right type, by whoever.
LEMMA PutType ==
    ASSUME TypeOK, NEW o \in Pipeline, o.st = "deleting" => o.fin, Put(o)
    PROVE  /\ obj' \in Pipeline
           /\ obj'.st = "deleting" => obj'.fin
           /\ news' \in BOOLEAN
           /\ guarded' \in BOOLEAN
<1>1. o.fin \in BOOLEAN
  BY DEF Pipeline
<1>2. news' \in BOOLEAN
  BY DEF Put, Notice
<1>3. guarded' \in BOOLEAN
  BY <1>1 DEF Put
<1> QED
  BY <1>2, <1>3 DEF Put

\* The annotations updatePipeline sends: the hash is the object's or the copy's.
LEMMA UpdatedType ==
    ASSUME TypeOK
    PROVE  /\ UpdatedAnnotations \in Annotations
           /\ UpdatedAnnotations.hash \in {obj.ann.hash, work.copy.ann.hash}
  BY DEF UpdatedAnnotations, TypeOK, Pipeline, Annotations

\* Finalized keeps the type and lets no object without finalizer stay.
LEMMA FinalizedType ==
    ASSUME NEW o \in Pipeline
    PROVE  /\ Finalized(o) \in Pipeline
           /\ Finalized(o).st = "deleting" => Finalized(o).fin
  BY DEF Finalized, Pipeline

\* Each user's action and the synchronizer's.
LEMMA UserTypes ==
    ASSUME TypeOK,
           \/ \E s \in Specs : Users(s)
           \/ ClientReads \/ DeletePipelineObj \/ Request \/ Synchronize
    PROVE  TypeOK'
<1>1. CASE \E s \in Specs : CreatePipelineObj(s)
  <2>1. PICK s \in Specs : CreatePipelineObj(s)
    BY <1>1
  <2>2. PICK nil \in BOOLEAN :
          Put([NoPipeline EXCEPT !.st = "live", !.spec = s, !.ann.nil = nil])
    BY <2>1 DEF CreatePipelineObj
  <2> DEFINE o == [NoPipeline EXCEPT !.st = "live", !.spec = s, !.ann.nil = nil]
  <2>3. o \in Pipeline /\ o.st # "deleting"
    BY DEF NoPipeline, NoAnnotations, Pipeline, Annotations
  <2>4. Put(o)
    BY <2>2
  <2> HIDE DEF o
  <2>5. /\ obj' \in Pipeline /\ (obj'.st = "deleting" => obj'.fin)
        /\ news' \in BOOLEAN /\ guarded' \in BOOLEAN
    BY <2>3, <2>4, PutType
  <2> QED
    BY <2>1, <2>5, NoPipelineType DEF CreatePipelineObj, Asks, TypeOK
<1>2. CASE \E s \in Specs : UpdateJenkinsfile(s)
  <2>1. PICK s \in Specs : UpdateJenkinsfile(s)
    BY <1>2
  <2> DEFINE o == [obj EXCEPT !.spec = s, !.ann.nil = FALSE]
  <2>3. o \in Pipeline /\ (o.st = "deleting" => o.fin)
    BY DEF TypeOK, Pipeline, Annotations
  <2>4. Put(o)
    BY <2>1 DEF UpdateJenkinsfile
  <2> HIDE DEF o
  <2>5. /\ obj' \in Pipeline /\ (obj'.st = "deleting" => obj'.fin)
        /\ news' \in BOOLEAN /\ guarded' \in BOOLEAN
    BY <2>3, <2>4, PutType
  <2> QED
    BY <2>1, <2>5 DEF UpdateJenkinsfile, Asks, TypeOK
<1>3. CASE \E s \in Specs : UpdatePipelineObj(s)
  <2>1. PICK s \in Specs : UpdatePipelineObj(s)
    BY <1>3
  <2> DEFINE q == [obj EXCEPT !.spec = s, !.ann = client.ann, !.fin = client.fin]
             o == Finalized(q)
  <2>2. q \in Pipeline
    BY DEF TypeOK, Pipeline
  <2>3. o \in Pipeline /\ (o.st = "deleting" => o.fin)
    BY <2>2, FinalizedType
  <2>4. Put(o)
    BY <2>1 DEF UpdatePipelineObj
  <2> HIDE DEF o
  <2>5. /\ obj' \in Pipeline /\ (obj'.st = "deleting" => obj'.fin)
        /\ news' \in BOOLEAN /\ guarded' \in BOOLEAN
    BY <2>3, <2>4, PutType
  <2> QED
    BY <2>1, <2>5, NoPipelineType DEF UpdatePipelineObj, Asks, TypeOK
<1>4. CASE DeletePipelineObj
  <2> DEFINE q == [obj EXCEPT !.st = "deleting"]
             o == Finalized(q)
  <2>2. q \in Pipeline
    BY DEF TypeOK, Pipeline
  <2>3. o \in Pipeline /\ (o.st = "deleting" => o.fin)
    BY <2>2, FinalizedType
  <2>4. Put(o)
    BY <1>4 DEF DeletePipelineObj
  <2> HIDE DEF o
  <2>5. /\ obj' \in Pipeline /\ (obj'.st = "deleting" => obj'.fin)
        /\ news' \in BOOLEAN /\ guarded' \in BOOLEAN
    BY <2>3, <2>4, PutType
  <2> QED
    BY <1>4, <2>5 DEF DeletePipelineObj, TypeOK
<1>5. CASE Request \/ Synchronize
  <2>1. PICK o \in Pipeline : Put(o) /\ (o.st = "deleting" => o.fin)
    <3>1. CASE Request
      <4> DEFINE o == [obj EXCEPT !.ann.request = TRUE, !.ann.nil = FALSE]
      <4>1. o \in Pipeline /\ (o.st = "deleting" => o.fin)
        BY DEF TypeOK, Pipeline, Annotations
      <4>2. Put(o)
        BY <3>1 DEF Request
      <4> QED
        BY <4>1, <4>2
    <3>2. CASE Synchronize
      <4> DEFINE o == [obj EXCEPT !.ann.request = FALSE]
      <4>1. o \in Pipeline /\ (o.st = "deleting" => o.fin)
        BY DEF TypeOK, Pipeline, Annotations
      <4>2. Put(o)
        BY <3>2 DEF Synchronize
      <4> QED
        BY <4>1, <4>2
    <3> QED
      BY <1>5, <3>1, <3>2
  <2>2. /\ obj' \in Pipeline /\ (obj'.st = "deleting" => obj'.fin)
        /\ news' \in BOOLEAN /\ guarded' \in BOOLEAN
    BY <2>1, PutType
  <2> QED
    BY <1>5, <2>2 DEF Request, Synchronize, TypeOK
<1>6. CASE ClientReads
  BY <1>6 DEF ClientReads, auxVars, TypeOK
<1> QED
  BY <1>1, <1>2, <1>3, <1>4, <1>5, <1>6 DEF Users

\* The informer, the beginning of a syncHandler and a restart.
LEMMA CacheTypes ==
    ASSUME TypeOK, Deliver \/ Take \/ Panic \/ Restart
    PROVE  TypeOK'
<1>1. CASE Deliver
  BY <1>1 DEF Deliver, auxVars, TypeOK
<1>2. CASE Take
  <2>1. PICK call \in {"idle", "sync", "delete"}, copy \in Pipeline :
          Begin(call, copy) /\ (call = "sync" => copy.fin)
    <3>1. CASE Ignore
      BY <3>1, NoPipelineType DEF Ignore
    <3>2. CASE BeginSync
      <4> DEFINE copy == [cache EXCEPT !.fin = TRUE, !.ann.nil = FALSE, !.ann.sync = TRUE,
                                       !.ann.hash = IF cache.ann.sync THEN cache.spec ELSE @]
      <4>1. copy \in Pipeline /\ copy.fin
        BY DEF TypeOK, Pipeline, Annotations
      <4>2. Begin("sync", copy)
        BY <3>2 DEF BeginSync
      <4> QED
        BY <4>1, <4>2
    <3>3. CASE BeginDelete
      BY <3>3 DEF BeginDelete, TypeOK, Pipeline
    <3> QED
      BY <1>2, <3>1, <3>2, <3>3 DEF Take
  <2> QED
    BY <2>1 DEF Begin, auxVars, TypeOK
<1>3. CASE Panic \/ Restart
  <2>1. Reset
    BY <1>3 DEF Panic, Restart
  <2>2. queued' \in BOOLEAN
    BY <2>1 DEF Reset, Exists
  <2>3. news' \in BOOLEAN
    BY <2>1 DEF Reset
  <2> QED
    BY <2>1, <2>2, <2>3, IdleType DEF Reset, auxVars, TypeOK
<1> QED
  BY <1>1, <1>2, <1>3

\* The calls of the syncHandler.
LEMMA CallTypes ==
    ASSUME TypeOK,
           \/ SyncJob \/ DeleteJob \/ UpdateLive \/ UpdateNotFound
           \/ DeleteFails \/ CallFails \/ ReplyLost
    PROVE  TypeOK'
<1>1. work.copy \in Pipeline /\ work.copy.spec \in Specs \cup {NoSpec}
  BY DEF TypeOK, Pipeline
<1>2. CASE SyncJob \/ DeleteJob
  BY <1>1, <1>2 DEF SyncJob, DeleteJob, k8sUnchanged, auxVars, TypeOK
<1>3. CASE UpdateNotFound \/ DeleteFails \/ CallFails \/ ReplyLost
  BY <1>1, <1>3, IdleType
     DEF UpdateNotFound, DeleteFails, CallFails, ReplyLost, Requeue, k8sUnchanged,
         auxVars, TypeOK
<1>4. CASE UpdateLive
  <2> DEFINE q == [obj EXCEPT !.fin = work.copy.fin, !.ann = UpdatedAnnotations]
             o == Finalized(q)
  <2>1. q \in Pipeline
    BY <1>1, UpdatedType DEF TypeOK, Pipeline
  <2>2. o \in Pipeline /\ (o.st = "deleting" => o.fin)
    BY <2>1, FinalizedType
  <2>3. UNCHANGED <<obj, news, guarded>> \/ Put(o)
    BY <1>4 DEF UpdateLive
  <2> HIDE DEF o
  <2>4. /\ obj' \in Pipeline /\ (obj'.st = "deleting" => obj'.fin)
        /\ news' \in BOOLEAN /\ guarded' \in BOOLEAN
    BY <2>2, <2>3, PutType DEF TypeOK
  <2> QED
    BY <1>4, <2>4, IdleType DEF UpdateLive, Done, TypeOK
<1> QED
  BY <1>2, <1>3, <1>4

\* The metadata controller.
LEMMA MetadataTypes ==
    ASSUME TypeOK, MetadataReads \/ MetadataWrites \/ MetadataFails
    PROVE  TypeOK'
<1>1. CASE MetadataReads
  BY <1>1 DEF MetadataReads, auxVars, TypeOK, Pipeline
<1>2. CASE MetadataWrites
  <2> DEFINE o == [obj EXCEPT !.ann = meta.ann]
  <2>1. o \in Pipeline /\ (o.st = "deleting" => o.fin)
    BY DEF TypeOK, Pipeline
  <2>2. UNCHANGED <<obj, news, guarded>> \/ Put(o)
    BY <1>2 DEF MetadataWrites
  <2> HIDE DEF o
  <2>3. /\ obj' \in Pipeline /\ (obj'.st = "deleting" => obj'.fin)
        /\ news' \in BOOLEAN /\ guarded' \in BOOLEAN
    BY <2>1, <2>2, PutType DEF TypeOK
  <2> QED
    BY <1>2, <2>3, IdleType DEF MetadataWrites, TypeOK
<1>3. CASE MetadataFails
  BY <1>3, IdleType DEF MetadataFails, auxVars, TypeOK
<1> QED
  BY <1>1, <1>2, <1>3

LEMMA TypeInit == Init => TypeOK
<1> SUFFICES ASSUME Init PROVE TypeOK
  OBVIOUS
<1>1. obj.st # "deleting"
  BY DEF Init, NoPipeline
<1>2. {news, queued, guarded} \subseteq BOOLEAN
  BY DEF Init
<1> QED
  BY <1>1, <1>2, NoPipelineType, IdleType DEF Init, TypeOK

LEMMA TypeStep == TypeOK /\ [Next]_vars => TypeOK'
<1> SUFFICES ASSUME TypeOK, [Next]_vars PROVE TypeOK'
  OBVIOUS
<1>1. CASE UNCHANGED vars
  BY <1>1 DEF vars, auxVars, TypeOK
<1>2. CASE Next
  BY <1>2, UserTypes, CacheTypes, CallTypes, MetadataTypes DEF Next, Calls, Failures
<1> QED
  BY <1>1, <1>2

\* Every variable keeps its type, and an object in deletion has the finalizer,
\* under any disturbance: the Pipeline, its copies and its job.
THEOREM SyncTypeCorrect == Spec => []TypeOK
  BY TypeInit, TypeStep, PTL DEF Spec

----------------------------------------------------------------------------
(* No Pipeline that has had the finalizer leaves its job behind *)

Invs == FinalizerInv /\ DeletionInv /\ GoneInv

\* What a write does to the Pipeline: nothing but its spec and annotations ...
Edited == obj'.st = obj.st /\ obj'.fin = obj.fin /\ (guarded' <=> guarded)

\* ... it makes a new one, without a finalizer ...
Created == ~Exists(obj) /\ obj'.st = "live" /\ ~obj'.fin /\ ~guarded'

\* ... it deletes it, which takes effect at once if there is no finalizer ...
Deleted ==
    /\ obj.st = "live"
    /\ obj'.st = IF obj.fin THEN "deleting" ELSE "gone"
    /\ obj'.fin = obj.fin
    /\ guarded' <=> guarded

\* ... or it sets the finalizer of the copy.
Recorded ==
    /\ work.pc = "write"
    /\ Exists(obj)
    /\ obj'.st = IF obj.st = "deleting" /\ ~work.copy.fin THEN "gone" ELSE obj.st
    /\ obj'.fin = work.copy.fin
    /\ guarded' <=> work.copy.fin \/ guarded

\* A write of the same object, apart from its spec and annotations.
LEMMA PutEdits ==
    ASSUME GuardInv, NEW o \in Pipeline, o.st = obj.st, o.fin = obj.fin, Exists(obj), Put(o)
    PROVE  Edited
  BY DEF Put, Edited, GuardInv, FinalizerInv, TypeOK, Pipeline

\* The writes that are none of the Pipeline controller's.
LEMMA WritersMove ==
    ASSUME GuardInv, "client" \notin Disturbances,
           \/ \E s \in Specs : Users(s)
           \/ ClientReads \/ DeletePipelineObj \/ Request \/ Synchronize
           \/ MetadataReads \/ MetadataWrites \/ MetadataFails
    PROVE  /\ UNCHANGED <<cache, work, job>>
           /\ client' = NoPipeline
           /\ Edited \/ Created \/ Deleted
<1>1. CASE \E s \in Specs : CreatePipelineObj(s)
  <2>1. PICK s \in Specs : CreatePipelineObj(s)
    BY <1>1
  <2>2. ~Exists(obj) /\ UNCHANGED <<cache, work, job>> /\ client' = NoPipeline
    BY <2>1 DEF CreatePipelineObj, Exists
  <2>3. PICK nil \in BOOLEAN :
          Put([NoPipeline EXCEPT !.st = "live", !.spec = s, !.ann.nil = nil])
    BY <2>1 DEF CreatePipelineObj
  <2>4. obj'.st = "live" /\ obj'.fin = FALSE /\ guarded' = FALSE
    BY <2>2, <2>3 DEF Put, NoPipeline, Exists
  <2> QED
    BY <2>2, <2>4 DEF Created
<1>2. CASE \E s \in Specs : UpdateJenkinsfile(s)
  <2>1. PICK s \in Specs : UpdateJenkinsfile(s)
    BY <1>2
  <2> DEFINE o == [obj EXCEPT !.spec = s, !.ann.nil = FALSE]
  <2>2. o \in Pipeline /\ o.st = obj.st /\ o.fin = obj.fin
    BY DEF GuardInv, TypeOK, Pipeline, Annotations
  <2>3. Put(o) /\ Exists(obj) /\ UNCHANGED <<cache, work, client, job>>
    BY <2>1 DEF UpdateJenkinsfile
  <2> QED
    BY <2>2, <2>3, PutEdits DEF GuardInv, FinalizerInv
<1>3. CASE (\E s \in Specs : UpdatePipelineObj(s)) \/ ClientReads
  BY <1>3 DEF UpdatePipelineObj, ClientReads, Exists, GuardInv, FinalizerInv, NoPipeline
<1>4. CASE DeletePipelineObj
  <2> DEFINE o == Finalized([obj EXCEPT !.st = "deleting"])
  <2>1. obj.st = "live" /\ Put(o) /\ UNCHANGED <<cache, work, client, job>>
    BY <1>4 DEF DeletePipelineObj
  <2>2. o.fin = obj.fin /\ o.st = IF obj.fin THEN "deleting" ELSE "gone"
    BY DEF Finalized, GuardInv, TypeOK, Pipeline
  <2>3. obj'.fin = obj.fin /\ obj'.st = IF obj.fin THEN "deleting" ELSE "gone"
    BY <2>1, <2>2 DEF Put
  <2>4. guarded' <=> guarded
    BY <2>1, <2>3 DEF Put, Exists, GuardInv, FinalizerInv, TypeOK, Pipeline
  <2> QED
    BY <2>1, <2>3, <2>4 DEF Deleted, GuardInv, FinalizerInv
<1>5. CASE Request
  <2> DEFINE o == [obj EXCEPT !.ann.request = TRUE, !.ann.nil = FALSE]
  <2>1. o \in Pipeline /\ o.st = obj.st /\ o.fin = obj.fin
    BY DEF GuardInv, TypeOK, Pipeline, Annotations
  <2>2. Put(o) /\ Exists(obj) /\ UNCHANGED <<cache, work, client, job>>
    BY <1>5 DEF Request
  <2> QED
    BY <2>1, <2>2, PutEdits DEF GuardInv, FinalizerInv
<1>6. CASE Synchronize
  <2> DEFINE o == [obj EXCEPT !.ann.request = FALSE]
  <2>1. o \in Pipeline /\ o.st = obj.st /\ o.fin = obj.fin
    BY DEF GuardInv, TypeOK, Pipeline, Annotations
  <2>2. Put(o) /\ Exists(obj) /\ UNCHANGED <<cache, work, client, job>>
    BY <1>6 DEF Synchronize
  <2> QED
    BY <2>1, <2>2, PutEdits DEF GuardInv, FinalizerInv
<1>7. CASE MetadataWrites
  <2> DEFINE o == [obj EXCEPT !.ann = meta.ann]
  <2>1. o \in Pipeline /\ o.st = obj.st /\ o.fin = obj.fin
    BY DEF GuardInv, TypeOK, Pipeline
  <2>2. CASE Exists(obj) /\ Put(o)
    BY <1>7, <2>1, <2>2, PutEdits DEF MetadataWrites, GuardInv, FinalizerInv
  <2>3. CASE UNCHANGED <<obj, news, guarded>>
    BY <1>7, <2>3 DEF MetadataWrites, Edited, GuardInv, FinalizerInv
  <2> QED
    BY <1>7, <2>2, <2>3 DEF MetadataWrites
<1>8. CASE MetadataReads \/ MetadataFails
  BY <1>8 DEF MetadataReads, MetadataFails, auxVars, Edited, GuardInv, FinalizerInv
<1> QED
  BY <1>1, <1>2, <1>3, <1>4, <1>5, <1>6, <1>7, <1>8 DEF Users

LEMMA WritersKeepInv ==
    ASSUME GuardInv, UNCHANGED <<cache, work, job>>, client' = NoPipeline,
           Edited \/ Created \/ Deleted
    PROVE  Invs'
<1>1. CASE Edited
  BY <1>1 DEF Edited, Invs, GuardInv, FinalizerInv, DeletionInv, GoneInv, Guarding, Letting
<1>2. CASE Created
  BY <1>2
     DEF Created, Exists, Invs, GuardInv, FinalizerInv, DeletionInv, GoneInv, Guarding, Letting
<1>3. CASE Deleted
  BY <1>3 DEF Deleted, Invs, GuardInv, FinalizerInv, DeletionInv, GoneInv, Guarding, Letting
<1> QED
  BY <1>1, <1>2, <1>3

\* What updatePipeline makes of the object, if it writes it.
LEMMA UpdateMoves ==
    ASSUME GuardInv, UpdateLive
    PROVE  /\ work.pc = "write" /\ work'.pc = "idle"
           /\ UNCHANGED <<cache, client, job>>
           /\ Edited \/ Recorded
<1>1. /\ work.pc = "write" /\ Exists(obj) /\ work'.pc = "idle"
      /\ UNCHANGED <<cache, client, job>>
  BY DEF UpdateLive, Done, Idle
<1>2. CASE SameOutcome(obj)
  BY <1>1, <1>2 DEF UpdateLive, Edited
<1>3. CASE ~SameOutcome(obj)
  <2> DEFINE o == Finalized([obj EXCEPT !.fin = work.copy.fin, !.ann = UpdatedAnnotations])
  <2>1. Put(o)
    BY <1>3 DEF UpdateLive
  <2>2. /\ o.fin = work.copy.fin
        /\ o.st = IF obj.st = "deleting" /\ ~work.copy.fin THEN "gone" ELSE obj.st
    BY DEF Finalized, GuardInv, TypeOK, Pipeline, Annotations
  <2> QED
    BY <1>1, <2>1, <2>2 DEF Put, Recorded
<1> QED
  BY <1>1, <1>2, <1>3

\* The informer, the beginning of a syncHandler and a restart.
LEMMA CacheKeepsInv ==
    ASSUME GuardInv, Deliver \/ Take \/ Panic \/ Restart
    PROVE  Invs'
<1>1. CASE Deliver
  BY <1>1
     DEF Deliver, auxVars, Invs, GuardInv, FinalizerInv, DeletionInv, GoneInv, Guarding, Letting
<1>2. CASE Ignore
  BY <1>2
     DEF Ignore, Begin, auxVars, Invs, GuardInv, FinalizerInv, DeletionInv, GoneInv,
         Guarding, Letting
<1>3. CASE BeginSync
  <2>1. cache.st = "live" /\ work'.pc = "sync" /\ work'.copy.fin = TRUE
    BY <1>3 DEF BeginSync, Begin, GuardInv, TypeOK, Pipeline, Annotations
  <2> QED
    BY <1>3, <2>1
       DEF BeginSync, Begin, auxVars, Invs, GuardInv, FinalizerInv, DeletionInv, GoneInv,
           Guarding, Letting
<1>4. CASE BeginDelete
  <2>1. cache.st = "deleting" /\ work'.pc = "delete" /\ work'.copy.fin = FALSE
    BY <1>4 DEF BeginDelete, Begin, GuardInv, TypeOK, Pipeline
  <2> QED
    BY <1>4, <2>1
       DEF BeginDelete, Begin, auxVars, Invs, GuardInv, FinalizerInv, DeletionInv, GoneInv,
           Guarding, Letting
<1>5. CASE Panic \/ Restart
  BY <1>5
     DEF Panic, Restart, Reset, Idle, auxVars, Invs, GuardInv, FinalizerInv, DeletionInv,
         GoneInv, Guarding, Letting
<1> QED
  BY <1>1, <1>2, <1>3, <1>4, <1>5 DEF Take

\* The calls of the syncHandler.
LEMMA CallsKeepInv ==
    ASSUME GuardInv,
           \/ SyncJob \/ DeleteJob \/ UpdateLive \/ UpdateNotFound
           \/ DeleteFails \/ CallFails \/ ReplyLost
    PROVE  Invs'
<1>1. CASE SyncJob
  <2>1. /\ work.pc = "sync" /\ work'.pc = "write" /\ work'.copy = work.copy
        /\ UNCHANGED <<obj, cache, client, guarded>>
    BY <1>1 DEF SyncJob, k8sUnchanged, auxVars, GuardInv, TypeOK
  <2> QED
    BY <2>1 DEF Invs, GuardInv, FinalizerInv, DeletionInv, GoneInv, Guarding, Letting
<1>2. CASE DeleteJob
  <2>1. /\ work.pc = "delete" /\ work'.pc = "write" /\ work'.copy = work.copy
        /\ job' = NoSpec
        /\ UNCHANGED <<obj, cache, client, guarded>>
    BY <1>2 DEF DeleteJob, k8sUnchanged, auxVars, GuardInv, TypeOK
  <2> QED
    BY <2>1 DEF Invs, GuardInv, FinalizerInv, DeletionInv, GoneInv, Guarding, Letting
<1>3. CASE UpdateNotFound \/ DeleteFails \/ CallFails \/ ReplyLost
  <2>1. /\ work'.pc = "idle"
        /\ UNCHANGED <<obj, cache, client, guarded>>
    BY <1>3
       DEF UpdateNotFound, DeleteFails, CallFails, ReplyLost, Requeue, Idle, k8sUnchanged, auxVars
  <2>2. job' \in {job, NoSpec} \/ work.pc = "sync"
    BY <1>3 DEF UpdateNotFound, DeleteFails, CallFails, ReplyLost
  <2> QED
    BY <2>1, <2>2 DEF Invs, GuardInv, FinalizerInv, DeletionInv, GoneInv, Guarding, Letting
<1>4. CASE UpdateLive
  <2>1. CASE Edited
    BY <1>4, <2>1, UpdateMoves
       DEF Edited, Invs, GuardInv, FinalizerInv, DeletionInv, GoneInv, Guarding, Letting
  <2>2. CASE Recorded
    BY <1>4, <2>2, UpdateMoves
       DEF Recorded, Exists, Invs, GuardInv, FinalizerInv, DeletionInv, GoneInv, Guarding, Letting
  <2> QED
    BY <1>4, <2>1, <2>2, UpdateMoves
<1> QED
  BY <1>1, <1>2, <1>3, <1>4

LEMMA GuardInit == Init => GuardInv
<1> SUFFICES ASSUME Init PROVE GuardInv
  OBVIOUS
<1>1. TypeOK
  BY TypeInit
<1>2. Invs
  BY DEF Init, NoPipeline, Idle, Invs, FinalizerInv, DeletionInv, GoneInv, Guarding, Letting
<1> QED
  BY <1>1, <1>2 DEF GuardInv, Invs

LEMMA GuardStep ==
    ASSUME "client" \notin Disturbances
    PROVE  GuardInv /\ [Next]_vars => GuardInv'
<1> SUFFICES ASSUME GuardInv, [Next]_vars PROVE GuardInv'
  OBVIOUS
<1>1. TypeOK'
  BY TypeStep DEF GuardInv
<1>2. CASE UNCHANGED vars
  BY <1>1, <1>2 DEF vars, auxVars, GuardInv, FinalizerInv, DeletionInv, GoneInv, Guarding, Letting
<1>3. CASE Next
  <2>1. Invs'
    BY <1>3, WritersMove, WritersKeepInv, CacheKeepsInv, CallsKeepInv DEF Next, Calls, Failures
  <2> QED
    BY <1>1, <2>1 DEF GuardInv, Invs
<1> QED
  BY <1>2, <1>3

\* Without clients that send back old objects, a Pipeline that has ever had the
\* finalizer is gone only when its job is, and no syncHandler under way brings the
\* job back: whatever is lost, repeated or restarted in between.
THEOREM GuardedJobsGo ==
    ASSUME "client" \notin Disturbances
    PROVE  Spec => []GuardedJobGoes
<1>1. GuardInv => GuardedJobGoes
  BY DEF GuardInv, GoneInv, GuardedJobGoes
<1> QED
  BY <1>1, GuardInit, GuardStep, PTL DEF Spec

----------------------------------------------------------------------------
(* No job is taken from under a Pipeline in use *)

\* There is a spec wherever there is a Pipeline.
SpecInv ==
    /\ Exists(obj) => obj.spec \in Specs
    /\ Exists(cache) => cache.spec \in Specs
    /\ work.pc = "sync" => work.copy.spec \in Specs

\* What the writers of the object make of its spec and presence.
LEMMA PutSpec ==
    ASSUME TypeOK, SpecInv, Next, obj' # obj
    PROVE  /\ UNCHANGED cache
           /\ work'.pc = "sync" => UNCHANGED work
           /\ obj'.spec \in Specs \/ (obj'.spec = obj.spec /\ Exists(obj))
<1>1. ASSUME NEW s \in Specs, Users(s)
      PROVE  UNCHANGED <<cache, work>> /\ obj'.spec \in Specs
  <2>1. CASE CreatePipelineObj(s)
    BY <2>1 DEF CreatePipelineObj, Put, NoPipeline
  <2>2. CASE UpdateJenkinsfile(s)
    BY <2>2 DEF UpdateJenkinsfile, Put, TypeOK, Pipeline
  <2>3. CASE UpdatePipelineObj(s)
    BY <2>3 DEF UpdatePipelineObj, Put, Finalized, TypeOK, Pipeline
  <2> QED
    BY <1>1, <2>1, <2>2, <2>3 DEF Users
<1>2. CASE DeletePipelineObj \/ Request \/ Synchronize \/ MetadataWrites
  BY <1>2
     DEF DeletePipelineObj, Request, Synchronize, MetadataWrites, Put, Finalized, Exists, TypeOK,
         Pipeline
<1>3. CASE UpdateLive
  BY <1>3 DEF UpdateLive, Done, Idle, Put, Finalized, TypeOK, Pipeline
<1>4. ASSUME ~(\E s \in Specs : Users(s)), ~(DeletePipelineObj \/ Request \/ Synchronize),
             ~MetadataWrites, ~UpdateLive
      PROVE  obj' = obj
  BY <1>4
     DEF Next, ClientReads, Deliver, Take, Ignore, BeginSync, BeginDelete, Begin, Calls, SyncJob,
         DeleteJob, UpdateNotFound, Panic, Failures, DeleteFails, CallFails, ReplyLost,
         MetadataFails, Restart, Reset, MetadataReads, k8sUnchanged
<1> QED
  BY <1>1, <1>2, <1>3, <1>4

LEMMA SpecStep ==
    ASSUME TypeOK, SpecInv, [Next]_vars
    PROVE  SpecInv'
<1>1. CASE UNCHANGED vars
  BY <1>1 DEF vars, SpecInv, Exists
<1>2. CASE Next /\ obj' # obj
  BY <1>2, PutSpec DEF SpecInv, Exists
<1>3. CASE Next /\ obj' = obj
  <2>1. cache' \in {cache, obj}
    BY <1>3
       DEF Next, Users, CreatePipelineObj, UpdateJenkinsfile, UpdatePipelineObj, ClientReads,
           DeletePipelineObj, Request, Synchronize, Deliver, Take, Ignore, BeginSync,
           BeginDelete, Begin, Calls, SyncJob, DeleteJob, UpdateLive, UpdateNotFound, Panic,
           Failures, DeleteFails, CallFails, ReplyLost, MetadataFails, Restart, Reset,
           MetadataReads, MetadataWrites, k8sUnchanged
  <2>2. work'.pc = "sync" => work'.copy.spec \in Specs
    <3>1. CASE Take
      <4>1. CASE BeginSync
        BY <4>1 DEF BeginSync, Begin, SpecInv, Exists, TypeOK, Pipeline, Annotations
      <4>2. CASE Ignore \/ BeginDelete
        BY <4>2 DEF Ignore, BeginDelete, Begin
      <4> QED
        BY <3>1, <4>1, <4>2 DEF Take
    <3>2. CASE Calls \/ Failures
      <4>1. CASE SyncJob \/ DeleteJob
        BY <4>1 DEF SyncJob, DeleteJob, TypeOK
      <4>2. CASE MetadataFails
        BY <4>2 DEF MetadataFails, SpecInv
      <4> QED
        BY <3>2, <4>1, <4>2
           DEF Calls, UpdateLive, UpdateNotFound, Panic, Failures, DeleteFails, CallFails,
               ReplyLost, Restart, Reset, Requeue, Done, Idle
    <3>3. CASE UNCHANGED work
      BY <3>3 DEF SpecInv
    <3> QED
      BY <1>3, <3>1, <3>2, <3>3
         DEF Next, Users, CreatePipelineObj, UpdateJenkinsfile, UpdatePipelineObj, ClientReads,
             DeletePipelineObj, Request, Synchronize, Deliver, MetadataReads, MetadataWrites
  <2> QED
    BY <1>3, <2>1, <2>2 DEF SpecInv, Exists
<1> QED
  BY <1>1, <1>2, <1>3

\* Only the calls for a job change it.
LEMMA JobMoves ==
    ASSUME Next, job' # job
    PROVE  \/ work.pc = "sync" /\ job' = work.copy.spec
           \/ work.pc = "delete" /\ job' = NoSpec
  BY DEF Next, Users, CreatePipelineObj, UpdateJenkinsfile, UpdatePipelineObj, ClientReads,
         DeletePipelineObj, Request, Synchronize, Deliver, Take, Ignore, BeginSync,
         BeginDelete, Begin, Calls, SyncJob, DeleteJob, UpdateLive, UpdateNotFound, Panic,
         Failures, DeleteFails, CallFails, ReplyLost, MetadataFails, Restart, Reset,
         MetadataReads, MetadataWrites

\* Without such clients, syncHandler deletes a job only while the Pipeline is being
\* deleted: never that of a Pipeline created again under the same name, although
\* the cache may still show the old one.
THEOREM JobsInUseStay ==
    ASSUME "client" \notin Disturbances
    PROVE  Spec => JobDeletedOnlyForDeleted
<1>1. Init => SpecInv
  BY DEF Init, NoPipeline, Idle, SpecInv, Exists
<1>2. GuardInv /\ SpecInv /\ [Next]_vars => SpecInv'
  BY SpecStep DEF GuardInv
<1>3. ASSUME GuardInv, SpecInv, [Next]_vars
      PROVE  [job # NoSpec /\ job' = NoSpec => obj.st # "live"]_vars
  <2> SUFFICES ASSUME job # NoSpec, job' = NoSpec, Next PROVE obj.st # "live"
    BY <1>3
  <2>1. work.pc = "delete"
    BY <1>3, JobMoves, SyncAssumption DEF SpecInv
  <2> QED
    BY <1>3, <2>1 DEF GuardInv, DeletionInv
<1> QED
  BY <1>1, <1>2, <1>3, GuardInit, GuardStep, PTL DEF Spec, JobDeletedOnlyForDeleted

----------------------------------------------------------------------------
(* The refinement of PipelineJob *)

\* There is a job wherever there is a finalizer, or about to be, until the
\* deletion branch has deleted it and nobody is left to make it again.
JobInv ==
    /\ obj.st = "absent" => cache.st = "absent" /\ work.pc = "idle" /\ job = NoSpec
    /\ obj.st = "live" /\ obj.fin => job # NoSpec
    /\ obj.st = "deleting" => job # NoSpec \/ (cache.st # "live" /\ ~Guarding)
    /\ work.pc = "write" /\ work.copy.fin => job # NoSpec

LEMMA CacheKeepsJob ==
    ASSUME GuardInv, JobInv, Deliver \/ Take \/ Panic \/ Restart
    PROVE  JobInv'
<1>1. obj' = obj /\ job' = job /\ cache' \in {cache, obj}
  BY DEF Deliver, Take, Ignore, BeginSync, BeginDelete, Begin, Panic, Restart, Reset
<1>2. work'.pc # "idle" => work' = work \/ BeginSync \/ BeginDelete
  BY DEF Deliver, Take, Ignore, Begin, Panic, Restart, Reset, Idle
<1>3. CASE BeginSync
  BY <1>1, <1>3 DEF BeginSync, Begin, JobInv, Guarding
<1>4. CASE BeginDelete
  BY <1>1, <1>4 DEF BeginDelete, Begin, JobInv, Guarding
<1>5. CASE work'.pc = "idle" \/ work' = work
  BY <1>1, <1>5 DEF JobInv, Guarding
<1> QED
  BY <1>2, <1>3, <1>4, <1>5

LEMMA CallsKeepJob ==
    ASSUME GuardInv, SpecInv, JobInv,
           \/ SyncJob \/ DeleteJob \/ UpdateLive \/ UpdateNotFound
           \/ DeleteFails \/ CallFails \/ ReplyLost
    PROVE  JobInv'
<1>1. work.pc = "sync" => work.copy.spec # NoSpec
  BY SyncAssumption DEF SpecInv
<1>2. CASE SyncJob
  <2>1. /\ work.pc = "sync" /\ work'.pc = "write" /\ work'.copy = work.copy
        /\ job' = work.copy.spec
        /\ UNCHANGED <<obj, cache>>
    BY <1>2 DEF SyncJob, k8sUnchanged, GuardInv, TypeOK
  <2> QED
    BY <1>1, <2>1 DEF JobInv
<1>3. CASE DeleteJob
  <2>1. /\ work.pc = "delete" /\ work'.pc = "write" /\ work'.copy = work.copy
        /\ ~work.copy.fin /\ job' = NoSpec
        /\ UNCHANGED <<obj, cache>>
    BY <1>3 DEF DeleteJob, k8sUnchanged, GuardInv, FinalizerInv, TypeOK
  <2> QED
    BY <2>1 DEF JobInv, GuardInv, FinalizerInv, DeletionInv, Guarding, Letting
<1>4. CASE UpdateNotFound \/ DeleteFails \/ CallFails \/ ReplyLost
  <2>1. /\ work'.pc = "idle" /\ work.pc # "idle"
        /\ UNCHANGED <<obj, cache>>
    BY <1>4
       DEF UpdateNotFound, DeleteFails, CallFails, ReplyLost, Requeue, Idle, k8sUnchanged
  <2>2. \/ job' = job
        \/ work.pc = "sync" /\ job' = work.copy.spec
        \/ work.pc = "delete" /\ job' = NoSpec
    BY <1>4 DEF UpdateNotFound, DeleteFails, CallFails, ReplyLost
  <2> QED
    BY <1>1, <2>1, <2>2 DEF JobInv, GuardInv, FinalizerInv, DeletionInv, Guarding, Letting
<1>5. CASE UpdateLive
  <2>1. CASE Edited
    BY <1>5, <2>1, UpdateMoves DEF Edited, JobInv, Guarding
  <2>2. CASE Recorded
    BY <1>5, <2>2, UpdateMoves
       DEF Recorded, Exists, JobInv, GuardInv, FinalizerInv, DeletionInv, Guarding, Letting
  <2> QED
    BY <1>5, <2>1, <2>2, UpdateMoves
<1> QED
  BY <1>2, <1>3, <1>4, <1>5

LEMMA JobStep ==
    ASSUME "client" \notin Disturbances, GuardInv, SpecInv, JobInv, [Next]_vars
    PROVE  JobInv'
<1>1. CASE UNCHANGED vars
  BY <1>1 DEF vars, JobInv, Guarding
<1>2. ASSUME UNCHANGED <<cache, work, job>>, Edited \/ Created \/ Deleted
      PROVE  JobInv'
  BY <1>2 DEF Edited, Created, Deleted, Exists, JobInv, Guarding
<1>3. CASE Next
  BY <1>2, <1>3, WritersMove, CacheKeepsJob, CallsKeepJob DEF Next, Calls, Failures
<1> QED
  BY <1>1, <1>3

\* A write, none of whose kinds changes the job, as PipelineJob sees it.
LEMMA WritesKeepProtocol ==
    ASSUME GuardInv, JobInv, job' = job, Edited \/ Created \/ Deleted \/ Recorded
    PROVE  [Protocol!JobNext]_(Protocol!jobVars)
<1> SUFFICES Protocol!JobNext \/ UNCHANGED <<Place, job>>
  BY DEF Protocol!jobVars
<1>1. obj.st \in {"absent", "live", "deleting", "gone"} /\ obj.fin \in BOOLEAN
  BY DEF GuardInv, TypeOK, Pipeline
<1>2. CASE Edited
  BY <1>2 DEF Edited, Place
<1>3. CASE Created
  <2>1. Protocol!Create
    BY <1>1, <1>3 DEF Created, Exists, Place, Protocol!Create
  <2> QED
    BY <2>1 DEF Protocol!JobNext
<1>4. CASE Deleted
  <2>1. Protocol!Delete \/ Protocol!Leave
    BY <1>4 DEF Deleted, Place, Protocol!Delete, Protocol!Leave, GuardInv, FinalizerInv
  <2> QED
    BY <2>1 DEF Protocol!JobNext
<1>5. CASE Recorded
  <2>1. CASE obj.st = "live" /\ work.copy.fin
    <3>1. Protocol!Guard \/ Place' = Place
      BY <1>5, <2>1 DEF Recorded, Place, JobInv, Protocol!Guard
    <3> QED
      BY <3>1 DEF Protocol!JobNext
  <2>2. CASE obj.st = "live" /\ ~work.copy.fin
    BY <1>5, <2>2 DEF Recorded, Place, GuardInv, FinalizerInv, DeletionInv, Letting
  <2>3. CASE obj.st = "deleting" /\ work.copy.fin
    BY <1>5, <2>3 DEF Recorded, Place
  <2>4. CASE obj.st = "deleting" /\ ~work.copy.fin
    <3>1. Protocol!Release
      BY <1>5, <2>4
         DEF Recorded, Place, GuardInv, FinalizerInv, DeletionInv, Protocol!Release
    <3> QED
      BY <3>1 DEF Protocol!JobNext
  <2> QED
    BY <1>5, <2>1, <2>2, <2>3, <2>4 DEF Recorded, Exists
<1> QED
  BY <1>2, <1>3, <1>4, <1>5

LEMMA ProtocolStep ==
    ASSUME "client" \notin Disturbances, GuardInv, SpecInv, JobInv, [Next]_vars
    PROVE  [Protocol!JobNext]_(Protocol!jobVars)
<1>1. CASE UNCHANGED vars
  BY <1>1 DEF vars, auxVars, Place, Protocol!jobVars
<1>2. CASE Next /\ job' # job
  <2>1. Place' = Place
    <3>1. SyncJob \/ DeleteJob \/ ReplyLost
      BY <1>2
         DEF Next, Users, CreatePipelineObj, UpdateJenkinsfile, UpdatePipelineObj, ClientReads,
             DeletePipelineObj, Request, Synchronize, Deliver, Take, Ignore, BeginSync,
             BeginDelete, Begin, Calls, UpdateLive, UpdateNotFound, Panic, Failures,
             DeleteFails, CallFails, MetadataFails, Restart, Reset, MetadataReads,
             MetadataWrites
    <3>2. UNCHANGED <<obj, guarded>>
      BY <3>1 DEF SyncJob, DeleteJob, ReplyLost, k8sUnchanged, auxVars
    <3> QED
      BY <3>2 DEF Place
  <2>2. obj.st \in {"live", "deleting", "gone"}
    BY <1>2, JobMoves DEF JobInv, GuardInv, TypeOK, Pipeline
  <2>3. CASE work.pc = "sync" /\ job' = work.copy.spec
    <3>1. work.copy.spec \in Specs
      BY <2>3 DEF SpecInv
    <3>2. Protocol!Sync(work.copy.spec)
      BY <2>1, <2>2, <2>3
         DEF Place, JobInv, GuardInv, GoneInv, Guarding, Protocol!Sync
    <3> QED
      BY <3>1, <3>2 DEF Protocol!JobNext
  <2>4. CASE work.pc = "delete" /\ job' = NoSpec
    <3>1. obj.st = "deleting"
      BY <1>2, <2>4 DEF GuardInv, DeletionInv
    <3>2. Protocol!CleanUp
      BY <2>1, <2>4, <3>1 DEF Place, Protocol!CleanUp
    <3> QED
      BY <3>2 DEF Protocol!JobNext
  <2> QED
    BY <1>2, <2>3, <2>4, JobMoves
<1>3. CASE Next /\ job' = job
  <2>1. CASE UNCHANGED <<obj, guarded>>
    BY <1>3, <2>1 DEF Place, Protocol!jobVars
  <2>2. CASE UpdateLive
    BY <2>2, UpdateMoves, WritesKeepProtocol
  <2>3. CASE \/ \E s \in Specs : Users(s)
             \/ ClientReads \/ DeletePipelineObj \/ Request \/ Synchronize
             \/ MetadataReads \/ MetadataWrites \/ MetadataFails
    BY <2>3, WritersMove, WritesKeepProtocol
  <2>4. ASSUME Deliver \/ Take \/ SyncJob \/ DeleteJob \/ UpdateNotFound \/ Panic
               \/ DeleteFails \/ CallFails \/ ReplyLost \/ Restart
        PROVE  UNCHANGED <<obj, guarded>>
    BY <2>4
       DEF Deliver, Take, Ignore, BeginSync, BeginDelete, Begin, SyncJob, DeleteJob,
           UpdateNotFound, Panic, DeleteFails, CallFails, ReplyLost, Restart, Reset,
           k8sUnchanged, auxVars
  <2> QED
    BY <1>3, <2>1, <2>2, <2>3, <2>4 DEF Next, Calls, Failures
<1> QED
  BY <1>1, <1>2, <1>3

\* FollowsJobProtocol: without such clients, what users, both controllers and the
\* synchronizer do to a Pipeline and its job implements PipelineJob, whatever fails,
\* is lost or starts anew in between.
THEOREM ImplementsJob ==
    ASSUME "client" \notin Disturbances
    PROVE  Spec => FollowsJobProtocol
<1>1. Init => SpecInv /\ JobInv /\ Protocol!JobInit
  BY DEF Init, NoPipeline, Idle, SpecInv, Exists, JobInv, Place, Protocol!JobInit
<1>2. GuardInv /\ SpecInv /\ JobInv /\ [Next]_vars => SpecInv' /\ JobInv'
  BY SpecStep, JobStep DEF GuardInv
<1>3. GuardInv /\ SpecInv /\ JobInv /\ [Next]_vars => [Protocol!JobNext]_(Protocol!jobVars)
  BY ProtocolStep
<1> QED
  BY <1>1, <1>2, <1>3, GuardInit, GuardStep, PTL
     DEF Spec, FollowsJobProtocol, Protocol!JobSpec

----------------------------------------------------------------------------
(* The job follows the spec *)

\* Every spec and hash anybody holds has been asked for.
PastInv ==
    /\ \A o \in {obj, cache, work.copy, client} :
          {o.spec, o.ann.hash} \subseteq past \cup {NoSpec}
    /\ {meta.ann.hash, job} \subseteq past \cup {NoSpec}
    /\ obj.st = "live" => obj.spec # NoSpec

\* The hash of the current spec is in one of the copies that may be written.
HashKnown ==
    \/ obj.spec \in {obj.ann.hash, cache.ann.hash, client.ann.hash, meta.ann.hash}
    \/ work.pc \in {"delete", "write"} /\ work.copy.ann.hash = obj.spec

\* What is about the current spec is about the current Pipeline; the hash of the
\* current spec is known to nobody before the job has it; and until then the key
\* is on its way to the worker, or the worker on its way to the job.
CurrentInv ==
    obj.st = "live" =>
        /\ cache.spec = obj.spec => cache.st = "live"
        /\ work.pc # "idle" /\ work.copy.spec = obj.spec =>
              cache.spec = obj.spec /\ work.pc # "delete"
        /\ job = obj.spec =>
              /\ cache.spec = obj.spec
              /\ work.pc # "delete"
              /\ work.pc = "sync" => work.copy.spec = obj.spec
        /\ HashKnown => job = obj.spec
        /\ work.pc = "sync" /\ work.copy.ann.hash = obj.spec => work.copy.spec = obj.spec
        /\ \/ job = obj.spec
           \/ news
           \/ /\ cache.spec = obj.spec
              /\ queued \/ (work.pc = "sync" /\ work.copy.spec = obj.spec)

FollowInv == TypeOK /\ PastInv /\ CurrentInv

\* Steps that change copies of the object, or the object short of its spec.
OldSpec ==
    /\ obj'.spec = obj.spec
    /\ obj'.st = obj.st \/ obj'.st # "live"
    /\ \/ obj'.ann.hash \in {obj.ann.hash, client.ann.hash, meta.ann.hash}
       \/ /\ work.pc = "write" /\ obj'.ann.hash = work.copy.ann.hash
          /\ obj'.fin = work.copy.fin
    /\ client' \in {client, NoPipeline, obj}
    /\ meta'.ann.hash \in {meta.ann.hash, NoSpec, obj.ann.hash}
    /\ \/ work' = work
       \/ work' = Idle /\ work.pc = "write" /\ obj'.fin = work.copy.fin
    /\ news => news'
    /\ past' = past
    /\ UNCHANGED <<cache, queued, job>>

\* Steps that ask for a spec not asked for before.
NewSpec ==
    /\ obj'.spec \in Specs \ past
    /\ past' = past \cup {obj'.spec}
    /\ obj'.ann.hash \in {NoSpec, obj.ann.hash, client.ann.hash}
    /\ client' \in {client, NoPipeline}
    /\ news' = TRUE
    /\ UNCHANGED <<cache, queued, work, meta, job>>

LEMMA OldSpecKeepsInv ==
    ASSUME FollowInv, OldSpec
    PROVE  PastInv' /\ CurrentInv'
<1>1. NoPipeline.spec = NoSpec /\ NoPipeline.ann.hash = NoSpec /\ Idle.pc = "idle"
      /\ Idle.copy = NoPipeline
  BY DEF NoPipeline, NoAnnotations, Idle
<1>2. PastInv'
  BY <1>1 DEF OldSpec, FollowInv, PastInv
<1>3. CurrentInv'
  <2> SUFFICES ASSUME obj'.st = "live" PROVE CurrentInv'
    BY DEF CurrentInv
  <2>1. obj.st = "live" /\ obj.spec # NoSpec
    BY DEF OldSpec, FollowInv, PastInv
  <2>2. HashKnown' => HashKnown
    BY <1>1, <2>1 DEF OldSpec, HashKnown
  <2> QED
    BY <1>1, <2>1, <2>2 DEF OldSpec, FollowInv, CurrentInv
<1> QED
  BY <1>2, <1>3

LEMMA NewSpecKeepsInv ==
    ASSUME FollowInv, NewSpec
    PROVE  PastInv' /\ CurrentInv'
<1>1. NoPipeline.spec = NoSpec /\ NoPipeline.ann.hash = NoSpec
  BY DEF NoPipeline, NoAnnotations
<1>2. PastInv'
  BY <1>1, SyncAssumption DEF NewSpec, FollowInv, PastInv
<1>3. CurrentInv'
  <2>1. obj'.spec \notin past \cup {NoSpec}
    BY SyncAssumption DEF NewSpec
  <2>2. cache.spec # obj'.spec /\ work.copy.spec # obj'.spec /\ job # obj'.spec
        /\ work.copy.ann.hash # obj'.spec
    BY <2>1 DEF FollowInv, PastInv
  <2>3. ~HashKnown'
    BY <1>1, <2>1, <2>2 DEF NewSpec, HashKnown, FollowInv, PastInv
  <2> QED
    BY <2>2, <2>3 DEF NewSpec, CurrentInv
<1> QED
  BY <1>2, <1>3

\* Each write of the object, and each copy of it, is of one of these kinds.
LEMMA WriterKinds ==
    ASSUME FollowInv, "revert" \notin Disturbances,
           \/ \E s \in Specs : Users(s)
           \/ ClientReads \/ DeletePipelineObj \/ Request \/ Synchronize
           \/ MetadataReads \/ MetadataWrites \/ MetadataFails \/ UpdateLive
    PROVE  OldSpec \/ NewSpec
<1> USE DEF FollowInv
<1>1. CASE \E s \in Specs : CreatePipelineObj(s)
  <2>1. PICK s \in Specs : CreatePipelineObj(s)
    BY <1>1
  <2>2. PICK nil \in BOOLEAN :
          Put([NoPipeline EXCEPT !.st = "live", !.spec = s, !.ann.nil = nil])
    BY <2>1 DEF CreatePipelineObj
  <2>3. obj'.spec = s /\ obj'.ann.hash = NoSpec /\ news' = TRUE
    BY <2>1, <2>2 DEF CreatePipelineObj, Put, Notice, NoPipeline, NoAnnotations, Exists
  <2>4. s \notin past /\ past' = past \cup {s}
    BY <2>1 DEF CreatePipelineObj, Asks, Exists
  <2> QED
    BY <2>1, <2>3, <2>4 DEF CreatePipelineObj, NewSpec
<1>2. CASE \E s \in Specs : UpdateJenkinsfile(s)
  <2>1. PICK s \in Specs : UpdateJenkinsfile(s)
    BY <1>2
  <2>2. s \notin past /\ past' = past \cup {s}
    BY <2>1 DEF UpdateJenkinsfile, Asks
  <2>3. obj'.spec = s /\ obj'.ann.hash = obj.ann.hash
    BY <2>1 DEF UpdateJenkinsfile, Put, TypeOK, Pipeline, Annotations
  <2>4. news' = TRUE
    BY <2>1, <2>3 DEF UpdateJenkinsfile, Put, Notice
  <2> QED
    BY <2>1, <2>2, <2>3, <2>4 DEF UpdateJenkinsfile, NewSpec
<1>3. CASE \E s \in Specs : UpdatePipelineObj(s)
  <2>1. PICK s \in Specs : UpdatePipelineObj(s)
    BY <1>3
  <2>2. /\ obj'.spec = s /\ obj'.ann.hash = client.ann.hash
        /\ obj'.st \in {obj.st, "gone"}
    BY <2>1 DEF UpdatePipelineObj, Put, Finalized, TypeOK, Pipeline, Annotations
  <2>3. CASE s = obj.spec
    <3>1. past' = past
      BY <2>1, <2>3, SyncAssumption DEF UpdatePipelineObj, Asks, PastInv
    <3> QED
      BY <2>1, <2>2, <2>3, <3>1 DEF UpdatePipelineObj, Put, Notice, OldSpec
  <2>4. CASE s # obj.spec
    <3>1. s \notin past /\ past' = past \cup {s}
      BY <2>1, <2>4 DEF UpdatePipelineObj, Asks
    <3>2. news' = TRUE
      BY <2>1, <2>2, <2>4 DEF UpdatePipelineObj, Put, Notice
    <3> QED
      BY <2>1, <2>2, <3>1, <3>2 DEF UpdatePipelineObj, NewSpec
  <2> QED
    BY <2>3, <2>4
<1>4. CASE DeletePipelineObj
  <2>1. obj'.spec = obj.spec /\ obj'.ann = obj.ann /\ obj'.st # "live"
    BY <1>4 DEF DeletePipelineObj, Put, Finalized, TypeOK, Pipeline
  <2> QED
    BY <1>4, <2>1 DEF DeletePipelineObj, Put, Notice, OldSpec
<1>5. CASE Request \/ Synchronize
  <2>1. obj'.spec = obj.spec /\ obj'.ann.hash = obj.ann.hash /\ obj'.st = obj.st
    <3>1. CASE Request
      BY <3>1 DEF Request, Put, TypeOK, Pipeline, Annotations
    <3>2. CASE Synchronize
      BY <3>2 DEF Synchronize, Put, TypeOK, Pipeline, Annotations
    <3> QED
      BY <1>5, <3>1, <3>2
  <2> QED
    BY <1>5, <2>1 DEF Request, Synchronize, Put, Notice, OldSpec
<1>6. CASE ClientReads
  BY <1>6 DEF ClientReads, auxVars, OldSpec
<1>7. CASE MetadataReads \/ MetadataFails
  <2>1. meta'.ann.hash \in {meta.ann.hash, NoSpec, obj.ann.hash}
    BY <1>7 DEF MetadataReads, MetadataFails, NoCopy, NoAnnotations
  <2> QED
    BY <1>7, <2>1 DEF MetadataReads, MetadataFails, auxVars, OldSpec
<1>8. CASE MetadataWrites
  <2>1. meta'.ann.hash = NoSpec
    BY <1>8 DEF MetadataWrites, NoCopy, NoAnnotations
  <2>2. /\ obj'.spec = obj.spec /\ obj'.ann.hash \in {obj.ann.hash, meta.ann.hash}
        /\ obj'.st = obj.st
    BY <1>8 DEF MetadataWrites, Put, TypeOK, Pipeline
  <2> QED
    BY <1>8, <2>1, <2>2 DEF MetadataWrites, Put, Notice, OldSpec
<1>9. CASE UpdateLive
  <2>1. /\ obj'.spec = obj.spec /\ obj'.st \in {obj.st, "gone"}
        /\ obj'.ann.hash \in {obj.ann.hash, work.copy.ann.hash}
        /\ obj'.fin = work.copy.fin
    <3>1. CASE SameOutcome(obj) /\ obj' = obj
      BY <3>1 DEF SameOutcome, TypeOK, Pipeline
    <3>2. CASE Put(Finalized([obj EXCEPT !.fin = work.copy.fin, !.ann = UpdatedAnnotations]))
      BY <3>2, UpdatedType DEF Put, Finalized, TypeOK, Pipeline
    <3> QED
      BY <1>9, <3>1, <3>2 DEF UpdateLive
  <2>2. news => news'
    BY <1>9 DEF UpdateLive, Put, Notice
  <2> QED
    BY <1>9, <2>1, <2>2 DEF UpdateLive, Done, OldSpec
<1> QED
  BY <1>1, <1>2, <1>3, <1>4, <1>5, <1>6, <1>7, <1>8, <1>9 DEF Users

\* The other steps of the controller: from the delivery of an event to the call
\* for the job.
LEMMA WorkerKeepsFollow ==
    ASSUME FollowInv,
           \/ Deliver \/ Take \/ SyncJob \/ DeleteJob \/ UpdateNotFound \/ Panic
           \/ DeleteFails \/ CallFails \/ ReplyLost \/ Restart
    PROVE  PastInv' /\ CurrentInv'
<1> USE DEF FollowInv
<1>1. /\ NoPipeline.spec = NoSpec /\ NoPipeline.ann.hash = NoSpec
      /\ NoPipeline.st # "live" /\ NoCopy.ann.hash = NoSpec
      /\ Idle.pc = "idle" /\ Idle.copy = NoPipeline
  BY DEF NoPipeline, NoAnnotations, NoCopy, Idle
<1>2. CASE Deliver
  <2>1. cache' = obj /\ (news => queued') /\ (queued => queued')
        /\ UNCHANGED <<obj, work, meta, client, job, past>>
    BY <1>2 DEF Deliver, auxVars
  <2>2. PastInv'
    BY <2>1 DEF PastInv
  <2>3. CurrentInv'
    BY <2>1 DEF CurrentInv, HashKnown
  <2> QED
    BY <2>2, <2>3
<1>3. CASE Ignore
  <2>1. work'.pc = "idle" /\ work'.copy = NoPipeline /\ queued' = FALSE
        /\ UNCHANGED <<obj, cache, news, meta, client, job, past>>
    BY <1>3 DEF Ignore, Begin, auxVars
  <2>2. cache.st = "live" => cache.ann.hash = cache.spec
    BY <1>3 DEF Ignore, Synchronized, Exists
  <2>3. PastInv'
    BY <1>1, <2>1 DEF PastInv
  <2>4. CurrentInv'
    BY <1>1, <2>1, <2>2 DEF CurrentInv, HashKnown
  <2> QED
    BY <2>3, <2>4
<1>4. CASE BeginSync
  <2>1. /\ cache.st = "live" /\ work.pc = "idle" /\ work'.pc = "sync" /\ queued' = FALSE
        /\ work'.copy.spec = cache.spec
        /\ work'.copy.ann.hash \in {cache.spec, cache.ann.hash}
        /\ UNCHANGED <<obj, cache, news, meta, client, job, past>>
    BY <1>4 DEF BeginSync, Begin, auxVars, TypeOK, Pipeline, Annotations
  <2>2. PastInv'
    BY <2>1 DEF PastInv
  <2>3. CurrentInv'
    BY <2>1 DEF CurrentInv, HashKnown
  <2> QED
    BY <2>2, <2>3
<1>5. CASE BeginDelete
  <2>1. /\ cache.st = "deleting" /\ work.pc = "idle" /\ work'.pc = "delete"
        /\ queued' = FALSE
        /\ work'.copy.spec = cache.spec /\ work'.copy.ann.hash = cache.ann.hash
        /\ UNCHANGED <<obj, cache, news, meta, client, job, past>>
    BY <1>5 DEF BeginDelete, Begin, auxVars, TypeOK, Pipeline
  <2>2. PastInv'
    BY <2>1 DEF PastInv
  <2>3. CurrentInv'
    BY <2>1 DEF CurrentInv, HashKnown
  <2> QED
    BY <2>2, <2>3
<1>6. CASE SyncJob \/ DeleteJob
  <2>1. /\ work'.pc = "write" /\ work'.copy = work.copy
        /\ \/ work.pc = "sync" /\ job' = work.copy.spec
           \/ work.pc = "delete" /\ job' = NoSpec
        /\ UNCHANGED <<obj, cache, news, queued, meta, client, past>>
    BY <1>6 DEF SyncJob, DeleteJob, k8sUnchanged, auxVars, TypeOK
  <2>2. PastInv'
    BY <2>1 DEF PastInv
  <2>3. CurrentInv'
    BY <2>1 DEF CurrentInv, HashKnown, PastInv
  <2> QED
    BY <2>2, <2>3
<1>7. CASE UpdateNotFound \/ DeleteFails \/ CallFails \/ ReplyLost
  <2>1. /\ work'.pc = "idle" /\ work'.copy = NoPipeline /\ queued' = TRUE
        /\ \/ job' = job
           \/ work.pc = "sync" /\ job' = work.copy.spec
           \/ work.pc = "delete" /\ job' = NoSpec
        /\ UNCHANGED <<obj, cache, news, meta, client, past>>
    <3>1. Requeue /\ UNCHANGED <<obj, cache, news, meta, client, past>>
      BY <1>7
         DEF UpdateNotFound, DeleteFails, CallFails, ReplyLost, k8sUnchanged, auxVars
    <3>2. \/ job' = job
          \/ work.pc = "sync" /\ job' = work.copy.spec
          \/ work.pc = "delete" /\ job' = NoSpec
      BY <1>7 DEF UpdateNotFound, DeleteFails, CallFails, ReplyLost
    <3> QED
      BY <1>1, <3>1, <3>2 DEF Requeue
  <2>2. PastInv'
    BY <1>1, <2>1 DEF PastInv
  <2>3. CurrentInv'
    BY <1>1, <2>1 DEF CurrentInv, HashKnown, PastInv
  <2> QED
    BY <2>2, <2>3
<1>8. CASE Panic \/ Restart
  <2>1. /\ work'.pc = "idle" /\ work'.copy = NoPipeline /\ cache' = obj
        /\ meta'.ann.hash = NoSpec
        /\ obj.st = "live" => queued'
        /\ UNCHANGED <<obj, client, job, past>>
    <3>1. Reset
      BY <1>8 DEF Panic, Restart
    <3>2. obj.st = "live" => queued'
      BY <3>1 DEF Reset, Exists
    <3> QED
      BY <1>1, <3>1, <3>2 DEF Reset, auxVars
  <2>2. PastInv'
    BY <1>1, <2>1 DEF PastInv
  <2>3. CurrentInv'
    BY <1>1, <2>1 DEF CurrentInv, HashKnown, PastInv
  <2> QED
    BY <2>2, <2>3
<1> QED
  BY <1>2, <1>3, <1>4, <1>5, <1>6, <1>7, <1>8 DEF Take

LEMMA FollowInit == Init => FollowInv
<1> SUFFICES ASSUME Init PROVE FollowInv
  OBVIOUS
<1>1. PastInv /\ CurrentInv
  BY DEF Init, NoPipeline, NoAnnotations, NoCopy, Idle, PastInv, CurrentInv
<1> QED
  BY <1>1, TypeInit DEF FollowInv

LEMMA FollowStep ==
    ASSUME "revert" \notin Disturbances, FollowInv, [Next]_vars
    PROVE  FollowInv'
<1>1. TypeOK'
  BY TypeStep DEF FollowInv
<1>2. CASE UNCHANGED vars
  BY <1>1, <1>2 DEF vars, auxVars, FollowInv, PastInv, CurrentInv, HashKnown
<1>3. CASE Next
  BY <1>1, <1>3, WriterKinds, WorkerKeepsFollow, OldSpecKeepsInv, NewSpecKeepsInv
     DEF Next, Calls, Failures, FollowInv
<1> QED
  BY <1>2, <1>3

\* As long as no spec is put back, whatever else happens - lost answers, restarts,
\* stale copies written back by clients and by the metadata controller, Pipelines
\* created anew - a controller at rest has made the job what the spec says.
THEOREM JobsFollowSpecs ==
    ASSUME "revert" \notin Disturbances
    PROVE  Spec => []SettledJobFollowsSpec
<1>1. FollowInv => SettledJobFollowsSpec
  BY DEF FollowInv, CurrentInv, SettledJobFollowsSpec, Settled
<1> QED
  BY <1>1, FollowInit, FollowStep, PTL DEF Spec

----------------------------------------------------------------------------
(* A Pipeline gets its finalizer *)

\* A Pipeline without the finalizer: nobody but a synchronization that is going to
\* add it has the hash of its spec, so none is skipped; and one is on its way.
UnguardedInv ==
    obj.st = "live" /\ ~obj.fin =>
        /\ obj.spec \notin {obj.ann.hash, cache.ann.hash, meta.ann.hash}
        /\ Letting => work.copy.ann.hash # obj.spec
        /\ \/ news
           \/ /\ cache.st = "live" /\ cache.spec = obj.spec
              /\ queued \/ Guarding

\* The note that there was a finalizer stays with the Pipeline.
LEMMA GuardedStays ==
    ASSUME Next, Exists(obj), guarded
    PROVE  guarded'
  BY DEF Next, Users, CreatePipelineObj, UpdateJenkinsfile, UpdatePipelineObj, ClientReads,
         DeletePipelineObj, Request, Synchronize, Deliver, Take, Ignore, BeginSync,
         BeginDelete, Begin, Calls, SyncJob, DeleteJob, UpdateLive, UpdateNotFound, Panic,
         Failures, DeleteFails, CallFails, ReplyLost, MetadataFails, Restart, Reset,
         MetadataReads, MetadataWrites, k8sUnchanged, auxVars, Put, Exists

LEMMA OldSpecKeepsUnguarded ==
    ASSUME GuardInv, GuardInv', FollowInv, UnguardedInv, Next, OldSpec
    PROVE  UnguardedInv'
<1> SUFFICES ASSUME obj'.st = "live", ~obj'.fin PROVE UnguardedInv'
  BY DEF UnguardedInv
<1>1. obj.st = "live"
  BY DEF OldSpec
<1>2. ~obj.fin
  BY <1>1, GuardedStays DEF GuardInv, FinalizerInv, Exists
<1>3. client.ann.hash = NoSpec /\ obj.spec # NoSpec
  BY <1>1 DEF GuardInv, FinalizerInv, NoPipeline, NoAnnotations, FollowInv, PastInv
<1>4. Idle.pc = "idle"
  BY DEF Idle
<1> QED
  BY <1>1, <1>2, <1>3, <1>4 DEF OldSpec, UnguardedInv, Guarding, Letting

LEMMA NewSpecKeepsUnguarded ==
    ASSUME FollowInv, NewSpec
    PROVE  UnguardedInv'
<1>1. obj'.spec \notin past \cup {NoSpec}
  BY SyncAssumption DEF NewSpec
<1> QED
  BY <1>1 DEF NewSpec, FollowInv, PastInv, UnguardedInv

LEMMA WorkerKeepsUnguarded ==
    ASSUME FollowInv, UnguardedInv,
           \/ Deliver \/ Take \/ SyncJob \/ DeleteJob \/ UpdateNotFound \/ Panic
           \/ DeleteFails \/ CallFails \/ ReplyLost \/ Restart
    PROVE  UnguardedInv'
<1> SUFFICES ASSUME obj'.st = "live", ~obj'.fin PROVE UnguardedInv'
  BY DEF UnguardedInv
<1>1. obj' = obj /\ obj.st = "live" /\ ~obj.fin /\ obj.spec # NoSpec
  BY DEF Deliver, Take, Ignore, BeginSync, BeginDelete, Begin, SyncJob, DeleteJob,
         UpdateNotFound, Panic, DeleteFails, CallFails, ReplyLost, Restart, Reset,
         k8sUnchanged, FollowInv, PastInv
<1>2. Idle.pc = "idle" /\ NoCopy.ann.hash = NoSpec
  BY DEF Idle, NoCopy, NoAnnotations
<1>3. CASE Deliver
  BY <1>1, <1>3 DEF Deliver, UnguardedInv, Guarding, Letting
<1>4. CASE Ignore
  <2>1. ~(cache.st = "live" /\ cache.spec = obj.spec)
    BY <1>1, <1>4 DEF Ignore, Synchronized, Exists, UnguardedInv
  <2> QED
    BY <1>1, <1>4, <2>1 DEF Ignore, Begin, auxVars, UnguardedInv, Guarding, Letting
<1>5. CASE BeginSync
  BY <1>1, <1>5 DEF BeginSync, Begin, auxVars, UnguardedInv, Guarding, Letting
<1>6. CASE BeginDelete
  <2>1. work'.pc = "delete" /\ work'.copy.ann.hash = cache.ann.hash /\ cache.st = "deleting"
    BY <1>6 DEF BeginDelete, Begin, FollowInv, TypeOK, Pipeline
  <2> QED
    BY <1>1, <1>6, <2>1 DEF BeginDelete, Begin, auxVars, UnguardedInv, Guarding, Letting
<1>7. CASE SyncJob \/ DeleteJob
  <2>1. work'.pc = "write" /\ work'.copy = work.copy
    BY <1>7 DEF SyncJob, DeleteJob, FollowInv, TypeOK
  <2>2. work.pc = "sync" => work.copy.fin
    BY DEF FollowInv, TypeOK
  <2> QED
    BY <1>1, <1>7, <2>1, <2>2
       DEF SyncJob, DeleteJob, k8sUnchanged, UnguardedInv, Guarding, Letting
<1>8. CASE UpdateNotFound \/ DeleteFails \/ CallFails \/ ReplyLost
  <2>1. /\ work'.pc = "idle" /\ queued' = TRUE
        /\ UNCHANGED <<cache, news, meta>>
        /\ ~UpdateNotFound
    BY <1>1, <1>2, <1>8
       DEF UpdateNotFound, DeleteFails, CallFails, ReplyLost, Requeue, k8sUnchanged, Exists
  <2> QED
    BY <1>1, <2>1 DEF UnguardedInv, Guarding, Letting
<1>9. CASE Panic \/ Restart
  <2>1. Reset
    BY <1>9 DEF Panic, Restart
  <2>2. queued'
    BY <1>1, <2>1 DEF Reset, Exists
  <2>3. work'.pc = "idle" /\ cache' = obj /\ meta'.ann.hash = NoSpec
    BY <1>2, <2>1 DEF Reset
  <2> QED
    BY <1>1, <2>2, <2>3 DEF UnguardedInv, Guarding, Letting
<1> QED
  BY <1>3, <1>4, <1>5, <1>6, <1>7, <1>8, <1>9 DEF Take

\* Where names are used once there is no such hash in the first place: nothing has
\* been synchronized or deleted before the finalizer is stored.
First == obj.st = "absent" \/ (obj.st = "live" /\ ~guarded)

FirstInv ==
    First =>
        /\ ~obj.ann.sync /\ ~cache.ann.sync /\ ~meta.ann.sync
        /\ cache.st \in {"absent", "live"} /\ ~Letting
        /\ obj.st = "live" => news \/ (cache.st = "live" /\ (queued \/ Guarding))

LEMMA WritersKeepFirst ==
    ASSUME GuardInv, GuardInv', FirstInv,
           "client" \notin Disturbances, "recreate" \notin Disturbances,
           \/ \E s \in Specs : Users(s)
           \/ ClientReads \/ DeletePipelineObj \/ Request \/ Synchronize
           \/ MetadataReads \/ MetadataWrites \/ MetadataFails \/ UpdateLive
    PROVE  FirstInv'
<1> SUFFICES ASSUME First' PROVE FirstInv'
  BY DEF FirstInv
<1> USE DEF First
<1>1. CASE \E s \in Specs : CreatePipelineObj(s)
  <2>1. PICK s \in Specs : CreatePipelineObj(s)
    BY <1>1
  <2>2. PICK nil \in BOOLEAN :
          Put([NoPipeline EXCEPT !.st = "live", !.spec = s, !.ann.nil = nil])
    BY <2>1 DEF CreatePipelineObj
  <2>3. obj'.ann.sync = FALSE /\ news' = TRUE /\ First
    BY <2>1, <2>2 DEF CreatePipelineObj, Put, Notice, NoPipeline, NoAnnotations, Exists
  <2> QED
    BY <2>1, <2>3 DEF CreatePipelineObj, FirstInv, Letting
<1>2. CASE \E s \in Specs : UpdateJenkinsfile(s)
  <2>1. PICK s \in Specs : UpdateJenkinsfile(s)
    BY <1>2
  <2>2. /\ obj'.ann.sync = obj.ann.sync /\ obj'.st = obj.st /\ news' = TRUE
        /\ UNCHANGED <<cache, work, meta>>
    BY <2>1 DEF UpdateJenkinsfile, Put, Notice, GuardInv, TypeOK, Pipeline, Annotations
  <2>3. First
    BY <2>1, <2>2, GuardedStays DEF UpdateJenkinsfile, Users, Next
  <2> QED
    BY <2>2, <2>3 DEF FirstInv, Letting
<1>3. CASE (\E s \in Specs : UpdatePipelineObj(s)) \/ ClientReads
  BY <1>3 DEF UpdatePipelineObj, ClientReads, Exists, GuardInv, FinalizerInv, NoPipeline
<1>4. CASE DeletePipelineObj
  BY <1>4 DEF DeletePipelineObj, Put, Finalized, GuardInv, TypeOK, Pipeline
<1>5. CASE Request \/ Synchronize
  <2>1. /\ obj'.ann.sync = obj.ann.sync /\ obj'.st = obj.st /\ (news => news')
        /\ UNCHANGED <<cache, queued, work, meta>>
    <3>1. CASE Request
      <4> DEFINE o == [obj EXCEPT !.ann.request = TRUE, !.ann.nil = FALSE]
      <4>1. o.ann.sync = obj.ann.sync /\ o.st = obj.st
        BY DEF GuardInv, TypeOK, Pipeline, Annotations
      <4>2. Put(o) /\ UNCHANGED <<cache, queued, work, meta>>
        BY <3>1 DEF Request
      <4> QED
        BY <4>1, <4>2 DEF Put, Notice
    <3>2. CASE Synchronize
      BY <3>2 DEF Synchronize, Put, Notice, GuardInv, TypeOK, Pipeline, Annotations
    <3> QED
      BY <1>5, <3>1, <3>2
  <2>2. First
    BY <1>5, <2>1, GuardedStays DEF Request, Synchronize, Next
  <2> QED
    BY <2>1, <2>2 DEF FirstInv, Guarding, Letting
<1>6. CASE MetadataWrites
  <2>1. CASE Exists(obj) /\ Put([obj EXCEPT !.ann = meta.ann])
    <3>1. obj'.ann = meta.ann /\ obj'.st = obj.st /\ (news => news')
      BY <2>1 DEF Put, Notice, GuardInv, TypeOK, Pipeline
    <3>2. First
      BY <1>6, <2>1, <3>1, GuardedStays DEF Next
    <3> QED
      BY <1>6, <3>1, <3>2
         DEF MetadataWrites, NoCopy, NoAnnotations, FirstInv, Guarding, Letting
  <2>2. CASE UNCHANGED <<obj, news, guarded>>
    BY <1>6, <2>2 DEF MetadataWrites, NoCopy, NoAnnotations, FirstInv, Guarding, Letting
  <2> QED
    BY <1>6, <2>1, <2>2 DEF MetadataWrites
<1>7. CASE MetadataReads \/ MetadataFails
  BY <1>7
     DEF MetadataReads, MetadataFails, auxVars, NoCopy, NoAnnotations, FirstInv, Guarding,
         Letting
<1>8. CASE UpdateLive
  <2>1. work.pc = "write" /\ Exists(obj)
    BY <1>8 DEF UpdateLive
  <2>2. obj'.st = "live" /\ ~guarded' /\ ~obj'.fin
    BY <1>8, <2>1, UpdateMoves
       DEF Edited, Recorded, Exists, GuardInv, TypeOK, Pipeline, FinalizerInv
  <2>3. obj.st = "live" /\ ~guarded
    BY <1>8, <2>1, <2>2, UpdateMoves DEF Edited, Recorded
  <2>4. work.copy.fin
    BY <2>1, <2>3 DEF FirstInv, Letting
  <2>5. obj'.fin
    <3>1. CASE SameOutcome(obj)
      BY <1>8, <2>4, <3>1 DEF UpdateLive, SameOutcome
    <3>2. CASE ~SameOutcome(obj)
      BY <1>8, <2>4, <3>2 DEF UpdateLive, Put, Finalized, GuardInv, TypeOK, Pipeline
    <3> QED
      BY <3>1, <3>2
  <2> QED
    BY <2>2, <2>5
<1> QED
  BY <1>1, <1>2, <1>3, <1>4, <1>5, <1>6, <1>7, <1>8 DEF Users

LEMMA WorkerKeepsFirst ==
    ASSUME GuardInv, FirstInv,
           \/ Deliver \/ Take \/ SyncJob \/ DeleteJob \/ UpdateNotFound \/ Panic
           \/ DeleteFails \/ CallFails \/ ReplyLost \/ Restart
    PROVE  FirstInv'
<1>1. UNCHANGED <<obj, guarded>>
  BY DEF Deliver, Take, Ignore, BeginSync, BeginDelete, Begin, SyncJob, DeleteJob,
         UpdateNotFound, Panic, DeleteFails, CallFails, ReplyLost, Restart, Reset,
         k8sUnchanged, auxVars
<1> SUFFICES ASSUME First PROVE FirstInv'
  BY <1>1 DEF FirstInv, First
<1>2. Idle.pc = "idle" /\ NoCopy.ann.sync = FALSE
  BY DEF Idle, NoCopy, NoAnnotations
<1>3. CASE Deliver
  BY <1>1, <1>3 DEF Deliver, First, FirstInv, Guarding, Letting
<1>4. CASE Ignore
  <2>1. cache.st # "live"
    BY <1>4 DEF Ignore, Synchronized, Exists, FirstInv
  <2> QED
    BY <1>1, <1>4, <2>1 DEF Ignore, Begin, auxVars, FirstInv, Guarding, Letting
<1>5. CASE BeginSync
  BY <1>1, <1>5 DEF BeginSync, Begin, auxVars, FirstInv, Guarding, Letting
<1>6. CASE BeginDelete
  BY <1>6 DEF BeginDelete, FirstInv
<1>7. CASE SyncJob \/ DeleteJob
  <2>1. work.pc = "sync" /\ work'.pc = "write" /\ work'.copy = work.copy /\ work.copy.fin
    BY <1>7 DEF SyncJob, DeleteJob, GuardInv, TypeOK, FirstInv, Letting
  <2> QED
    BY <1>1, <1>7, <2>1 DEF SyncJob, DeleteJob, k8sUnchanged, FirstInv, Guarding, Letting
<1>8. CASE UpdateNotFound \/ DeleteFails \/ CallFails \/ ReplyLost
  <2>1. work'.pc = "idle" /\ queued' = TRUE /\ UNCHANGED <<cache, news, meta>>
    BY <1>2, <1>8
       DEF UpdateNotFound, DeleteFails, CallFails, ReplyLost, Requeue, k8sUnchanged
  <2> QED
    BY <1>1, <2>1 DEF FirstInv, Guarding, Letting
<1>9. CASE Panic \/ Restart
  <2>1. Reset
    BY <1>9 DEF Panic, Restart
  <2>2. obj.st = "live" => queued'
    BY <2>1 DEF Reset, Exists
  <2>3. work'.pc = "idle" /\ cache' = obj /\ ~meta'.ann.sync
    BY <1>2, <2>1 DEF Reset
  <2> QED
    BY <1>1, <2>2, <2>3 DEF First, FirstInv, Guarding, Letting
<1> QED
  BY <1>3, <1>4, <1>5, <1>6, <1>7, <1>8, <1>9 DEF Take

\* Without clients that send back old objects, and unless a spec is put back under a
\* name used again: when the controller has come to rest every Pipeline has the
\* finalizer, though it is written after the job has been made and whatever fails in
\* between.
THEOREM PipelinesAreGuarded ==
    ASSUME "client" \notin Disturbances,
           "revert" \notin Disturbances \/ "recreate" \notin Disturbances
    PROVE  Spec => []SettledPipelineIsGuarded
<1>1. CASE "revert" \notin Disturbances
  <2>1. Init => UnguardedInv
    BY DEF Init, NoPipeline, UnguardedInv
  <2>2. ASSUME GuardInv, GuardInv', FollowInv, UnguardedInv, [Next]_vars
        PROVE  UnguardedInv'
    <3>1. CASE UNCHANGED vars
      BY <2>2, <3>1 DEF vars, UnguardedInv, Guarding, Letting
    <3>2. CASE Next
      BY <1>1, <2>2, <3>2, WriterKinds, OldSpecKeepsUnguarded, NewSpecKeepsUnguarded,
         WorkerKeepsUnguarded
         DEF Next, Calls, Failures
    <3> QED
      BY <2>2, <3>1, <3>2
  <2>3. UnguardedInv => SettledPipelineIsGuarded
    BY DEF UnguardedInv, Guarding, Settled, SettledPipelineIsGuarded
  <2>4. FollowInv /\ [Next]_vars => FollowInv'
    BY <1>1, FollowStep
  <2> QED
    BY <2>1, <2>2, <2>3, <2>4, GuardInit, GuardStep, FollowInit, PTL DEF Spec
<1>2. CASE "recreate" \notin Disturbances
  <2>1. Init => FirstInv
    BY DEF Init, NoPipeline, NoAnnotations, NoCopy, Idle, FirstInv, Letting
  <2>2. ASSUME GuardInv, GuardInv', FirstInv, [Next]_vars
        PROVE  FirstInv'
    <3>1. CASE UNCHANGED vars
      BY <2>2, <3>1 DEF vars, auxVars, First, FirstInv, Guarding, Letting
    <3>2. CASE Next
      BY <1>2, <2>2, <3>2, WritersKeepFirst, WorkerKeepsFirst DEF Next, Calls, Failures
    <3> QED
      BY <2>2, <3>1, <3>2
  <2>3. GuardInv /\ FirstInv => SettledPipelineIsGuarded
    BY DEF GuardInv, FinalizerInv, First, FirstInv, Guarding, Settled,
           SettledPipelineIsGuarded
  <2> QED
    BY <2>1, <2>2, <2>3, GuardInit, GuardStep, PTL DEF Spec
<1> QED
  BY <1>1, <1>2
=============================================================================
