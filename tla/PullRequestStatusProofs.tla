----------------------- MODULE PullRequestStatusProofs -----------------------
(***************************************************************************)
(* What holds of PullRequestStatus for any runs, commits and start times,  *)
(* under all disturbances.                                                 *)
(***************************************************************************)
EXTENDS PullRequestStatus, TLAPS

----------------------------------------------------------------------------
(* Types *)

\* A commit to start with, for all of Init, Idle and Begin.
LEMMA ValueTypes ==
    /\ First \in Commits
    /\ Absent \in PipelineRun
    /\ Idle \in [pc: {"idle", "check", "create"}, run: Runs \cup {NoRun},
                 copy: PipelineRun, sha: Commits]
    /\ Idle.pc = "idle"
    /\ NoStatus \in Status /\ NoStatus.start = 0
<1>1. First \in Commits
  BY StatusAssumption DEF First
<1>2. Absent \in PipelineRun
  BY <1>1, StatusAssumption DEF Absent, PipelineRun
<1> QED
  BY <1>1, <1>2, StatusAssumption DEF Idle, NoStatus, Status

RunStep(r) ==
    /\ UNCHANGED <<cache, queue, work, head, status, now, project>>
    /\ \E o \in PipelineRun : api' = [api EXCEPT ![r] = o]

\* Jenkins, the PipelineRun controller and users write one run, and nothing else.
LEMMA ChangesAreOfOne ==
    ASSUME TypeOK, NEW r \in Runs, Changes(r)
    PROVE  RunStep(r)
<1>1. api[r] \in PipelineRun /\ Absent \in PipelineRun /\ head \in Commits /\ now \in 1..MaxTime
  BY ValueTypes DEF TypeOK
<1>2. CASE CreateRun(r)
  <2> DEFINE o == [Absent EXCEPT !.st = "live", !.commit = head]
  <2>1. o \in PipelineRun
    BY <1>1, <1>2 DEF CreateRun, PipelineRun
  <2>2. Put(r, o)
    BY <1>2 DEF CreateRun
  <2> HIDE DEF o
  <2> QED
    BY <2>1, <2>2 DEF Put, RunStep
<1>3. CASE DeleteRun(r)
  <2> DEFINE o == [Absent EXCEPT !.st = "gone"]
  <2>1. o \in PipelineRun
    BY <1>1, <1>3 DEF DeleteRun, PipelineRun
  <2>2. Put(r, o)
    BY <1>3 DEF DeleteRun
  <2> HIDE DEF o
  <2> QED
    BY <2>1, <2>2 DEF Put, RunStep
<1>4. CASE ReportQueued(r)
  <2> DEFINE o == [api[r] EXCEPT !.phase = "Running"]
  <2>1. o \in PipelineRun
    BY <1>1, <1>4 DEF ReportQueued, PipelineRun
  <2>2. Put(r, o)
    BY <1>4 DEF ReportQueued
  <2> HIDE DEF o
  <2> QED
    BY <2>1, <2>2 DEF Put, RunStep
<1>5. CASE ReportFinished(r)
  <2> DEFINE o == [api[r] EXCEPT !.phase = "Succeeded", !.completed = TRUE]
  <2>1. o \in PipelineRun
    BY <1>1, <1>5 DEF ReportFinished, PipelineRun
  <2>2. Put(r, o)
    BY <1>5 DEF ReportFinished
  <2> HIDE DEF o
  <2> QED
    BY <2>1, <2>2 DEF Put, RunStep
<1>6. CASE ReportRunning(r) \/ ReportSkipped(r)
  <2>1. PICK ph \in {"Running", "Succeeded"} :
          Put(r, [api[r] EXCEPT !.phase = ph, !.start = now])
    BY <1>6 DEF ReportRunning, ReportSkipped
  <2> DEFINE o == [api[r] EXCEPT !.phase = ph, !.start = now]
  <2>2. o \in PipelineRun
    <3>1. now \in 0..MaxTime
      BY <1>1, StatusAssumption
    <3> QED
      BY <1>1, <3>1 DEF PipelineRun
  <2>3. Put(r, o)
    BY <2>1
  <2> HIDE DEF o
  <2> QED
    BY <2>2, <2>3 DEF Put, RunStep
<1> QED
  BY <1>2, <1>3, <1>4, <1>5, <1>6 DEF Changes

LEMMA TypeInit == Init => TypeOK
<1> SUFFICES ASSUME Init PROVE TypeOK
  OBVIOUS
<1>1. now \in 1..MaxTime /\ head \in Commits
  BY ValueTypes, StatusAssumption DEF Init
<1>2. api \in [Runs -> PipelineRun] /\ cache \in [Runs -> PipelineRun] /\ queue \subseteq Runs
  BY ValueTypes DEF Init
<1>3. status \in [Commits -> Status] /\ work = Idle
  BY ValueTypes DEF Init
<1>4. project \in Projects
  BY DEF Init
<1> QED
  BY <1>1, <1>2, <1>3, <1>4, ValueTypes DEF TypeOK

\* A Reconcile begins with a run from the cache; Calls and their failures go on with it.
LEMMA TypeStep ==
    ASSUME TypeOK, [Next]_vars
    PROVE  TypeOK'
<1>1. CASE \E r \in Runs : Changes(r)
  <2>1. PICK r \in Runs : RunStep(r)
    BY <1>1, ChangesAreOfOne
  <2>2. api' \in [Runs -> PipelineRun]
    BY <2>1 DEF RunStep, TypeOK
  <2> QED
    BY <2>1, <2>2 DEF RunStep, TypeOK
<1>2. CASE \E r \in Runs : Ignore(r)
  BY <1>2 DEF Ignore, othersUnchanged, TypeOK
<1>3. CASE \E r \in Runs : Begin(r)
  <2>1. PICK r \in Runs : Begin(r)
    BY <1>3
  <2>2. /\ queue' \subseteq Runs
        /\ work' \in [pc: {"idle", "check", "create"}, run: Runs \cup {NoRun},
                      copy: PipelineRun, sha: Commits]
        /\ work'.run \in Runs /\ work'.copy.phase # "None"
    BY <2>1, ValueTypes DEF Begin, Reportable, TypeOK
  <2> QED
    BY <2>1, <2>2 DEF Begin, othersUnchanged, TypeOK
<1>4. CASE Restart \/ \E r \in Runs : Panic(r)
  <2>1. StartOver
    BY <1>4 DEF Restart, Panic
  <2> QED
    BY <2>1, ValueTypes DEF StartOver, TypeOK
<1>5. CASE Deliver \/ (\E c \in Commits : Push(c)) \/ \E r \in Runs : Rewrite(r)
  BY <1>5 DEF Deliver, Push, Rewrite, TypeOK
<1>6. CASE Tick
  BY <1>6, StatusAssumption DEF Tick, TypeOK
<1>7. CASE Check
  <2>1. CASE work' = Idle /\ UNCHANGED queue
    BY <1>7, <2>1, ValueTypes DEF Check, othersUnchanged, TypeOK
  <2>2. CASE work' = [work EXCEPT !.pc = "create", !.sha = head] /\ UNCHANGED queue
    <3>1. /\ work' \in [pc: {"idle", "check", "create"}, run: Runs \cup {NoRun},
                        copy: PipelineRun, sha: Commits]
          /\ work'.run = work.run /\ work'.copy = work.copy
      BY <2>2 DEF TypeOK
    <3>2. work.run \in Runs /\ work.copy.phase # "None"
      BY <1>7 DEF Check, TypeOK
    <3> QED
      BY <1>7, <2>2, <3>1, <3>2 DEF Check, othersUnchanged, TypeOK
  <2> QED
    BY <1>7, <2>1, <2>2 DEF Check, Done
<1>8. CASE CreateStatus \/ ReplyLost
  <2>1. work.run \in Runs /\ work.copy \in PipelineRun /\ work.sha \in Commits
    BY <1>8 DEF CreateStatus, ReplyLost, TypeOK
  <2>2. [run |-> work.run, phase |-> work.copy.phase, start |-> work.copy.start] \in Status
    BY <2>1 DEF PipelineRun, Status
  <2>3. status' \in [Commits -> Status]
    BY <1>8, <2>2 DEF CreateStatus, ReplyLost, Stored, TypeOK
  <2> QED
    BY <1>8, <2>1, <2>3, ValueTypes
       DEF CreateStatus, ReplyLost, Done, Requeue, othersUnchanged, TypeOK
<1>9. CASE CallFails
  <2>1. work.run \in Runs
    BY <1>9 DEF CallFails, TypeOK
  <2> QED
    BY <1>9, <2>1, ValueTypes DEF CallFails, Requeue, othersUnchanged, TypeOK
<1>10. CASE UNCHANGED vars
  BY <1>10 DEF vars, TypeOK
<1> QED
  BY <1>1, <1>2, <1>3, <1>4, <1>5, <1>6, <1>7, <1>8, <1>9, <1>10
     DEF Next, Take, Calls

----------------------------------------------------------------------------
(* The inductive invariant *)

\* How far a run has got: every change takes it further.
Stage(o) ==
    IF o.st = "gone" THEN 5
    ELSE IF o.st = "absent" THEN 0
    ELSE IF o.phase = "None" THEN 1
    ELSE IF o.phase = "Succeeded" THEN 4
    ELSE IF o.start = 0 THEN 2 ELSE 3

\* The cache is behind, and only what has a phase was reported.
StageInv ==
    /\ \A r \in Runs : Stage(cache[r]) <= Stage(api[r])
    /\ \A c \in Commits : status[c].run # NoRun => Stage(cache[status[c].run]) >= 2

\* A Reconcile whose copy is no longer the cached one will be followed by another.  One
\* of a run for the current commit reports to that commit, and while one is about to
\* report to an earlier commit the current one has no status.
FreshInv ==
    work.pc # "idle" =>
        /\ work.copy.st = "live"
        /\ Stage(work.copy) <= Stage(cache[work.run])
        /\ work.copy # cache[work.run] => work.run \in queue
        /\ work.pc = "create" /\ api[work.run].st = "live" /\ api[work.run].commit = head
           => work.sha = head
        /\ work.pc = "create" /\ work.sha # head => status[head].run = NoRun

\* The last version of the run is going to be looked at.
Pending(r) ==
    \/ cache[r] # api[r]
    \/ r \in queue
    \/ work.pc # "idle" /\ work.run = r /\ work.copy = cache[r]

\* The run's commit has a status, and the run's status is no older than the run.
Shown(r) ==
    /\ api[r].commit = head /\ api[r].phase # "None" => status[head].run # NoRun
    /\ status[head].run = r => status[head].phase = api[r].phase

AttendedInv == \A r \in Runs : api[r].st = "live" => Shown(r) \/ Pending(r)

CurrentInv == TypeOK /\ StageInv /\ FreshInv /\ AttendedInv

\* What a change makes of a run.
Advances(old, new) ==
    /\ Stage(old) < Stage(new)
    /\ new.st = "live" => IF old.st = "live" THEN new.commit = old.commit
                                             ELSE old.st = "absent"

LEMMA Stages == \A o : Stage(o) \in 0..5
BY DEF Stage

LEMMA ChangesAdvance ==
    ASSUME TypeOK, NEW r \in Runs, Changes(r)
    PROVE  /\ Advances(api[r], api'[r])
           /\ UNCHANGED <<cache, queue, work, head, status>>
           /\ \A q \in Runs \ {r} : api'[q] = api[q]
<1> api[r] \in PipelineRun /\ now \in Nat \ {0}
  BY StatusAssumption DEF TypeOK
<1>1. /\ UNCHANGED <<cache, queue, work, head, status>>
      /\ \A q \in Runs \ {r} : api'[q] = api[q]
  BY ChangesAreOfOne DEF RunStep, TypeOK
<1>2. CASE CreateRun(r)
  <2>1. api'[r] = [Absent EXCEPT !.st = "live", !.commit = head] /\ api[r].st = "absent"
    BY <1>2 DEF CreateRun, Put, TypeOK
  <2>2. api'[r].st = "live" /\ api'[r].phase = "None"
    BY <2>1 DEF Absent
  <2> QED
    BY <1>1, <2>1, <2>2 DEF Advances, Stage
<1>3. CASE DeleteRun(r)
  <2>1. api'[r].st = "gone" /\ api[r].st = "live"
    BY <1>3 DEF DeleteRun, Put, TypeOK, Absent
  <2> QED
    BY <1>1, <2>1 DEF Advances, Stage, PipelineRun
<1>4. CASE ReportQueued(r)
  <2>1. /\ api[r].st = "live" /\ api[r].phase = "None"
        /\ api'[r] = [api[r] EXCEPT !.phase = "Running"]
    BY <1>4 DEF ReportQueued, Put, TypeOK
  <2> QED
    BY <1>1, <2>1 DEF Advances, Stage, PipelineRun
<1>5. CASE ReportFinished(r)
  <2>1. /\ api[r].st = "live" /\ api[r].phase = "Running"
        /\ api'[r] = [api[r] EXCEPT !.phase = "Succeeded", !.completed = TRUE]
    BY <1>5 DEF ReportFinished, Put, TypeOK
  <2> QED
    BY <1>1, <2>1 DEF Advances, Stage, PipelineRun
<1>6. CASE ReportRunning(r) \/ ReportSkipped(r)
  <2>1. /\ api[r].st = "live" /\ api[r].phase # "Succeeded" /\ api[r].start = 0
        /\ \E ph \in {"Running", "Succeeded"} :
              api'[r] = [api[r] EXCEPT !.phase = ph, !.start = now]
    BY <1>6 DEF ReportRunning, ReportSkipped, Put, TypeOK
  <2> QED
    BY <1>1, <2>1 DEF Advances, Stage, PipelineRun
<1> QED
  BY <1>2, <1>3, <1>4, <1>5, <1>6 DEF Changes

----------------------------------------------------------------------------
(* Steps keep the invariant *)

\* A status is created by a Reconcile that has a copy of the run, with a phase.
LEMMA StoredStage ==
    ASSUME TypeOK, StageInv, FreshInv, work.pc = "create", Stored, cache' = cache
    PROVE  \A c \in Commits : status'[c].run # NoRun => Stage(cache'[status'[c].run]) >= 2
<1>1. work.run \in Runs /\ work.copy.phase # "None" /\ work.copy.st = "live"
  BY DEF TypeOK, FreshInv
<1>2. Stage(work.copy) >= 2
  BY <1>1 DEF Stage
<1>3. Stage(cache[work.run]) >= 2
  BY <1>2, Stages DEF FreshInv
<1>4. \A c \in Commits : status'[c].run \in {status[c].run, work.run}
  BY DEF Stored, TypeOK
<1> QED
  BY <1>3, <1>4 DEF StageInv

LEMMA StageStep ==
    ASSUME TypeOK, StageInv, FreshInv, [Next]_vars
    PROVE  StageInv'
<1>1. ASSUME NEW r \in Runs, Changes(r)
      PROVE  StageInv'
  <2>1. Stage(api[r]) < Stage(api'[r])
    BY <1>1, ChangesAdvance DEF Advances
  <2>2. \A q \in Runs : Stage(cache[q]) <= Stage(api'[q])
    <3> TAKE q \in Runs
    <3>1. Stage(cache[q]) <= Stage(api[q])
      BY DEF StageInv
    <3>2. api'[q] = api[q] \/ q = r
      BY <1>1, ChangesAdvance
    <3> QED
      BY <2>1, <3>1, <3>2, Stages
  <2> QED
    BY <1>1, <2>2, ChangesAdvance DEF StageInv
<1>2. CASE cache' = api /\ UNCHANGED <<api, status>>
  <2>1. \A c \in Commits : status[c].run # NoRun => status[c].run \in Runs
    BY DEF TypeOK, Status
  <2>2. \A c \in Commits : status[c].run # NoRun => Stage(api[status[c].run]) >= 2
    BY <2>1, Stages DEF StageInv
  <2>3. \A r \in Runs : Stage(api[r]) <= Stage(api[r])
    BY Stages
  <2> QED
    BY <1>2, <2>2, <2>3 DEF StageInv
<1>3. CASE UNCHANGED <<api, cache, status>>
  BY <1>3 DEF StageInv
<1>4. CASE CreateStatus \/ ReplyLost
  BY <1>4, StoredStage DEF CreateStatus, ReplyLost, othersUnchanged, StageInv
<1> QED
  BY <1>1, <1>2, <1>3, <1>4
     DEF Next, Take, Calls, Tick, Push, Rewrite, Deliver, Ignore, Begin, Panic, StartOver,
         Restart, Check, CallFails, othersUnchanged, vars

LEMMA FreshStep ==
    ASSUME TypeOK, StageInv, FreshInv, [Next]_vars
    PROVE  FreshInv'
<1> work.pc # "idle" => work.run \in Runs
  BY DEF TypeOK
<1> Idle.pc = "idle"
  BY DEF Idle
<1>1. ASSUME NEW r \in Runs, Changes(r)
      PROVE  FreshInv'
  <2>1. UNCHANGED <<cache, queue, work, head, status>> /\ \A q \in Runs \ {r} : api'[q] = api[q]
    BY <1>1, ChangesAdvance
  <2>2. ASSUME work.pc # "idle" PROVE api[work.run].st # "absent"
    <3>1. Stage(work.copy) >= 1
      BY <2>2, Stages DEF FreshInv, Stage
    <3>2. Stage(work.copy) <= Stage(cache[work.run]) /\ Stage(cache[work.run]) <= Stage(api[work.run])
      BY <2>2 DEF FreshInv, StageInv
    <3>3. Stage(api[work.run]) # 0
      BY <3>1, <3>2, Stages
    <3> QED
      BY <3>3 DEF Stage
  <2>3. work.pc # "idle" /\ api'[work.run].st = "live" =>
          api[work.run].st = "live" /\ api'[work.run].commit = api[work.run].commit
    BY <1>1, <2>1, <2>2, ChangesAdvance DEF Advances
  <2> QED
    BY <2>1, <2>3 DEF FreshInv
<1>2. ASSUME NEW c \in Commits, Push(c)
      PROVE  FreshInv'
  BY <1>2 DEF Push, FreshInv, NoStatus
<1>3. CASE Tick \/ (\E r \in Runs : Ignore(r) \/ Rewrite(r)) \/ UNCHANGED vars
  BY <1>3 DEF Tick, Ignore, Rewrite, othersUnchanged, vars, FreshInv
<1>4. CASE Deliver
  <2>1. work.pc # "idle" => Stage(work.copy) <= Stage(api[work.run])
    BY Stages DEF FreshInv, StageInv
  <2>2. /\ cache' = api /\ queue' = queue \cup {r \in Runs : cache[r] # api[r]}
        /\ UNCHANGED <<api, work, head, status>>
    BY <1>4 DEF Deliver
  <2>3. work.pc # "idle" /\ work.copy # api[work.run] => work.run \in queue'
    BY <2>2 DEF FreshInv
  <2> QED
    BY <2>1, <2>2, <2>3 DEF FreshInv
<1>5. ASSUME NEW r \in Runs, Begin(r)
      PROVE  FreshInv'
  <2>1. Stage(cache[r]) <= Stage(cache[r])
    BY Stages
  <2> QED
    BY <1>5, <2>1 DEF Begin, Reportable, othersUnchanged, FreshInv
<1>6. CASE Check
  <2>1. CASE work' = Idle
    BY <2>1 DEF FreshInv
  <2>2. CASE work' = [work EXCEPT !.pc = "create", !.sha = head] /\ UNCHANGED queue
    <3>1. work'.run = work.run /\ work'.copy = work.copy /\ work'.sha = head
      BY <2>2 DEF TypeOK
    <3> QED
      BY <1>6, <2>2, <3>1 DEF Check, othersUnchanged, FreshInv
  <2> QED
    BY <1>6, <2>1, <2>2 DEF Check, Done
<1>7. CASE work' = Idle
  BY <1>7 DEF FreshInv
<1> QED
  BY <1>1, <1>2, <1>3, <1>4, <1>5, <1>6, <1>7
     DEF Next, Take, Calls, Panic, StartOver, Restart, CreateStatus, ReplyLost, CallFails,
         Done, Requeue

\* The check keeps back a run only from a commit that has the status of another.
LEMMA CheckShows ==
    ASSUME CurrentInv, NEW r \in Runs, api[r].st = "live", Check
    PROVE  (Shown(r) \/ Pending(r))'
<1>1. UNCHANGED <<api, cache, queue, status, head>>
  BY DEF Check, Done, othersUnchanged
<1>2. CASE Shown(r) \/ cache[r] # api[r] \/ r \in queue
  BY <1>1, <1>2 DEF Shown, Pending
<1>3. CASE work.run = r /\ work.copy = cache[r]
  <2>1. CASE Expired(status[head].run)
    <3>1. status[head].run \notin {NoRun, r}
      BY <1>3, <2>1 DEF Expired
    <3> QED
      BY <1>1, <3>1 DEF Shown
  <2>2. CASE ~Expired(status[head].run)
    <3>1. work' = [work EXCEPT !.pc = "create", !.sha = head]
      BY <2>2 DEF Check
    <3>2. work'.pc = "create" /\ work'.run = work.run /\ work'.copy = work.copy
      BY <3>1 DEF CurrentInv, TypeOK
    <3> QED
      BY <1>1, <1>3, <3>2 DEF Pending
  <2> QED
    BY <2>1, <2>2
<1> QED
  BY <1>2, <1>3 DEF CurrentInv, AttendedInv, Pending

\* The status of the run under way is that of its last version, or another Reconcile of it
\* follows; that of another run takes its place.
LEMMA StoredShows ==
    ASSUME CurrentInv, NEW r \in Runs, api[r].st = "live",
           work.pc = "create", Stored, UNCHANGED <<api, cache, head>>, queue \subseteq queue'
    PROVE  (Shown(r) \/ Pending(r))'
<1> USE DEF CurrentInv
<1> SUFFICES ASSUME cache[r] = api[r], r \notin queue
             PROVE  Shown(r)'
  BY DEF Pending
<1>1. work.run \in Runs /\ work.run # NoRun /\ head \in Commits /\ work.sha \in Commits
  BY StatusAssumption DEF TypeOK
<1>2. CASE work.sha = head
  <2>1. status'[head].run = work.run /\ status'[head].phase = work.copy.phase
    BY <1>1, <1>2 DEF Stored, TypeOK
  <2>2. work.run = r => work.copy = api[r]
    BY DEF FreshInv
  <2> QED
    BY <1>1, <2>1, <2>2 DEF Shown
<1>3. CASE work.sha # head
  <2>1. status'[head] = status[head]
    BY <1>1, <1>3 DEF Stored, TypeOK
  <2>2. status[head].run = NoRun /\ (work.run = r => api[r].commit # head)
    BY <1>3 DEF FreshInv
  <2>3. CASE work.run = r
    BY <2>1, <2>2, <2>3, StatusAssumption DEF Shown
  <2>4. CASE work.run # r
    <3>1. Shown(r)
      BY <2>4 DEF AttendedInv, Pending
    <3> QED
      BY <2>1, <3>1 DEF Shown
  <2> QED
    BY <2>3, <2>4
<1> QED
  BY <1>2, <1>3

LEMMA AttendedStep ==
    ASSUME CurrentInv, [Next]_vars
    PROVE  AttendedInv'
<1> SUFFICES ASSUME NEW r \in Runs, api'[r].st = "live"
             PROVE  (Shown(r) \/ Pending(r))'
  BY DEF AttendedInv
<1> USE DEF CurrentInv
<1> Idle.pc = "idle"
  BY DEF Idle
<1>1. UNCHANGED api => Shown(r) \/ Pending(r)
  BY DEF AttendedInv
<1>2. ASSUME NEW q \in Runs, Changes(q)
      PROVE  (Shown(r) \/ Pending(r))'
  <2>1. UNCHANGED <<cache, queue, work, head, status>> /\ \A p \in Runs \ {q} : api'[p] = api[p]
    BY <1>2, ChangesAdvance
  <2>2. CASE q = r
    <3>1. Stage(cache[r]) <= Stage(api[r]) /\ Stage(api[r]) < Stage(api'[r])
      BY <1>2, <2>2, ChangesAdvance DEF StageInv, Advances
    <3>2. cache'[r] # api'[r]
      BY <2>1, <3>1, Stages
    <3> QED
      BY <3>2 DEF Pending
  <2>3. CASE q # r
    BY <2>1, <2>3 DEF AttendedInv, Pending, Shown
  <2> QED
    BY <2>2, <2>3
<1>3. ASSUME NEW c \in Commits, Push(c)
      PROVE  (Shown(r) \/ Pending(r))'
  <2>1. head' = c /\ UNCHANGED <<api, status>> /\ status[c].run = NoRun /\ api[r].commit # c
    BY <1>3 DEF Push, NoStatus
  <2> QED
    BY <2>1, StatusAssumption DEF Shown
<1>4. CASE Tick \/ (\E q \in Runs : Rewrite(q)) \/ UNCHANGED vars
  BY <1>1, <1>4 DEF Tick, Rewrite, vars, Pending, Shown
<1>5. CASE Deliver
  BY <1>1, <1>5 DEF Deliver, Pending, Shown
<1>6. ASSUME NEW q \in Runs, Ignore(q)
      PROVE  (Shown(r) \/ Pending(r))'
  <2>1. UNCHANGED <<api, cache, work, head, status>> /\ queue' = queue \ {q}
    BY <1>6 DEF Ignore, othersUnchanged
  <2>2. CASE q # r \/ cache[r] # api[r]
    BY <1>1, <2>1, <2>2 DEF Pending, Shown
  <2>3. CASE q = r /\ cache[r] = api[r]
    <3>1. api[r].st = "live" /\ api[r].phase = "None"
      BY <1>6, <2>1, <2>3 DEF Ignore, Reportable
    <3>2. Stage(cache[r]) = 1
      BY <2>3, <3>1 DEF Stage
    <3>3. status[head].run # r
      BY <3>2, StatusAssumption DEF StageInv, TypeOK
    <3> QED
      BY <2>1, <3>1, <3>3 DEF Shown
  <2> QED
    BY <2>2, <2>3
<1>7. ASSUME NEW q \in Runs, Begin(q)
      PROVE  (Shown(r) \/ Pending(r))'
  BY <1>1, <1>7 DEF Begin, othersUnchanged, Pending, Shown
<1>8. CASE StartOver
  BY <1>8 DEF StartOver, Pending
<1>9. CASE Check
  BY <1>9, CheckShows DEF Check, othersUnchanged
<1>10. CASE CreateStatus \/ ReplyLost
  <2>1. /\ work.pc = "create" /\ Stored /\ UNCHANGED <<api, cache, head>>
        /\ queue \subseteq queue'
    BY <1>10 DEF CreateStatus, ReplyLost, Done, Requeue, othersUnchanged
  <2> QED
    BY <2>1, StoredShows
<1>11. CASE CallFails
  BY <1>1, <1>11 DEF CallFails, Requeue, othersUnchanged, Pending, Shown
<1> QED
  BY <1>2, <1>3, <1>4, <1>5, <1>6, <1>7, <1>8, <1>9, <1>10, <1>11
     DEF Next, Take, Calls, Panic, Restart

LEMMA CurrentInit == Init => CurrentInv
<1> SUFFICES ASSUME Init PROVE CurrentInv
  OBVIOUS
<1>1. /\ \A r \in Runs : api[r] = Absent /\ cache[r] = Absent
      /\ \A c \in Commits : status[c] = NoStatus
      /\ work.pc = "idle"
  BY ValueTypes DEF Init
<1>2. StageInv
  <2>1. Stage(Absent) <= Stage(Absent)
    BY Stages
  <2>2. \A r \in Runs : Stage(cache[r]) <= Stage(api[r])
    BY <1>1, <2>1
  <2> QED
    BY <1>1, <2>2 DEF StageInv, NoStatus
<1>3. FreshInv /\ AttendedInv
  BY <1>1 DEF FreshInv, AttendedInv, Absent
<1> QED
  BY <1>2, <1>3, TypeInit DEF CurrentInv

----------------------------------------------------------------------------
(* Theorems *)

\* TypeOK, in particular that no run without a phase is ever reported.
THEOREM StatusTypeCorrect == Spec => []TypeOK
  BY TypeInit, TypeStep, PTL DEF Spec

\* RestShowsCurrent, in any project: whatever is pushed, skipped, deleted, lost or
\* restarted meanwhile, and whatever createExpirationCheckFunc keeps back, the status a
\* pull request is left with is not an outdated one of a run that is still there.
THEOREM StatusesAreCurrent == Spec => []RestShowsCurrent
<1>1. CurrentInv /\ [Next]_vars => CurrentInv'
  BY TypeStep, StageStep, FreshStep, AttendedStep DEF CurrentInv
<1>2. CurrentInv => RestShowsCurrent
  BY DEF CurrentInv, AttendedInv, Pending, Shown, RestShowsCurrent
<1> QED
  BY <1>1, <1>2, CurrentInit, PTL DEF Spec

=============================================================================
