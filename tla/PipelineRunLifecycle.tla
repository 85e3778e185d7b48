------------------------ MODULE PipelineRunLifecycle ------------------------
(***************************************************************************)
(* What a PipelineRun promises to those who watch it, whatever goes wrong  *)
(* on the way.  One that is created to be built is given a build, may be   *)
(* given another one until it has been reported on, and from its start on  *)
(* owes the clean-up of its build's record.  One that is created for a     *)
(* build keeps to it, and may come to owe the clean-up.  Each reports on   *)
(* one build only, and goes without clean-up only if it owes none.         *)
(***************************************************************************)
CONSTANTS Runs, Builds, NoBuild

VARIABLES
    life,      \* life[p]: where run p is
    build,     \* build[p]: the build run p names
    owed,      \* the runs that do not go before their build is cleaned up
    cleaned    \* builds whose record was taken care of

lifeVars == <<life, build, owed, cleaned>>

LifeInit ==
    /\ life = [p \in Runs |-> "absent"]
    /\ build = [p \in Runs |-> NoBuild]
    /\ owed = {}
    /\ cleaned = {}

Create(p) ==
    /\ life[p] = "absent"
    /\ life' = [life EXCEPT ![p] = "pending"]
    /\ UNCHANGED <<build, owed, cleaned>>

Adopt(p) ==
    /\ life[p] = "absent"
    /\ life' = [life EXCEPT ![p] = "adopted"]
    /\ \E b \in Builds : build' = [build EXCEPT ![p] = b]
    /\ UNCHANGED <<owed, cleaned>>

\* Also again, with another build, after an earlier start went wrong.
Start(p) ==
    /\ life[p] \in {"pending", "started"}
    /\ life' = [life EXCEPT ![p] = "started"]
    /\ \E b \in Builds : build' = [build EXCEPT ![p] = b]
    /\ owed' = owed \cup {p}
    /\ UNCHANGED cleaned

Oblige(p) ==
    /\ life[p] \in {"pending", "adopted", "reported"}
    /\ owed' = owed \cup {p}
    /\ UNCHANGED <<life, build, cleaned>>

Report(p) ==
    /\ life[p] \in {"started", "adopted"}
    /\ life' = [life EXCEPT ![p] = "reported"]
    /\ UNCHANGED <<build, owed, cleaned>>

Remove(p) ==
    /\ life[p] \in {"pending", "started", "adopted", "reported"}
    /\ p \in owed /\ build[p] # NoBuild => build[p] \in cleaned
    /\ life' = [life EXCEPT ![p] = "gone"]
    /\ owed' = owed \ {p}
    /\ UNCHANGED <<build, cleaned>>

\* Jenkins and the controller may clean up any records, for good.
Clean ==
    /\ \E more \in SUBSET Builds : cleaned' = cleaned \cup more
    /\ UNCHANGED <<life, build, owed>>

LifeNext ==
    \/ Clean
    \/ \E p \in Runs :
          Create(p) \/ Adopt(p) \/ Start(p) \/ Oblige(p) \/ Report(p) \/ Remove(p)

LifeSpec == LifeInit /\ [][LifeNext]_lifeVars
=============================================================================
