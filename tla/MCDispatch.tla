----------------------------- MODULE MCDispatch -----------------------------
(***************************************************************************)
(* Instances of the two services that write a container row and depend on  *)
(* it: the cargo service and the container jobs.  The first state picks    *)
(* the scene, one of the two services; the cargo row is common to both.    *)
(***************************************************************************)
EXTENDS MCContainerJob, MCCargoService

VARIABLE scene

\* The job scene registers its containers itself: a job does not look at the
\* columns in which a legacy row differs from a new one.
Init ==
  /\ scene \in {"cargo", "job"} /\ ContainerJobInit /\ CargoServiceInit
  /\ scene = "job" => \A c \in Containers : ~ cargo[c].present

\* The job service, beside what it assumes of the others' writes to the row.
JobScene == scene = "job" /\ JobNext /\ UNCHANGED <<scene, serviceVars>>

CargoScene(step) ==
  scene = "cargo" /\ step /\ UNCHANGED <<scene, jobVars, facts, dispatch, field>>

\* Requests may die between two transactions.
CrashNext == JobScene \/ CargoScene(CargoNext)
CrashSpec == Init /\ [][CrashNext]_<<scene, containerJobVars, serviceVars>>

\* The requests that are not Mortal are carried on.
FairNext == JobScene \/ CargoScene(CargoStep)
FairSpec == /\ Init /\ [][FairNext]_<<scene, containerJobVars, serviceVars>>
            /\ ContainerJobFairness /\ CargoFairness
=============================================================================
