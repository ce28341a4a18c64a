----------------------------- MODULE MCVehicles -----------------------------
(***************************************************************************)
(* Instances of what the port sees of vehicles and does about them: the    *)
(* reads of a gate, the two halves of enforcement, and the parking slots.  *)
(* They share no row, so one run takes them as scenes: the first state     *)
(* picks one, and the others stay as they are.                             *)
(***************************************************************************)
EXTENDS Correlator, ViolationCase, EscalationLadder, ParkingSlots

VARIABLE scene

Transitions(states) == [op : {"transition"}, to : states]
CommitOf(kinds, rate, issue) == [op |-> "commit", kinds |-> kinds, rate |-> rate,
                                 issue |-> issue]

\* Two commits of different hours that overlap in one kind, one without a
\* challan; a transition backwards, one to each end, one the column refuses.
CaseJobs == Transitions({"REVIEWED", "PAID", "CLOSED", "DISPUTED"})
            \union {CommitOf({"k1", "k2"}, "day", TRUE), CommitOf({"k1"}, "night", TRUE),
                    CommitOf({"k1"}, "day", FALSE)}
\* What one operator may do to one case, a challan asked for or not.
DeskJobs == Transitions(Asked)
            \union {CommitOf({"k1"}, "day", issue) : issue \in BOOLEAN}

ladderOnly == scene = "ladder"

vehicleVars == <<scene, correlatorVars, caseVars, ladderVars, parkVars>>

Init == /\ scene \in {"reads", "case", "ladder", "parking"}
        /\ CorrelatorInit /\ CaseInit /\ LadderInit /\ ParkInit

ReadsScene ==
  CorrelatorNext /\ UNCHANGED <<scene, caseVars, ladderVars, parkVars>>
CaseScene ==
  CaseNext /\ UNCHANGED <<scene, correlatorVars, ladderVars, parkVars>>

Next ==
  \/ scene = "reads" /\ ReadsScene
  \/ scene = "case" /\ CaseScene
  \/ ladderOnly /\ LadderNext
                /\ UNCHANGED <<scene, correlatorVars, caseVars, parkVars>>
  \/ scene = "parking" /\ ParkNext
                       /\ UNCHANGED <<scene, correlatorVars, caseVars, ladderVars>>

\* One operator: the next request is sent when the last one has answered.
DeskNext == CaseScene /\ Cardinality({r \in Request : Busy(r)})' <= 1
DeskSpec == (Init /\ scene = "case") /\ [][DeskNext]_vehicleVars

\* The gate alone.
ReadsSpec == (Init /\ scene = "reads") /\ [][ReadsScene]_vehicleVars

Spec == /\ Init /\ [][Next]_vehicleVars
        /\ \A e \in Evaluator : WF_ladderVars(ladderOnly /\ Climb(e))
=============================================================================
