--------------------------- MODULE CargoLifecycle ---------------------------
(***************************************************************************)
(* The vocabulary and the pure rules of the container lifecycle shared by  *)
(* every module that reads or writes a core.cargo row: the import states   *)
(* with their ranks, the mandatory gates, the export states that live in   *)
(* the same column, and the customs dispositions.  No state, no actions.   *)
(***************************************************************************)
EXTENDS Naturals

ImportStates ==
  {"CREATED", "VESSEL_DISCHARGED", "PENDENCY", "YARD_ASSIGNED",
   "YARD_POSITION_ALLOCATED", "REEFER_PLANNED", "RAKE_ASSIGNED",
   "SCAN_PENDING", "VERIFIED", "RELEASED"}

(* The states the export leg writes into the same column. *)
ExportCargoStates ==
  {"EXPORT_BOOKED", "FORM13_ISSUED", "EXPORT_GATE_IN", "VGM_CAPTURED",
   "LEO_GRANTED", "LOAD_LISTED", "VESSEL_LOADED"}

(* What the column lifecycle_status may hold.  "NULL" is an unset column: a  *)
(* row copied from the legacy schema that predates the state machine.        *)
Lifecycles == ImportStates \cup ExportCargoStates \cup {"NULL"}

CustomsStates == {"PENDING", "CLEARED", "HELD", "UNDER_INSPECTION"}

CUSTOMS_BLOCKS_RELEASE == {"HELD", "UNDER_INSPECTION"}

Rank ==
  [s \in ImportStates |->
     CASE s = "CREATED"                 -> 0
       [] s = "VESSEL_DISCHARGED"       -> 10
       [] s = "PENDENCY"                -> 15
       [] s = "YARD_ASSIGNED"           -> 20
       [] s = "YARD_POSITION_ALLOCATED" -> 21
       [] s = "REEFER_PLANNED"          -> 22
       [] s = "RAKE_ASSIGNED"           -> 23
       [] s = "SCAN_PENDING"            -> 24
       [] s = "VERIFIED"                -> 30
       [] s = "RELEASED"                -> 40]

MandatoryStates ==
  {"CREATED", "VESSEL_DISCHARGED", "YARD_ASSIGNED", "VERIFIED", "RELEASED"}

(* Faulty variant: the mandatory gates are not looked at. *)
CanTransitionAnyForward(current, target) ==
  /\ current \in ImportStates
  /\ target \in ImportStates
  /\ Rank[current] < Rank[target]

(* Strictly forward, and no mandatory gate lies strictly in between. *)
CanTransition(current, target) ==
  /\ current \in ImportStates
  /\ target \in ImportStates
  /\ Rank[current] < Rank[target]
  /\ \A m \in MandatoryStates :
       ~ (Rank[current] < Rank[m] /\ Rank[m] < Rank[target])

AllowedPredecessors(target) ==
  {s \in ImportStates : CanTransition(s, target)}

(* Faulty variants of YardAssignFrom: PENDENCY forgotten; and a blanket "not  *)
(* released yet", which would move a planned container backwards.            *)
YardAssignFromBeforePendency == {"CREATED", "VESSEL_DISCHARGED"}
YardAssignFromAnyOpen == ImportStates \ {"RELEASED"}

(* The states assign_yard accepts: wider than AllowedPredecessors, because a *)
(* container that was never discharged may still be given a yard block.      *)
YardAssignFrom == {"CREATED", "VESSEL_DISCHARGED", "PENDENCY"}

YardPositionFrom == {"YARD_ASSIGNED", "YARD_POSITION_ALLOCATED"}

=============================================================================
