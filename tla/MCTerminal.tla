----------------------------- MODULE MCTerminal -----------------------------
(***************************************************************************)
(* Small instances for TLC of what the terminal plans and books: export    *)
(* bookings, yard and reefer slots, gate appointments, and the marine      *)
(* desk's craft and pilots, each with the imports of the call; and of the  *)
(* copy of the database to RDS.  They share no row, and craft and pilots   *)
(* write different milestones: the first state picks the scene, and the    *)
(* others stay as they are.                                                *)
(***************************************************************************)
EXTENDS ExportLifecycle, MarineDesk, YardPlanning, TasMetering, RdsMigration

CONSTANTS c1, c2, A, r1, r2, v1, gates, reads

VARIABLE scene

MCNoRows == {}
MCMessages == {{"BERTHED"}, VESARR, {"SAILED"}, VESDEP}

\* Two windows over the one appointment two trucks ask for.
MCSlotOf == [t \in Truck |-> "hour"]
MCCovers == [m \in Meter |-> SlotCode]
MCSlotCap == [m \in Meter |-> 1]

\* A keyed table, then a hypertable in which two rows share a time.
MCPlan == <<gates, reads>>
MCTableOf == [r \in Tuple |-> IF r \in {"k1", "k2"} THEN gates ELSE reads]
MCPlace == [r \in Tuple |-> IF r \in {"k2", "h3"} THEN 2 ELSE 1]

terminalVars == <<scene, exportVars, marineVars, yardVars, meteringVars, rdsVars>>

Init == /\ scene \in {"export", "craft", "pilot", "yard", "window", "seat", "copy"}
        /\ ExportInit /\ MarineInit /\ YardInit /\ MeteringInit /\ RdsInit
        /\ scene # "yard" => block = [c \in Stored |-> "none"]

\* A craft looks at milestones only: messages are the imports that concern it.
CraftScene == CraftNext \/ Supersede \/ \E m \in Messages : ImportMovement(v1, m)

\* The windows of a gate, over restarts; then its seats, without a window.
WindowScene == WindowNext \/ BookingNext \/ SeedSlot("hour", 2)
SeatScene == RestoreRead \/ SeatFetched \/ Restored \/ BookingNext \/ AppointmentNext

CopyScene ==
  RdsNext /\ UNCHANGED <<scene, exportVars, marineVars, yardVars, meteringVars>>

Next ==
  \/ scene = "export" /\ ExportNext
        /\ UNCHANGED <<scene, marineVars, yardVars, meteringVars, rdsVars>>
  \/ scene = "craft" /\ CraftScene
        /\ UNCHANGED <<scene, exportVars, yardVars, meteringVars, rdsVars>>
  \/ scene = "pilot" /\ (PilotNext \/ ImportNext)
        /\ UNCHANGED <<scene, exportVars, yardVars, meteringVars, rdsVars>>
  \/ scene = "yard" /\ YardNext
        /\ UNCHANGED <<scene, exportVars, marineVars, meteringVars, rdsVars>>
  \/ scene = "window" /\ WindowScene
        /\ UNCHANGED <<scene, exportVars, marineVars, yardVars, rdsVars>>
  \/ scene = "seat" /\ SeatScene
        /\ UNCHANGED <<scene, exportVars, marineVars, yardVars, rdsVars>>
  \/ scene = "copy" /\ CopyScene

Spec == Init /\ [][Next]_terminalVars /\ ExportFairness

\* The copy alone.
CopySpec == (Init /\ scene = "copy") /\ [][CopyScene]_terminalVars
=============================================================================
