--------------------------- MODULE MCCargoService ---------------------------
(***************************************************************************)
(* Small instances of CargoService for TLC.                                *)
(***************************************************************************)
EXTENDS CargoService

(* The two shapes of row the legacy copy can leave with an unset column. *)
MCLegacyRows ==
  {[AbsentRow EXCEPT !.present = TRUE, !.released = rel, !.yard = y] :
     rel \in BOOLEAN, y \in BOOLEAN}

(* PUT bodies: raise or drop the release flag, alone or with a customs       *)
(* status, change the customs status, clear the yard block.                  *)
MCPatches ==
  {[NoPatch EXCEPT !.released = rel, !.customs = cs] :
     rel \in {"keep", "true", "false"},
     cs \in {"keep", "CLEARED", "UNDER_INSPECTION"}}
  \cup {[NoPatch EXCEPT !.yard = "clear"]}

MCAllOps == AllOps
MCNoDelete == AllOps \ {"delete"}

=============================================================================
