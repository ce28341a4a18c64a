--------------------------- MODULE MCYardPlanning ---------------------------
(* The yard planners on two containers and one or two blocks. *)
EXTENDS YardPlanning

CONSTANTS c1, c2, A, B, r1, r2

=============================================================================
