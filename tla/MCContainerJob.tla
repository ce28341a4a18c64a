--------------------------- MODULE MCContainerJob ---------------------------
(***************************************************************************)
(* Small instances of ContainerJob for TLC: two rows of core.vehicle for   *)
(* one truck, one driver record and, in some orders, only a licence.       *)
(***************************************************************************)
EXTENDS ContainerJob

CONSTANTS c1, v1, v2, d1, d2, l1, p1, p2

MCPlate == [v \in {v1, v2} |-> p1]          (* twin rows of one truck *)
MCLicenceOf == [d \in {d1, d2} |-> l1]      (* two records of one person *)

MCNoRows == {}

OrderFor(c, v, d, l) == [container |-> c, vehicle |-> v, driver |-> d, licence |-> l]

(* The two rows of the truck, the container or a group code, the driver or,  *)
(* for a group-code job, nobody.                                             *)
MCOrders == {OrderFor(c1, v1, d1, l1), OrderFor(c1, v2, d2, l1),
             OrderFor(None, v1, None, None), OrderFor(None, v2, d1, l1)}

(* The one container, both rows of the truck. *)
MCTwinOrders == {OrderFor(c1, v1, d1, l1), OrderFor(None, v2, None, None)}

MCOneOrder == {OrderFor(c1, v1, d1, l1)}

=============================================================================
