---------------------------- MODULE YardPlanning ----------------------------
(***************************************************************************)
(* The slot allocators of the cargo service: POST /yard-plan and           *)
(* POST /reefer-plan.  Both count rows in one transaction, and insert the  *)
(* slot count + 1 in another; nothing reserves the slot in between, and no *)
(* constraint of the tables refuses a slot that is already given.          *)
(***************************************************************************)
EXTENDS Naturals, FiniteSets

CONSTANTS
  Stored,      (* containers that may stand in the yard *)
  Blocks,      (* yard blocks *)
  Planners,    (* planning requests in flight *)
  MaxSlot,     (* bound: slots are planned no further than this *)
  MaxDepartures  (* bound: containers leave a block at most this often *)

ASSUME YardSetsAssumption == IsFiniteSet(Stored) /\ IsFiniteSet(Planners)
ASSUME MaxSlotAssumption == MaxSlot \in Nat
ASSUME MaxDeparturesAssumption == MaxDepartures \in Nat

VARIABLES
  block,       (* core.cargo.yard_block, by container: the block, or "none" *)
  plans,       (* core.cargo_yard_plan: rows per planned <<block, slot>> *)
  positions,   (* core.cargo_yard_plan: rows a client placed, per block *)
  reefers,     (* core.cargo_reefer_plan: rows per slot *)
  planner,     (* the progress of each planning request *)
  departures   (* how often a container has left a block: history only *)

yardVars == <<block, plans, positions, reefers, planner, departures>>

Slots == 1 .. MaxSlot
Idle == [pc |-> "idle"]
Reefer == "REEFER"

ASSUME BlocksAssumption == {"none", Reefer} \cap Blocks = {}

YardTypeOK ==
  /\ block \in [Stored -> Blocks \cup {"none"}]
  /\ plans \in [Blocks \X Slots -> Nat]
  /\ positions \in [Blocks -> Nat]
  /\ reefers \in [Slots -> Nat]
  /\ planner \in [Planners ->
       [pc : {"insert"}, b : Blocks \cup {Reefer}, slot : Slots] \cup {Idle}]
  /\ departures \in 0 .. MaxDepartures

YardInit ==
  /\ block \in [Stored -> Blocks \cup {"none"}]
  /\ plans = [p \in Blocks \X Slots |-> 0]
  /\ positions = [b \in Blocks |-> 0]
  /\ reefers = [n \in Slots |-> 0]
  /\ planner = [r \in Planners |-> Idle]
  /\ departures = 0

(* The rows of a table that counts them by slot: <<slot, i>> is its i-th.   *)
RowsPerSlot(count) == UNION {{n} \X (1 .. count[n]) : n \in Slots}

PlansOf(b) ==
  Cardinality(RowsPerSlot([n \in Slots |-> plans[<<b, n>>]])) + positions[b]
Standing(b) == Cardinality({c \in Stored : block[c] = b})

(* Faulty variant: the containers already in the block are counted alone. *)
NextYardSlotLive(b) == Standing(b) + 1

(* Live occupancy and earlier plans, counted together. *)
NextYardSlot(b) == Standing(b) + PlansOf(b) + 1

NextReeferIndex == Cardinality(RowsPerSlot(reefers)) + 1

-----------------------------------------------------------------------------
Goes(r, b, slot) ==
  planner' = [planner EXCEPT ![r] = [pc |-> "insert", b |-> b, slot |-> slot]]

Finished(r) == planner' = [planner EXCEPT ![r] = Idle]

PlanRead(r, b) ==
  /\ planner[r] = Idle
  /\ NextYardSlot(b) \in Slots
  /\ Goes(r, b, NextYardSlot(b))
  /\ UNCHANGED <<block, plans, positions, reefers, departures>>

PlanInsert(r) ==
  /\ planner[r].pc = "insert"
  /\ planner[r].b # Reefer
  /\ plans' = [plans EXCEPT ![<<planner[r].b, planner[r].slot>>] = @ + 1]
  /\ Finished(r)
  /\ UNCHANGED <<block, positions, reefers, departures>>

ReeferRead(r) ==
  /\ planner[r] = Idle
  /\ NextReeferIndex \in Slots
  /\ Goes(r, Reefer, NextReeferIndex)
  /\ UNCHANGED <<block, plans, positions, reefers, departures>>

ReeferInsert(r) ==
  /\ planner[r].pc = "insert"
  /\ planner[r].b = Reefer
  /\ reefers' = [reefers EXCEPT ![planner[r].slot] = @ + 1]
  /\ Finished(r)
  /\ UNCHANGED <<block, plans, positions, departures>>

(* A request dies between its two transactions. *)
PlannerCrash(r) ==
  /\ planner[r] # Idle
  /\ Finished(r)
  /\ UNCHANGED <<block, plans, positions, reefers, departures>>

(* PUT /yard-position adds a plan row for the place the client names. *)
PositionRow(b) ==
  /\ PlansOf(b) < MaxSlot
  /\ positions' = [positions EXCEPT ![b] = @ + 1]
  /\ UNCHANGED <<block, plans, reefers, planner, departures>>

(* A yard assignment gives a container that has none a block. *)
EntersBlock(c, b) ==
  /\ block[c] = "none"
  /\ block' = [block EXCEPT ![c] = b]
  /\ UNCHANGED <<plans, positions, reefers, planner, departures>>

(* A PUT or another yard assignment takes it out of the block again. *)
LeavesBlock(c, b) ==
  /\ departures < MaxDepartures
  /\ block[c] \notin {"none", b}
  /\ block' = [block EXCEPT ![c] = b]
  /\ departures' = departures + 1
  /\ UNCHANGED <<plans, positions, reefers, planner>>

YardNext ==
  \/ \E r \in Planners :
       \/ \E b \in Blocks : PlanRead(r, b)
       \/ PlanInsert(r) \/ ReeferRead(r) \/ ReeferInsert(r) \/ PlannerCrash(r)
  \/ \E b \in Blocks :
       \/ PositionRow(b)
       \/ \E c \in Stored : EntersBlock(c, b)
  \/ \E c \in Stored, b \in Blocks \cup {"none"} : LeavesBlock(c, b)

YardSpec == YardInit /\ [][YardNext]_yardVars

-----------------------------------------------------------------------------
(* Repeated planning does not collide: no slot of a block is planned twice.  *)
PlansDoNotCollide == \A p \in DOMAIN plans : plans[p] <= 1

(* A collision takes a concurrent reader of the same count or, in the yard,  *)
(* a departure that lowers it: between two departures each request in flight *)
(* can repeat a slot at most once, and a reefer point altogether.            *)
CollisionsNeedARace ==
  /\ \A p \in DOMAIN plans :
       plans[p] <= Cardinality(Planners) * (1 + departures)
  /\ \A n \in Slots : reefers[n] <= Cardinality(Planners)

=============================================================================
