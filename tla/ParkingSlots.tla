---------------------------- MODULE ParkingSlots ----------------------------
(***************************************************************************)
(* The slots of one parking facility (parking/persistence.py): allocate    *)
(* claims a slot in one transaction and opens the stay in another, release *)
(* closes the stay in one and frees its slot in another.  The stay that    *)
(* release closes is picked by a subquery, which a second release that     *)
(* waits for the row does not evaluate again.  Events and notifications    *)
(* are left out: they are written last and read by nobody here.            *)
(***************************************************************************)
EXTENDS Naturals, Sequences, FiniteSets

CONSTANTS
  Truck,       \* vehicles
  Slot,        \* core.parking_slot rows
  Clerk,       \* requests in flight
  Free,        \* the state of a slot that is AVAILABLE
  MaxStays,    \* bound on parking_transaction rows
  MaxLost      \* bound on requests that die between two transactions

ASSUME FreeAssumption == Free \notin Truck
ASSUME StayBoundsAssumption == MaxStays \in Nat /\ MaxLost \in Nat
ASSUME ClerkAssumption == IsFiniteSet(Clerk)

VARIABLES
  slot,        \* Free, or the vehicle the slot is OCCUPIED by
  stays,       \* core.parking_transaction, by id
  clerk,       \* the progress of each request
  reclosed,    \* history: a release has closed a stay that was closed
  lost

parkVars == <<slot, stays, clerk, reclosed, lost>>

NoOne == [pc |-> "idle"]
Stay == [truck : Truck, slot : Slot, active : BOOLEAN]

ParkInit ==
  /\ slot = [s \in Slot |-> Free] /\ stays = <<>>
  /\ clerk = [k \in Clerk |-> NoOne]
  /\ reclosed = FALSE /\ lost = 0

-----------------------------------------------------------------------------
(* allocate *)

\* Faulty variant: the slot is claimed whether it is AVAILABLE or not.
ClaimableAny(s) == TRUE

Claimable(s) == slot[s] = Free

\* FOR UPDATE SKIP LOCKED: a slot another claim has locked is passed over, so
\* any free slot may be the first.  A full facility is answered, nothing more.
Claim(k, t, s) ==
  /\ clerk[k] = NoOne /\ Claimable(s)
  /\ Len(stays) + Cardinality({j \in Clerk : clerk[j].pc = "open"}) < MaxStays
  /\ slot' = [slot EXCEPT ![s] = t]
  /\ clerk' = [clerk EXCEPT ![k] = [pc |-> "open", truck |-> t, slot |-> s]]
  /\ UNCHANGED <<stays, reclosed, lost>>

OpenStay(k) ==
  /\ clerk[k].pc = "open"
  /\ stays' = Append(stays, [truck |-> clerk[k].truck, slot |-> clerk[k].slot,
                             active |-> TRUE])
  /\ clerk' = [clerk EXCEPT ![k] = NoOne]
  /\ UNCHANGED <<slot, reclosed, lost>>

-----------------------------------------------------------------------------
(* release *)

OpenStays(t) == {n \in DOMAIN stays : stays[n].truck = t /\ stays[n].active}

\* The subquery: the latest ACTIVE stay of the vehicle.
PickStay(k, t) ==
  /\ clerk[k] = NoOne
  /\ \E n \in OpenStays(t) :
       /\ \A m \in OpenStays(t) : m <= n
       /\ clerk' = [clerk EXCEPT ![k] = [pc |-> "close", stay |-> n]]
  /\ UNCHANGED <<slot, stays, reclosed, lost>>

CloseStay(k) ==
  /\ clerk[k].pc = "close"
  /\ LET n == clerk[k].stay IN
     /\ stays' = [stays EXCEPT ![n].active = FALSE]
     /\ reclosed' = (reclosed \/ ~stays[n].active)
     /\ clerk' = [clerk EXCEPT ![k] = [pc |-> "free", stay |-> n]]
  /\ UNCHANGED <<slot, lost>>

Freed(s) == [slot EXCEPT ![s] = Free]

FreeSlot(k) ==
  /\ clerk[k].pc = "free"
  /\ slot' = Freed(stays[clerk[k].stay].slot)
  /\ clerk' = [clerk EXCEPT ![k] = NoOne]
  /\ UNCHANGED <<stays, reclosed, lost>>

\* The server stops, or a statement fails, between two transactions.
ParkingDies(k) ==
  /\ lost < MaxLost /\ clerk[k].pc \in {"open", "free"}
  /\ lost' = lost + 1
  /\ clerk' = [clerk EXCEPT ![k] = NoOne]
  /\ UNCHANGED <<slot, stays, reclosed>>

ParkNext == \E k \in Clerk :
  \/ \E t \in Truck : PickStay(k, t) \/ \E s \in Slot : Claim(k, t, s)
  \/ OpenStay(k) \/ CloseStay(k) \/ FreeSlot(k) \/ ParkingDies(k)

ParkSpec == ParkInit /\ [][ParkNext]_parkVars

-----------------------------------------------------------------------------
Opening(s) == \E k \in Clerk : clerk[k].pc = "open" /\ clerk[k].slot = s
Freeing(s) == \E k \in Clerk : clerk[k].pc = "free" /\ stays[clerk[k].stay].slot = s
Parked(s) == {n \in DOMAIN stays : stays[n].slot = s /\ stays[n].active}

ParkTypeOK ==
  /\ slot \in [Slot -> Truck \cup {Free}]
  /\ stays \in Seq(Stay) /\ Len(stays) <= MaxStays
  /\ clerk \in [Clerk -> [pc : {"open"}, truck : Truck, slot : Slot] \cup
                         [pc : {"close", "free"}, stay : 1 .. MaxStays] \cup {NoOne}]
  /\ reclosed \in BOOLEAN /\ lost \in 0 .. MaxLost

(* "concurrent allocations never hand out the same slot": two vehicles stay  *)
(* in one slot only after two releases of one vehicle closed the same stay,  *)
(* of which the later freed a slot that had been given away.                 *)
SharedSlotNeedsADoubleRelease ==
  ~reclosed => \A s \in Slot : \A m, n \in Parked(s) : m = n

(* A slot stays occupied with nobody in it only when a request died between  *)
(* its two transactions; no operation finds such a slot again.               *)
LeakedSlotNeedsALoss ==
  lost = 0 => \A s \in Slot :
    slot[s] # Free => Parked(s) # {} \/ Opening(s) \/ Freeing(s)

(* A slot holds the one vehicle that stays in it, as far as the above goes.  *)
SlotsAreHeld == SharedSlotNeedsADoubleRelease /\ LeakedSlotNeedsALoss
=============================================================================
