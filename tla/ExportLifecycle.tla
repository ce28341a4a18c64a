-------------------------- MODULE ExportLifecycle ---------------------------
(***************************************************************************)
(* services.export_lifecycle.ExportLifecycleService: the export booking    *)
(* with its event log, and the mirror of its status on the container's     *)
(* core.cargo row.  A step commits the booking in one transaction and      *)
(* writes the mirror, a blind upsert, in the next.                         *)
(***************************************************************************)
EXTENDS CargoTable

CONSTANTS
  Bookings,        (* booking numbers *)
  ExportRequests,  (* in-flight booking and step requests *)
  MortalExports,   (* those whose server may die *)
  CargoCreates     (* TRUE when the cargo service also registers containers *)

ASSUME ExportAssumption ==
  CargoCreates \in BOOLEAN /\ MortalExports \subseteq ExportRequests

VARIABLES
  booking,    (* core.export_booking *)
  reached,    (* core.export_booking_event: the last step each booking made *)
  exportReq   (* the progress of each request *)

exportVars == <<cargo, audit, booking, reached, exportReq>>

NotNamed == "none"

(* The walk, and the cargo state each status stands for. *)
ExportRank ==
  [BOOKED |-> 0, FORM13_ISSUED |-> 10, GATE_IN |-> 20, VGM_CAPTURED |-> 30,
   LEO_GRANTED |-> 40, LOAD_LISTED |-> 50, LOADED |-> 60]

ExportSteps == DOMAIN ExportRank

CargoState ==
  [BOOKED |-> "EXPORT_BOOKED", FORM13_ISSUED |-> "FORM13_ISSUED",
   GATE_IN |-> "EXPORT_GATE_IN", VGM_CAPTURED |-> "VGM_CAPTURED",
   LEO_GRANTED |-> "LEO_GRANTED", LOAD_LISTED |-> "LOAD_LISTED",
   LOADED |-> "VESSEL_LOADED"]

(* Strictly the immediately lower rank: no step is optional. *)
Predecessors(target) ==
  {s \in ExportSteps :
     /\ ExportRank[s] < ExportRank[target]
     /\ \A t \in ExportSteps :
          ExportRank[t] < ExportRank[target] => ExportRank[t] <= ExportRank[s]}

BookingStatuses == ExportSteps \cup {"CANCELLED"}

Booking == [status : BookingStatuses, container : Containers \cup {NotNamed}]
NoBooking == [status |-> "free", container |-> NotNamed]

ExportRequest ==
  [pc : {"create"}, b : Bookings, c : Containers \cup {NotNamed}]
    \cup [pc : {"mirror"}, b : Bookings, c : Containers, to : ExportSteps]

IdleExport == [pc |-> "idle"]

ExportTypeOK ==
  /\ CargoTypeOK
  /\ booking \in [Bookings -> Booking \cup {NoBooking}]
  /\ reached \in [Bookings -> ExportSteps \cup {"none"}]
  /\ exportReq \in [ExportRequests -> ExportRequest \cup {IdleExport}]

ExportInit ==
  /\ CargoTableInit
  /\ booking = [b \in Bookings |-> NoBooking]
  /\ reached = [b \in Bookings |-> "none"]
  /\ exportReq = [x \in ExportRequests |-> IdleExport]

IsOpen(b) == booking[b].status \in ExportSteps \ {"LOADED"}

(* open_for_container, and the partial unique index uq_export_booking_open. *)
NoOpenBooking(c) == \A b \in Bookings : IsOpen(b) => booking[b].container # c

-----------------------------------------------------------------------------
(* POST /api/export/bookings: two reads, then the INSERT. *)
BookCheck(x, b, c) ==
  /\ exportReq[x].pc = "idle"
  /\ booking[b] = NoBooking
  /\ c # NotNamed => NoOpenBooking(c)
  /\ exportReq' = [exportReq EXCEPT ![x] = [pc |-> "create", b |-> b, c |-> c]]
  /\ UNCHANGED <<cargo, audit, booking, reached>>

IndexesHold(b, c) ==
  booking[b] = NoBooking /\ (c # NotNamed => NoOpenBooking(c))

(* After a committed step the request mirrors it, if there is a container. *)
GoesOnToMirror(x, b, c, to) ==
  exportReq' = [exportReq EXCEPT ![x] =
    IF c = NotNamed THEN IdleExport
    ELSE [pc |-> "mirror", b |-> b, c |-> c, to |-> to]]

BookCreate(x) ==
  LET b == exportReq[x].b
      c == exportReq[x].c
  IN /\ exportReq[x].pc = "create"
     /\ IndexesHold(b, c)
     /\ booking' = [booking EXCEPT ![b] = [status |-> "BOOKED", container |-> c]]
     /\ reached' = [reached EXCEPT ![b] = "BOOKED"]
     /\ GoesOnToMirror(x, b, c, "BOOKED")
     /\ UNCHANGED cargoVars

(* An index refuses the row: nothing is written. *)
BookRefused(x) ==
  /\ exportReq[x].pc = "create"
  /\ ~ IndexesHold(exportReq[x].b, exportReq[x].c)
  /\ exportReq' = [exportReq EXCEPT ![x] = IdleExport]
  /\ UNCHANGED <<cargo, audit, booking, reached>>

(* A step of the walk: the booking under its row lock, with the event row.   *)
ExportStep(x, b, to) ==
  /\ exportReq[x].pc = "idle"
  /\ booking[b].status \in Predecessors(to)
  /\ booking' = [booking EXCEPT ![b].status = to]
  /\ reached' = [reached EXCEPT ![b] = to]
  /\ GoesOnToMirror(x, b, booking[b].container, to)
  /\ UNCHANGED cargoVars

(* The six steps.  Each has its own documents, which no later rule reads; a  *)
(* VGM out of tolerance is flagged, and the step applies.                    *)
IssueForm13(x, b)   == ExportStep(x, b, "FORM13_ISSUED")
GateIn(x, b)        == ExportStep(x, b, "GATE_IN")
CaptureVgm(x, b)    == ExportStep(x, b, "VGM_CAPTURED")
GrantLeo(x, b)      == ExportStep(x, b, "LEO_GRANTED")
AddToLoadList(x, b) == ExportStep(x, b, "LOAD_LISTED")
ConfirmLoaded(x, b) == ExportStep(x, b, "LOADED")

(* Cancelling leaves the cargo row as it is. *)
CancelBooking(b) ==
  /\ booking[b].status \in ExportSteps \ {"LOADED"}
  /\ booking' = [booking EXCEPT ![b].status = "CANCELLED"]
  /\ UNCHANGED <<cargo, audit, reached, exportReq>>

(* Faulty variant: a row that is already there keeps its state. *)
UpsertInsertOnly(c, state) ==
  cargo' = [cargo EXCEPT ![c] =
    IF @.present THEN @
    ELSE [AbsentRow EXCEPT !.present = TRUE, !.lifecycle = state]]

(* INSERT ... ON CONFLICT DO UPDATE, whatever state the row is in. *)
UpsertCargo(c, state) ==
  cargo' = [cargo EXCEPT ![c] =
    IF @.present THEN [@ EXCEPT !.lifecycle = state]
    ELSE [AbsentRow EXCEPT !.present = TRUE, !.lifecycle = state]]

(* Faulty variant: the mirror announces the step that comes next. *)
MirrorNextStep(x) ==
  /\ exportReq[x].pc = "mirror"
  /\ \E to \in ExportSteps :
       exportReq[x].to \in Predecessors(to)
         /\ UpsertCargo(exportReq[x].c, CargoState[to])
  /\ exportReq' = [exportReq EXCEPT ![x] = IdleExport]
  /\ UNCHANGED <<audit, booking, reached>>

Mirror(x) ==
  /\ exportReq[x].pc = "mirror"
  /\ UpsertCargo(exportReq[x].c, CargoState[exportReq[x].to])
  /\ exportReq' = [exportReq EXCEPT ![x] = IdleExport]
  /\ UNCHANGED <<audit, booking, reached>>

ExportCrash(x) ==
  /\ exportReq[x].pc # "idle"
  /\ exportReq' = [exportReq EXCEPT ![x] = IdleExport]
  /\ UNCHANGED <<cargo, audit, booking, reached>>

(* The cargo service registers or removes a container. *)
CargoRegisteredElsewhere(c) ==
  /\ CargoCreates
  /\ CreateTxn(c, "PENDING", FALSE) \/ DeleteTxn(c)
  /\ UNCHANGED <<booking, reached, exportReq>>

ExportServiceStep ==
  \/ \E x \in ExportRequests, b \in Bookings :
       \/ \E c \in Containers \cup {NotNamed} : BookCheck(x, b, c)
       \/ IssueForm13(x, b) \/ GateIn(x, b) \/ CaptureVgm(x, b)
       \/ GrantLeo(x, b) \/ AddToLoadList(x, b) \/ ConfirmLoaded(x, b)
  \/ \E x \in ExportRequests : BookCreate(x) \/ BookRefused(x) \/ Mirror(x)
  \/ \E b \in Bookings : CancelBooking(b)
  \/ \E c \in Containers : CargoRegisteredElsewhere(c)

ExportNext ==
  ExportServiceStep \/ \E x \in MortalExports : ExportCrash(x)

(* A server that does not die writes the mirror of each step it committed. *)
ExportFairness ==
  \A x \in ExportRequests \ MortalExports : WF_exportVars(Mirror(x))

ExportSpec == ExportInit /\ [][ExportNext]_exportVars /\ ExportFairness

-----------------------------------------------------------------------------
(* A container is on at most one open booking, however bookings race. *)
OneOpenBookingPerContainer ==
  \A a, b \in Bookings :
    a # b /\ IsOpen(a) /\ IsOpen(b) /\ booking[a].container # NotNamed
      => booking[a].container # booking[b].container

BookingStage(b) ==
  IF booking[b] = NoBooking THEN "new" ELSE IF IsOpen(b) THEN "holding" ELSE "done"

BookingRegister == INSTANCE ExclusiveClaims WITH
  Owners <- Bookings,
  Things <- Containers,
  stage  <- [b \in Bookings |-> BookingStage(b)],
  claims <- [b \in Bookings |-> IF IsOpen(b) THEN {booking[b].container} \ {NotNamed} ELSE {}]

(* A booking has its container to itself from the insert until it is loaded  *)
(* or cancelled, and is never opened again, however bookings race for it.    *)
ImplementsBookingRegister == BookingRegister!ClaimSpec

(* The cargo row never shows an export state that no booking of the          *)
(* container has reached, whatever is delayed, reordered or cut short.       *)
MirrorNeverAhead ==
  \A c \in Containers :
    cargo[c].lifecycle \in ExportCargoStates =>
      \E b \in Bookings, s \in ExportSteps :
        /\ booking[b].container = c
        /\ CargoState[s] = cargo[c].lifecycle
        /\ reached[b] # "none" /\ ExportRank[s] <= ExportRank[reached[b]]

(* Once a request has committed the load of a container, the cargo row comes *)
(* to show it, whatever it showed before and whatever other requests do,     *)
(* unless the server dies.                                                   *)
LoadedIsMirrored ==
  \A x \in ExportRequests \ MortalExports, b \in Bookings, c \in Containers :
    (exportReq[x] = [pc |-> "mirror", b |-> b, c |-> c, to |-> "LOADED"])
      ~> (cargo[c].lifecycle = "VESSEL_LOADED")

=============================================================================
