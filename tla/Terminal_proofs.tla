-------------------------- MODULE Terminal_proofs ---------------------------
(***************************************************************************)
(* Proofs about what the terminal plans and books, for every set of        *)
(* containers, bookings, files, blocks, trucks and windows: export         *)
(* bookings and their mirror on core.cargo, the customs writers of the     *)
(* same row, the slot allocators, and the metering of gate appointments.   *)
(***************************************************************************)
EXTENDS ExportLifecycle, CustomsBinding, YardPlanning, TasMetering, FiniteSetTheorems,
        SequenceTheorems, TLAPS

-----------------------------------------------------------------------------
(* The table core.cargo *)

LEMMA AbsentRowType == AbsentRow \in Row /\ AbsentRow.lifecycle = "NULL"
                         /\ AbsentRow.present = FALSE
  BY Zenon DEF AbsentRow, Row, Lifecycles, CustomsStates

LEMMA CargoInitType ==
  ASSUME CargoTableInit
  PROVE  CargoTypeOK /\ \A c \in Containers : cargo[c].lifecycle = "NULL"
<1>1. NoAudit \in AuditRow
  BY Zenon DEF NoAudit, AuditRow
<1>2. \A c \in Containers : cargo[c] \in Row /\ cargo[c].lifecycle = "NULL"
  BY AbsentRowType, LegacyRowsAssumption DEF CargoTableInit
<1>3. QED
  BY <1>1, <1>2, AbsentRowType, LegacyRowsAssumption DEF CargoTableInit, CargoTypeOK

LEMMA CreateType ==
  ASSUME CargoTypeOK, NEW c \in Containers, CreateTxn(c, "PENDING", FALSE)
  PROVE  /\ CargoTypeOK'
         /\ cargo'[c].lifecycle = "CREATED"
         /\ \A d \in Containers \ {c} : cargo'[d] = cargo[d]
<1>1. PICK new : new = [present |-> TRUE, lifecycle |-> "CREATED", customs |-> "PENDING",
                        released |-> FALSE, yard |-> FALSE]
  OBVIOUS
<1>2. new \in Row /\ new.lifecycle = "CREATED"
  BY <1>1, Zenon DEF Row, Lifecycles, ImportStates, CustomsStates
<1>3. [old |-> "NONE", new |-> "CREATED"] \in AuditRow
  BY DEF AuditRow, Lifecycles, ImportStates
<1>4. cargo' = [cargo EXCEPT ![c] = new]
  BY <1>1 DEF CreateTxn
<1>5. audit' = [audit EXCEPT ![c] = [old |-> "NONE", new |-> "CREATED"]]
  BY DEF CreateTxn
<1>6. QED
  BY <1>2, <1>3, <1>4, <1>5 DEF CargoTypeOK

LEMMA DeleteType ==
  ASSUME CargoTypeOK, NEW c \in Containers, DeleteTxn(c)
  PROVE  /\ CargoTypeOK'
         /\ cargo'[c].lifecycle = "NULL"
         /\ \A d \in Containers \ {c} : cargo'[d] = cargo[d]
  BY AbsentRowType DEF CargoTypeOK, DeleteTxn

-----------------------------------------------------------------------------
(* Export bookings *)

LEMMA ExportRankFacts ==
  /\ \A s \in ExportSteps : ExportRank[s] \in 0 .. 60
  /\ ExportRank["LOADED"] = 60 /\ "LOADED" \in ExportSteps /\ "BOOKED" \in ExportSteps
  /\ \A s \in ExportSteps : CargoState[s] \in ExportCargoStates
  /\ "none" \notin ExportSteps /\ "free" \notin BookingStatuses
  /\ "CANCELLED" \notin ExportSteps
  /\ {"FORM13_ISSUED", "GATE_IN", "VGM_CAPTURED", "LEO_GRANTED", "LOAD_LISTED"}
       \subseteq ExportSteps
<1>1. ExportSteps = {"BOOKED", "FORM13_ISSUED", "GATE_IN", "VGM_CAPTURED", "LEO_GRANTED",
                     "LOAD_LISTED", "LOADED"}
  BY DEF ExportSteps, ExportRank
<1>2. QED
  BY <1>1 DEF ExportRank, CargoState, ExportCargoStates, BookingStatuses

(* A step comes from an open booking and goes up.                            *)
LEMMA PredecessorFacts ==
  ASSUME NEW t \in ExportSteps, NEW s \in Predecessors(t)
  PROVE  s \in ExportSteps \ {"LOADED"} /\ ExportRank[s] < ExportRank[t]
<1>1. s \in ExportSteps /\ ExportRank[s] < ExportRank[t]
  BY DEF Predecessors
<1>2. QED
  BY <1>1, ExportRankFacts

LEMMA ExportRecordFacts ==
  /\ NoBooking \notin Booking /\ NoBooking.status = "free" /\ NoBooking.container = NotNamed
  /\ \A r \in Booking : /\ r.status \in BookingStatuses
                        /\ r.container \in Containers \cup {NotNamed}
  /\ IdleExport.pc = "idle"
  /\ \A r \in ExportRequest :
       /\ r.pc \in {"create", "mirror"} /\ r.b \in Bookings
       /\ r.pc = "create" => r.c \in Containers \cup {NotNamed}
       /\ r.pc = "mirror" => r.c \in Containers /\ r.to \in ExportSteps
<1>1. NoBooking.status = "free" /\ NoBooking.container = NotNamed
  BY DEF NoBooking
<1>2. \A r \in Booking : /\ r.status \in BookingStatuses
                         /\ r.container \in Containers \cup {NotNamed}
  BY DEF Booking
<1>3. QED
  BY <1>1, <1>2, ExportRankFacts DEF IdleExport, ExportRequest

(* A booking that was made has an event row, and an open one is where its    *)
(* event log says.                                                           *)
EventsFollow == \A b \in Bookings :
  /\ booking[b] = NoBooking <=> reached[b] = "none"
  /\ booking[b].status \in ExportSteps => reached[b] = booking[b].status

(* What a request is about to mirror its booking has reached.                *)
MirrorsAreDue == \A x \in ExportRequests :
  exportReq[x].pc = "mirror" =>
    LET b == exportReq[x].b IN
      /\ booking[b].container = exportReq[x].c
      /\ reached[b] # "none" /\ ExportRank[exportReq[x].to] <= ExportRank[reached[b]]

ExportInv == ExportTypeOK /\ EventsFollow /\ MirrorsAreDue

(* The booking an INSERT or a step writes, and the request that made it.     *)
BookingWritten(b, old, new) ==
  /\ booking[b] = old /\ new \in Booking /\ new.status \in ExportSteps
  /\ booking' = [booking EXCEPT ![b] = new]
  /\ reached' = [reached EXCEPT ![b] = new.status]
  /\ old # NoBooking => new.container = old.container
  /\ old # NoBooking => reached[b] # "none" /\ ExportRank[reached[b]] < ExportRank[new.status]

LEMMA StepWrites ==
  ASSUME ExportInv, NEW x \in ExportRequests, NEW b \in Bookings, NEW to \in ExportSteps,
         ExportStep(x, b, to)
  PROVE  /\ \E new : /\ BookingWritten(b, booking[b], new)
                     /\ new.status = to /\ GoesOnToMirror(x, b, new.container, to)
         /\ IsOpen(b) /\ UNCHANGED cargoVars
<1>1. booking[b].status \in ExportSteps \ {"LOADED"}
      /\ ExportRank[booking[b].status] < ExportRank[to]
  BY PredecessorFacts DEF ExportStep
<1>2. booking[b] \in Booking /\ booking[b] # NoBooking
  BY <1>1, ExportRecordFacts, ExportRankFacts DEF ExportInv, ExportTypeOK, BookingStatuses
<1>3. PICK new \in Booking : new = [booking[b] EXCEPT !.status = to]
  BY <1>2 DEF Booking, BookingStatuses
<1>4. new.status = to /\ new.container = booking[b].container
  BY <1>2, <1>3 DEF Booking
<1>5. /\ booking' = [booking EXCEPT ![b] = new] /\ reached' = [reached EXCEPT ![b] = new.status]
      /\ GoesOnToMirror(x, b, new.container, to) /\ UNCHANGED cargoVars
  BY <1>3, <1>4 DEF ExportStep
<1>6. reached[b] = booking[b].status /\ reached[b] # "none"
  BY <1>1, <1>2 DEF ExportInv, EventsFollow
<1>7. BookingWritten(b, booking[b], new) /\ IsOpen(b)
  BY <1>1, <1>4, <1>5, <1>6 DEF BookingWritten, IsOpen
<1>8. QED
  BY <1>4, <1>5, <1>7

LEMMA BookWrites ==
  ASSUME ExportInv, NEW x \in ExportRequests, BookCreate(x)
  PROVE  /\ exportReq[x].b \in Bookings /\ exportReq[x].c \in Containers \cup {NotNamed}
         /\ IndexesHold(exportReq[x].b, exportReq[x].c)
         /\ \E new : /\ BookingWritten(exportReq[x].b, NoBooking, new)
                     /\ new.status = "BOOKED" /\ new.container = exportReq[x].c
                     /\ GoesOnToMirror(x, exportReq[x].b, new.container, "BOOKED")
         /\ UNCHANGED cargoVars
<1> DEFINE b == exportReq[x].b
           c == exportReq[x].c
<1>1. b \in Bookings /\ c \in Containers \cup {NotNamed} /\ IndexesHold(b, c)
  BY ExportRecordFacts DEF BookCreate, ExportInv, ExportTypeOK
<1>2. booking[b] = NoBooking
  BY <1>1 DEF IndexesHold
<1>3. PICK new : new = [status |-> "BOOKED", container |-> c]
  OBVIOUS
<1>4. new \in Booking /\ new.status = "BOOKED" /\ new.container = c
  BY <1>1, <1>3, ExportRankFacts DEF Booking, BookingStatuses
<1>5. /\ booking' = [booking EXCEPT ![b] = new] /\ reached' = [reached EXCEPT ![b] = "BOOKED"]
      /\ GoesOnToMirror(x, b, c, "BOOKED") /\ UNCHANGED cargoVars
  BY <1>3 DEF BookCreate
<1>6. BookingWritten(b, NoBooking, new)
  BY <1>2, <1>4, <1>5, ExportRankFacts DEF BookingWritten
<1>7. QED
  BY <1>1, <1>4, <1>5, <1>6

(* Such a write, with the request that goes on to mirror it, keeps ExportInv *)
(* and moves no event log back.                                              *)
LEMMA WriteKeepsInv ==
  ASSUME ExportInv, NEW x \in ExportRequests, NEW b \in Bookings, NEW old, NEW new,
         BookingWritten(b, old, new), GoesOnToMirror(x, b, new.container, new.status),
         UNCHANGED cargoVars
  PROVE  ExportInv'
<1>1. /\ booking'[b] = new /\ reached'[b] = new.status
      /\ \A d \in Bookings \ {b} : booking'[d] = booking[d] /\ reached'[d] = reached[d]
      /\ booking' \in [Bookings -> Booking \cup {NoBooking}]
      /\ reached' \in [Bookings -> ExportSteps \cup {"none"}]
  BY DEF BookingWritten, ExportInv, ExportTypeOK
<1>2. new # NoBooking /\ new.status # "none" /\ new.container \in Containers \cup {NotNamed}
      /\ new.status \in ExportSteps
  BY ExportRecordFacts, ExportRankFacts DEF BookingWritten
<1>3. EventsFollow'
  BY <1>1, <1>2 DEF ExportInv, EventsFollow
<1>4. PICK due : due = [pc |-> "mirror", b |-> b, c |-> new.container, to |-> new.status]
  OBVIOUS
<1>5. due.pc = "mirror" /\ due.b = b /\ due.c = new.container /\ due.to = new.status
  BY <1>4
<1>6. new.container # NotNamed => due \in ExportRequest
  BY <1>2, <1>4 DEF ExportRequest
<1>7. exportReq' = [exportReq EXCEPT ![x] = IF new.container = NotNamed THEN IdleExport ELSE due]
  BY <1>4 DEF GoesOnToMirror
<1>8. exportReq' \in [ExportRequests -> ExportRequest \cup {IdleExport}]
  BY <1>6, <1>7 DEF ExportInv, ExportTypeOK
<1>9. ASSUME NEW y \in ExportRequests, exportReq'[y].pc = "mirror"
      PROVE  /\ booking'[exportReq'[y].b].container = exportReq'[y].c
             /\ reached'[exportReq'[y].b] # "none"
             /\ ExportRank[exportReq'[y].to] <= ExportRank[reached'[exportReq'[y].b]]
  <2>1. CASE y = x
    <3>1. exportReq'[y] = due
      BY <1>7, <1>9, <2>1, ExportRecordFacts DEF ExportInv, ExportTypeOK
    <3>2. QED
      BY <3>1, <1>1, <1>2, <1>5, ExportRankFacts
  <2>2. CASE y # x
    <3>1. exportReq'[y] = exportReq[y] /\ exportReq[y].b \in Bookings
          /\ exportReq[y].to \in ExportSteps
      BY <1>7, <1>9, <2>2, ExportRecordFacts DEF ExportInv, ExportTypeOK
    <3>2. /\ booking[exportReq[y].b].container = exportReq[y].c
          /\ reached[exportReq[y].b] # "none"
          /\ ExportRank[exportReq[y].to] <= ExportRank[reached[exportReq[y].b]]
      BY <3>1, <1>9 DEF ExportInv, MirrorsAreDue
    <3>3. CASE exportReq[y].b # b
      BY <3>1, <3>2, <3>3, <1>1
    <3>4. CASE exportReq[y].b = b
      <4>1. old # NoBooking /\ booking[b] = old /\ reached[b] \in ExportSteps
        BY <3>2, <3>4 DEF BookingWritten, ExportInv, EventsFollow, ExportTypeOK
      <4>2. new.container = old.container /\ ExportRank[reached[b]] < ExportRank[new.status]
        BY <4>1 DEF BookingWritten
      <4>3. ExportRank[exportReq[y].to] <= ExportRank[new.status]
        <5>1. \A s \in ExportSteps : ExportRank[s] \in Int
          BY ExportRankFacts
        <5>2. ExportRank[exportReq[y].to] <= ExportRank[reached[b]]
          BY <3>2, <3>4
        <5>3. \A i, j, k \in Int : i <= j /\ j < k => i <= k
          OBVIOUS
        <5>4. ExportRank[exportReq[y].to] \in Int /\ ExportRank[reached[b]] \in Int
              /\ ExportRank[new.status] \in Int
          BY <5>1, <4>1, <3>1, <1>2
        <5>5. QED
          BY <5>2, <5>3, <5>4, <4>2
      <4>4. /\ booking'[b].container = exportReq[y].c /\ reached'[b] # "none"
            /\ ExportRank[exportReq[y].to] <= ExportRank[reached'[b]]
        BY <3>2, <3>4, <4>1, <4>2, <4>3, <1>1, <1>2
      <4>5. QED
        BY <3>1, <3>4, <4>4
    <3>5. QED
      BY <3>3, <3>4
  <2>3. QED
    BY <2>1, <2>2
<1>10. MirrorsAreDue'
  BY <1>9 DEF MirrorsAreDue
<1>11. CargoTypeOK'
  BY DEF ExportInv, ExportTypeOK, CargoTypeOK, cargoVars
<1>12. QED
  BY <1>1, <1>3, <1>8, <1>10, <1>11 DEF ExportInv, ExportTypeOK

(* A mirror writes a state its booking has reached, on the row of that       *)
(* booking's container.                                                      *)
LEMMA MirrorWrites ==
  ASSUME ExportInv, NEW x \in ExportRequests, Mirror(x)
  PROVE  /\ ExportInv'
         /\ exportReq[x].c \in Containers /\ exportReq[x].to \in ExportSteps
         /\ cargo'[exportReq[x].c].lifecycle = CargoState[exportReq[x].to]
         /\ \A d \in Containers \ {exportReq[x].c} : cargo'[d] = cargo[d]
         /\ UNCHANGED <<booking, reached>>
<1> DEFINE c == exportReq[x].c
           s == CargoState[exportReq[x].to]
<1>1. c \in Containers /\ exportReq[x].to \in ExportSteps /\ exportReq[x].pc = "mirror"
  BY ExportRecordFacts DEF Mirror, ExportInv, ExportTypeOK
<1>2. s \in Lifecycles
  BY <1>1, ExportRankFacts DEF Lifecycles
<1>3. cargo[c] \in Row
  BY <1>1 DEF ExportInv, ExportTypeOK, CargoTypeOK
<1>4. PICK row : row = IF cargo[c].present THEN [cargo[c] EXCEPT !.lifecycle = s]
                       ELSE [AbsentRow EXCEPT !.present = TRUE, !.lifecycle = s]
  OBVIOUS
<1>5. row \in Row /\ row.lifecycle = s
  BY <1>2, <1>3, <1>4, AbsentRowType DEF Row
<1>6. cargo' = [cargo EXCEPT ![c] = row]
  BY <1>4 DEF Mirror, UpsertCargo
<1>7. /\ exportReq' = [exportReq EXCEPT ![x] = IdleExport] /\ UNCHANGED <<audit, booking, reached>>
  BY DEF Mirror
<1>8. CargoTypeOK' /\ cargo'[c].lifecycle = s /\ \A d \in Containers \ {c} : cargo'[d] = cargo[d]
  BY <1>1, <1>5, <1>6, <1>7 DEF ExportInv, ExportTypeOK, CargoTypeOK
<1>9. EventsFollow' /\ MirrorsAreDue'
  BY <1>7, ExportRecordFacts DEF ExportInv, ExportTypeOK, EventsFollow, MirrorsAreDue
<1>10. QED
  BY <1>1, <1>7, <1>8, <1>9 DEF ExportInv, ExportTypeOK

(* What a step of the service may do.                                        *)
LEMMA ExportShapes ==
  ASSUME ExportInv, ExportNext
  PROVE  \/ UNCHANGED <<cargoVars, booking, reached>> /\ ExportInv'
         \/ \E x \in ExportRequests : BookCreate(x)
         \/ \E x \in ExportRequests, b \in Bookings, to \in ExportSteps : ExportStep(x, b, to)
         \/ \E b \in Bookings : CancelBooking(b)
         \/ \E x \in ExportRequests : Mirror(x)
         \/ \E c \in Containers : CargoRegisteredElsewhere(c)
<1>1. ASSUME NEW x \in ExportRequests, NEW r \in ExportRequest \cup {IdleExport}, r.pc # "mirror",
             exportReq' = [exportReq EXCEPT ![x] = r], UNCHANGED <<cargo, audit, booking, reached>>
      PROVE  UNCHANGED <<cargoVars, booking, reached>> /\ ExportInv'
  <2>1. MirrorsAreDue'
    BY <1>1 DEF ExportInv, ExportTypeOK, MirrorsAreDue
  <2>2. QED
    BY <1>1, <2>1 DEF ExportInv, ExportTypeOK, CargoTypeOK, EventsFollow, cargoVars
<1>2. ASSUME NEW x \in ExportRequests, NEW b \in Bookings, NEW c \in Containers \cup {NotNamed},
             BookCheck(x, b, c)
      PROVE  UNCHANGED <<cargoVars, booking, reached>> /\ ExportInv'
  <2>1. PICK r : r = [pc |-> "create", b |-> b, c |-> c]
    OBVIOUS
  <2>2. r \in ExportRequest /\ r.pc # "mirror"
    BY <2>1 DEF ExportRequest
  <2>3. exportReq' = [exportReq EXCEPT ![x] = r] /\ UNCHANGED <<cargo, audit, booking, reached>>
    BY <1>2, <2>1 DEF BookCheck
  <2>4. QED
    BY <1>1, <2>2, <2>3
<1>3. ASSUME NEW x \in ExportRequests, BookRefused(x) \/ ExportCrash(x)
      PROVE  UNCHANGED <<cargoVars, booking, reached>> /\ ExportInv'
  <2>1. exportReq' = [exportReq EXCEPT ![x] = IdleExport]
        /\ UNCHANGED <<cargo, audit, booking, reached>>
    BY <1>3 DEF BookRefused, ExportCrash
  <2>2. QED
    BY <1>1, <2>1, ExportRecordFacts
<1>4. ASSUME NEW x \in ExportRequests, NEW b \in Bookings,
             \/ IssueForm13(x, b) \/ GateIn(x, b) \/ CaptureVgm(x, b)
             \/ GrantLeo(x, b) \/ AddToLoadList(x, b) \/ ConfirmLoaded(x, b)
      PROVE  \E to \in ExportSteps : ExportStep(x, b, to)
  BY <1>4, ExportRankFacts DEF IssueForm13, GateIn, CaptureVgm, GrantLeo, AddToLoadList, ConfirmLoaded
<1>5. MortalExports \subseteq ExportRequests
  BY ExportAssumption
<1>6. CASE ExportServiceStep
  BY <1>6, <1>2, <1>3, <1>4 DEF ExportServiceStep
<1>7. CASE \E x \in MortalExports : ExportCrash(x)
  BY <1>7, <1>3, <1>5
<1>8. QED
  BY <1>6, <1>7 DEF ExportNext

LEMMA CancelWrites ==
  ASSUME ExportInv, NEW b \in Bookings, CancelBooking(b)
  PROVE  /\ ExportInv' /\ UNCHANGED <<cargoVars, reached>>
         /\ booking'[b].container = booking[b].container /\ booking'[b].status = "CANCELLED"
         /\ \A d \in Bookings \ {b} : booking'[d] = booking[d]
<1>1. booking[b] \in Booking /\ booking[b] # NoBooking
  BY ExportRecordFacts, ExportRankFacts DEF CancelBooking, ExportInv, ExportTypeOK, BookingStatuses
<1>2. PICK new \in Booking : new = [booking[b] EXCEPT !.status = "CANCELLED"]
  BY <1>1 DEF Booking, BookingStatuses
<1>3. new.status = "CANCELLED" /\ new.container = booking[b].container /\ new # NoBooking
  BY <1>1, <1>2, ExportRecordFacts DEF Booking
<1>4. booking' = [booking EXCEPT ![b] = new] /\ UNCHANGED <<cargo, audit, reached, exportReq>>
  BY <1>2 DEF CancelBooking
<1>5. EventsFollow'
  BY <1>1, <1>3, <1>4, ExportRankFacts DEF ExportInv, ExportTypeOK, EventsFollow
<1>6. ASSUME NEW d \in Bookings PROVE booking'[d].container = booking[d].container
  BY <1>3, <1>4 DEF ExportInv, ExportTypeOK
<1>7. MirrorsAreDue'
  BY <1>4, <1>6, ExportRecordFacts DEF ExportInv, ExportTypeOK, MirrorsAreDue
<1>8. QED
  BY <1>2, <1>3, <1>4, <1>5, <1>7
     DEF ExportInv, ExportTypeOK, CargoTypeOK, cargoVars

LEMMA RegisteredWrites ==
  ASSUME ExportInv, NEW c \in Containers, CargoRegisteredElsewhere(c)
  PROVE  /\ ExportInv' /\ UNCHANGED <<booking, reached>>
         /\ cargo'[c].lifecycle \in {"CREATED", "NULL"}
         /\ \A d \in Containers \ {c} : cargo'[d] = cargo[d]
<1>1. /\ CargoTypeOK' /\ cargo'[c].lifecycle \in {"CREATED", "NULL"}
      /\ \A d \in Containers \ {c} : cargo'[d] = cargo[d]
  BY CreateType, DeleteType DEF CargoRegisteredElsewhere, ExportInv, ExportTypeOK
<1>2. UNCHANGED <<booking, reached, exportReq>>
  BY DEF CargoRegisteredElsewhere
<1>3. QED
  BY <1>1, <1>2 DEF ExportInv, ExportTypeOK, EventsFollow, MirrorsAreDue

LEMMA ExportInductive == ASSUME ExportInv, ExportNext PROVE ExportInv'
<1>1. ASSUME NEW x \in ExportRequests, BookCreate(x) PROVE ExportInv'
  <2>1. PICK new : /\ BookingWritten(exportReq[x].b, NoBooking, new) /\ new.status = "BOOKED"
                   /\ GoesOnToMirror(x, exportReq[x].b, new.container, "BOOKED")
    BY <1>1, BookWrites
  <2>2. QED
    BY <1>1, <2>1, BookWrites, WriteKeepsInv
<1>2. ASSUME NEW x \in ExportRequests, NEW b \in Bookings, NEW to \in ExportSteps,
             ExportStep(x, b, to)
      PROVE  ExportInv'
  <2>1. PICK new : /\ BookingWritten(b, booking[b], new) /\ new.status = to
                   /\ GoesOnToMirror(x, b, new.container, to)
    BY <1>2, StepWrites
  <2>2. UNCHANGED cargoVars
    BY <1>2, StepWrites
  <2>3. QED
    BY <2>1, <2>2, WriteKeepsInv
<1>3. QED
  BY <1>1, <1>2, ExportShapes, CancelWrites, MirrorWrites, RegisteredWrites

LEMMA ExportInvariant == ExportSpec => []ExportInv
<1>1. ExportInit => ExportInv
  <2>1. ASSUME ExportInit PROVE ExportInv
    <3>1. CargoTypeOK
      BY <2>1, CargoInitType DEF ExportInit
    <3>2. EventsFollow /\ MirrorsAreDue
      BY <2>1, ExportRecordFacts, ExportRankFacts
         DEF ExportInit, EventsFollow, MirrorsAreDue, BookingStatuses
    <3>3. QED
      BY <2>1, <3>1, <3>2 DEF ExportInit, ExportInv, ExportTypeOK
  <2>2. QED
    BY <2>1
<1>2. ExportInv /\ UNCHANGED exportVars => ExportInv'
  BY DEF ExportInv, ExportTypeOK, CargoTypeOK, EventsFollow, MirrorsAreDue, exportVars
<1>3. QED
  BY <1>1, <1>2, ExportInductive, PTL DEF ExportSpec

(* Export bookings, their events and the requests in flight are well typed   *)
(* in every state: ExportTypeOK.                                             *)
THEOREM ExportTypeCorrect == ExportSpec => []ExportTypeOK
  BY ExportInvariant, PTL DEF ExportInv

(* However bookings race for it, a container is on at most one open booking: *)
(* OneOpenBookingPerContainer.  Only an INSERT opens a booking, and its      *)
(* partial unique index is looked at in the same statement.                  *)
THEOREM BookingsAreExclusive == ExportSpec => []OneOpenBookingPerContainer
<1>1. ExportInit => OneOpenBookingPerContainer
  BY ExportRecordFacts, ExportRankFacts
     DEF ExportInit, OneOpenBookingPerContainer, IsOpen, BookingStatuses
<1>2. ASSUME ExportInv, OneOpenBookingPerContainer, ExportNext
      PROVE  OneOpenBookingPerContainer'
  <2>1. ASSUME \A d \in Bookings : IsOpen(d)' => IsOpen(d),
               \A d \in Bookings : IsOpen(d) => booking'[d].container = booking[d].container
        PROVE  OneOpenBookingPerContainer'
    BY <1>2, <2>1 DEF OneOpenBookingPerContainer
  <2>2. CASE UNCHANGED booking
    BY <1>2, <2>2 DEF OneOpenBookingPerContainer, IsOpen
  <2>3. ASSUME NEW b \in Bookings, CancelBooking(b)
        PROVE  OneOpenBookingPerContainer'
    <3>1. \A d \in Bookings : IsOpen(d)' => IsOpen(d)
      BY <1>2, <2>3, CancelWrites, ExportRankFacts DEF IsOpen
    <3>2. \A d \in Bookings : booking'[d].container = booking[d].container
      BY <1>2, <2>3, CancelWrites
    <3>3. QED
      BY <2>1, <3>1, <3>2
  <2>4. ASSUME NEW x \in ExportRequests, NEW b \in Bookings, NEW to \in ExportSteps,
               ExportStep(x, b, to)
        PROVE  OneOpenBookingPerContainer'
    <3>1. PICK new : BookingWritten(b, booking[b], new)
      BY <1>2, <2>4, StepWrites
    <3>2. booking[b] # NoBooking /\ IsOpen(b)
      BY <1>2, <2>4, StepWrites, ExportRecordFacts, ExportRankFacts DEF IsOpen, BookingStatuses
    <3>3. /\ booking'[b].container = booking[b].container
          /\ \A d \in Bookings \ {b} : booking'[d] = booking[d]
      BY <1>2, <3>1, <3>2 DEF BookingWritten, ExportInv, ExportTypeOK
    <3>4. QED
      BY <2>1, <3>2, <3>3 DEF IsOpen
  <2>5. ASSUME NEW x \in ExportRequests, BookCreate(x)
        PROVE  OneOpenBookingPerContainer'
    <3>1. PICK new : BookingWritten(exportReq[x].b, NoBooking, new)
                     /\ new.container = exportReq[x].c
      BY <1>2, <2>5, BookWrites
    <3>2. /\ exportReq[x].b \in Bookings
          /\ exportReq[x].c # NotNamed => NoOpenBooking(exportReq[x].c)
      BY <1>2, <2>5, BookWrites DEF IndexesHold
    <3>3. /\ booking'[exportReq[x].b].container = exportReq[x].c
          /\ \A d \in Bookings \ {exportReq[x].b} : booking'[d] = booking[d]
      BY <1>2, <3>1, <3>2 DEF BookingWritten, ExportInv, ExportTypeOK
    <3>4. ASSUME NEW d \in Bookings, NEW e \in Bookings, d # e, IsOpen(d)', IsOpen(e)',
                 booking'[d].container # NotNamed
          PROVE  booking'[d].container # booking'[e].container
      <4>1. CASE d = exportReq[x].b
        BY <4>1, <3>2, <3>3, <3>4 DEF NoOpenBooking, IsOpen
      <4>2. CASE e = exportReq[x].b
        BY <4>2, <3>2, <3>3, <3>4 DEF NoOpenBooking, IsOpen
      <4>3. CASE d # exportReq[x].b /\ e # exportReq[x].b
        BY <1>2, <4>3, <3>3, <3>4 DEF OneOpenBookingPerContainer, IsOpen
      <4>4. QED
        BY <4>1, <4>2, <4>3
    <3>5. QED
      BY <3>4 DEF OneOpenBookingPerContainer
  <2>6. QED
    BY <1>2, <2>2, <2>3, <2>4, <2>5, ExportShapes, MirrorWrites, RegisteredWrites
<1>3. OneOpenBookingPerContainer /\ UNCHANGED exportVars => OneOpenBookingPerContainer'
  BY DEF OneOpenBookingPerContainer, IsOpen, exportVars
<1>4. QED
  BY <1>1, <1>2, <1>3, ExportInvariant, PTL DEF ExportSpec

(* The refinement: an INSERT claims the container, and what ends a booking   *)
(* gives it up.                                                              *)
LEMMA BookingStepClaims ==
  ASSUME ExportInv, ExportNext
  PROVE  [BookingRegister!ClaimNext]_(BookingRegister!claimVars)
<1> DEFINE st == [b \in Bookings |-> BookingStage(b)]
           cl == [b \in Bookings |-> IF IsOpen(b) THEN {booking[b].container} \ {NotNamed} ELSE {}]
<1>1. CASE UNCHANGED booking
  BY <1>1 DEF BookingRegister!claimVars, BookingStage, IsOpen
<1>2. ASSUME NEW b \in Bookings, \A d \in Bookings \ {b} : booking'[d] = booking[d]
      PROVE  /\ st' = [st EXCEPT ![b] = BookingStage(b)']
             /\ cl' = [cl EXCEPT ![b] =
                         IF IsOpen(b)' THEN {booking'[b].container} \ {NotNamed} ELSE {}]
  <2>1. \A d \in Bookings \ {b} : BookingStage(d)' = BookingStage(d) /\ (IsOpen(d)' <=> IsOpen(d))
    BY <1>2 DEF BookingStage, IsOpen
  <2>2. QED
    BY <1>2, <2>1
<1>3. ASSUME NEW b \in Bookings, IsOpen(b), booking[b] # NoBooking, booking'[b] # NoBooking,
             booking'[b].container = booking[b].container,
             \A d \in Bookings \ {b} : booking'[d] = booking[d]
      PROVE  [BookingRegister!ClaimNext]_(BookingRegister!claimVars)
  <2>1. st[b] = "holding"
    BY <1>3 DEF BookingStage
  <2>2. CASE IsOpen(b)'
    <3>1. st' = [st EXCEPT ![b] = st[b]] /\ cl' = [cl EXCEPT ![b] = cl[b]]
      BY <1>2, <1>3, <2>1, <2>2 DEF BookingStage
    <3>2. \A f : f = [d \in Bookings |-> f[d]] => [f EXCEPT ![b] = f[b]] = f
      OBVIOUS
    <3>3. st' = st /\ cl' = cl
      BY <3>1, <3>2
    <3>4. QED
      BY <3>3 DEF BookingRegister!claimVars
  <2>3. CASE ~ IsOpen(b)'
    <3>1. st' = [st EXCEPT ![b] = "done"] /\ cl' = [cl EXCEPT ![b] = {}]
      BY <1>2, <1>3, <2>3 DEF BookingStage
    <3>2. BookingRegister!GiveUp(b)
      BY <2>1, <3>1 DEF BookingRegister!GiveUp
    <3>3. QED
      BY <3>2 DEF BookingRegister!ClaimNext
  <2>4. QED
    BY <2>2, <2>3
<1>4. ASSUME NEW b \in Bookings, CancelBooking(b)
      PROVE  [BookingRegister!ClaimNext]_(BookingRegister!claimVars)
  <2>1. /\ booking'[b].container = booking[b].container /\ booking'[b].status = "CANCELLED"
        /\ \A d \in Bookings \ {b} : booking'[d] = booking[d]
    BY <1>4, CancelWrites
  <2>2. IsOpen(b) /\ booking[b] # NoBooking /\ booking'[b] # NoBooking
    BY <1>4, <2>1, ExportRecordFacts, ExportRankFacts DEF CancelBooking, IsOpen, BookingStatuses
  <2>3. QED
    BY <1>3, <2>1, <2>2
<1>5. ASSUME NEW x \in ExportRequests, NEW b \in Bookings, NEW to \in ExportSteps,
             ExportStep(x, b, to)
      PROVE  [BookingRegister!ClaimNext]_(BookingRegister!claimVars)
  <2>1. PICK new : BookingWritten(b, booking[b], new)
    BY <1>5, StepWrites
  <2>2. IsOpen(b) /\ booking[b] # NoBooking
    BY <1>5, StepWrites, ExportRecordFacts, ExportRankFacts DEF IsOpen, BookingStatuses
  <2>3. /\ booking'[b] = new /\ new # NoBooking /\ booking'[b].container = booking[b].container
        /\ \A d \in Bookings \ {b} : booking'[d] = booking[d]
    BY <2>1, <2>2, ExportRecordFacts DEF BookingWritten, ExportInv, ExportTypeOK
  <2>4. QED
    BY <1>3, <2>2, <2>3
<1>6. ASSUME NEW x \in ExportRequests, BookCreate(x)
      PROVE  [BookingRegister!ClaimNext]_(BookingRegister!claimVars)
  <2>1. PICK b \in Bookings, c \in Containers \cup {NotNamed} :
          b = exportReq[x].b /\ c = exportReq[x].c
    BY <1>6, BookWrites
  <2>2. PICK new : BookingWritten(b, NoBooking, new) /\ new.status = "BOOKED" /\ new.container = c
    BY <1>6, <2>1, BookWrites
  <2>3. booking[b] = NoBooking /\ (c # NotNamed => NoOpenBooking(c))
    BY <1>6, <2>1, BookWrites DEF IndexesHold
  <2>4. /\ booking'[b] = new /\ new # NoBooking
        /\ \A d \in Bookings \ {b} : booking'[d] = booking[d]
    BY <2>1, <2>2, ExportRecordFacts DEF BookingWritten, ExportInv, ExportTypeOK
  <2>5. st[b] = "new" /\ BookingStage(b)' = "holding" /\ IsOpen(b)'
    BY <2>2, <2>3, <2>4, ExportRankFacts DEF BookingStage, IsOpen
  <2>6. st' = [st EXCEPT ![b] = "holding"] /\ cl' = [cl EXCEPT ![b] = {c} \ {NotNamed}]
    BY <1>2, <2>2, <2>4, <2>5
  <2>7. \A d \in Bookings : cl[d] \cap ({c} \ {NotNamed}) = {}
    BY <2>3 DEF NoOpenBooking
  <2>8. {c} \ {NotNamed} \in SUBSET Containers
    BY <2>1
  <2>9. BookingRegister!Claim(b)
    BY <2>5, <2>6, <2>7, <2>8 DEF BookingRegister!Claim, BookingRegister!Unclaimed
  <2>10. QED
    BY <2>9 DEF BookingRegister!ClaimNext
<1>7. QED
  BY <1>1, <1>4, <1>5, <1>6, ExportShapes, MirrorWrites, RegisteredWrites

(* The bookings are a register of exclusive claims                           *)
(* (ImplementsBookingRegister): a booking has its container to itself from   *)
(* the insert to the load or the cancellation, and is never opened again.    *)
THEOREM BookingsImplementTheRegister == ExportSpec => ImplementsBookingRegister
<1>1. ExportInit => BookingRegister!ClaimInit
  BY ExportRecordFacts, ExportRankFacts
     DEF ExportInit, BookingRegister!ClaimInit, BookingStage, IsOpen, BookingStatuses
<1>2. ExportInv /\ [ExportNext]_exportVars
        => [BookingRegister!ClaimNext]_(BookingRegister!claimVars)
  <2>1. ASSUME UNCHANGED exportVars PROVE UNCHANGED BookingRegister!claimVars
    BY <2>1 DEF exportVars, BookingRegister!claimVars, BookingStage, IsOpen
  <2>2. QED
    BY <2>1, BookingStepClaims
<1>3. QED
  BY <1>1, <1>2, ExportInvariant, PTL
     DEF ExportSpec, ImplementsBookingRegister, BookingRegister!ClaimSpec

(* The cargo row shows no export state that no booking of its container has  *)
(* reached, whichever mirrors are late, lost or out of order:                *)
(* MirrorNeverAhead.  A mirror in flight is due, and event logs only grow.   *)
THEOREM MirrorsStayBehind == ExportSpec => []MirrorNeverAhead
<1> DEFINE Reaches(b, s, c) ==
             /\ booking[b].container = c /\ CargoState[s] = cargo[c].lifecycle
             /\ reached[b] # "none" /\ ExportRank[s] <= ExportRank[reached[b]]
<1>1. ExportInit => MirrorNeverAhead
  <2>1. "NULL" \notin ExportCargoStates
    BY DEF ExportCargoStates
  <2>2. QED
    BY <2>1, CargoInitType DEF ExportInit, MirrorNeverAhead
<1>2. ASSUME ExportInv, MirrorNeverAhead, ExportNext
      PROVE  MirrorNeverAhead'
  <2>1. ASSUME UNCHANGED cargo,
               \A b \in Bookings : reached[b] # "none" =>
                 /\ booking'[b].container = booking[b].container
                 /\ reached'[b] \in ExportSteps
                 /\ ExportRank[reached[b]] <= ExportRank[reached'[b]]
        PROVE  MirrorNeverAhead'
    <3>1. ASSUME NEW c \in Containers, NEW b \in Bookings, NEW s \in ExportSteps,
                 Reaches(b, s, c)
          PROVE  Reaches(b, s, c)'
      <4>1. reached[b] \in ExportSteps /\ reached'[b] \in ExportSteps
        BY <1>2, <2>1, <3>1 DEF ExportInv, ExportTypeOK
      <4>2. /\ ExportRank[s] \in Int /\ ExportRank[reached[b]] \in Int
            /\ ExportRank[reached'[b]] \in Int
        BY <4>1, ExportRankFacts
      <4>3. \A i, j, k \in Int : i <= j /\ j <= k => i <= k
        OBVIOUS
      <4>4. ExportRank[s] <= ExportRank[reached'[b]]
        BY <2>1, <3>1, <4>2, <4>3
      <4>5. QED
        BY <2>1, <3>1, <4>1, <4>4, ExportRankFacts
    <3>2. QED
      BY <1>2, <2>1, <3>1 DEF MirrorNeverAhead
  <2>2. ASSUME UNCHANGED <<cargo, reached>>,
               \A b \in Bookings : booking'[b].container = booking[b].container
        PROVE  MirrorNeverAhead'
    <3>1. \A b \in Bookings : reached[b] # "none" =>
            /\ reached[b] \in ExportSteps
            /\ ExportRank[reached[b]] <= ExportRank[reached[b]]
      BY <1>2, ExportRankFacts DEF ExportInv, ExportTypeOK
    <3>2. QED
      BY <2>1, <2>2, <3>1
  <2>3. ASSUME NEW b \in Bookings, NEW old, NEW new, BookingWritten(b, old, new),
               UNCHANGED cargo
        PROVE  MirrorNeverAhead'
    <3>1. /\ booking'[b] = new /\ reached'[b] = new.status /\ new.status \in ExportSteps
          /\ \A d \in Bookings \ {b} : booking'[d] = booking[d] /\ reached'[d] = reached[d]
      BY <1>2, <2>3 DEF BookingWritten, ExportInv, ExportTypeOK
    <3>2. reached[b] # "none" =>
            /\ booking'[b].container = booking[b].container
            /\ ExportRank[reached[b]] <= ExportRank[reached'[b]]
      <4>1. SUFFICES ASSUME reached[b] # "none"
                     PROVE  /\ new.container = booking[b].container
                            /\ ExportRank[reached[b]] <= ExportRank[new.status]
        BY <3>1
      <4>2. old # NoBooking /\ booking[b] = old /\ reached[b] \in ExportSteps
        BY <1>2, <2>3, <4>1 DEF BookingWritten, ExportInv, EventsFollow, ExportTypeOK
      <4>3. new.container = old.container /\ ExportRank[reached[b]] < ExportRank[new.status]
        BY <2>3, <4>2 DEF BookingWritten
      <4>4. ExportRank[reached[b]] \in Int /\ ExportRank[new.status] \in Int
        BY <3>1, <4>2, ExportRankFacts
      <4>5. QED
        BY <4>2, <4>3, <4>4
    <3>3. ASSUME NEW d \in Bookings, reached[d] # "none"
          PROVE  /\ booking'[d].container = booking[d].container
                 /\ reached'[d] \in ExportSteps
                 /\ ExportRank[reached[d]] <= ExportRank[reached'[d]]
      <4>1. CASE d = b
        BY <4>1, <3>1, <3>2, <3>3
      <4>2. CASE d # b
        <5>1. reached'[d] = reached[d] /\ booking'[d] = booking[d] /\ reached[d] \in ExportSteps
          BY <1>2, <4>2, <3>1, <3>3 DEF ExportInv, ExportTypeOK
        <5>2. QED
          BY <5>1, ExportRankFacts
      <4>3. QED
        BY <4>1, <4>2
    <3>4. QED
      BY <2>1, <2>3, <3>3
  <2>4. ASSUME NEW x \in ExportRequests, Mirror(x)
        PROVE  MirrorNeverAhead'
    <3>1. exportReq[x].pc = "mirror" /\ exportReq[x].b \in Bookings
      BY <1>2, <2>4, ExportRecordFacts DEF Mirror, ExportInv, ExportTypeOK
    <3>2. PICK b \in Bookings, c \in Containers, s \in ExportSteps :
            b = exportReq[x].b /\ c = exportReq[x].c /\ s = exportReq[x].to
      BY <1>2, <2>4, <3>1, MirrorWrites
    <3>3. /\ cargo'[c].lifecycle = CargoState[s] /\ UNCHANGED <<booking, reached>>
          /\ \A d \in Containers \ {c} : cargo'[d] = cargo[d]
      BY <1>2, <2>4, <3>2, MirrorWrites
    <3>4. /\ booking[b].container = c /\ reached[b] # "none"
          /\ ExportRank[s] <= ExportRank[reached[b]]
      BY <1>2, <3>1, <3>2 DEF ExportInv, MirrorsAreDue
    <3>5. Reaches(b, s, c)'
      BY <3>3, <3>4
    <3>6. ASSUME NEW d \in Containers \ {c}, cargo'[d].lifecycle \in ExportCargoStates
          PROVE  \E e \in Bookings, t \in ExportSteps : Reaches(e, t, d)'
      <4>1. PICK e \in Bookings, t \in ExportSteps : Reaches(e, t, d)
        BY <1>2, <3>3, <3>6 DEF MirrorNeverAhead
      <4>2. Reaches(e, t, d)'
        BY <3>3, <4>1
      <4>3. QED
        BY <4>2
    <3>7. QED
      BY <3>5, <3>6 DEF MirrorNeverAhead
  <2>5. ASSUME NEW c \in Containers, CargoRegisteredElsewhere(c)
        PROVE  MirrorNeverAhead'
    <3>1. "CREATED" \notin ExportCargoStates /\ "NULL" \notin ExportCargoStates
      BY DEF ExportCargoStates
    <3>2. QED
      BY <1>2, <2>5, <3>1, RegisteredWrites DEF MirrorNeverAhead
  <2>6. CASE UNCHANGED <<cargoVars, booking, reached>>
    BY <2>2, <2>6 DEF cargoVars
  <2>7. ASSUME NEW b \in Bookings, CancelBooking(b) PROVE MirrorNeverAhead'
    BY <1>2, <2>2, <2>7, CancelWrites DEF cargoVars
  <2>8. ASSUME NEW x \in ExportRequests, BookCreate(x) PROVE MirrorNeverAhead'
    BY <1>2, <2>3, <2>8, BookWrites DEF cargoVars
  <2>9. ASSUME NEW x \in ExportRequests, NEW b \in Bookings, NEW to \in ExportSteps,
               ExportStep(x, b, to)
        PROVE  MirrorNeverAhead'
    BY <1>2, <2>3, <2>9, StepWrites DEF cargoVars
  <2>10. QED
    BY <1>2, <2>4, <2>5, <2>6, <2>7, <2>8, <2>9, ExportShapes
<1>3. MirrorNeverAhead /\ UNCHANGED exportVars => MirrorNeverAhead'
  BY DEF MirrorNeverAhead, exportVars
<1>4. QED
  BY <1>1, <1>2, <1>3, ExportInvariant, PTL DEF ExportSpec

-----------------------------------------------------------------------------
(* The customs writers of core.cargo *)

LEMMA CustomsRecordFacts ==
  /\ IdleCustoms.pc = "idle"
  /\ \A r \in CustomsRequest :
       /\ r.pc \in {"import", "persist", "reconcile", "inspect", "reflect"}
       /\ r.pc = "import" => r \in [pc : {"import"}, origin : Origins,
                                    todo : SUBSET Files, fresh : BOOLEAN]
       /\ r.pc = "persist" => r \in [pc : {"persist"}, origin : Origins,
                                     todo : SUBSET Files, fresh : BOOLEAN, f : Files]
       /\ r.pc = "inspect" => r.cleared \subseteq Containers
       /\ r.pc = "reflect" => r.c \in Containers /\ r.verdict \in Verdicts
  BY DEF IdleCustoms, CustomsRequest

LEMMA ReconcileRecord ==
  [pc |-> "reconcile"] \in CustomsRequest /\ [pc |-> "reconcile"].pc # "inspect"
<1>1. [pc |-> "reconcile"] \in [pc : {"reconcile"}]
  BY Zenon
<1>2. QED
  BY <1>1 DEF CustomsRequest

(* A reconcile in flight clears only containers with an Out-Of-Charge.       *)
ClearsHaveFacts == \A q \in CustomsRequests :
  customsReq[q].pc = "inspect" => customsReq[q].cleared \subseteq ooc

CustomsInv == CustomsTypeOK /\ ClearsHaveFacts

(* The parts of CustomsTypeOK the requests and the files write.              *)
FactsOK == /\ ledger \in [Files \X Origins -> {"none", "SUCCESS", "FAILED"}]
           /\ manifest \subseteq Containers /\ ooc \subseteq Containers
           /\ selection \in [Positions -> Containers \cup {NoContainer}]
RequestsOK == customsReq \in [CustomsRequests -> CustomsRequest \cup {IdleCustoms}]

LEMMA RequestSteps ==
  ASSUME CustomsInv, NEW q \in CustomsRequests, NEW r \in CustomsRequest \cup {IdleCustoms},
         customsReq' = [customsReq EXCEPT ![q] = r],
         r.pc = "inspect" => r.cleared \subseteq ooc', ooc \subseteq ooc'
  PROVE  RequestsOK' /\ ClearsHaveFacts'
  BY DEF CustomsInv, CustomsTypeOK, RequestsOK, ClearsHaveFacts

LEMMA WithoutType ==
  ASSUME NEW r, NEW f, NEW fresh \in BOOLEAN, r.origin \in Origins,
         r.todo \in SUBSET Files, r.fresh \in BOOLEAN
  PROVE  /\ Without(r, f, fresh) \in CustomsRequest
         /\ Without(r, f, fresh).pc = "import"
<1>1. r.todo \ {f} \in SUBSET Files /\ (r.fresh \/ fresh) \in BOOLEAN
  OBVIOUS
<1>2. Without(r, f, fresh) \in [pc : {"import"}, origin : Origins,
                                todo : SUBSET Files, fresh : BOOLEAN]
  BY <1>1, Zenon DEF Without
<1>3. QED
  BY <1>2 DEF CustomsRequest, Without

(* The steps of a request, and what they do besides the cargo row.           *)
LEMMA ImportSteps ==
  ASSUME CustomsInv, NEW q \in CustomsRequests,
         \/ ImportStart(q) \/ SyncStart(q) \/ ImportCheck(q) \/ ImportUnreadable(q)
         \/ ImportEnd(q) \/ ReconcileStart(q)
  PROVE  UNCHANGED <<cargoVars, factVars>> /\ RequestsOK' /\ ClearsHaveFacts'
<1>1. UNCHANGED <<cargoVars, factVars>>
  BY DEF ImportStart, SyncStart, ImportCheck, ImportUnreadable, ImportEnd, ReconcileStart
<1>2. \E r \in CustomsRequest \cup {IdleCustoms} :
        customsReq' = [customsReq EXCEPT ![q] = r] /\ r.pc # "inspect"
  <2>1. CASE ImportStart(q)
    <3>1. PICK found \in SUBSET Directory :
            customsReq' = [customsReq EXCEPT ![q] = [pc |-> "import", origin |-> "MANUAL",
                                                     todo |-> found, fresh |-> FALSE]]
      BY <2>1 DEF ImportStart, Begin
    <3>2. found \in SUBSET Files
      BY CustomsAssumption
    <3>3. [pc |-> "import", origin |-> "MANUAL", todo |-> found, fresh |-> FALSE]
            \in [pc : {"import"}, origin : Origins, todo : SUBSET Files, fresh : BOOLEAN]
      BY <3>2, Zenon DEF Origins
    <3>4. QED
      BY <3>1, <3>3 DEF CustomsRequest
  <2>2. CASE SyncStart(q)
    <3>1. PICK f \in Synced :
            customsReq' = [customsReq EXCEPT ![q] = [pc |-> "import", origin |-> "API",
                                                     todo |-> {f}, fresh |-> FALSE]]
      BY <2>2 DEF SyncStart, Begin
    <3>2. {f} \in SUBSET Files
      BY CustomsAssumption
    <3>3. [pc |-> "import", origin |-> "API", todo |-> {f}, fresh |-> FALSE]
            \in [pc : {"import"}, origin : Origins, todo : SUBSET Files, fresh : BOOLEAN]
      BY <3>2, Zenon DEF Origins
    <3>4. QED
      BY <3>1, <3>3 DEF CustomsRequest
  <2>3. CASE ImportCheck(q) \/ ImportUnreadable(q)
    <3>1. PICK r : r = customsReq[q]
      OBVIOUS
    <3>2. r \in [pc : {"import"}, origin : Origins, todo : SUBSET Files, fresh : BOOLEAN]
      BY <2>3, <3>1, CustomsRecordFacts
         DEF ImportCheck, ImportUnreadable, CustomsInv, CustomsTypeOK
    <3>3. \/ \E f \in r.todo : customsReq' = [customsReq EXCEPT ![q] = Without(r, f, FALSE)]
          \/ \E f \in r.todo :
               customsReq' = [customsReq EXCEPT ![q] = [pc |-> "persist", origin |-> r.origin,
                                todo |-> r.todo, fresh |-> r.fresh, f |-> f]]
      BY <2>3, <3>1 DEF ImportCheck, ImportUnreadable, Step
    <3>4. \A f : Without(r, f, FALSE) \in CustomsRequest /\ Without(r, f, FALSE).pc = "import"
      BY <3>2, WithoutType
    <3>5. \A f \in r.todo : [pc |-> "persist", origin |-> r.origin, todo |-> r.todo,
                             fresh |-> r.fresh, f |-> f] \in CustomsRequest
      <4>1. SUFFICES ASSUME NEW f \in r.todo
                     PROVE [pc |-> "persist", origin |-> r.origin, todo |-> r.todo,
                            fresh |-> r.fresh, f |-> f]
                             \in [pc : {"persist"}, origin : Origins, todo : SUBSET Files,
                                  fresh : BOOLEAN, f : Files]
        BY DEF CustomsRequest
      <4>2. f \in Files
        BY <3>2
      <4>3. QED
        BY <3>2, <4>2
    <3>6. \A f : [pc |-> "persist", origin |-> r.origin, todo |-> r.todo,
                  fresh |-> r.fresh, f |-> f].pc # "inspect"
      OBVIOUS
    <3>7. QED
      BY <3>3, <3>4, <3>5, <3>6
  <2>4. CASE ImportEnd(q)
    <3>1. PICK r : r = IF ReconcilesAfter(customsReq[q]) THEN [pc |-> "reconcile"]
                       ELSE IdleCustoms
      OBVIOUS
    <3>2. customsReq' = [customsReq EXCEPT ![q] = r]
      BY <2>4, <3>1 DEF ImportEnd, Step
    <3>3. r \in CustomsRequest \cup {IdleCustoms} /\ r.pc # "inspect"
      BY <3>1, ReconcileRecord, CustomsRecordFacts
    <3>4. QED
      BY <3>2, <3>3
  <2>5. CASE ReconcileStart(q)
    BY <2>5, ReconcileRecord DEF ReconcileStart, Begin
  <2>6. QED
    BY <2>1, <2>2, <2>3, <2>4, <2>5
<1>3. ooc' = ooc
  BY <1>1 DEF factVars
<1>4. QED
  BY <1>1, <1>2, <1>3, RequestSteps

LEMMA PersistSteps ==
  ASSUME CustomsInv, NEW q \in CustomsRequests, ImportPersist(q) \/ ImportFail(q)
  PROVE  /\ UNCHANGED cargoVars /\ FactsOK' /\ RequestsOK' /\ ClearsHaveFacts'
         /\ ooc \subseteq ooc'
         /\ \A f \in Files, o \in Origins : ledger'[<<f, o>>] = "SUCCESS" =>
              \/ ledger[<<f, o>>] = "SUCCESS"
              \/ FileModule[f] = "OOC" => FileContainer[f] \in ooc'
<1>1. PICK r : r = customsReq[q]
  OBVIOUS
<1>2. r \in [pc : {"persist"}, origin : Origins, todo : SUBSET Files, fresh : BOOLEAN, f : Files]
  BY <1>1, CustomsRecordFacts DEF ImportPersist, ImportFail, CustomsInv, CustomsTypeOK
<1>3. r.f \in Files /\ r.origin \in Origins /\ <<r.f, r.origin>> \in Files \X Origins
  BY <1>2
<1>4. UNCHANGED cargoVars
  BY DEF ImportPersist, ImportFail
<1>5. \E fresh \in BOOLEAN : customsReq' = [customsReq EXCEPT ![q] = Without(r, r.f, fresh)]
  BY <1>1 DEF ImportPersist, ImportFail, Step
<1>6. \A fresh \in BOOLEAN : /\ Without(r, r.f, fresh) \in CustomsRequest
                             /\ Without(r, r.f, fresh).pc = "import"
  BY <1>2, WithoutType
<1>7. ASSUME ImportPersist(q)
      PROVE  /\ FactsOK' /\ ooc \subseteq ooc'
             /\ FileModule[r.f] = "OOC" => FileContainer[r.f] \in ooc'
             /\ \A f \in Files, o \in Origins :
                  <<f, o>> # <<r.f, r.origin>> => ledger'[<<f, o>>] = ledger[<<f, o>>]
  <2>1. Persist(r.f) /\ ledger' = [ledger EXCEPT ![<<r.f, r.origin>>] = "SUCCESS"]
    BY <1>1, <1>7 DEF ImportPersist
  <2>2. FileContainer[r.f] \in Containers /\ FilePosition[r.f] \in Positions
        /\ FileModule[r.f] \in {"IGM", "OOC", "RMS"}
    BY <1>3, CustomsAssumption DEF Positions
  <2>3. /\ ledger' \in [Files \X Origins -> {"none", "SUCCESS", "FAILED"}]
        /\ \A f \in Files, o \in Origins :
             <<f, o>> # <<r.f, r.origin>> => ledger'[<<f, o>>] = ledger[<<f, o>>]
    BY <2>1, <1>3 DEF CustomsInv, CustomsTypeOK
  <2>4. /\ manifest' \subseteq Containers /\ ooc' \subseteq Containers /\ ooc \subseteq ooc'
        /\ selection' \in [Positions -> Containers \cup {NoContainer}]
        /\ FileModule[r.f] = "OOC" => FileContainer[r.f] \in ooc'
    <3>1. CASE FileModule[r.f] = "IGM"
      BY <2>1, <2>2, <3>1 DEF Persist, PersistIgm, CustomsInv, CustomsTypeOK
    <3>2. CASE FileModule[r.f] = "OOC"
      BY <2>1, <2>2, <3>2 DEF Persist, PersistOoc, CustomsInv, CustomsTypeOK
    <3>3. CASE FileModule[r.f] = "RMS"
      BY <2>1, <2>2, <3>3 DEF Persist, PersistRms, CustomsInv, CustomsTypeOK
    <3>4. QED
      BY <2>2, <3>1, <3>2, <3>3
  <2>5. QED
    BY <2>3, <2>4 DEF FactsOK
<1>8. ASSUME ImportFail(q)
      PROVE  /\ FactsOK' /\ UNCHANGED ooc
             /\ \A f \in Files, o \in Origins :
                  ledger'[<<f, o>>] = "SUCCESS" => ledger[<<f, o>>] = "SUCCESS"
  <2>1. RecordFailure(r.f, r.origin) /\ UNCHANGED <<manifest, ooc, selection>>
    BY <1>1, <1>8 DEF ImportFail
  <2>2. /\ ledger' \in [Files \X Origins -> {"none", "SUCCESS", "FAILED"}]
        /\ \A f \in Files, o \in Origins :
             ledger'[<<f, o>>] = "SUCCESS" => ledger[<<f, o>>] = "SUCCESS"
    BY <2>1, <1>3 DEF RecordFailure, CustomsInv, CustomsTypeOK
  <2>3. Positions' = Positions
    BY DEF Positions
  <2>4. QED
    BY <2>1, <2>2 DEF FactsOK, CustomsInv, CustomsTypeOK
<1>9. ooc \subseteq ooc' /\ FactsOK'
  BY <1>7, <1>8
<1>10. RequestsOK' /\ ClearsHaveFacts'
  BY <1>5, <1>6, <1>9, RequestSteps
<1>11. \A f \in Files, o \in Origins : <<f, o>> = <<r.f, r.origin>> => f = r.f
  OBVIOUS
<1>12. \A f \in Files, o \in Origins : ledger'[<<f, o>>] = "SUCCESS" =>
         \/ ledger[<<f, o>>] = "SUCCESS"
         \/ FileModule[f] = "OOC" => FileContainer[f] \in ooc'
  BY <1>7, <1>8, <1>11
<1>13. QED
  BY <1>4, <1>9, <1>10, <1>12

(* What a step may do to the row of one container: nothing, create it, write *)
(* its disposition for a reason, or advance it.                              *)
ForAReason(c) ==
  \/ cargo'[c].customs = cargo[c].customs
  \/ cargo'[c].customs = "CLEARED" /\ c \in ooc
  \/ cargo'[c].customs = "UNDER_INSPECTION" /\ c \in Selected /\ c \notin ooc
  \/ \E q \in CustomsRequests :
       /\ customsReq[q].pc = "reflect" /\ customsReq[q].c = c
       /\ cargo'[c].customs = ScanStatus(customsReq[q].verdict)

Advanced(c) ==
  /\ cargo'[c].present = cargo[c].present /\ cargo'[c].customs = cargo[c].customs
  /\ cargo[c].released => cargo'[c].released
  /\ cargo'[c].lifecycle \in ImportStates
  /\ \/ /\ cargo'[c].lifecycle = "YARD_ASSIGNED" /\ Effective(cargo[c]) \in YardAssignFrom
     \/ Effective(cargo[c]) \in AllowedPredecessors(cargo'[c].lifecycle)
  /\ cargo'[c].lifecycle = "RELEASED" => cargo[c].customs \notin CUSTOMS_BLOCKS_RELEASE

RowStep(c) ==
  \/ cargo'[c] = cargo[c]
  \/ ~ cargo[c].present /\ cargo'[c].lifecycle = "CREATED"
  \/ /\ cargo'[c].present = cargo[c].present /\ cargo'[c].lifecycle = cargo[c].lifecycle
     /\ cargo'[c].released = cargo[c].released /\ ForAReason(c)
  \/ Advanced(c)

Stays(row, new) == /\ new.present = row.present /\ new.lifecycle = row.lifecycle
                   /\ new.released = row.released

LEMMA InspectRows ==
  ASSUME CustomsInv, NEW q \in CustomsRequests, ReconcileInspect(q)
  PROVE  CargoTypeOK' /\ \A c \in Containers : RowStep(c)
<1> DEFINE done == customsReq[q].cleared
<1>1. done \subseteq ooc
  BY DEF ReconcileInspect, Step, CustomsInv, ClearsHaveFacts
<1>2. ASSUME NEW c \in Containers
      PROVE  /\ Bound(c, done) \in CustomsStates
             /\ \/ Bound(c, done) = cargo[c].customs
                \/ Bound(c, done) = "CLEARED" /\ c \in ooc
                \/ Bound(c, done) = "UNDER_INSPECTION" /\ c \in Selected /\ c \notin ooc
  <2>1. cargo[c].customs \in CustomsStates
    BY DEF CustomsInv, CustomsTypeOK, CargoTypeOK, Row
  <2>2. QED
    BY <1>1, <2>1 DEF Bound, CustomsStates
<1>3. cargo' = [c \in Containers |->
                  IF cargo[c].present THEN [cargo[c] EXCEPT !.customs = Bound(c, done)]
                  ELSE cargo[c]]
  BY DEF ReconcileInspect
<1>4. ASSUME NEW c \in Containers PROVE cargo'[c] \in Row /\ RowStep(c)
  <2>1. cargo[c] \in Row
    BY DEF CustomsInv, CustomsTypeOK, CargoTypeOK
  <2>2. CASE ~ cargo[c].present
    BY <1>3, <2>1, <2>2 DEF RowStep
  <2>3. CASE cargo[c].present
    <3>1. PICK new \in Row : new = [cargo[c] EXCEPT !.customs = Bound(c, done)]
      BY <1>2, <2>1 DEF Row
    <3>2. Stays(cargo[c], new) /\ new.customs = Bound(c, done) /\ cargo'[c] = new
      BY <1>3, <2>1, <2>3, <3>1 DEF Row, Stays
    <3>3. ForAReason(c)
      BY <1>2, <3>2 DEF ForAReason
    <3>4. QED
      BY <3>2, <3>3 DEF RowStep, Stays
  <2>4. QED
    BY <2>2, <2>3
<1>5. cargo' \in [Containers -> Row]
  BY <1>3, <1>4
<1>6. audit' = audit
  BY DEF ReconcileInspect
<1>7. QED
  BY <1>4, <1>5, <1>6 DEF CustomsInv, CustomsTypeOK, CargoTypeOK

LEMMA InsertRows ==
  ASSUME CustomsInv, NEW named \in SUBSET Containers, InsertMissing(named), UNCHANGED audit
  PROVE  CargoTypeOK' /\ \A c \in Containers : RowStep(c)
<1>1. PICK new : new = [AbsentRow EXCEPT !.present = TRUE, !.lifecycle = "CREATED"]
  OBVIOUS
<1>2. new \in Row /\ new.lifecycle = "CREATED"
  BY <1>1, AbsentRowType DEF Row, Lifecycles, ImportStates
<1>3. cargo' = [c \in Containers |-> IF c \in named /\ ~ cargo[c].present THEN new ELSE cargo[c]]
  BY <1>1 DEF InsertMissing
<1>4. ASSUME NEW c \in Containers PROVE cargo'[c] \in Row /\ RowStep(c)
  BY <1>2, <1>3 DEF CustomsInv, CustomsTypeOK, CargoTypeOK, RowStep
<1>5. QED
  BY <1>3, <1>4 DEF CustomsInv, CustomsTypeOK, CargoTypeOK

LEMMA ReflectRows ==
  ASSUME CustomsInv, NEW q \in CustomsRequests, ScanReflect(q)
  PROVE  CargoTypeOK' /\ \A c \in Containers : RowStep(c)
<1>1. PICK d \in Containers, v \in Verdicts : d = customsReq[q].c /\ v = customsReq[q].verdict
  BY CustomsRecordFacts DEF ScanReflect, Step, CustomsInv, CustomsTypeOK
<1>2. customsReq[q].pc = "reflect"
  BY DEF ScanReflect, Step
<1>3. ScanStatus(v) \in CustomsStates \cup {"keep"}
  BY DEF ScanStatus, Verdicts, CustomsStates
<1>4. cargo[d] \in Row
  BY DEF CustomsInv, CustomsTypeOK, CargoTypeOK
<1>5. PICK new : new = Patched(cargo[d], [NoPatch EXCEPT !.customs = ScanStatus(v)])
  OBVIOUS
<1>6. new \in Row /\ Stays(cargo[d], new)
      /\ new.customs = IF ScanStatus(v) = "keep" THEN cargo[d].customs ELSE ScanStatus(v)
  BY <1>3, <1>4, <1>5 DEF Patched, NoPatch, Row, Stays
<1>7. \/ cargo' = [cargo EXCEPT ![d] = new] /\ UNCHANGED audit
      \/ UNCHANGED cargoVars
  BY <1>1, <1>5 DEF ScanReflect, UpdateTxn
<1>8. CASE UNCHANGED cargoVars
  BY <1>8 DEF CustomsInv, CustomsTypeOK, CargoTypeOK, RowStep, cargoVars
<1>9. CASE cargo' = [cargo EXCEPT ![d] = new] /\ UNCHANGED audit
  <2>1. CargoTypeOK' /\ cargo'[d] = new /\ \A c \in Containers \ {d} : cargo'[c] = cargo[c]
    BY <1>6, <1>9 DEF CustomsInv, CustomsTypeOK, CargoTypeOK
  <2>2. ForAReason(d)
    BY <1>1, <1>2, <1>6, <2>1 DEF ForAReason
  <2>3. RowStep(d)
    BY <1>6, <2>1, <2>2 DEF RowStep, Stays
  <2>4. QED
    BY <2>1, <2>3 DEF RowStep
<1>10. QED
  BY <1>7, <1>8, <1>9

LEMMA AdvanceRows ==
  ASSUME CargoTypeOK, NEW d \in Containers, NEW t \in ImportStates, NEW from, NEW blocked,
         NEW patch \in {NoPatch, [NoPatch EXCEPT !.released = "true"]},
         AdvanceTxn(d, t, from, patch, blocked),
         \/ t = "YARD_ASSIGNED" /\ from = YardAssignFrom
         \/ from = AllowedPredecessors(t),
         t = "RELEASED" => blocked = CUSTOMS_BLOCKS_RELEASE
  PROVE  CargoTypeOK' /\ \A c \in Containers : RowStep(c)
<1>1. cargo[d] \in Row
  BY DEF CargoTypeOK
<1>2. PICK patched : patched = Patched(cargo[d], patch)
  OBVIOUS
<1>3. /\ patched \in Row /\ patched.present = cargo[d].present
      /\ patched.customs = cargo[d].customs /\ (cargo[d].released => patched.released)
  <2>1. /\ patch.customs = "keep" /\ patch.yard = "keep" /\ patch.released \in {"keep", "true"}
    BY DEF NoPatch
  <2>2. patched = [cargo[d] EXCEPT
                     !.released = IF patch.released = "keep" THEN @ ELSE TRUE,
                     !.customs = @, !.yard = @]
    BY <1>2, <2>1 DEF Patched
  <2>3. CASE patch.released = "keep"
    BY <1>1, <2>2, <2>3 DEF Row
  <2>4. CASE patch.released # "keep"
    BY <1>1, <2>2, <2>4 DEF Row
  <2>5. QED
    BY <2>3, <2>4
<1>4. PICK new : new = [patched EXCEPT !.lifecycle = t]
  OBVIOUS
<1>5. /\ new \in Row /\ new.present = cargo[d].present /\ new.lifecycle = t
      /\ new.customs = cargo[d].customs /\ (cargo[d].released => new.released)
  BY <1>3, <1>4 DEF Row, Lifecycles
<1>6. cargo' = [cargo EXCEPT ![d] = new]
  BY <1>2, <1>4 DEF AdvanceTxn
<1>7. Effective(cargo[d]) \in from /\ cargo[d].customs \notin blocked
  BY <1>2, <1>3 DEF AdvanceTxn, MayAdvance
<1>8. [old |-> Effective(cargo[d]), new |-> t] \in AuditRow
  <2>1. Effective(cargo[d]) \in Lifecycles /\ t \in Lifecycles
    BY <1>1 DEF Effective, Row, Lifecycles, ImportStates
  <2>2. QED
    BY <2>1 DEF AuditRow
<1>9. audit' = [audit EXCEPT ![d] = [old |-> Effective(cargo[d]), new |-> t]]
  BY DEF AdvanceTxn
<1>10. CargoTypeOK' /\ cargo'[d] = new /\ \A c \in Containers \ {d} : cargo'[c] = cargo[c]
  BY <1>5, <1>6, <1>8, <1>9 DEF CargoTypeOK
<1>11. Advanced(d)
  BY <1>5, <1>7, <1>10 DEF Advanced
<1>12. QED
  BY <1>10, <1>11 DEF RowStep

LEMMA ReleaseRows ==
  ASSUME CustomsInv, NEW d \in Containers, ReleaseElsewhere(d)
  PROVE  CargoTypeOK' /\ \A c \in Containers : RowStep(c)
<1>1. {"YARD_ASSIGNED", "VERIFIED", "RELEASED"} \subseteq ImportStates
  BY DEF ImportStates
<1>2. CASE AdvanceTxn(d, "YARD_ASSIGNED", YardAssignFrom, NoPatch, {})
  BY <1>1, <1>2, AdvanceRows DEF CustomsInv, CustomsTypeOK
<1>3. CASE AdvanceTxn(d, "VERIFIED", AllowedPredecessors("VERIFIED"), NoPatch, {})
  BY <1>1, <1>3, AdvanceRows DEF CustomsInv, CustomsTypeOK
<1>4. CASE AdvanceTxn(d, "RELEASED", AllowedPredecessors("RELEASED"),
                      [NoPatch EXCEPT !.released = "true"], CUSTOMS_BLOCKS_RELEASE)
  BY <1>1, <1>4, AdvanceRows DEF CustomsInv, CustomsTypeOK
<1>5. QED
  BY <1>2, <1>3, <1>4 DEF ReleaseElsewhere

LEMMA RequestsMove ==
  ASSUME CustomsInv, NEW q \in CustomsRequests,
         \/ ReconcileClear(q) \/ ReconcileInspect(q) \/ Materialize(q) \/ ScanReflect(q)
         \/ CustomsCrash(q)
         \/ \E c \in Scanned, verdict \in Verdicts : ScanRecord(q, c, verdict)
  PROVE  UNCHANGED factVars /\ RequestsOK' /\ ClearsHaveFacts'
<1>1. UNCHANGED factVars
  BY DEF ReconcileClear, ReconcileInspect, Materialize, ScanReflect, CustomsCrash, ScanRecord
<1>2. ooc' = ooc /\ ooc \subseteq Containers
  BY <1>1 DEF factVars, CustomsInv, CustomsTypeOK
<1>3. \E r \in CustomsRequest \cup {IdleCustoms} :
        /\ customsReq' = [customsReq EXCEPT ![q] = r]
        /\ r.pc = "inspect" => r.cleared \subseteq ooc
  <2>1. CASE ReconcileClear(q)
    <3>1. PICK cleared \in SUBSET ooc :
            customsReq' = [customsReq EXCEPT ![q] = [pc |-> "inspect", cleared |-> cleared]]
      BY <2>1 DEF ReconcileClear, Step
    <3>2. [pc |-> "inspect", cleared |-> cleared] \in [pc : {"inspect"}, cleared : SUBSET Containers]
      BY <1>2
    <3>3. [pc |-> "inspect", cleared |-> cleared] \in CustomsRequest
          /\ [pc |-> "inspect", cleared |-> cleared].cleared = cleared
      BY <3>2 DEF CustomsRequest
    <3>4. QED
      BY <3>1, <3>3
  <2>2. CASE ReconcileInspect(q) \/ ScanReflect(q) \/ CustomsCrash(q)
    BY <2>2, CustomsRecordFacts DEF ReconcileInspect, ScanReflect, CustomsCrash, Step
  <2>3. CASE Materialize(q)
    BY <2>3, ReconcileRecord DEF Materialize, Begin
  <2>4. ASSUME NEW c \in Scanned, NEW verdict \in Verdicts, ScanRecord(q, c, verdict)
        PROVE  \E r \in CustomsRequest \cup {IdleCustoms} :
                 /\ customsReq' = [customsReq EXCEPT ![q] = r]
                 /\ r.pc = "inspect" => r.cleared \subseteq ooc
    <3>1. c \in Containers
      BY CustomsAssumption
    <3>2. [pc |-> "reflect", c |-> c, verdict |-> verdict]
            \in [pc : {"reflect"}, c : Containers, verdict : Verdicts]
      BY <3>1
    <3>3. [pc |-> "reflect", c |-> c, verdict |-> verdict] \in CustomsRequest
          /\ [pc |-> "reflect", c |-> c, verdict |-> verdict].pc # "inspect"
      BY <3>2 DEF CustomsRequest
    <3>4. QED
      BY <2>4, <3>3 DEF ScanRecord, Begin
  <2>5. QED
    BY <2>1, <2>2, <2>3, <2>4
<1>4. QED
  BY <1>1, <1>2, <1>3, RequestSteps

LEMMA CustomsSteps ==
  ASSUME CustomsInv, CustomsNext
  PROVE  /\ CustomsInv' /\ \A c \in Containers : RowStep(c)
         /\ ooc \subseteq ooc'
         /\ \A f \in Files, o \in Origins : ledger'[<<f, o>>] = "SUCCESS" =>
              \/ ledger[<<f, o>>] = "SUCCESS"
              \/ FileModule[f] = "OOC" => FileContainer[f] \in ooc'
<1> DEFINE Ledgers == \A f \in Files, o \in Origins : ledger'[<<f, o>>] = "SUCCESS" =>
              \/ ledger[<<f, o>>] = "SUCCESS"
              \/ FileModule[f] = "OOC" => FileContainer[f] \in ooc'
           Rows == CargoTypeOK' /\ \A c \in Containers : RowStep(c)
           Parts == FactsOK' /\ RequestsOK' /\ ClearsHaveFacts' /\ ooc \subseteq ooc' /\ Ledgers
<1>1. UNCHANGED cargoVars => Rows
  BY DEF CustomsInv, CustomsTypeOK, CargoTypeOK, RowStep, cargoVars
<1>2. UNCHANGED factVars => FactsOK' /\ ooc \subseteq ooc' /\ Ledgers
  BY DEF CustomsInv, CustomsTypeOK, FactsOK, factVars, Positions
<1>3. UNCHANGED <<factVars, customsReq>> => RequestsOK' /\ ClearsHaveFacts'
  BY DEF CustomsInv, CustomsTypeOK, RequestsOK, ClearsHaveFacts, factVars
<1>4. manifest \in SUBSET Containers /\ MortalCustoms \subseteq CustomsRequests
  BY CustomsAssumption DEF CustomsInv, CustomsTypeOK
<1>5. ASSUME NEW q \in CustomsRequests, CustomsRun(q) \/ CustomsCrash(q)
      PROVE  Rows /\ Parts
  <2>1. CASE \/ ImportStart(q) \/ SyncStart(q) \/ ImportCheck(q) \/ ImportUnreadable(q)
             \/ ImportEnd(q) \/ ReconcileStart(q)
    BY <2>1, <1>1, <1>2, ImportSteps
  <2>2. CASE ImportPersist(q) \/ ImportFail(q)
    BY <2>2, <1>1, PersistSteps
  <2>3. CASE ReconcileClear(q) \/ CustomsCrash(q)
             \/ \E c \in Scanned, verdict \in Verdicts : ScanRecord(q, c, verdict)
    <3>1. UNCHANGED cargoVars
      BY <2>3 DEF ReconcileClear, CustomsCrash, ScanRecord
    <3>2. QED
      BY <2>3, <3>1, <1>1, <1>2, RequestsMove
  <2>4. CASE ReconcileInspect(q)
    BY <2>4, <1>2, RequestsMove, InspectRows
  <2>5. CASE ScanReflect(q)
    BY <2>5, <1>2, RequestsMove, ReflectRows
  <2>6. CASE Materialize(q)
    <3>1. PICK chosen \in SUBSET manifest : InsertMissing(chosen) /\ UNCHANGED audit
      BY <2>6 DEF Materialize
    <3>2. Rows
      BY <1>4, <3>1, InsertRows
    <3>3. QED
      BY <2>6, <3>2, <1>2, RequestsMove
  <2>7. QED
    BY <1>5, <2>1, <2>2, <2>3, <2>4, <2>5, <2>6 DEF CustomsRun
<1>6. ASSUME MaterializeOnly PROVE Rows /\ Parts
  <2>1. PICK chosen \in SUBSET manifest : InsertMissing(chosen) /\ UNCHANGED audit
    BY <1>6 DEF MaterializeOnly
  <2>2. Rows
    BY <1>4, <2>1, InsertRows
  <2>3. UNCHANGED <<factVars, customsReq>>
    BY <1>6 DEF MaterializeOnly
  <2>4. QED
    BY <2>2, <2>3, <1>2, <1>3
<1>7. ASSUME NEW c \in Containers, ReleaseElsewhere(c) PROVE Rows /\ Parts
  <2>1. UNCHANGED <<factVars, customsReq>>
    BY <1>7 DEF ReleaseElsewhere
  <2>2. QED
    BY <1>7, <2>1, <1>2, <1>3, ReleaseRows
<1>8. Rows /\ Parts
  BY <1>4, <1>5, <1>6, <1>7 DEF CustomsNext
<1>9. QED
  BY <1>8 DEF CustomsInv, CustomsTypeOK, FactsOK, RequestsOK

LEMMA CustomsInvariant == CustomsSpec => []CustomsInv
<1>1. CustomsInit => CustomsInv
  <2>1. ASSUME CustomsInit PROVE CustomsInv
    <3>1. CargoTypeOK
      BY <2>1, CargoInitType DEF CustomsInit
    <3>2. ClearsHaveFacts
      BY <2>1, CustomsRecordFacts DEF CustomsInit, ClearsHaveFacts
    <3>3. QED
      BY <2>1, <3>1, <3>2 DEF CustomsInit, CustomsInv, CustomsTypeOK
  <2>2. QED
    BY <2>1
<1>2. CustomsInv /\ UNCHANGED customsBindingVars => CustomsInv'
  BY DEF CustomsInv, CustomsTypeOK, CargoTypeOK, ClearsHaveFacts, Positions,
         customsBindingVars, cargoVars, factVars
<1>3. QED
  BY <1>1, <1>2, CustomsSteps, PTL DEF CustomsSpec

(* The ledger, the facts and the requests in flight are well typed in every  *)
(* state: CustomsTypeOK.                                                     *)
THEOREM CustomsTypeCorrect == CustomsSpec => []CustomsTypeOK
  BY CustomsInvariant, PTL DEF CustomsInv

(* A file the ledger skips has its facts imported, for any files, directory, *)
(* retries and failures: SkippedFilesAreImported.  Only the transaction that *)
(* persists a file marks it, and no Out-Of-Charge is ever taken away.        *)
THEOREM LedgerIsHonest == CustomsSpec => []SkippedFilesAreImported
<1>1. CustomsInit => SkippedFilesAreImported
  BY DEF CustomsInit, SkippedFilesAreImported
<1>2. ASSUME CustomsInv, SkippedFilesAreImported, CustomsNext
      PROVE  SkippedFilesAreImported'
  BY <1>2, CustomsSteps DEF SkippedFilesAreImported
<1>3. SkippedFilesAreImported /\ UNCHANGED customsBindingVars => SkippedFilesAreImported'
  BY DEF SkippedFilesAreImported, customsBindingVars, factVars
<1>4. QED
  BY <1>1, <1>2, <1>3, CustomsInvariant, PTL DEF CustomsSpec

(* But for a scanner, a disposition changes only for a customs fact, however *)
(* reconciles, amended lists and materialize calls overlap:                  *)
(* DispositionHasFact.                                                       *)
THEOREM DispositionsHaveFacts == CustomsSpec => DispositionHasFact
<1> DEFINE Justified == \A c \in Containers :
       cargo'[c].customs # cargo[c].customs =>
         \/ cargo'[c].customs = "CLEARED" /\ c \in ooc
         \/ /\ cargo'[c].customs = "UNDER_INSPECTION"
            /\ c \in Selected /\ c \notin ooc
         \/ ~ cargo[c].present
         \/ \E q \in CustomsRequests :
              /\ customsReq[q].pc = "reflect" /\ customsReq[q].c = c
              /\ cargo'[c].customs = ScanStatus(customsReq[q].verdict)
<1>1. ASSUME CustomsInv, CustomsNext PROVE Justified
  BY <1>1, CustomsSteps DEF RowStep, ForAReason, Advanced
<1>2. QED
  BY <1>1, CustomsInvariant, PTL DEF CustomsSpec, DispositionHasFact

(* A hold, whoever wrote it and whenever, stops a release that has not       *)
(* committed: HoldStopsRelease.                                              *)
THEOREM HoldsStopReleases == CustomsSpec => HoldStopsRelease
<1> DEFINE Stops == \A c \in Containers :
       cargo'[c].lifecycle = "RELEASED" /\ cargo[c].lifecycle # "RELEASED"
         => cargo[c].customs \notin CUSTOMS_BLOCKS_RELEASE
<1>1. ASSUME CustomsInv, CustomsNext PROVE Stops
  BY <1>1, CustomsSteps DEF RowStep, Advanced
<1>2. QED
  BY <1>1, CustomsInvariant, PTL DEF CustomsSpec, HoldStopsRelease

(* No customs writer, materialize least of all, removes a row, moves it back *)
(* or takes its release flag away: NothingFastForwardedOrReset.              *)
THEOREM NothingIsReset == CustomsSpec => NothingFastForwardedOrReset
<1> DEFINE Kept == \A c \in Containers :
       cargo[c].present =>
         /\ cargo'[c].present
         /\ \/ cargo'[c].lifecycle = cargo[c].lifecycle
            \/ Rank[Effective(cargo[c])] < Rank[Effective(cargo'[c])]
         /\ cargo[c].released => cargo'[c].released
<1>1. ASSUME CustomsInv, CustomsNext PROVE Kept
  <2>1. ASSUME NEW c \in Containers, Advanced(c)
        PROVE  Rank[Effective(cargo[c])] < Rank[Effective(cargo'[c])]
    <3>1. "NULL" \notin ImportStates
      BY DEF ImportStates
    <3>2. Effective(cargo'[c]) = cargo'[c].lifecycle
      BY <2>1, <3>1 DEF Advanced, Effective
    <3>3. \A s \in YardAssignFrom : Rank[s] < Rank["YARD_ASSIGNED"]
      BY DEF YardAssignFrom, Rank, ImportStates
    <3>4. \A t : \A s \in AllowedPredecessors(t) : Rank[s] < Rank[t]
      BY DEF AllowedPredecessors, CanTransition
    <3>5. QED
      BY <2>1, <3>2, <3>3, <3>4 DEF Advanced
  <2>2. QED
    BY <1>1, <2>1, CustomsSteps DEF RowStep, Advanced
<1>2. QED
  BY <1>1, CustomsInvariant, PTL DEF CustomsSpec, NothingFastForwardedOrReset

-----------------------------------------------------------------------------
(* The slot allocators *)

PlannerRow == [pc : {"insert"}, b : Blocks \cup {Reefer}, slot : Slots]

LEMMA PlannerRowFacts ==
  /\ Idle.pc = "idle"
  /\ \A p \in PlannerRow : p.pc = "insert" /\ p.b \in Blocks \cup {Reefer}
  /\ \A b \in Blocks \cup {Reefer}, n \in Slots :
       [pc |-> "insert", b |-> b, slot |-> n] \in PlannerRow
<1>1. Slots \subseteq Nat \ {0}
  BY MaxSlotAssumption DEF Slots
<1>2. QED
  BY <1>1 DEF Idle, PlannerRow

(* The yard's rows and the planners in flight are well typed in every state, *)
(* for any blocks, any bound on slots and any number of planners: YardTypeOK.*)
THEOREM YardTypeCorrect == YardSpec => []YardTypeOK
<1> USE MaxSlotAssumption, MaxDeparturesAssumption
<1>1. YardInit => YardTypeOK
  BY DEF YardInit, YardTypeOK
<1>2. ASSUME YardTypeOK, YardNext PROVE YardTypeOK'
  <2>1. planner \in [Planners -> PlannerRow \cup {Idle}]
    BY <1>2 DEF YardTypeOK, PlannerRow
  <2>2. ASSUME NEW r \in Planners, NEW b \in Blocks, PlanRead(r, b)
        PROVE  YardTypeOK'
    <3>1. planner' \in [Planners -> PlannerRow \cup {Idle}]
      BY <2>1, <2>2, PlannerRowFacts DEF PlanRead, Goes
    <3>2. QED
      BY <1>2, <2>2, <3>1 DEF PlanRead, YardTypeOK, PlannerRow
  <2>3. ASSUME NEW r \in Planners, ReeferRead(r)
        PROVE  YardTypeOK'
    <3>1. planner' \in [Planners -> PlannerRow \cup {Idle}]
      BY <2>1, <2>3, PlannerRowFacts DEF ReeferRead, Goes
    <3>2. QED
      BY <1>2, <2>3, <3>1 DEF ReeferRead, YardTypeOK, PlannerRow
  <2>4. ASSUME NEW r \in Planners, PlanInsert(r) \/ ReeferInsert(r) \/ PlannerCrash(r)
        PROVE  YardTypeOK'
    <3>1. planner' \in [Planners -> PlannerRow \cup {Idle}]
      BY <2>1, <2>4 DEF PlanInsert, ReeferInsert, PlannerCrash, Finished
    <3>2. plans' \in [Blocks \X Slots -> Nat] /\ reefers' \in [Slots -> Nat]
      BY <1>2, <2>4 DEF PlanInsert, ReeferInsert, PlannerCrash, YardTypeOK
    <3>3. UNCHANGED <<block, positions, departures>>
      BY <2>4 DEF PlanInsert, ReeferInsert, PlannerCrash
    <3>4. QED
      BY <1>2, <3>1, <3>2, <3>3 DEF YardTypeOK, PlannerRow
  <2>5. ASSUME NEW b \in Blocks,
               PositionRow(b) \/ \E c \in Stored : EntersBlock(c, b)
        PROVE  YardTypeOK'
    BY <1>2, <2>5 DEF PositionRow, EntersBlock, YardTypeOK
  <2>6. ASSUME NEW c \in Stored, NEW b \in Blocks \cup {"none"}, LeavesBlock(c, b)
        PROVE  YardTypeOK'
    BY <1>2, <2>6 DEF LeavesBlock, YardTypeOK
  <2>7. QED
    BY <1>2, <2>2, <2>3, <2>4, <2>5, <2>6 DEF YardNext
<1>3. YardTypeOK /\ UNCHANGED yardVars => YardTypeOK'
  BY DEF YardTypeOK, yardVars
<1>4. QED
  BY <1>1, <1>2, <1>3, PTL DEF YardSpec

(* What a count of rows is worth: a finite number, one more with each row.   *)
LEMMA RowsPerSlotIsFinite ==
  ASSUME NEW count \in [Slots -> Nat]
  PROVE  IsFiniteSet(RowsPerSlot(count)) /\ Cardinality(RowsPerSlot(count)) \in Nat
<1>1. IsFiniteSet(Slots)
  BY FS_Interval, MaxSlotAssumption DEF Slots
<1>2. \A n \in Slots : IsFiniteSet({n} \X (1 .. count[n]))
  <2>1. SUFFICES ASSUME NEW n \in Slots PROVE IsFiniteSet({n} \X (1 .. count[n]))
    OBVIOUS
  <2>2. IsFiniteSet({n})
    BY FS_Singleton
  <2>3. IsFiniteSet(1 .. count[n])
    BY FS_Interval
  <2>4. QED
    BY <2>2, <2>3, FS_Product
<1>3. PICK T : T = {{n} \X (1 .. count[n]) : n \in Slots}
  OBVIOUS
<1>4. PICK f : f = [n \in Slots |-> {n} \X (1 .. count[n])]
  OBVIOUS
<1>5. f \in Surjection(Slots, T)
  BY <1>3, <1>4, Zenon DEF Surjection
<1>6. IsFiniteSet(T)
  BY <1>1, <1>5, FS_Surjection
<1>7. IsFiniteSet(UNION T)
  BY <1>2, <1>3, <1>6, FS_UNION
<1>8. QED
  BY <1>3, <1>7, FS_CardinalityType DEF RowsPerSlot

LEMMA RowIsCounted ==
  ASSUME NEW count \in [Slots -> Nat], NEW more \in [Slots -> Nat], NEW n \in Slots,
         more[n] = count[n] + 1, \A k \in Slots \ {n} : more[k] = count[k]
  PROVE  Cardinality(RowsPerSlot(more)) = Cardinality(RowsPerSlot(count)) + 1
<1>1. PICK row : row = <<n, count[n] + 1>>
  OBVIOUS
<1>2. \A k \in Slots : 1 .. more[k] = (1 .. count[k]) \cup (IF k = n THEN {count[n] + 1} ELSE {})
  OBVIOUS
<1>3. \A x : x \in RowsPerSlot(more) <=> x \in RowsPerSlot(count) \/ x = row
  <2>1. TAKE x
  <2>2. x \in RowsPerSlot(more) <=> \E k \in Slots : x \in {k} \X (1 .. more[k])
    BY Zenon DEF RowsPerSlot
  <2>3. x \in RowsPerSlot(count) <=> \E k \in Slots : x \in {k} \X (1 .. count[k])
    BY Zenon DEF RowsPerSlot
  <2>4. \A k \in Slots \ {n} : {k} \X (1 .. more[k]) = {k} \X (1 .. count[k])
    BY <1>2
  <2>5. x \in {n} \X (1 .. more[n]) <=> x \in {n} \X (1 .. count[n]) \/ x = row
    BY <1>1, <1>2
  <2>6. QED
    BY <2>2, <2>3, <2>4, <2>5
<1>4. RowsPerSlot(more) = RowsPerSlot(count) \cup {row}
  BY <1>3
<1>5. row \notin RowsPerSlot(count)
  <2>1. SUFFICES ASSUME row \in RowsPerSlot(count) PROVE FALSE
    OBVIOUS
  <2>2. PICK k \in Slots : row \in {k} \X (1 .. count[k])
    BY <2>1, Zenon DEF RowsPerSlot
  <2>3. k = n /\ count[n] + 1 \in 1 .. count[n]
    BY <1>1, <2>2
  <2>4. QED
    BY <2>3
<1>6. IsFiniteSet(RowsPerSlot(count))
  BY RowsPerSlotIsFinite
<1>7. QED
  BY <1>4, <1>5, <1>6, FS_AddElement

(* The requests that are about to insert a slot of a block.  A count that is *)
(* still below a place leaves it low many rows and requests, those that      *)
(* departures have let back; one that has come to it leaves low many rows;   *)
(* and every planner may have read the count there and add one more.         *)
PlanningAt(b, n) ==
  {r \in Planners : planner[r] = [pc |-> "insert", b |-> b, slot |-> n]}

PlaceCount(given, inFlight, next, n, low) ==
  /\ given + inFlight <= low + Cardinality(Planners)
  /\ next < n => given + inFlight <= low
  /\ next = n => given <= low

PlacesInv ==
  /\ \A b \in Blocks, n \in Slots :
       PlaceCount(plans[<<b, n>>], Cardinality(PlanningAt(b, n)), NextYardSlot(b), n,
                  Cardinality(Planners) * departures)
  /\ \A n \in Slots :
       PlaceCount(reefers[n], Cardinality(PlanningAt(Reefer, n)), NextReeferIndex, n, 0)

LEMMA CountsRead ==
  ASSUME NEW given \in Nat, NEW f \in Nat, NEW n \in Nat, NEW low \in Nat, NEW g \in Nat,
         PlaceCount(given, f, n, n, low), g <= Cardinality(Planners),
         Cardinality(Planners) \in Nat
  PROVE  PlaceCount(given, g, n, n, low)
  BY DEF PlaceCount

LEMMA CountsInsert ==
  ASSUME NEW given \in Nat, NEW f \in Nat, NEW next \in Nat, NEW n \in Nat, NEW low \in Nat,
         PlaceCount(given, f, next, n, low), f > 0, Cardinality(Planners) \in Nat
  PROVE  PlaceCount(given + 1, f - 1, next + 1, n, low)
  BY DEF PlaceCount

LEMMA CountsKept ==
  ASSUME NEW given \in Nat, NEW f \in Nat, NEW next \in Nat, NEW n \in Nat, NEW low \in Nat,
         NEW g \in Nat, NEW m \in Nat, g <= f, m >= next,
         PlaceCount(given, f, next, n, low), Cardinality(Planners) \in Nat
  PROVE  PlaceCount(given, g, m, n, low)
  BY DEF PlaceCount

LEMMA CountsDeparted ==
  ASSUME NEW given \in Nat, NEW f \in Nat, NEW next \in Nat, NEW n \in Nat, NEW low \in Nat,
         NEW m \in Nat, PlaceCount(given, f, next, n, low), Cardinality(Planners) \in Nat
  PROVE  PlaceCount(given, f, m, n, low + Cardinality(Planners))
  BY DEF PlaceCount

LEMMA PlannersCount ==
  ASSUME NEW S \in SUBSET Planners
  PROVE  /\ IsFiniteSet(S) /\ Cardinality(S) \in Nat
         /\ Cardinality(S) <= Cardinality(Planners) /\ Cardinality(Planners) \in Nat
         /\ \A T \in SUBSET S : Cardinality(T) <= Cardinality(S)
         /\ \A r \in S : Cardinality(S \ {r}) = Cardinality(S) - 1 /\ Cardinality(S) > 0
<1>1. IsFiniteSet(S) /\ Cardinality(S) <= Cardinality(Planners)
  BY FS_Subset, YardSetsAssumption
<1>2. Cardinality(S) \in Nat /\ Cardinality(Planners) \in Nat
  BY <1>1, FS_CardinalityType, YardSetsAssumption
<1>3. \A T \in SUBSET S : Cardinality(T) <= Cardinality(S)
  BY <1>1, FS_Subset
<1>4. \A r \in S : Cardinality(S \ {r}) = Cardinality(S) - 1 /\ Cardinality(S) > 0
  <2>1. TAKE r \in S
  <2>2. Cardinality(S \ {r}) = Cardinality(S) - 1
    BY <1>1, FS_RemoveElement
  <2>3. Cardinality(S) # 0
    BY <1>1, FS_EmptySet
  <2>4. QED
    BY <1>2, <2>2, <2>3
<1>5. QED
  BY <1>1, <1>2, <1>3, <1>4

(* The counts a planner reads are numbers.                                   *)
LEMMA NextSlotType ==
  ASSUME YardTypeOK
  PROVE  /\ \A b : Standing(b) \in Nat
         /\ \A b \in Blocks : PlansOf(b) \in Nat /\ NextYardSlot(b) \in Nat
         /\ NextReeferIndex \in Nat
<1>1. ASSUME NEW b PROVE Standing(b) \in Nat
  <2>1. IsFiniteSet({c \in Stored : block[c] = b})
    BY FS_Subset, YardSetsAssumption
  <2>2. QED
    BY <2>1, FS_CardinalityType DEF Standing
<1>2. ASSUME NEW b \in Blocks PROVE PlansOf(b) \in Nat
  <2>1. [n \in Slots |-> plans[<<b, n>>]] \in [Slots -> Nat]
    BY DEF YardTypeOK
  <2>2. positions[b] \in Nat
    BY DEF YardTypeOK
  <2>3. PICK count \in [Slots -> Nat] : count = [n \in Slots |-> plans[<<b, n>>]]
    BY <2>1
  <2>4. PlansOf(b) = Cardinality(RowsPerSlot(count)) + positions[b]
    BY <2>3 DEF PlansOf
  <2>5. Cardinality(RowsPerSlot(count)) \in Nat
    BY RowsPerSlotIsFinite
  <2>6. QED
    BY <2>2, <2>4, <2>5
<1>3. NextReeferIndex \in Nat
  <2>1. reefers \in [Slots -> Nat]
    BY DEF YardTypeOK
  <2>2. QED
    BY <2>1, RowsPerSlotIsFinite DEF NextReeferIndex
<1>4. QED
  BY <1>1, <1>2, <1>3 DEF NextYardSlot

(* No step but a departure lowers a count, and an insert raises its own.     *)
LEMMA InsertIsCounted ==
  ASSUME YardTypeOK, YardTypeOK', NEW r \in Planners, PlanInsert(r), NEW b \in Blocks
  PROVE  NextYardSlot(b)' = NextYardSlot(b) + (IF b = planner[r].b THEN 1 ELSE 0)
<1>1. planner[r].b \in Blocks /\ planner[r].slot \in Slots
  BY DEF YardTypeOK, PlanInsert, Idle
<1>2. PICK old, new : /\ old = [n \in Slots |-> plans[<<b, n>>]]
                      /\ new = [n \in Slots |-> plans'[<<b, n>>]]
  OBVIOUS
<1>3. old \in [Slots -> Nat] /\ new \in [Slots -> Nat]
  BY <1>2 DEF YardTypeOK
<1>4. plans \in [Blocks \X Slots -> Nat]
       /\ plans' = [plans EXCEPT ![<<planner[r].b, planner[r].slot>>] = @ + 1]
  BY DEF YardTypeOK, PlanInsert
<1>5. Standing(b)' = Standing(b) /\ positions'[b] = positions[b] /\ positions[b] \in Nat
  BY DEF Standing, PlanInsert, YardTypeOK
<1>6. PlansOf(b) = Cardinality(RowsPerSlot(old)) + positions[b]
       /\ PlansOf(b)' = Cardinality(RowsPerSlot(new)) + positions'[b]
  BY <1>2 DEF PlansOf, RowsPerSlot, Slots
<1>7. Cardinality(RowsPerSlot(old)) \in Nat
  BY <1>3, RowsPerSlotIsFinite
<1>8. CASE b = planner[r].b
  <2>1. new[planner[r].slot] = old[planner[r].slot] + 1
         /\ \A k \in Slots \ {planner[r].slot} : new[k] = old[k]
    BY <1>1, <1>2, <1>4, <1>8
  <2>2. Cardinality(RowsPerSlot(new)) = Cardinality(RowsPerSlot(old)) + 1
    BY <1>1, <1>3, <2>1, RowIsCounted
  <2>3. QED
    BY <1>5, <1>6, <1>7, <1>8, <2>2, NextSlotType DEF NextYardSlot
<1>9. CASE b # planner[r].b
  <2>1. new = old
    BY <1>1, <1>2, <1>4, <1>9
  <2>2. QED
    BY <1>5, <1>6, <1>7, <1>9, <2>1, NextSlotType DEF NextYardSlot
<1>10. QED
  BY <1>8, <1>9

LEMMA ArrivalIsCounted ==
  ASSUME YardTypeOK, YardTypeOK', NEW d \in Blocks, NEW b \in Blocks,
         PositionRow(d) \/ \E c \in Stored : EntersBlock(c, d)
  PROVE  NextYardSlot(b)' >= NextYardSlot(b) /\ NextYardSlot(b)' \in Nat
<1>0. Standing(b) \in Nat /\ PlansOf(b) \in Nat /\ Standing(b)' \in Nat
  <2>1. IsFiniteSet({c \in Stored : block'[c] = b})
    BY FS_Subset, YardSetsAssumption
  <2>2. QED
    BY <2>1, NextSlotType, FS_CardinalityType DEF Standing
<1>1. CASE PositionRow(d)
  <2>1. Standing(b)' = Standing(b)
    BY <1>1 DEF PositionRow, Standing
  <2>2. positions'[b] >= positions[b] /\ positions[b] \in Nat /\ positions'[b] \in Nat
    BY <1>1 DEF PositionRow, YardTypeOK
  <2>3. PICK n \in Nat : n = Cardinality(RowsPerSlot([k \in Slots |-> plans[<<b, k>>]]))
    <3>1. [k \in Slots |-> plans[<<b, k>>]] \in [Slots -> Nat]
      BY DEF YardTypeOK
    <3>2. QED
      BY <3>1, RowsPerSlotIsFinite
  <2>4. plans' = plans
    BY <1>1 DEF PositionRow
  <2>5. PlansOf(b) = n + positions[b] /\ PlansOf(b)' = n + positions'[b]
    BY <2>3, <2>4 DEF PlansOf, RowsPerSlot, Slots
  <2>6. QED
    BY <1>0, <2>1, <2>2, <2>5 DEF NextYardSlot
<1>2. CASE \E c \in Stored : EntersBlock(c, d)
  <2>1. PICK c \in Stored : EntersBlock(c, d)
    BY <1>2
  <2>2. {e \in Stored : block[e] = b} \subseteq {e \in Stored : block'[e] = b}
    BY <2>1, BlocksAssumption DEF EntersBlock, YardTypeOK
  <2>3. IsFiniteSet({e \in Stored : block'[e] = b})
    BY FS_Subset, YardSetsAssumption
  <2>4. Standing(b) <= Standing(b)'
    BY <2>2, <2>3, FS_Subset DEF Standing
  <2>5. PlansOf(b)' = PlansOf(b)
    BY <2>1 DEF EntersBlock, PlansOf, RowsPerSlot, Slots
  <2>6. QED
    BY <1>0, <2>4, <2>5 DEF NextYardSlot
<1>3. QED
  BY <1>1, <1>2

LEMMA ReeferIsCounted ==
  ASSUME YardTypeOK, NEW r \in Planners, ReeferInsert(r)
  PROVE  NextReeferIndex' = NextReeferIndex + 1
<1>1. planner[r].slot \in Slots /\ reefers \in [Slots -> Nat]
  BY DEF YardTypeOK, ReeferInsert, Idle
<1>2. reefers' \in [Slots -> Nat] /\ reefers'[planner[r].slot] = reefers[planner[r].slot] + 1
       /\ \A k \in Slots \ {planner[r].slot} : reefers'[k] = reefers[k]
  BY <1>1 DEF ReeferInsert
<1>3. Cardinality(RowsPerSlot(reefers')) = Cardinality(RowsPerSlot(reefers)) + 1
  BY <1>1, <1>2, RowIsCounted
<1>4. Cardinality(RowsPerSlot(reefers)) \in Nat
  BY <1>1, RowsPerSlotIsFinite
<1>5. QED
  BY <1>3, <1>4 DEF NextReeferIndex, RowsPerSlot, Slots

(* How a step changes the requests in flight to one place.                   *)
LEMMA PlanningSteps ==
  ASSUME YardTypeOK, NEW r \in Planners, NEW b, NEW n
  PROVE  /\ Finished(r) => PlanningAt(b, n)' = PlanningAt(b, n) \ {r}
         /\ UNCHANGED planner => PlanningAt(b, n)' = PlanningAt(b, n)
         /\ \A d, m : planner[r] = Idle /\ Goes(r, d, m) /\ <<d, m>> # <<b, n>>
                        => PlanningAt(b, n)' = PlanningAt(b, n)
<1>1. DOMAIN planner = Planners
  BY DEF YardTypeOK
<1>2. Idle # [pc |-> "insert", b |-> b, slot |-> n]
  BY DEF Idle
<1>3. Finished(r) => PlanningAt(b, n)' = PlanningAt(b, n) \ {r}
  BY <1>1, <1>2 DEF PlanningAt, Finished
<1>4. ASSUME NEW d, NEW m, planner[r] = Idle, Goes(r, d, m), <<d, m>> # <<b, n>>
      PROVE  PlanningAt(b, n)' = PlanningAt(b, n)
  <2>1. [pc |-> "insert", b |-> d, slot |-> m] # [pc |-> "insert", b |-> b, slot |-> n]
    BY <1>4
  <2>2. \A q \in Planners : planner'[q] = [pc |-> "insert", b |-> b, slot |-> n]
                            <=> planner[q] = [pc |-> "insert", b |-> b, slot |-> n]
    BY <1>1, <1>2, <1>4, <2>1 DEF Goes
  <2>3. QED
    BY <2>2 DEF PlanningAt
<1>5. QED
  BY <1>3, <1>4 DEF PlanningAt

(* The numbers of a place, and what the invariant says of them.              *)
LEMMA PlaceTypes ==
  ASSUME YardTypeOK, NEW n \in Slots
  PROVE  /\ \A b \in Blocks : plans[<<b, n>>] \in Nat
         /\ reefers[n] \in Nat /\ n \in Nat
         /\ \A b : Cardinality(PlanningAt(b, n)) \in Nat
                   /\ Cardinality(PlanningAt(b, n)) <= Cardinality(Planners)
         /\ Cardinality(Planners) \in Nat /\ departures \in Nat
         /\ Cardinality(Planners) * departures \in Nat
         /\ Cardinality(Planners) * (departures + 1)
              = Cardinality(Planners) * departures + Cardinality(Planners)
<1>1. \A b : PlanningAt(b, n) \subseteq Planners
  BY DEF PlanningAt
<1>2. Cardinality(Planners) \in Nat /\ departures \in Nat
  BY FS_CardinalityType, YardSetsAssumption, MaxDeparturesAssumption DEF YardTypeOK
<1>3. \A P, d \in Nat : P * d \in Nat /\ P * (d + 1) = P * d + P
  OBVIOUS
<1>4. (\A b \in Blocks : plans[<<b, n>>] \in Nat) /\ reefers[n] \in Nat /\ n \in Nat
  BY DEF YardTypeOK, Slots
<1>5. QED
  BY <1>1, <1>2, <1>3, <1>4, PlannersCount

(* A step that adds no row, starts no request and lowers no count keeps the  *)
(* invariant, and so does one that reads a count and starts a request.       *)
LEMMA PlacesInvQuiet ==
  ASSUME YardTypeOK, PlacesInv, UNCHANGED <<plans, reefers, departures>>,
         \A b \in Blocks : NextYardSlot(b)' \in Nat /\ NextYardSlot(b)' >= NextYardSlot(b),
         NextReeferIndex' = NextReeferIndex,
         \A b, n : PlanningAt(b, n)' \subseteq PlanningAt(b, n)
  PROVE  PlacesInv'
<1>1. ASSUME NEW b, NEW n \in Slots
      PROVE  /\ Cardinality(PlanningAt(b, n)') <= Cardinality(PlanningAt(b, n))
             /\ Cardinality(PlanningAt(b, n)') \in Nat
  <2>1. PlanningAt(b, n) \subseteq Planners /\ PlanningAt(b, n)' \subseteq Planners
    BY DEF PlanningAt
  <2>2. QED
    BY <2>1, PlannersCount
<1>2. ASSUME NEW b \in Blocks, NEW n \in Slots
      PROVE  PlaceCount(plans'[<<b, n>>], Cardinality(PlanningAt(b, n)'), NextYardSlot(b)', n,
                        Cardinality(Planners) * departures')
  BY <1>1, PlaceTypes, CountsKept, NextSlotType DEF PlacesInv
<1>3. ASSUME NEW n \in Slots
      PROVE  PlaceCount(reefers'[n], Cardinality(PlanningAt(Reefer, n)'), NextReeferIndex', n, 0)
  <2>1. PlaceCount(reefers[n], Cardinality(PlanningAt(Reefer, n)), NextReeferIndex, n, 0)
    BY DEF PlacesInv
  <2>2. NextReeferIndex \in Nat /\ NextReeferIndex' >= NextReeferIndex
    BY NextSlotType
  <2>3. QED
    BY <1>1, <2>1, <2>2, PlaceTypes, CountsKept
<1>4. QED
  BY <1>2, <1>3 DEF PlacesInv, Slots

LEMMA PlacesInvRead ==
  ASSUME YardTypeOK, PlacesInv, NEW r \in Planners,
         ReeferRead(r) \/ \E b \in Blocks : PlanRead(r, b)
  PROVE  PlacesInv'
<1>1. UNCHANGED <<plans, reefers, departures, block, positions>>
  BY DEF ReeferRead, PlanRead
<1>2. PICK d \in Blocks \cup {Reefer}, m \in Slots :
         /\ planner[r] = Idle /\ Goes(r, d, m)
         /\ d \in Blocks => m = NextYardSlot(d)
         /\ d = Reefer => m = NextReeferIndex
  BY BlocksAssumption DEF ReeferRead, PlanRead
<1>3. (\A b : NextYardSlot(b)' = NextYardSlot(b)) /\ NextReeferIndex' = NextReeferIndex
  BY <1>1 DEF NextYardSlot, PlansOf, Standing, NextReeferIndex, RowsPerSlot, Slots
<1>4. ASSUME NEW b, NEW n \in Slots
      PROVE  /\ Cardinality(PlanningAt(b, n)') \in Nat
             /\ Cardinality(PlanningAt(b, n)') <= Cardinality(Planners)
             /\ <<b, n>> # <<d, m>> => PlanningAt(b, n)' = PlanningAt(b, n)
  <2>1. PlanningAt(b, n)' \subseteq Planners
    BY DEF PlanningAt
  <2>2. QED
    BY <2>1, <1>2, PlannersCount, PlanningSteps
<1>5. ASSUME NEW b \in Blocks, NEW n \in Slots
      PROVE  PlaceCount(plans'[<<b, n>>], Cardinality(PlanningAt(b, n)'), NextYardSlot(b)', n,
                        Cardinality(Planners) * departures')
  <2>1. PlaceCount(plans[<<b, n>>], Cardinality(PlanningAt(b, n)), NextYardSlot(b), n,
                   Cardinality(Planners) * departures)
    BY DEF PlacesInv
  <2>2. CASE <<b, n>> = <<d, m>>
    <3>1. NextYardSlot(b) = n
      BY <1>2, <2>2
    <3>2. QED
      BY <1>1, <1>3, <1>4, <2>1, <3>1, PlaceTypes, CountsRead, NextSlotType
  <2>3. CASE <<b, n>> # <<d, m>>
    BY <1>1, <1>3, <1>4, <2>1, <2>3
  <2>4. QED
    BY <2>2, <2>3
<1>6. ASSUME NEW n \in Slots
      PROVE  PlaceCount(reefers'[n], Cardinality(PlanningAt(Reefer, n)'), NextReeferIndex', n, 0)
  <2>1. PlaceCount(reefers[n], Cardinality(PlanningAt(Reefer, n)), NextReeferIndex, n, 0)
    BY DEF PlacesInv
  <2>2. CASE <<Reefer, n>> = <<d, m>>
    <3>1. NextReeferIndex = n
      BY <1>2, <2>2
    <3>2. QED
      BY <1>1, <1>3, <1>4, <2>1, <3>1, PlaceTypes, CountsRead, NextSlotType
  <2>3. CASE <<Reefer, n>> # <<d, m>>
    BY <1>1, <1>3, <1>4, <2>1, <2>3
  <2>4. QED
    BY <2>2, <2>3
<1>7. QED
  BY <1>5, <1>6 DEF PlacesInv, Slots

LEMMA PlacesInvInsert ==
  ASSUME YardTypeOK, YardTypeOK', PlacesInv, NEW r \in Planners,
         PlanInsert(r) \/ ReeferInsert(r)
  PROVE  PlacesInv'
<1>1. PICK d \in Blocks \cup {Reefer}, m \in Slots :
         planner[r] = [pc |-> "insert", b |-> d, slot |-> m]
  BY DEF YardTypeOK, PlanInsert, ReeferInsert, Idle
<1>2. Finished(r) /\ UNCHANGED <<block, positions, departures>>
  BY DEF PlanInsert, ReeferInsert
<1>3. ASSUME NEW b, NEW n \in Slots
      PROVE  /\ Cardinality(PlanningAt(b, n)') \in Nat
             /\ Cardinality(PlanningAt(b, n)') <= Cardinality(PlanningAt(b, n))
             /\ <<b, n>> = <<d, m>> =>
                  /\ Cardinality(PlanningAt(b, n)) > 0
                  /\ Cardinality(PlanningAt(b, n)') = Cardinality(PlanningAt(b, n)) - 1
  <2>1. PlanningAt(b, n)' = PlanningAt(b, n) \ {r} /\ PlanningAt(b, n) \subseteq Planners
    BY <1>2, PlanningSteps DEF PlanningAt
  <2>2. <<b, n>> = <<d, m>> => r \in PlanningAt(b, n)
    BY <1>1 DEF PlanningAt
  <2>3. PlanningAt(b, n)' \in SUBSET Planners /\ PlanningAt(b, n)' \in SUBSET PlanningAt(b, n)
    BY <2>1
  <2>4. QED
    BY <2>1, <2>2, <2>3, PlannersCount
<1>4. CASE PlanInsert(r)
  <2>1. d \in Blocks /\ reefers' = reefers
         /\ plans' = [plans EXCEPT ![<<d, m>>] = @ + 1]
    BY <1>1, <1>4 DEF PlanInsert
  <2>2. ASSUME NEW b \in Blocks
        PROVE  NextYardSlot(b)' = NextYardSlot(b) + (IF b = d THEN 1 ELSE 0)
    BY <1>1, <1>4, InsertIsCounted
  <2>3. ASSUME NEW b \in Blocks, NEW n \in Slots
        PROVE  PlaceCount(plans'[<<b, n>>], Cardinality(PlanningAt(b, n)'), NextYardSlot(b)', n,
                          Cardinality(Planners) * departures')
    <3>1. PlaceCount(plans[<<b, n>>], Cardinality(PlanningAt(b, n)), NextYardSlot(b), n,
                     Cardinality(Planners) * departures)
      BY DEF PlacesInv
    <3>2. CASE <<b, n>> = <<d, m>>
      <4>1. plans'[<<b, n>>] = plans[<<b, n>>] + 1
        BY <2>1, <3>2 DEF YardTypeOK
      <4>2. NextYardSlot(b)' = NextYardSlot(b) + 1
        BY <2>2, <3>2
      <4>3. PlaceCount(plans[<<b, n>>] + 1, Cardinality(PlanningAt(b, n)) - 1,
                       NextYardSlot(b) + 1, n, Cardinality(Planners) * departures)
        BY <1>3, <3>1, <3>2, PlaceTypes, CountsInsert, NextSlotType
      <4>4. QED
        BY <1>2, <1>3, <3>2, <4>1, <4>2, <4>3
    <3>3. CASE <<b, n>> # <<d, m>>
      <4>1. plans'[<<b, n>>] = plans[<<b, n>>]
        BY <2>1, <3>3 DEF YardTypeOK
      <4>2. NextYardSlot(b)' >= NextYardSlot(b) /\ NextYardSlot(b)' \in Nat
             /\ NextYardSlot(b) \in Nat
        BY <2>2, NextSlotType
      <4>3. QED
        BY <1>2, <1>3, <3>1, <4>1, <4>2, PlaceTypes, CountsKept
    <3>4. QED
      BY <3>2, <3>3
  <2>4. NextReeferIndex' = NextReeferIndex
    BY <2>1 DEF NextReeferIndex, RowsPerSlot, Slots
  <2>5. ASSUME NEW n \in Slots
        PROVE  PlaceCount(reefers'[n], Cardinality(PlanningAt(Reefer, n)'), NextReeferIndex', n, 0)
    <3>1. PlaceCount(reefers[n], Cardinality(PlanningAt(Reefer, n)), NextReeferIndex, n, 0)
      BY DEF PlacesInv
    <3>2. NextReeferIndex \in Nat /\ NextReeferIndex' >= NextReeferIndex
      BY <2>4, NextSlotType
    <3>3. QED
      BY <1>3, <2>1, <2>4, <3>1, <3>2, PlaceTypes, CountsKept
  <2>6. QED
    BY <2>3, <2>5 DEF PlacesInv, Slots
<1>5. CASE ReeferInsert(r)
  <2>1. d = Reefer /\ plans' = plans
         /\ reefers' = [reefers EXCEPT ![m] = @ + 1]
    BY <1>1, <1>5 DEF ReeferInsert
  <2>2. NextReeferIndex' = NextReeferIndex + 1 /\ NextReeferIndex \in Nat
    BY <1>5, ReeferIsCounted, NextSlotType
  <2>3. ASSUME NEW n \in Slots
        PROVE  PlaceCount(reefers'[n], Cardinality(PlanningAt(Reefer, n)'), NextReeferIndex', n, 0)
    <3>1. PlaceCount(reefers[n], Cardinality(PlanningAt(Reefer, n)), NextReeferIndex, n, 0)
      BY DEF PlacesInv
    <3>2. CASE n = m
      <4>1. reefers'[n] = reefers[n] + 1
        BY <2>1, <3>2 DEF YardTypeOK
      <4>2. PlaceCount(reefers[n] + 1, Cardinality(PlanningAt(Reefer, n)) - 1,
                       NextReeferIndex + 1, n, 0)
        BY <1>3, <2>1, <2>2, <3>1, <3>2, PlaceTypes, CountsInsert
      <4>3. QED
        BY <1>3, <2>1, <2>2, <3>2, <4>1, <4>2
    <3>3. CASE n # m
      <4>1. reefers'[n] = reefers[n]
        BY <2>1, <3>3 DEF YardTypeOK
      <4>2. NextReeferIndex' >= NextReeferIndex /\ NextReeferIndex' \in Nat
        BY <2>2
      <4>3. QED
        BY <1>3, <2>2, <3>1, <4>1, <4>2, PlaceTypes, CountsKept
    <3>4. QED
      BY <3>2, <3>3
  <2>4. ASSUME NEW b \in Blocks PROVE NextYardSlot(b)' = NextYardSlot(b)
    BY <1>2, <2>1 DEF NextYardSlot, PlansOf, Standing, RowsPerSlot, Slots
  <2>5. ASSUME NEW b \in Blocks, NEW n \in Slots
        PROVE  PlaceCount(plans'[<<b, n>>], Cardinality(PlanningAt(b, n)'), NextYardSlot(b)', n,
                          Cardinality(Planners) * departures')
    <3>1. PlaceCount(plans[<<b, n>>], Cardinality(PlanningAt(b, n)), NextYardSlot(b), n,
                     Cardinality(Planners) * departures)
      BY DEF PlacesInv
    <3>2. NextYardSlot(b) \in Nat /\ NextYardSlot(b)' >= NextYardSlot(b)
      BY <2>4, NextSlotType
    <3>3. QED
      BY <1>2, <1>3, <2>1, <2>4, <3>1, <3>2, PlaceTypes, CountsKept
  <2>6. QED
    BY <2>3, <2>5 DEF PlacesInv, Slots
<1>6. QED
  BY <1>4, <1>5

LEMMA PlacesInvDeparture ==
  ASSUME YardTypeOK, YardTypeOK', PlacesInv,
         NEW c \in Stored, NEW d \in Blocks \cup {"none"}, LeavesBlock(c, d)
  PROVE  PlacesInv'
<1>1. UNCHANGED <<plans, positions, reefers, planner>> /\ departures' = departures + 1
  BY DEF LeavesBlock
<1>2. (\A b, n : PlanningAt(b, n)' = PlanningAt(b, n)) /\ NextReeferIndex' = NextReeferIndex
  BY <1>1 DEF PlanningAt, NextReeferIndex, RowsPerSlot, Slots
<1>3. ASSUME NEW b \in Blocks PROVE NextYardSlot(b)' \in Nat
  <2>1. IsFiniteSet({e \in Stored : block'[e] = b})
    BY FS_Subset, YardSetsAssumption
  <2>2. Standing(b)' \in Nat
    BY <2>1, FS_CardinalityType DEF Standing
  <2>3. PlansOf(b)' = PlansOf(b) /\ PlansOf(b) \in Nat
    BY <1>1, NextSlotType DEF PlansOf, RowsPerSlot, Slots
  <2>4. QED
    BY <2>2, <2>3 DEF NextYardSlot
<1>4. ASSUME NEW b \in Blocks, NEW n \in Slots
      PROVE  PlaceCount(plans'[<<b, n>>], Cardinality(PlanningAt(b, n)'), NextYardSlot(b)', n,
                        Cardinality(Planners) * departures')
  <2>1. Cardinality(Planners) * departures'
          = Cardinality(Planners) * departures + Cardinality(Planners)
         /\ Cardinality(Planners) * departures' \in Nat
    BY <1>1, PlaceTypes
  <2>2. PlaceCount(plans[<<b, n>>], Cardinality(PlanningAt(b, n)), NextYardSlot(b), n,
                   Cardinality(Planners) * departures)
    BY DEF PlacesInv
  <2>3. PlaceCount(plans[<<b, n>>], Cardinality(PlanningAt(b, n)), NextYardSlot(b)', n,
                   Cardinality(Planners) * departures + Cardinality(Planners))
    BY <1>3, <2>2, PlaceTypes, CountsDeparted, NextSlotType
  <2>4. QED
    BY <1>1, <1>2, <2>1, <2>3
<1>5. QED
  BY <1>1, <1>2, <1>4 DEF PlacesInv, Slots

(* In every state of the allocators, whatever the numbers of planners, slots *)
(* and departures, the rows of a place and the requests that are about to    *)
(* add to it are bounded by the planners that can have read the same count:  *)
(* once per planner between two departures for a yard slot, once altogether  *)
(* for a reefer point.  The count that create_yard_plan inserted after, and  *)
(* not a lock, is what bounds them: CollisionsNeedARace follows.             *)
THEOREM YardCollisionsBounded == YardSpec => []CollisionsNeedARace
<1>1. YardInit => PlacesInv
  <2>1. SUFFICES ASSUME YardInit PROVE PlacesInv
    OBVIOUS
  <2>2. ASSUME NEW b, NEW n PROVE Cardinality(PlanningAt(b, n)) = 0
    <3>1. PlanningAt(b, n) = {}
      BY <2>1 DEF YardInit, PlanningAt, Idle
    <3>2. QED
      BY <3>1, FS_EmptySet
  <2>3. ASSUME NEW given, NEW f, NEW next, NEW n, NEW low \in Nat, given = 0, f = 0
        PROVE  PlaceCount(given, f, next, n, low)
    BY <2>3, FS_CardinalityType, YardSetsAssumption DEF PlaceCount
  <2>4. Cardinality(Planners) * departures \in Nat
    <3>1. departures = 0 /\ Cardinality(Planners) \in Nat
      BY <2>1, FS_CardinalityType, YardSetsAssumption DEF YardInit
    <3>2. QED
      BY <3>1
  <2>5. (\A b \in Blocks, n \in Slots : plans[<<b, n>>] = 0) /\ (\A n \in Slots : reefers[n] = 0)
    BY <2>1 DEF YardInit
  <2>6. QED
    BY <2>2, <2>3, <2>4, <2>5 DEF PlacesInv
<1>2. ASSUME YardTypeOK, YardTypeOK', PlacesInv, YardNext PROVE PlacesInv'
  <2>1. ASSUME NEW r \in Planners, NEW b \in Blocks, PlanRead(r, b) PROVE PlacesInv'
    BY <1>2, <2>1, PlacesInvRead
  <2>2. ASSUME NEW r \in Planners, ReeferRead(r) PROVE PlacesInv'
    BY <1>2, <2>2, PlacesInvRead
  <2>3. ASSUME NEW r \in Planners, PlanInsert(r) \/ ReeferInsert(r) PROVE PlacesInv'
    BY <1>2, <2>3, PlacesInvInsert
  <2>4. ASSUME NEW r \in Planners, PlannerCrash(r) PROVE PlacesInv'
    <3>1. UNCHANGED <<block, plans, positions, reefers, departures>> /\ Finished(r)
      BY <2>4 DEF PlannerCrash
    <3>2. (\A b \in Blocks : NextYardSlot(b)' = NextYardSlot(b)) /\ NextReeferIndex' = NextReeferIndex
      BY <3>1 DEF NextYardSlot, PlansOf, Standing, NextReeferIndex, RowsPerSlot, Slots
    <3>3. \A b, n : PlanningAt(b, n)' \subseteq PlanningAt(b, n)
      BY <1>2, <3>1, PlanningSteps
    <3>4. \A b \in Blocks : NextYardSlot(b)' \in Nat /\ NextYardSlot(b)' >= NextYardSlot(b)
      BY <1>2, <3>2, NextSlotType
    <3>5. QED
      BY <1>2, <3>1, <3>2, <3>3, <3>4, PlacesInvQuiet
  <2>5. ASSUME NEW d \in Blocks, PositionRow(d) \/ \E c \in Stored : EntersBlock(c, d)
        PROVE  PlacesInv'
    <3>1. UNCHANGED <<plans, reefers, departures, planner>>
      BY <2>5 DEF PositionRow, EntersBlock
    <3>2. NextReeferIndex' = NextReeferIndex /\ \A b, n : PlanningAt(b, n)' = PlanningAt(b, n)
      BY <3>1 DEF NextReeferIndex, RowsPerSlot, Slots, PlanningAt
    <3>3. \A b \in Blocks : NextYardSlot(b)' \in Nat /\ NextYardSlot(b)' >= NextYardSlot(b)
      BY <1>2, <2>5, ArrivalIsCounted
    <3>4. QED
      BY <1>2, <3>1, <3>2, <3>3, PlacesInvQuiet
  <2>6. ASSUME NEW c \in Stored, NEW d \in Blocks \cup {"none"}, LeavesBlock(c, d)
        PROVE  PlacesInv'
    BY <1>2, <2>6, PlacesInvDeparture
  <2>7. QED
    BY <1>2, <2>1, <2>2, <2>3, <2>4, <2>5, <2>6 DEF YardNext
<1>3. PlacesInv /\ UNCHANGED yardVars => PlacesInv'
  BY DEF PlacesInv, yardVars, NextYardSlot, PlansOf, Standing, NextReeferIndex, RowsPerSlot,
         Slots, PlanningAt
<1>4. YardTypeOK /\ PlacesInv => CollisionsNeedARace
  <2>1. SUFFICES ASSUME YardTypeOK, PlacesInv PROVE CollisionsNeedARace
    OBVIOUS
  <2>2. ASSUME NEW b \in Blocks, NEW n \in Slots
        PROVE  plans[<<b, n>>] <= Cardinality(Planners) * (1 + departures)
    <3>1. Cardinality(Planners) * (1 + departures)
            = Cardinality(Planners) * departures + Cardinality(Planners)
      BY <2>1, PlaceTypes
    <3>2. QED
      BY <2>1, <3>1, PlaceTypes DEF PlacesInv, PlaceCount
  <2>3. ASSUME NEW n \in Slots PROVE reefers[n] <= Cardinality(Planners)
    BY <2>1, PlaceTypes DEF PlacesInv, PlaceCount
  <2>4. DOMAIN plans = Blocks \X Slots
    BY <2>1 DEF YardTypeOK
  <2>5. QED
    BY <2>2, <2>3, <2>4 DEF CollisionsNeedARace
<1>5. QED
  BY <1>1, <1>2, <1>3, <1>4, YardTypeCorrect, PTL DEF YardSpec

(* What next_yard_slot's docstring says, repeated planning does not collide, *)
(* holds of one request at a time in a yard no container leaves: with one    *)
(* planner and no departure every slot is planned at most once.              *)
THEOREM LonePlannerDoesNotCollide ==
  ASSUME Cardinality(Planners) = 1, MaxDepartures = 0
  PROVE  YardSpec => []PlansDoNotCollide
<1>1. YardTypeOK /\ CollisionsNeedARace => PlansDoNotCollide
  BY DEF YardTypeOK, CollisionsNeedARace, PlansDoNotCollide
<1>2. QED
  BY <1>1, YardTypeCorrect, YardCollisionsBounded, PTL

-----------------------------------------------------------------------------
(* Gate appointments: the windows of the gateway, their rows, the bookings *)

\* What is left of a ring: its end.
LEMMA NewestFacts ==
  ASSUME NEW ring \in Seq(Counted)
  PROVE  \E k \in 0 .. Len(ring) :
           /\ Newest(ring) \in Seq(Counted)
           /\ Len(Newest(ring)) = Len(ring) - k
           /\ Len(ring) # 0 => k # Len(ring)
           /\ \A i \in 1 .. Len(ring) - k : Newest(ring)[i] = ring[i + k]
<1>1. MaxWindows \in Nat \ {0} /\ Len(ring) \in Nat
  BY MeteringAssumption
<1>2. CASE Len(ring) > MaxWindows
  <2>1. Newest(ring) = SubSeq(ring, Len(ring) - MaxWindows + 1, Len(ring))
    BY <1>2 DEF Newest
  <2>2. Len(ring) - MaxWindows \in 0 .. Len(ring)
    BY <1>1, <1>2
  <2>3. /\ SubSeq(ring, Len(ring) - MaxWindows + 1, Len(ring)) \in Seq(Counted)
        /\ Len(SubSeq(ring, Len(ring) - MaxWindows + 1, Len(ring))) = MaxWindows
        /\ \A i \in 1 .. MaxWindows :
             SubSeq(ring, Len(ring) - MaxWindows + 1, Len(ring))[i]
               = ring[Len(ring) - MaxWindows + 1 + i - 1]
    BY <1>1, <1>2, <2>2, SubSeqProperties
  <2>4. /\ Newest(ring) \in Seq(Counted)
        /\ Len(Newest(ring)) = Len(ring) - (Len(ring) - MaxWindows)
        /\ Len(ring) # 0 => (Len(ring) - MaxWindows) # Len(ring)
        /\ \A i \in 1 .. Len(ring) - (Len(ring) - MaxWindows) :
             Newest(ring)[i] = ring[i + (Len(ring) - MaxWindows)]
    <3>1. \A i \in 1 .. MaxWindows :
            Len(ring) - MaxWindows + 1 + i - 1 = i + (Len(ring) - MaxWindows)
      BY <1>1
    <3>2. Len(ring) - (Len(ring) - MaxWindows) = MaxWindows
      BY <1>1
    <3>3. QED
      BY <1>1, <2>1, <2>3, <3>1, <3>2
  <2>5. QED
    BY <2>2, <2>4
<1>3. CASE ~(Len(ring) > MaxWindows)
  <2>1. Newest(ring) = SubSeq(ring, 1, Len(ring))
    BY <1>3 DEF Newest
  <2>2. /\ SubSeq(ring, 1, Len(ring)) \in Seq(Counted)
        /\ Len(SubSeq(ring, 1, Len(ring))) = Len(ring)
        /\ \A i \in 1 .. Len(ring) : SubSeq(ring, 1, Len(ring))[i] = ring[i]
    BY <1>1, SubSeqProperties
  <2>3. QED
    BY <1>1, <2>1, <2>2
<1>4. QED
  BY <1>2, <1>3

LEMMA SeatedFacts ==
  ASSUME NEW ring \in Seq(Counted), NEW w \in Counted
  PROVE  /\ Seated(ring, w) \in Seq(Counted)
         /\ w.id \in Ids(Seated(ring, w))
         /\ w.id \in Ids(ring) =>
              /\ DOMAIN Seated(ring, w) = DOMAIN ring
              /\ \A i \in DOMAIN ring :
                   /\ Seated(ring, w)[i] = (IF ring[i].id = w.id THEN w ELSE ring[i])
                   /\ Seated(ring, w)[i].id = ring[i].id
         /\ w.id \notin Ids(ring) =>
              \E k \in 0 .. Len(ring) :
                /\ DOMAIN Seated(ring, w) = 1 .. Len(ring) + 1 - k
                /\ \A i \in 1 .. Len(ring) - k : Seated(ring, w)[i] = ring[i + k]
                /\ Seated(ring, w)[Len(ring) + 1 - k] = w
<1>1. CASE w.id \in Ids(ring)
  <2>1. Seated(ring, w) = [i \in DOMAIN ring |-> IF ring[i].id = w.id THEN w ELSE ring[i]]
    BY <1>1 DEF Seated
  <2>2. DOMAIN ring = 1 .. Len(ring) /\ Len(ring) \in Nat /\ \A i \in DOMAIN ring : ring[i] \in Counted
    OBVIOUS
  <2>3. Seated(ring, w) \in Seq(Counted)
    BY <2>1, <2>2
  <2>4. QED
    BY <1>1, <2>1, <2>3 DEF Ids
<1>2. CASE w.id \notin Ids(ring)
  <2>1. Seated(ring, w) = Newest(Append(ring, w))
    BY <1>2 DEF Seated
  <2>2. /\ Append(ring, w) \in Seq(Counted) /\ Len(Append(ring, w)) = Len(ring) + 1
        /\ Len(ring) \in Nat /\ Append(ring, w)[Len(ring) + 1] = w
        /\ \A i \in 1 .. Len(ring) : Append(ring, w)[i] = ring[i]
    OBVIOUS
  <2>3. PICK k \in 0 .. Len(ring) + 1 :
           /\ Newest(Append(ring, w)) \in Seq(Counted)
           /\ Len(Newest(Append(ring, w))) = Len(ring) + 1 - k
           /\ k # Len(ring) + 1
           /\ \A i \in 1 .. Len(ring) + 1 - k : Newest(Append(ring, w))[i] = Append(ring, w)[i + k]
    <3> DEFINE long == Append(ring, w)
    <3>1. long \in Seq(Counted) /\ Len(long) = Len(ring) + 1 /\ Len(long) # 0
      BY <2>2
    <3>2. \E k \in 0 .. Len(long) :
             /\ Newest(long) \in Seq(Counted)
             /\ Len(Newest(long)) = Len(long) - k
             /\ Len(long) # 0 => k # Len(long)
             /\ \A i \in 1 .. Len(long) - k : Newest(long)[i] = long[i + k]
      <4> HIDE DEF long
      <4>1. QED
        BY <3>1, NewestFacts
    <3>3. \E k \in 0 .. Len(ring) + 1 :
             /\ Newest(long) \in Seq(Counted)
             /\ Len(Newest(long)) = Len(ring) + 1 - k
             /\ k # Len(ring) + 1
             /\ \A i \in 1 .. Len(ring) + 1 - k : Newest(long)[i] = long[i + k]
      <4> HIDE DEF long
      <4>1. QED
        BY <3>1, <3>2
    <3>4. QED
      BY <3>3
  <2>4. k \in 0 .. Len(ring)
    BY <2>2, <2>3
  <2>5. DOMAIN Seated(ring, w) = 1 .. Len(ring) + 1 - k
    BY <2>1, <2>3
  <2>6. \A i \in 1 .. Len(ring) - k : Seated(ring, w)[i] = ring[i + k]
    BY <2>1, <2>2, <2>3, <2>4
  <2>7. Seated(ring, w)[Len(ring) + 1 - k] = w
    <3>1. Len(ring) + 1 - k \in 1 .. Len(ring) + 1 - k /\ Len(ring) + 1 - k + k = Len(ring) + 1
      BY <2>2, <2>4
    <3>2. QED
      BY <2>1, <2>2, <2>3, <3>1
  <2>8. w.id \in Ids(Seated(ring, w))
    <3>1. Len(ring) + 1 - k \in DOMAIN Seated(ring, w)
      BY <2>2, <2>4, <2>5
    <3>2. QED
      BY <2>7, <3>1 DEF Ids
  <2>9. QED
    BY <1>2, <2>1, <2>3, <2>4, <2>5, <2>6, <2>7, <2>8
<1>3. QED
  BY <1>1, <1>2

\* A row stays where it is and counts no less.
RowsKept == /\ Len(rows') \in Nat /\ Len(rows) <= Len(rows')
            /\ \A i \in 1 .. Len(rows) :
                 rows'[i].id = rows[i].id /\ rows[i].booked <= rows'[i].booked

LEMMA UpsertedFacts ==
  ASSUME rows \in Seq(Counted), NEW w \in Counted
  PROVE  /\ Upserted(w) \in Seq(Counted) /\ Len(rows) <= Len(Upserted(w))
         /\ \A i \in 1 .. Len(rows) :
              Upserted(w)[i].id = rows[i].id /\ rows[i].booked <= Upserted(w)[i].booked
         /\ \A i \in DOMAIN Upserted(w) \ DOMAIN rows :
              Upserted(w)[i] = w /\ w.id \notin Ids(rows)
<1>1. CASE w.id \in Ids(rows)
  <2>1. Upserted(w) = [i \in DOMAIN rows |-> IF rows[i].id = w.id /\ rows[i].booked < w.booked
                                               THEN w ELSE rows[i]]
    BY <1>1 DEF Upserted
  <2>2. DOMAIN rows = 1 .. Len(rows) /\ Len(rows) \in Nat
    OBVIOUS
  <2>3. \A i \in DOMAIN rows : rows[i] \in Counted
    OBVIOUS
  <2>4. Upserted(w) \in Seq(Counted) /\ Len(Upserted(w)) = Len(rows)
    BY <2>1, <2>2, <2>3
  <2>5. \A i \in DOMAIN rows : rows[i].booked \in Nat /\ w.booked \in Nat
    BY <2>3 DEF Counted
  <2>6. \A i \in 1 .. Len(rows) :
          Upserted(w)[i].id = rows[i].id /\ rows[i].booked <= Upserted(w)[i].booked
    BY <2>1, <2>2, <2>5
  <2>7. DOMAIN Upserted(w) \ DOMAIN rows = {}
    BY <2>1
  <2>8. QED
    BY <2>2, <2>4, <2>6, <2>7
<1>2. CASE w.id \notin Ids(rows)
  <2>1. Upserted(w) = Append(rows, w)
    BY <1>2 DEF Upserted
  <2>2. /\ Append(rows, w) \in Seq(Counted) /\ Len(Append(rows, w)) = Len(rows) + 1
        /\ Len(rows) \in Nat /\ Append(rows, w)[Len(rows) + 1] = w
        /\ \A i \in 1 .. Len(rows) : Append(rows, w)[i] = rows[i] /\ rows[i] \in Counted
    OBVIOUS
  <2>3. DOMAIN Append(rows, w) \ DOMAIN rows = {Len(rows) + 1}
    BY <2>2
  <2>4. QED
    BY <1>2, <2>1, <2>2, <2>3 DEF Counted
<1>3. QED
  BY <1>1, <1>2

LEMMA BumpFacts ==
  ASSUME NEW ring \in Seq(Counted), NEW i \in DOMAIN ring
  PROVE  LET after == [ring EXCEPT ![i].booked = @ + 1]
         IN /\ after \in Seq(Counted) /\ DOMAIN after = DOMAIN ring /\ Len(after) = Len(ring)
            /\ \A j \in DOMAIN ring : /\ after[j].id = ring[j].id
                                      /\ after[j].booked = ring[j].booked + (IF j = i THEN 1 ELSE 0)
<1> DEFINE e == [ring[i] EXCEPT !.booked = @ + 1]
<1>1. DOMAIN ring = 1 .. Len(ring) /\ Len(ring) \in Nat /\ \A j \in DOMAIN ring : ring[j] \in Counted
  OBVIOUS
<1>2. e \in Counted /\ e.id = ring[i].id /\ e.booked = ring[i].booked + 1
  BY <1>1 DEF Counted
<1>3. [ring EXCEPT ![i].booked = @ + 1] = [ring EXCEPT ![i] = e]
  BY <1>1
<1>4. [ring EXCEPT ![i] = e] \in Seq(Counted)
  BY <1>1, <1>2, ExceptSeq
<1>5. \A j \in DOMAIN ring : [ring EXCEPT ![i] = e][j] = IF j = i THEN e ELSE ring[j]
  BY <1>1
<1>6. DOMAIN [ring EXCEPT ![i] = e] = DOMAIN ring /\ Len([ring EXCEPT ![i] = e]) = Len(ring)
  BY <1>1, <1>4
<1>7. \A j \in DOMAIN ring : ring[j].booked \in Nat
  BY <1>1 DEF Counted
<1> HIDE DEF e
<1>8. QED
  BY <1>2, <1>3, <1>4, <1>5, <1>6, <1>7

\* A request has no booking before its transaction, no window before the guard,
\* and books an appointment that is there.
RequestsFit == \A t \in Truck :
  /\ request[t].pc \in {"new", "passed"} => request[t].status = "none"
  /\ request[t].pc = "new" => request[t].meter = Nothing
  /\ request[t].status # "none" => appointment[SlotOf[t]] # Nothing

\* A gateway that does not serve has nobody between the guard and the count, and
\* rows to seat only while it restores.
DownIsQuiet ==
  /\ gateway # "serving" => \A t \in Truck : ~InFlight(t)
  /\ gateway \in {"starting", "serving"} => fetched = <<>>

MeterInv == MeteringTypeOK /\ RequestsFit /\ DownIsQuiet

LEMMA MeterInitInv == MeteringInit => MeterInv
<1> SUFFICES ASSUME MeteringInit PROVE MeterInv
  OBVIOUS
<1>1. MeteringTypeOK
  <2>1. restarts \in 0 .. MaxRestarts
    BY MeteringAssumption DEF MeteringInit
  <2>2. windows \in Seq(Counted) /\ fetched \in Seq(Counted) /\ rows \in Seq(Counted)
    BY EmptySeq DEF MeteringInit
  <2>3. QED
    BY <2>1, <2>2, Zenon DEF MeteringInit, MeteringTypeOK
<1>2. RequestsFit /\ DownIsQuiet
  BY DEF MeteringInit, RequestsFit, DownIsQuiet, InFlight
<1>3. QED
  BY <1>1, <1>2 DEF MeterInv

LEMMA TailFacts ==
  ASSUME MeterInv, SeatFetched
  PROVE  /\ Len(fetched) \in Nat /\ Len(fetched) > 0 /\ fetched[1] \in Counted
         /\ windows' = Seated(windows, fetched[1])
         /\ fetched' \in Seq(Counted) /\ DOMAIN fetched' = 1 .. Len(fetched) - 1
         /\ \A i \in 1 .. Len(fetched) - 1 : fetched'[i] = fetched[i + 1] /\ i + 1 \in DOMAIN fetched
<1>1. fetched \in Seq(Counted) /\ fetched # <<>>
  BY DEF MeterInv, MeteringTypeOK, SeatFetched
<1>2. /\ Len(fetched) \in Nat /\ Len(fetched) > 0 /\ DOMAIN fetched = 1 .. Len(fetched)
      /\ \A i \in 1 .. Len(fetched) : fetched[i] \in Counted
  BY <1>1
<1>3. fetched' = [i \in 1 .. Len(fetched) - 1 |-> IF i < 1 THEN fetched[i] ELSE fetched[i + 1]]
  BY DEF SeatFetched, NextFetched
<1>4. \A i \in 1 .. Len(fetched) - 1 : i + 1 \in 1 .. Len(fetched) /\ ~(i < 1)
  BY <1>2
<1>5. fetched' = [i \in 1 .. Len(fetched) - 1 |-> fetched[i + 1]]
  BY <1>3, <1>4
<1>6. Len(fetched) - 1 \in Nat
  BY <1>2
<1>7. fetched' \in [1 .. Len(fetched) - 1 -> Counted]
  BY <1>2, <1>4, <1>5
<1>8. fetched' \in Seq(Counted)
  BY <1>6, <1>7, SeqDef
<1>9. windows' = Seated(windows, fetched[1])
  BY DEF SeatFetched, NextFetched
<1>10. QED
  BY <1>2, <1>4, <1>5, <1>8, <1>9

LEMMA AppliedType ==
  ASSUME MeterInv, NEW m \in Meter, Apply(m)
  PROVE  \E b \in Nat : LET w == [id |-> m, booked |-> b]
                        IN /\ w \in Counted
                           /\ windows' = Seated(windows, w)
                           /\ saving' = saving \union {w}
                           /\ m \notin Ids(windows) => b = 0
                           /\ m \in Ids(windows) =>
                                \E i \in DOMAIN windows : windows[i].id = m /\ b = windows[i].booked
<1>1. windows \in Seq(Counted)
  BY DEF MeterInv, MeteringTypeOK
<1>2. CASE m \in Ids(windows)
  <2> DEFINE i == CHOOSE i \in DOMAIN windows : windows[i].id = m
  <2>1. i \in DOMAIN windows /\ windows[i].id = m
    <3>1. \E j \in DOMAIN windows : windows[j].id = m
      BY <1>2 DEF Ids
    <3>2. QED
      BY <3>1
  <2>2. /\ windows' = Seated(windows, [id |-> m, booked |-> windows[i].booked])
        /\ saving' = saving \union {[id |-> m, booked |-> windows[i].booked]}
    BY <1>2 DEF Apply
  <2> HIDE DEF i
  <2>3. windows[i].booked \in Nat
    <3>1. windows[i] \in Counted
      BY <1>1, <2>1
    <3>2. QED
      BY <3>1 DEF Counted
  <2>4. [id |-> m, booked |-> windows[i].booked] \in Counted
    BY <2>3 DEF Counted
  <2>5. QED
    <3> DEFINE b == windows[i].booked
    <3>1. b \in Nat /\ [id |-> m, booked |-> b] \in Counted
      BY <2>3, <2>4
    <3>2. \E j \in DOMAIN windows : windows[j].id = m /\ b = windows[j].booked
      BY <2>1
    <3>3. /\ windows' = Seated(windows, [id |-> m, booked |-> b])
          /\ saving' = saving \union {[id |-> m, booked |-> b]}
      BY <2>2
    <3> HIDE DEF b
    <3>4. QED
      BY <1>2, <3>1, <3>2, <3>3
<1>3. CASE m \notin Ids(windows)
  <2>1. /\ windows' = Seated(windows, [id |-> m, booked |-> 0])
        /\ saving' = saving \union {[id |-> m, booked |-> 0]}
    BY <1>3 DEF Apply
  <2>2. [id |-> m, booked |-> 0] \in Counted
    BY DEF Counted
  <2>3. QED
    BY <1>3, <2>1, <2>2
<1>4. QED
  BY <1>2, <1>3

LEMMA WindowStepInv ==
  ASSUME MeterInv, WindowNext
  PROVE  MeterInv' /\ RowsKept
<1> USE DEF MeterInv
<1>0. /\ rows \in Seq(Counted) /\ Len(rows) \in Nat /\ windows \in Seq(Counted)
      /\ \A i \in 1 .. Len(rows) : rows[i].booked \in Nat
  <2>1. rows \in Seq(Counted) /\ windows \in Seq(Counted)
    BY DEF MeteringTypeOK
  <2>2. \A i \in 1 .. Len(rows) : rows[i] \in Counted
    BY <2>1
  <2>3. QED
    BY <2>1, <2>2 DEF Counted
<1>1. ASSUME NEW m \in Meter, Apply(m)
      PROVE  MeterInv' /\ RowsKept
  <2>1. PICK b \in Nat : /\ [id |-> m, booked |-> b] \in Counted
                         /\ windows' = Seated(windows, [id |-> m, booked |-> b])
                         /\ saving' = saving \union {[id |-> m, booked |-> b]}
    BY <1>1, AppliedType
  <2>2. windows' \in Seq(Counted)
    BY <1>0, <2>1, SeatedFacts
  <2>3. saving' \subseteq Counted
    BY <2>1 DEF MeteringTypeOK
  <2>4. forgotten' \subseteq Meter
    <3>1. \A i \in DOMAIN windows : windows[i] \in Counted
      BY <1>0
    <3>2. Ids(windows) \subseteq Meter
      BY <3>1 DEF Ids, Counted
    <3>3. QED
      BY <1>1, <3>2 DEF Apply, MeteringTypeOK
  <2>5. older' \subseteq Meter \X Meter
    BY <1>1 DEF Apply, MeteringTypeOK, CameLast
  <2>6. overtaken' \in BOOLEAN
    BY <1>1 DEF Apply, MeteringTypeOK
  <2>7. UNCHANGED <<gateway, fetched, rows, appointment, request, restarts, lost, revived, lowered>>
    BY <1>1 DEF Apply
  <2>8. MeteringTypeOK'
    BY <2>2, <2>3, <2>4, <2>5, <2>6, <2>7 DEF MeteringTypeOK
  <2>9. RequestsFit' /\ DownIsQuiet' /\ RowsKept
    BY <1>0, <2>7 DEF RequestsFit, DownIsQuiet, InFlight, RowsKept
  <2>10. QED
    BY <2>8, <2>9
<1>2. ASSUME NEW w \in saving, PersistWindow(w)
      PROVE  MeterInv' /\ RowsKept
  <2>1. w \in Counted
    BY DEF MeteringTypeOK
  <2>2. rows' \in Seq(Counted) /\ RowsKept
    <3>1. CASE UNCHANGED rows
      BY <1>0, <3>1 DEF RowsKept
    <3>2. CASE rows' = Upserted(w)
      <4>1. rows' \in Seq(Counted)
        BY <1>0, <2>1, <3>2, UpsertedFacts
      <4>2. Len(rows') \in Nat
        BY <4>1
      <4>3. QED
        BY <1>0, <2>1, <3>2, <4>1, <4>2, UpsertedFacts DEF RowsKept
    <3>3. QED
      BY <1>2, <3>1, <3>2 DEF PersistWindow
  <2>3. QED
    BY <1>2, <2>2 DEF PersistWindow, history, MeteringTypeOK, RequestsFit, DownIsQuiet, InFlight
<1>3. CASE Crash
  <2>1. restarts' \in 0 .. MaxRestarts
    BY <1>3, MeteringAssumption DEF Crash, MeteringTypeOK
  <2>2. \A t \in Truck :
          /\ request'[t].meter = request[t].meter /\ request'[t].status = request[t].status
          /\ request'[t].pc = (IF InFlight(t) THEN "done" ELSE request[t].pc)
          /\ request'[t] \in [pc : {"new", "passed", "booked", "done"},
                              meter : Meter \union {Nothing},
                              status : {"none", "BOOKED", "CANCELLED", "COMPLETED"}]
    BY <1>3 DEF Crash, MeteringTypeOK
  <2>3. request' \in [Truck -> [pc : {"new", "passed", "booked", "done"},
                                meter : Meter \union {Nothing},
                                status : {"none", "BOOKED", "CANCELLED", "COMPLETED"}]]
    BY <1>3, <2>2 DEF Crash
  <2>4. windows' \in Seq(Counted) /\ fetched' \in Seq(Counted) /\ saving' \subseteq Counted
        /\ lost' \subseteq Truck /\ gateway' = "starting" /\ fetched' = <<>>
        /\ UNCHANGED <<rows, appointment, older, forgotten, overtaken, revived, lowered>>
    BY <1>3, EmptySeq DEF Crash, MeteringTypeOK
  <2>5. MeteringTypeOK'
    BY <2>1, <2>3, <2>4, Zenon DEF MeteringTypeOK
  <2>6. RequestsFit'
    BY <2>2, <2>4 DEF RequestsFit
  <2>7. \A t \in Truck : request'[t].pc \notin {"passed", "booked"}
    BY <2>2 DEF InFlight
  <2>8. DownIsQuiet' /\ RowsKept
    BY <1>0, <2>4, <2>7 DEF DownIsQuiet, InFlight, RowsKept
  <2>9. QED
    BY <2>5, <2>6, <2>8
<1>4. CASE RestoreRead
  <2>1. Newest(rows) \in Seq(Counted)
    BY <1>0, NewestFacts
  <2>2. fetched' \in Seq(Counted)
    BY <1>4, <2>1, EmptySeq DEF RestoreRead
  <2>3. forgotten' \subseteq Meter
    <3>1. \A i \in DOMAIN rows : rows[i] \in Counted
      BY <1>0
    <3>2. Ids(rows) \subseteq Meter
      BY <3>1 DEF Ids, Counted
    <3>3. QED
      BY <1>4, <3>2 DEF RestoreRead, MeteringTypeOK
  <2>4. MeteringTypeOK'
    BY <1>4, <2>2, <2>3 DEF RestoreRead, MeteringTypeOK
  <2>5. RequestsFit' /\ DownIsQuiet' /\ RowsKept
    BY <1>0, <1>4 DEF RestoreRead, RequestsFit, DownIsQuiet, InFlight, RowsKept
  <2>6. QED
    BY <2>4, <2>5
<1>5. CASE SeatFetched
  <2>1. windows' \in Seq(Counted) /\ fetched' \in Seq(Counted)
    BY <1>0, <1>5, TailFacts, SeatedFacts
  <2>2. forgotten' \subseteq Meter
    <3>1. \A i \in DOMAIN windows : windows[i] \in Counted
      BY <1>0
    <3>2. Ids(windows) \subseteq Meter
      BY <3>1 DEF Ids, Counted
    <3>3. QED
      BY <1>5, <3>2 DEF SeatFetched, MeteringTypeOK
  <2>3. UNCHANGED <<rows, saving, appointment, request, restarts, older, lost,
                    overtaken, revived, lowered>> /\ gateway' = "seating" /\ gateway # "serving"
    BY <1>5 DEF SeatFetched
  <2>4. MeteringTypeOK'
    BY <2>1, <2>2, <2>3 DEF MeteringTypeOK
  <2>5. RequestsFit' /\ DownIsQuiet' /\ RowsKept
    BY <1>0, <2>3 DEF RequestsFit, DownIsQuiet, InFlight, RowsKept
  <2>6. QED
    BY <2>4, <2>5
<1>6. CASE Restored
  <2>1. MeteringTypeOK'
    BY <1>6 DEF Restored, history, MeteringTypeOK
  <2>2. RequestsFit' /\ DownIsQuiet' /\ RowsKept
    BY <1>0, <1>6 DEF Restored, history, RequestsFit, DownIsQuiet, InFlight, RowsKept
  <2>3. QED
    BY <2>1, <2>2
<1>7. QED
  BY <1>1, <1>2, <1>3, <1>4, <1>5, <1>6 DEF WindowNext

LEMMA BookingStepInv ==
  ASSUME MeterInv, NEW t \in Truck,
         PassGuard(t) \/ Book(t) \/ BookingFails(t) \/ BumpBooked(t)
  PROVE  MeterInv' /\ RowsKept
<1> USE DEF MeterInv
<1> DEFINE Request == [pc : {"new", "passed", "booked", "done"},
                       meter : Meter \union {Nothing},
                       status : {"none", "BOOKED", "CANCELLED", "COMPLETED"}]
<1>0. /\ rows \in Seq(Counted) /\ Len(rows) \in Nat /\ windows \in Seq(Counted)
      /\ \A i \in 1 .. Len(rows) : rows[i].booked \in Nat
      /\ request \in [Truck -> Request]
      /\ DownIsQuiet /\ RequestsFit
  <2>1. rows \in Seq(Counted) /\ windows \in Seq(Counted)
    BY DEF MeteringTypeOK
  <2>2. \A i \in 1 .. Len(rows) : rows[i] \in Counted
    BY <2>1
  <2>3. QED
    BY <2>1, <2>2 DEF Counted, MeteringTypeOK
<1>1. CASE PassGuard(t)
  <2>1. request' \in [Truck -> Request] /\ windows' \in Seq(Counted)
    <3>1. CASE request' = [request EXCEPT ![t].pc = "passed"] /\ UNCHANGED windows
      BY <1>0, <3>1
    <3>2. ASSUME NEW i \in DOMAIN windows,
                 windows' = [windows EXCEPT ![i].booked = @ + 1],
                 request' = [request EXCEPT ![t].pc = "passed", ![t].meter = windows[i].id]
          PROVE  request' \in [Truck -> Request] /\ windows' \in Seq(Counted)
      <4>1. windows' \in Seq(Counted)
        BY <1>0, <3>2, BumpFacts
      <4>2. windows[i] \in Counted
        BY <1>0
      <4>3. windows[i].id \in Meter
        BY <4>2 DEF Counted
      <4>4. QED
        BY <1>0, <3>2, <4>1, <4>3
    <3>3. QED
      BY <1>1, <3>1, <3>2 DEF PassGuard
  <2>2. /\ UNCHANGED <<gateway, fetched, rows, saving, appointment, restarts, history>>
        /\ gateway = "serving"
    BY <1>1 DEF PassGuard
  <2>3. MeteringTypeOK'
    BY <2>1, <2>2 DEF MeteringTypeOK, history
  <2>4. \A u \in Truck \ {t} : request'[u] = request[u]
    BY <1>0, <1>1 DEF PassGuard
  <2>5. request'[t].pc = "passed" /\ request'[t].status = request[t].status /\ request[t].pc = "new"
    BY <1>0, <1>1 DEF PassGuard
  <2>6. RequestsFit'
    BY <1>0, <2>2, <2>4, <2>5 DEF RequestsFit
  <2>7. DownIsQuiet' /\ RowsKept
    BY <1>0, <2>2 DEF DownIsQuiet, RowsKept
  <2>8. QED
    BY <2>3, <2>6, <2>7
<1>2. CASE Book(t)
  <2>1. request' \in [Truck -> Request] /\ request'[t].pc \in {"booked", "done"}
        /\ request[t].pc = "passed" /\ \A u \in Truck \ {t} : request'[u] = request[u]
    BY <1>0, <1>2 DEF Book
  <2>2. appointment' \in [SlotCode -> [capacity : Capacities, booked : Nat] \union {Nothing}]
    <3>1. SlotOf[t] \in SlotCode
      BY MeteringAssumption
    <3>2. appointment \in [SlotCode -> [capacity : Capacities, booked : Nat] \union {Nothing}]
      BY DEF MeteringTypeOK
    <3>3. appointment[SlotOf[t]] \in [capacity : Capacities, booked : Nat]
      BY <1>2, <3>1, <3>2 DEF Book
    <3>4. [appointment[SlotOf[t]] EXCEPT !.booked = @ + 1] \in [capacity : Capacities, booked : Nat]
      BY <3>3
    <3>5. appointment' = [appointment EXCEPT ![SlotOf[t]] = [appointment[SlotOf[t]] EXCEPT !.booked = @ + 1]]
      BY <1>2, <3>1, <3>2 DEF Book
    <3>6. QED
      BY <3>1, <3>2, <3>4, <3>5
  <2>3. UNCHANGED <<gateway, windows, fetched, rows, saving, restarts, history>>
    BY <1>2 DEF Book
  <2>4. MeteringTypeOK'
    BY <2>1, <2>2, <2>3 DEF MeteringTypeOK, history
  <2>5. RequestsFit'
    <3>1. \A s \in SlotCode : appointment[s] # Nothing => appointment'[s] # Nothing
      <4>1. \A s \in SlotCode \ {SlotOf[t]} : appointment'[s] = appointment[s]
        BY <1>2 DEF Book, MeteringTypeOK
      <4>2. appointment'[SlotOf[t]] \in [capacity : Capacities, booked : Nat]
        <5>1. SlotOf[t] \in SlotCode
          BY MeteringAssumption
        <5>2. appointment[SlotOf[t]] \in [capacity : Capacities, booked : Nat]
          BY <1>2, <5>1 DEF Book, MeteringTypeOK
        <5>3. [appointment[SlotOf[t]] EXCEPT !.booked = @ + 1] \in [capacity : Capacities, booked : Nat]
          BY <5>2
        <5>4. appointment'[SlotOf[t]] = [appointment[SlotOf[t]] EXCEPT !.booked = @ + 1]
          BY <1>2, <5>1 DEF Book, MeteringTypeOK
        <5>5. QED
          BY <5>3, <5>4
      <4>3. QED
        BY <4>1, <4>2, MeteringAssumption
    <3>2. appointment[SlotOf[t]] # Nothing /\ \A u \in Truck : SlotOf[u] \in SlotCode
      BY <1>2, MeteringAssumption DEF Book
    <3>3. QED
      BY <1>0, <2>1, <3>1, <3>2 DEF RequestsFit
  <2>6. gateway = "serving"
    BY <1>0, <2>1 DEF DownIsQuiet, InFlight
  <2>7. DownIsQuiet' /\ RowsKept
    BY <1>0, <2>3, <2>6 DEF DownIsQuiet, RowsKept
  <2>8. QED
    BY <2>4, <2>5, <2>7
<1>3. CASE BookingFails(t)
  <2>1. request' \in [Truck -> Request] /\ request'[t].pc = "done" /\ request[t].pc = "passed"
        /\ request'[t].status = request[t].status
        /\ \A u \in Truck \ {t} : request'[u] = request[u]
    BY <1>0, <1>3 DEF BookingFails
  <2>2. UNCHANGED <<gateway, windows, fetched, rows, saving, appointment, restarts, history>>
    BY <1>3 DEF BookingFails
  <2>3. MeteringTypeOK'
    BY <2>1, <2>2 DEF MeteringTypeOK, history
  <2>4. RequestsFit'
    BY <1>0, <2>1, <2>2 DEF RequestsFit
  <2>5. gateway = "serving"
    BY <1>0, <2>1 DEF DownIsQuiet, InFlight
  <2>6. DownIsQuiet' /\ RowsKept
    BY <1>0, <2>2, <2>5 DEF DownIsQuiet, RowsKept
  <2>7. QED
    BY <2>3, <2>4, <2>6
<1>4. CASE BumpBooked(t)
  <2>1. request' \in [Truck -> Request] /\ request'[t].pc = "done" /\ request[t].pc = "booked"
        /\ request'[t].status = request[t].status
        /\ \A u \in Truck \ {t} : request'[u] = request[u]
    BY <1>0, <1>4 DEF BumpBooked
  <2>2. rows' \in Seq(Counted) /\ RowsKept /\ lost' \subseteq Truck
    <3>1. CASE UNCHANGED rows
      BY <1>0, <1>4, <3>1 DEF RowsKept, BumpBooked, MeteringTypeOK
    <3>2. CASE UNCHANGED lost /\ rows' = [i \in DOMAIN rows |-> IF rows[i].id = request[t].meter
                                          THEN [rows[i] EXCEPT !.booked = @ + 1]
                                          ELSE rows[i]]
      <4>1. DOMAIN rows = 1 .. Len(rows) /\ \A i \in 1 .. Len(rows) : rows[i] \in Counted
        BY <1>0
      <4>2. \A i \in 1 .. Len(rows) : /\ rows'[i] \in Counted /\ rows'[i].id = rows[i].id
                                       /\ rows[i].booked <= rows'[i].booked
        <5> TAKE i \in 1 .. Len(rows)
        <5> DEFINE e == [rows[i] EXCEPT !.booked = @ + 1]
        <5>1. rows[i] \in Counted /\ i \in DOMAIN rows
          BY <4>1
        <5>2. e \in Counted /\ e.id = rows[i].id /\ e.booked = rows[i].booked + 1
          BY <5>1 DEF Counted
        <5>3. rows'[i] = IF rows[i].id = request[t].meter THEN e ELSE rows[i]
          BY <3>2, <5>1
        <5> HIDE DEF e
        <5>4. QED
          BY <1>0, <5>1, <5>2, <5>3
      <4>3. rows' \in [1 .. Len(rows) -> Counted]
        BY <3>2, <4>1, <4>2
      <4>4. rows' \in Seq(Counted) /\ Len(rows') = Len(rows)
        BY <1>0, <4>3, SeqDef
      <4>5. QED
        BY <1>0, <3>2, <4>2, <4>4 DEF RowsKept, MeteringTypeOK
    <3>3. QED
      BY <1>4, <3>1, <3>2 DEF BumpBooked
  <2>3. UNCHANGED <<gateway, windows, fetched, saving, appointment, restarts, older,
                    forgotten, overtaken, revived, lowered>>
    BY <1>4 DEF BumpBooked
  <2>4. MeteringTypeOK'
    BY <2>1, <2>2, <2>3 DEF MeteringTypeOK
  <2>5. RequestsFit'
    BY <1>0, <2>1, <2>3 DEF RequestsFit
  <2>6. gateway = "serving"
    BY <1>0, <2>1 DEF DownIsQuiet, InFlight
  <2>7. DownIsQuiet'
    BY <1>0, <2>3, <2>6 DEF DownIsQuiet
  <2>8. QED
    BY <2>2, <2>4, <2>5, <2>7
<1>5. QED
  BY <1>1, <1>2, <1>3, <1>4


LEMMA AppointmentStepInv ==
  ASSUME MeterInv, AppointmentNext
  PROVE  /\ MeterInv' /\ gateway = "serving"
         /\ UNCHANGED <<gateway, windows, fetched, rows, saving, restarts, older, lost,
                        forgotten, overtaken>>
         /\ \A t \in Truck : /\ request'[t].pc = request[t].pc /\ request'[t].meter = request[t].meter
                             /\ request'[t].status = "none" <=> request[t].status = "none"
<1> DEFINE Request == [pc : {"new", "passed", "booked", "done"},
                       meter : Meter \union {Nothing},
                       status : {"none", "BOOKED", "CANCELLED", "COMPLETED"}]
           Seats == [capacity : Capacities, booked : Nat]
           Fine == /\ gateway = "serving" /\ request' \in [Truck -> Request]
                   /\ appointment' \in [SlotCode -> Seats \union {Nothing}]
                   /\ revived' \subseteq SlotCode /\ lowered' \subseteq SlotCode
                   /\ UNCHANGED <<gateway, windows, fetched, rows, saving, restarts, older,
                                  lost, forgotten, overtaken>>
                   /\ \A u \in Truck :
                        /\ request'[u].pc = request[u].pc /\ request'[u].meter = request[u].meter
                        /\ request'[u].status = "none" <=> request[u].status = "none"
                   /\ \A s \in SlotCode : appointment[s] # Nothing => appointment'[s] # Nothing
<1>0. /\ request \in [Truck -> Request] /\ appointment \in [SlotCode -> Seats \union {Nothing}]
      /\ Capacities \subseteq Nat /\ SlotOf \in [Truck -> SlotCode] /\ Nothing \notin Seats
      /\ revived \subseteq SlotCode /\ lowered \subseteq SlotCode
      /\ RequestsFit /\ DownIsQuiet
  BY MeteringAssumption DEF MeterInv, MeteringTypeOK
<1>1. ASSUME NEW t \in Truck, NEW new \in {"BOOKED", "CANCELLED", "COMPLETED"}, SetStatus(t, new)
      PROVE  Fine
  <2>1. request' \in [Truck -> Request] /\ request[t].status # "none"
        /\ request' = [request EXCEPT ![t] = [request[t] EXCEPT !.status = new]]
    BY <1>0, <1>1 DEF SetStatus
  <2>2. \A u \in Truck : /\ request'[u].pc = request[u].pc /\ request'[u].meter = request[u].meter
                         /\ request'[u].status = "none" <=> request[u].status = "none"
    BY <1>0, <2>1
  <2>3. /\ appointment' \in [SlotCode -> Seats \union {Nothing}]
        /\ \A s \in SlotCode : appointment[s] # Nothing => appointment'[s] # Nothing
    <3> DEFINE s == SlotOf[t]
    <3>1. s \in SlotCode /\ appointment[s] \in Seats
      BY <1>0, <2>1 DEF RequestsFit
    <3>2. CASE appointment' = appointment
      BY <1>0, <3>2
    <3>3. CASE appointment' = [appointment EXCEPT ![s].booked = @ - 1] /\ appointment[s].booked > 0
      <4>1. [appointment[s] EXCEPT !.booked = @ - 1] \in Seats
        BY <3>1, <3>3
      <4>2. appointment' = [appointment EXCEPT ![s] = [appointment[s] EXCEPT !.booked = @ - 1]]
        BY <1>0, <3>1, <3>3
      <4> HIDE DEF s, Seats
      <4>3. QED
        BY <1>0, <3>1, <4>1, <4>2
    <3>4. QED
      BY <1>1, <3>2, <3>3 DEF SetStatus
  <2>4. revived' \subseteq SlotCode
    BY <1>0, <1>1 DEF SetStatus
  <2>5. QED
    BY <1>0, <1>1, <2>1, <2>2, <2>3, <2>4 DEF SetStatus
<1>2. ASSUME NEW s \in SlotCode, NEW capacity \in Capacities,
             SeedSlot(s, capacity) \/ SyncSlot(s, capacity)
      PROVE  Fine
  <2>1. UNCHANGED <<gateway, windows, fetched, rows, saving, request, restarts, older, lost,
                    forgotten, overtaken, revived>> /\ gateway = "serving"
    BY <1>2 DEF SeedSlot, SyncSlot, history
  <2>2. lowered' \subseteq SlotCode
    BY <1>0, <1>2 DEF SeedSlot, SyncSlot, history
  <2>3. \E e \in Seats : appointment' = [appointment EXCEPT ![s] = e]
    <3>1. CASE SeedSlot(s, capacity)
      <4>1. [capacity |-> capacity, booked |-> 0] \in Seats
        OBVIOUS
      <4>2. QED
        BY <3>1, <4>1 DEF SeedSlot
    <3>2. CASE SyncSlot(s, capacity)
      <4>1. [appointment[s] EXCEPT !.capacity = capacity] \in Seats
        BY <1>0, <3>2 DEF SyncSlot
      <4>2. appointment' = [appointment EXCEPT ![s] = [appointment[s] EXCEPT !.capacity = capacity]]
        BY <1>0, <3>2 DEF SyncSlot
      <4>3. QED
        BY <4>1, <4>2
    <3>3. QED
      BY <1>2, <3>1, <3>2
  <2>4. QED
    BY <1>0, <2>1, <2>2, <2>3
<1>3. Fine
  BY <1>1, <1>2 DEF AppointmentNext
<1>4. MeteringTypeOK'
  BY <1>0, <1>3 DEF MeterInv, MeteringTypeOK
<1>5. RequestsFit'
  BY <1>0, <1>3 DEF RequestsFit
<1>6. DownIsQuiet'
  BY <1>0, <1>3 DEF DownIsQuiet
<1>7. QED
  BY <1>3, <1>4, <1>5, <1>6 DEF MeterInv

LEMMA MeterStep ==
  ASSUME MeterInv, [MeteringNext]_meteringVars
  PROVE  MeterInv' /\ RowsKept
<1>0. rows \in Seq(Counted)
  BY DEF MeterInv, MeteringTypeOK
<1>1. /\ Len(rows) \in Nat /\ \A i \in 1 .. Len(rows) : rows[i] \in Counted
  BY <1>0
<1>2. \A i \in 1 .. Len(rows) : rows[i].booked \in Nat
  BY <1>1 DEF Counted
<1>3. UNCHANGED rows => RowsKept
  BY <1>1, <1>2 DEF RowsKept
<1>4. CASE WindowNext
  BY <1>4, WindowStepInv
<1>5. CASE BookingNext
  BY <1>5, BookingStepInv DEF BookingNext
<1>6. CASE AppointmentNext
  BY <1>3, <1>6, AppointmentStepInv
<1>7. CASE UNCHANGED meteringVars
  BY <1>3, <1>7 DEF meteringVars, MeterInv, MeteringTypeOK, RequestsFit, DownIsQuiet, InFlight
<1>8. QED
  BY <1>4, <1>5, <1>6, <1>7 DEF MeteringNext

\* Windows, rows, appointments and requests keep their types, whatever the gateway
\* and the requests do (gateway/crosstwin.py, gateway/routers/rms_tas.py).
THEOREM MeteringIsWellTyped == MeteringSpec => []MeteringTypeOK
<1>1. MeterInv /\ [MeteringNext]_meteringVars => MeterInv'
  BY MeterStep
<1>2. MeterInv => MeteringTypeOK
  BY DEF MeterInv
<1>3. QED
  BY <1>1, <1>2, MeterInitInv, PTL DEF MeteringSpec

-----------------------------------------------------------------------------
(* Seats *)

Holders(s) == {t \in Truck : SlotOf[t] = s /\ request[t].status \in {"BOOKED", "COMPLETED"}}

LEMMA TrucksCount ==
  ASSUME NEW S \in SUBSET Truck
  PROVE  /\ IsFiniteSet(S) /\ Cardinality(S) \in Nat
         /\ \A t \in Truck \ S : Cardinality(S \union {t}) = Cardinality(S) + 1
         /\ \A t \in S : Cardinality(S \ {t}) = Cardinality(S) - 1 /\ Cardinality(S) > 0
         /\ \A T \in SUBSET S : Cardinality(T) <= Cardinality(S)
<1>1. IsFiniteSet(S)
  BY MeteringAssumption, FS_Subset
<1>2. Cardinality(S) \in Nat
  BY <1>1, FS_CardinalityType
<1>3. \A t \in Truck \ S : Cardinality(S \union {t}) = Cardinality(S) + 1
  BY <1>1, FS_AddElement
<1>4. \A t \in S : Cardinality(S \ {t}) = Cardinality(S) - 1
  BY <1>1, FS_RemoveElement
<1>5. \A t \in S : Cardinality(S) > 0
  <2>1. TAKE t \in S
  <2>2. IsFiniteSet(S \ {t})
    BY <1>1, FS_Subset
  <2>3. Cardinality(S \ {t}) \in Nat
    BY <2>2, FS_CardinalityType
  <2>4. QED
    BY <1>2, <1>4, <2>3
<1>6. \A T \in SUBSET S : Cardinality(T) <= Cardinality(S)
  BY <1>1, FS_Subset
<1>7. QED
  BY <1>1, <1>2, <1>3, <1>4, <1>5, <1>6

LEMMA SeatsKept ==
  ASSUME SeatsAreCounted, UNCHANGED <<appointment, revived, lowered>>,
         \A t \in Truck : request'[t].status = request[t].status
  PROVE  SeatsAreCounted'
<1>1. \A s \in SlotCode : Holders(s)' = Holders(s)
  BY DEF Holders
<1>2. QED
  BY <1>1 DEF SeatsAreCounted, Holders

LEMMA SeatsStep ==
  ASSUME MeterInv, SeatsAreCounted, [MeteringNext]_meteringVars
  PROVE  SeatsAreCounted'
<1> DEFINE Request == [pc : {"new", "passed", "booked", "done"},
                       meter : Meter \union {Nothing},
                       status : {"none", "BOOKED", "CANCELLED", "COMPLETED"}]
           Seats == [capacity : Capacities, booked : Nat]
           Counts(s) == appointment[s] # Nothing =>
                          /\ appointment[s].booked = Cardinality(Holders(s))
                          /\ s \in lowered \/ appointment[s].booked <= appointment[s].capacity
<1>0. /\ request \in [Truck -> Request] /\ appointment \in [SlotCode -> Seats \union {Nothing}]
      /\ Capacities \subseteq Nat /\ SlotOf \in [Truck -> SlotCode] /\ Nothing \notin Seats
      /\ RequestsFit
  BY MeteringAssumption DEF MeterInv, MeteringTypeOK
<1>1. SeatsAreCounted <=> \A s \in SlotCode \ revived : Counts(s)
  BY DEF SeatsAreCounted, Holders
<1>2. SeatsAreCounted' <=> \A s \in SlotCode \ revived' : Counts(s)'
  BY DEF SeatsAreCounted, Holders
<1>3. \A s : Holders(s) \subseteq Truck /\ Holders(s)' \subseteq Truck
  BY DEF Holders
<1>4. ASSUME UNCHANGED <<appointment, revived, lowered>>,
             \A t \in Truck : request'[t].status = request[t].status
      PROVE  SeatsAreCounted'
  BY <1>4, SeatsKept
<1>5. CASE WindowNext
  <2>1. UNCHANGED <<appointment, revived, lowered>>
    BY <1>5 DEF WindowNext, Apply, PersistWindow, Crash, RestoreRead, SeatFetched, Restored, history
  <2>2. \A t \in Truck : request'[t].status = request[t].status
    <3>1. UNCHANGED request \/ Crash
      BY <1>5 DEF WindowNext, Apply, PersistWindow, RestoreRead, SeatFetched, Restored
    <3>2. QED
      BY <1>0, <3>1 DEF Crash
  <2>3. QED
    BY <1>4, <2>1, <2>2
<1>6. ASSUME NEW t \in Truck, PassGuard(t) \/ BookingFails(t) \/ BumpBooked(t)
      PROVE  SeatsAreCounted'
  <2>1. UNCHANGED <<appointment, revived, lowered>>
    BY <1>6 DEF PassGuard, BookingFails, BumpBooked, history
  <2>2. \A u \in Truck : request'[u].status = request[u].status
    BY <1>0, <1>6 DEF PassGuard, BookingFails, BumpBooked
  <2>3. QED
    BY <1>4, <2>1, <2>2
<1>7. ASSUME NEW t \in Truck, Book(t)
      PROVE  SeatsAreCounted'
  <2> DEFINE s == SlotOf[t]
             e == [appointment[s] EXCEPT !.booked = @ + 1]
  <2>1. /\ s \in SlotCode /\ request[t].status = "none" /\ appointment[s] \in Seats
        /\ appointment[s].booked < appointment[s].capacity
        /\ revived' = revived /\ lowered' = lowered
    BY <1>0, <1>7 DEF Book, RequestsFit, history
  <2>2. /\ request'[t].status = "BOOKED"
        /\ \A u \in Truck \ {t} : request'[u] = request[u]
    BY <1>0, <1>7 DEF Book
  <2>3. appointment'[s] = e /\ \A r \in SlotCode \ {s} : appointment'[r] = appointment[r]
    BY <1>0, <1>7, <2>1 DEF Book
  <2>4. e.booked = appointment[s].booked + 1 /\ e.capacity = appointment[s].capacity
    BY <2>1
  <2>5. Holders(s)' = Holders(s) \union {t} /\ t \in Truck \ Holders(s)
    BY <2>1, <2>2 DEF Holders
  <2>6. \A r \in SlotCode \ {s} : Holders(r)' = Holders(r)
    BY <2>2 DEF Holders
  <2>7. Cardinality(Holders(s)') = Cardinality(Holders(s)) + 1
    BY <1>3, <2>5, TrucksCount
  <2>8. appointment[s].booked \in Nat /\ appointment[s].capacity \in Nat /\ appointment[s] # Nothing
    BY <1>0, <2>1
  <2>9. ASSUME s \notin revived
        PROVE  Counts(s)'
    <3>1. Counts(s)
      BY <1>1, <2>1, <2>9
    <3> HIDE DEF s, e
    <3>2. appointment'[s].booked = Cardinality(Holders(s)') /\ appointment'[s].booked <= appointment'[s].capacity
      BY <2>1, <2>3, <2>4, <2>7, <2>8, <3>1
    <3>3. QED
      BY <3>2
  <2>10. ASSUME NEW r \in SlotCode \ revived, r # s
         PROVE  Counts(r)'
    BY <1>1, <2>1, <2>3, <2>6, <2>10
  <2>11. QED
    BY <1>2, <2>1, <2>9, <2>10
<1>8. ASSUME NEW t \in Truck, NEW new \in {"BOOKED", "CANCELLED", "COMPLETED"}, SetStatus(t, new)
      PROVE  SeatsAreCounted'
  <2> DEFINE s == SlotOf[t]
             old == request[t].status
             e == [appointment[s] EXCEPT !.booked = @ - 1]
  <2>1. /\ s \in SlotCode /\ old \in {"BOOKED", "CANCELLED", "COMPLETED"} /\ appointment[s] \in Seats
        /\ lowered' = lowered
        /\ revived' = IF old = "CANCELLED" /\ new # "CANCELLED" THEN revived \union {s} ELSE revived
    BY <1>0, <1>8 DEF SetStatus, RequestsFit
  <2>2. /\ request'[t].status = new
        /\ \A u \in Truck \ {t} : request'[u] = request[u]
    BY <1>0, <1>8 DEF SetStatus
  <2>3. appointment' = IF new = "CANCELLED" /\ old # "CANCELLED" /\ appointment[s].booked > 0
                         THEN [appointment EXCEPT ![s].booked = @ - 1]
                         ELSE appointment
    BY <1>8 DEF SetStatus, Frees
  <2>4. \A r \in SlotCode \ {s} : appointment'[r] = appointment[r] /\ Holders(r)' = Holders(r)
    BY <1>0, <2>1, <2>2, <2>3 DEF Holders
  <2>5. ASSUME NEW r \in SlotCode \ revived', r # s
        PROVE  Counts(r)'
    <3>1. Counts(r) /\ r \in SlotCode \ {s}
      BY <1>1, <2>1, <2>5
    <3>2. QED
      BY <2>1, <2>4, <3>1
  <2>6. ASSUME s \notin revived'
        PROVE  Counts(s)'
    <3>1. s \notin revived /\ Counts(s) /\ appointment[s] # Nothing
      BY <1>0, <1>1, <2>1, <2>6
    <3>2. appointment[s].booked = Cardinality(Holders(s)) /\ appointment[s].booked \in Nat
          /\ appointment[s].capacity \in Nat
      BY <1>0, <2>1, <3>1
    <3>3. CASE new = "CANCELLED" /\ old # "CANCELLED"
      <4>1. t \in Holders(s) /\ Holders(s)' = Holders(s) \ {t}
        BY <2>1, <2>2, <3>3 DEF Holders
      <4>2. Cardinality(Holders(s)') = Cardinality(Holders(s)) - 1 /\ Cardinality(Holders(s)) > 0
        BY <1>3, <4>1, TrucksCount
      <4>3. appointment'[s] = e /\ e.booked = appointment[s].booked - 1 /\ e.capacity = appointment[s].capacity
        BY <1>0, <2>1, <2>3, <3>2, <3>3, <4>2
      <4> HIDE DEF s, e
      <4>4. QED
        BY <2>1, <3>1, <3>2, <4>2, <4>3
    <3>4. CASE ~(new = "CANCELLED" /\ old # "CANCELLED")
      <4>1. new = old \/ (new \in {"BOOKED", "COMPLETED"} /\ old \in {"BOOKED", "COMPLETED"})
        BY <2>1, <2>6, <3>4
      <4>2. Holders(s)' = Holders(s)
        BY <2>2, <4>1 DEF Holders
      <4>3. appointment' = appointment
        BY <2>3, <3>4
      <4>4. QED
        BY <2>1, <3>1, <4>2, <4>3
    <3>5. QED
      BY <3>3, <3>4
  <2>7. QED
    BY <1>2, <2>5, <2>6
<1>9. ASSUME NEW s \in SlotCode, NEW capacity \in Capacities, SeedSlot(s, capacity)
      PROVE  SeatsAreCounted'
  <2>1. UNCHANGED <<request, revived, lowered>> /\ appointment[s] = Nothing
    BY <1>9 DEF SeedSlot, history
  <2>2. appointment'[s] = [capacity |-> capacity, booked |-> 0]
        /\ \A r \in SlotCode \ {s} : appointment'[r] = appointment[r]
    BY <1>0, <1>9 DEF SeedSlot
  <2>3. \A r \in SlotCode : Holders(r)' = Holders(r)
    BY <2>1 DEF Holders
  <2>4. Holders(s) = {}
    BY <1>0, <2>1 DEF Holders, RequestsFit
  <2>5. Cardinality(Holders(s)') = 0 /\ capacity \in Nat
    BY <1>0, <2>3, <2>4, FS_EmptySet
  <2>6. QED
    BY <1>1, <1>2, <2>1, <2>2, <2>3, <2>5
<1>10. ASSUME NEW s \in SlotCode, NEW capacity \in Capacities, SyncSlot(s, capacity)
       PROVE  SeatsAreCounted'
  <2>1. /\ UNCHANGED <<request, revived>> /\ appointment[s] \in Seats /\ capacity \in Nat
        /\ lowered' = IF capacity < appointment[s].booked THEN lowered \union {s} ELSE lowered
    BY <1>0, <1>10 DEF SyncSlot
  <2>2. appointment'[s] = [appointment[s] EXCEPT !.capacity = capacity]
        /\ \A r \in SlotCode \ {s} : appointment'[r] = appointment[r]
    BY <1>0, <1>10 DEF SyncSlot
  <2>3. appointment'[s].booked = appointment[s].booked /\ appointment'[s].capacity = capacity
        /\ appointment[s].booked \in Nat /\ appointment[s] # Nothing
    BY <1>0, <2>1, <2>2
  <2>4. \A r \in SlotCode : Holders(r)' = Holders(r)
    BY <2>1 DEF Holders
  <2>5. ASSUME NEW r \in SlotCode \ revived, r # s
        PROVE  Counts(r)'
    BY <1>1, <2>1, <2>2, <2>4, <2>5
  <2>6. ASSUME s \notin revived
        PROVE  Counts(s)'
    <3>1. appointment[s].booked = Cardinality(Holders(s))
      BY <1>1, <2>3, <2>6
    <3>2. s \in lowered' \/ appointment[s].booked <= capacity
      BY <2>1, <2>3
    <3>3. QED
      BY <2>3, <2>4, <3>1, <3>2
  <2>7. QED
    BY <1>2, <2>1, <2>5, <2>6
<1>11. CASE UNCHANGED meteringVars
  BY <1>4, <1>11 DEF meteringVars
<1>12. QED
  BY <1>5, <1>6, <1>7, <1>8, <1>9, <1>10, <1>11 DEF MeteringNext, BookingNext, AppointmentNext

\* An appointment counts its bookings, and no more of them than it has seats, until a
\* cancelled booking comes back or its capacity is cut (gateway/routers/rms_tas.py).
THEOREM SeatsStayCounted == MeteringSpec => []SeatsAreCounted
<1>1. MeteringInit => SeatsAreCounted
  BY DEF MeteringInit, SeatsAreCounted
<1>2. MeterInv /\ SeatsAreCounted /\ [MeteringNext]_meteringVars => (MeterInv /\ SeatsAreCounted)'
  BY MeterStep, SeatsStep
<1>3. QED
  BY <1>1, <1>2, MeterInitInv, PTL DEF MeteringSpec

-----------------------------------------------------------------------------
(* The cap of a window *)

\* The trucks a window has let through and whose count is not lost; those of them
\* that are done.
Through(m) == {t \in Truck : /\ request[t].meter = m
                             /\ \/ request[t].pc = "passed"
                                \/ request[t].status # "none" /\ t \notin lost}
Settled(m) == {t \in Metered(m) \ lost : request[t].pc = "done"}

RingOnce == \A i, j \in DOMAIN windows : windows[i].id = windows[j].id => i = j

ThroughCapped == \A m \in Meter \ forgotten : Cardinality(Through(m)) <= SlotCap[m]

\* A row counts at least those who are done.
RowsCount == \A m \in Meter :
  /\ m \notin Ids(rows) => Settled(m) = {}
  /\ \A i \in DOMAIN rows : rows[i].id = m => Cardinality(Settled(m)) <= rows[i].booked

\* A window in the ring, or about to be seated, counts everyone it has let
\* through; one that is in neither and not forgotten has let nobody through.
RingCounts == gateway # "starting" => \A m \in Meter \ forgotten :
  /\ \A i \in DOMAIN fetched : fetched[i].id = m => Cardinality(Through(m)) <= fetched[i].booked
  /\ m \notin Ids(fetched) => \A i \in DOMAIN windows :
       windows[i].id = m => Cardinality(Through(m)) <= windows[i].booked
  /\ m \notin Ids(fetched) \union Ids(windows) => Through(m) = {}

CountInv == RingOnce /\ ThroughCapped /\ RowsCount /\ RingCounts

LEMMA CountInit == MeteringInit => CountInv
<1> SUFFICES ASSUME MeteringInit PROVE CountInv
  OBVIOUS
<1>1. \A m \in Meter : Through(m) = {} /\ Settled(m) = {}
  BY MeteringAssumption DEF MeteringInit, Through, Settled, Metered
<1>2. \A m \in Meter : Cardinality(Through(m)) = 0 /\ SlotCap[m] \in Nat
  BY <1>1, FS_EmptySet, MeteringAssumption
<1>3. ThroughCapped
  BY <1>2 DEF ThroughCapped
<1>4. RingOnce /\ RowsCount /\ RingCounts
  BY <1>1 DEF MeteringInit, RingOnce, RowsCount, RingCounts
<1>5. QED
  BY <1>3, <1>4 DEF CountInv

LEMMA CountsAreNat ==
  ASSUME NEW m
  PROVE  /\ Through(m) \in SUBSET Truck /\ Settled(m) \in SUBSET Truck
         /\ Cardinality(Through(m)) \in Nat /\ Cardinality(Settled(m)) \in Nat
         /\ Through(m)' \in SUBSET Truck /\ Settled(m)' \in SUBSET Truck
         /\ Cardinality(Through(m)') \in Nat /\ Cardinality(Settled(m)') \in Nat
         /\ Through(m)' \subseteq Through(m) => Cardinality(Through(m)') <= Cardinality(Through(m))
         /\ Settled(m)' \subseteq Settled(m) => Cardinality(Settled(m)') <= Cardinality(Settled(m))
<1>1. /\ Through(m) \in SUBSET Truck /\ Settled(m) \in SUBSET Truck
      /\ Through(m)' \in SUBSET Truck /\ Settled(m)' \in SUBSET Truck
  BY DEF Through, Settled, Metered
<1>2. QED
  BY <1>1, TrucksCount

\* Nobody new is let through, and nobody new is done.
LEMMA FewerThrough ==
  ASSUME MeterInv, CountInv, forgotten \subseteq forgotten', SlotCap \in [Meter -> Nat],
         \A m \in Meter : Through(m)' \subseteq Through(m)
  PROVE  ThroughCapped'
<1>1. ASSUME NEW m \in Meter \ forgotten'
      PROVE  Cardinality(Through(m)') <= SlotCap[m]
  <2>1. Cardinality(Through(m)') <= Cardinality(Through(m))
    BY CountsAreNat
  <2>2. Cardinality(Through(m)) <= SlotCap[m]
    BY <2>1 DEF CountInv, ThroughCapped
  <2>3. QED
    BY <2>1, <2>2, CountsAreNat
<1>2. QED
  BY <1>1 DEF ThroughCapped

LEMMA RowsCountOn ==
  ASSUME MeterInv, CountInv, RowsKept, rows' \in Seq(Counted),
         \A m \in Meter : Settled(m)' \subseteq Settled(m),
         \A i \in DOMAIN rows' \ DOMAIN rows : rows'[i].id \notin Ids(rows)
  PROVE  RowsCount'
<1>0. /\ rows \in Seq(Counted) /\ DOMAIN rows = 1 .. Len(rows) /\ DOMAIN rows' = 1 .. Len(rows')
      /\ Len(rows) \in Nat /\ Len(rows') \in Nat /\ Len(rows) <= Len(rows')
      /\ \A i \in DOMAIN rows' : rows'[i] \in Counted
      /\ \A i \in DOMAIN rows : rows[i] \in Counted
  BY DEF MeterInv, MeteringTypeOK, RowsKept
<1>1. Ids(rows) \subseteq Ids(rows)'
  BY <1>0 DEF Ids, RowsKept
<1>2. ASSUME NEW m \in Meter, m \notin Ids(rows)'
      PROVE  Settled(m)' = {}
  BY <1>1, <1>2 DEF CountInv, RowsCount
<1>3. ASSUME NEW m \in Meter, NEW i \in DOMAIN rows', rows'[i].id = m
      PROVE  Cardinality(Settled(m)') <= rows'[i].booked
  <2>1. rows'[i].booked \in Nat
    BY <1>0 DEF Counted
  <2>2. CASE i \in DOMAIN rows
    <3>1. rows[i].id = m /\ rows[i].booked <= rows'[i].booked /\ rows[i].booked \in Nat
      BY <1>0, <1>3, <2>2 DEF RowsKept, Counted
    <3>2. Cardinality(Settled(m)) <= rows[i].booked
      BY <2>2, <3>1 DEF CountInv, RowsCount
    <3>3. Cardinality(Settled(m)') <= Cardinality(Settled(m))
      BY CountsAreNat
    <3>4. QED
      BY <2>1, <3>1, <3>2, <3>3, CountsAreNat
  <2>3. CASE i \notin DOMAIN rows
    <3>1. Settled(m) = {}
      BY <1>3, <2>3 DEF CountInv, RowsCount
    <3>2. Settled(m)' = {}
      BY <3>1
    <3>3. Cardinality(Settled(m)') = 0
      BY <3>2, FS_EmptySet
    <3>4. QED
      BY <2>1, <3>3
  <2>4. QED
    BY <2>2, <2>3
<1>4. QED
  BY <1>2, <1>3 DEF RowsCount

LEMMA SeatedNext ==
  ASSUME NEW w \in Counted, windows \in Seq(Counted), windows' = Seated(windows, w)
  PROVE  /\ windows' \in Seq(Counted) /\ w.id \in Ids(windows)'
         /\ DOMAIN windows = 1 .. Len(windows) /\ Len(windows) \in Nat
         /\ w.id \in Ids(windows) =>
              /\ DOMAIN windows' = DOMAIN windows
              /\ \A i \in DOMAIN windows :
                   /\ windows'[i] = (IF windows[i].id = w.id THEN w ELSE windows[i])
                   /\ windows'[i].id = windows[i].id
         /\ w.id \notin Ids(windows) =>
              \E k \in 0 .. Len(windows) :
                /\ DOMAIN windows' = 1 .. Len(windows) + 1 - k
                /\ \A i \in 1 .. Len(windows) - k :
                     windows'[i] = windows[i + k] /\ i + k \in DOMAIN windows
                /\ windows'[Len(windows) + 1 - k] = w
                /\ \A i \in DOMAIN windows' : i \in 1 .. Len(windows) - k \/ i = Len(windows) + 1 - k
<1> DEFINE after == Seated(windows, w)
<1>1. /\ after \in Seq(Counted)
      /\ w.id \in Ids(after)
      /\ w.id \in Ids(windows) =>
           /\ DOMAIN after = DOMAIN windows
           /\ \A i \in DOMAIN windows :
                /\ after[i] = (IF windows[i].id = w.id THEN w ELSE windows[i])
                /\ after[i].id = windows[i].id
      /\ w.id \notin Ids(windows) =>
           \E k \in 0 .. Len(windows) :
             /\ DOMAIN after = 1 .. Len(windows) + 1 - k
             /\ \A i \in 1 .. Len(windows) - k : after[i] = windows[i + k]
             /\ after[Len(windows) + 1 - k] = w
  BY SeatedFacts
<1>2. windows' = after
  OBVIOUS
<1> HIDE DEF after
<1>3. DOMAIN windows = 1 .. Len(windows) /\ Len(windows) \in Nat
      /\ windows' \in Seq(Counted) /\ w.id \in Ids(windows)'
  BY <1>1, <1>2 DEF Ids
<1>4. ASSUME w.id \notin Ids(windows)
      PROVE  \E k \in 0 .. Len(windows) :
               /\ DOMAIN windows' = 1 .. Len(windows) + 1 - k
               /\ \A i \in 1 .. Len(windows) - k :
                    windows'[i] = windows[i + k] /\ i + k \in DOMAIN windows
               /\ windows'[Len(windows) + 1 - k] = w
               /\ \A i \in DOMAIN windows' : i \in 1 .. Len(windows) - k \/ i = Len(windows) + 1 - k
  <2>1. PICK k \in 0 .. Len(windows) :
             /\ DOMAIN windows' = 1 .. Len(windows) + 1 - k
             /\ \A i \in 1 .. Len(windows) - k : windows'[i] = windows[i + k]
             /\ windows'[Len(windows) + 1 - k] = w
    BY <1>1, <1>2, <1>4
  <2>2. \A i \in 1 .. Len(windows) - k : i + k \in DOMAIN windows
    BY <1>3, <2>1
  <2>3. \A i \in DOMAIN windows' : i \in 1 .. Len(windows) - k \/ i = Len(windows) + 1 - k
    BY <1>3, <2>1
  <2>4. QED
    BY <2>1, <2>2, <2>3
<1>5. QED
  BY <1>1, <1>2, <1>3, <1>4

\* Seating a window keeps them apart, and forgets those that fall out.
LEMMA SeatedRing ==
  ASSUME NEW w \in Counted, windows \in Seq(Counted), RingOnce, windows' = Seated(windows, w)
  PROVE  /\ RingOnce' /\ windows' \in Seq(Counted) /\ w.id \in Ids(windows)'
         /\ \A i \in DOMAIN windows' :
              \/ windows'[i] = w
              \/ windows'[i].id # w.id /\ \E j \in DOMAIN windows : windows'[i] = windows[j]
<1>0. DOMAIN windows = 1 .. Len(windows) /\ Len(windows) \in Nat
      /\ windows' \in Seq(Counted) /\ w.id \in Ids(windows)'
  BY SeatedNext
<1>1. CASE w.id \in Ids(windows)
  <2>1. /\ DOMAIN windows' = DOMAIN windows
        /\ \A i \in DOMAIN windows :
             /\ windows'[i] = (IF windows[i].id = w.id THEN w ELSE windows[i])
             /\ windows'[i].id = windows[i].id
    BY <1>1, SeatedNext
  <2>2. RingOnce'
    BY <2>1 DEF RingOnce
  <2>3. QED
    BY <1>0, <2>1, <2>2
<1>2. CASE w.id \notin Ids(windows)
  <2>1. PICK k \in 0 .. Len(windows) :
          /\ DOMAIN windows' = 1 .. Len(windows) + 1 - k
          /\ \A i \in 1 .. Len(windows) - k : windows'[i] = windows[i + k]
          /\ windows'[Len(windows) + 1 - k] = w
    BY <1>2, SeatedNext
  <2>2. \A i \in DOMAIN windows : windows[i].id # w.id
    BY <1>2 DEF Ids
  <2>3. \A i \in DOMAIN windows' :
          \/ i = Len(windows) + 1 - k /\ windows'[i] = w
          \/ /\ i \in 1 .. Len(windows) - k /\ i + k \in DOMAIN windows
             /\ windows'[i] = windows[i + k] /\ windows'[i].id # w.id
    BY <1>0, <2>1, <2>2
  <2>4. RingOnce'
    <3>1. SUFFICES ASSUME NEW i \in DOMAIN windows', NEW j \in DOMAIN windows',
                          windows'[i].id = windows'[j].id
                   PROVE  i = j
      BY DEF RingOnce
    <3>2. CASE i = Len(windows) + 1 - k
      BY <1>0, <2>1, <2>3, <3>1, <3>2
    <3>3. CASE j = Len(windows) + 1 - k
      BY <1>0, <2>1, <2>3, <3>1, <3>3
    <3>4. CASE i # Len(windows) + 1 - k /\ j # Len(windows) + 1 - k
      <4>1. windows[i + k].id = windows[j + k].id /\ i + k \in DOMAIN windows /\ j + k \in DOMAIN windows
        BY <2>3, <3>1, <3>4
      <4>2. i + k = j + k
        BY <4>1 DEF RingOnce
      <4>3. i \in Int /\ j \in Int /\ k \in Int
        BY <1>0, <2>1
      <4>4. QED
        BY <4>2, <4>3
    <3>5. QED
      BY <3>2, <3>3, <3>4
  <2>5. QED
    BY <1>0, <2>3, <2>4
<1>3. QED
  BY <1>1, <1>2

LEMMA RingCountsOn ==
  ASSUME MeterInv, CountInv, UNCHANGED <<gateway, windows, fetched, forgotten>>,
         \A m \in Meter : Through(m)' \subseteq Through(m)
  PROVE  RingCounts' /\ RingOnce'
<1>1. ASSUME gateway # "starting", NEW m \in Meter \ forgotten
      PROVE  /\ \A i \in DOMAIN fetched :
                  fetched[i].id = m => Cardinality(Through(m)') <= fetched[i].booked
             /\ m \notin Ids(fetched) => \A i \in DOMAIN windows :
                  windows[i].id = m => Cardinality(Through(m)') <= windows[i].booked
             /\ m \notin Ids(fetched) \union Ids(windows) => Through(m)' = {}
  <2>1. Cardinality(Through(m)') <= Cardinality(Through(m)) /\ Cardinality(Through(m)') \in Nat
        /\ Cardinality(Through(m)) \in Nat
    BY CountsAreNat
  <2>2. /\ \A i \in DOMAIN fetched : fetched[i].booked \in Nat
        /\ \A i \in DOMAIN windows : windows[i].booked \in Nat
    <3>1. windows \in Seq(Counted) /\ fetched \in Seq(Counted)
      BY DEF MeterInv, MeteringTypeOK
    <3>2. \A i \in DOMAIN fetched : fetched[i] \in Counted
      BY <3>1
    <3>3. \A i \in DOMAIN windows : windows[i] \in Counted
      BY <3>1
    <3>4. QED
      BY <3>2, <3>3 DEF Counted
  <2>3. QED
    BY <1>1, <2>1, <2>2 DEF CountInv, RingCounts
<1>2. RingCounts'
  BY <1>1 DEF RingCounts, Ids
<1>3. RingOnce'
  BY DEF CountInv, RingOnce
<1>4. QED
  BY <1>2, <1>3

LEMMA RowsCountSame ==
  ASSUME MeterInv, CountInv, UNCHANGED rows, \A m \in Meter : Settled(m)' \subseteq Settled(m)
  PROVE  RowsCount'
<1>1. rows \in Seq(Counted)
  BY DEF MeterInv, MeteringTypeOK
<1>2. /\ Len(rows) \in Nat /\ \A i \in 1 .. Len(rows) : rows[i] \in Counted
  BY <1>1
<1>3. \A i \in 1 .. Len(rows) : rows[i].booked \in Nat
  BY <1>2 DEF Counted
<1>4. RowsKept
  BY <1>2, <1>3 DEF RowsKept
<1>5. QED
  BY <1>1, <1>4, RowsCountOn

LEMMA CountWindowStep ==
  ASSUME MeterInv, CountInv, WindowNext
  PROVE  CountInv'
<1>0. /\ windows \in Seq(Counted) /\ fetched \in Seq(Counted) /\ rows \in Seq(Counted)
      /\ forgotten \subseteq Meter /\ saving \subseteq Counted /\ SlotCap \in [Meter -> Nat]
      /\ \A t \in Truck : request[t].pc \in {"new", "passed", "booked", "done"}
      /\ request \in [Truck -> [pc : {"new", "passed", "booked", "done"},
                                meter : Meter \union {Nothing},
                                status : {"none", "BOOKED", "CANCELLED", "COMPLETED"}]]
      /\ RequestsFit /\ DownIsQuiet
  BY MeteringAssumption DEF MeterInv, MeteringTypeOK
<1>a. /\ \A i \in DOMAIN windows : windows[i] \in Counted /\ windows[i].booked \in Nat
      /\ \A i \in DOMAIN fetched : fetched[i] \in Counted /\ fetched[i].booked \in Nat
      /\ \A i \in DOMAIN rows : rows[i] \in Counted /\ rows[i].booked \in Nat
  <2>1. \A i \in DOMAIN windows : windows[i] \in Counted
    BY <1>0
  <2>2. \A i \in DOMAIN fetched : fetched[i] \in Counted
    BY <1>0
  <2>3. \A i \in DOMAIN rows : rows[i] \in Counted
    BY <1>0
  <2>4. QED
    BY <2>1, <2>2, <2>3 DEF Counted
<1>b. ASSUME UNCHANGED <<request, lost>>
      PROVE  \A m \in Meter : Through(m)' = Through(m) /\ Settled(m)' = Settled(m)
  BY <1>b DEF Through, Settled, Metered
<1>1. ASSUME NEW m \in Meter, Apply(m)
      PROVE  CountInv'
  <2>1. PICK b \in Nat :
          /\ [id |-> m, booked |-> b] \in Counted
          /\ windows' = Seated(windows, [id |-> m, booked |-> b])
          /\ m \notin Ids(windows) => b = 0
          /\ m \in Ids(windows) =>
               \E i \in DOMAIN windows : windows[i].id = m /\ b = windows[i].booked
    BY <1>1, AppliedType
  <2> DEFINE w == [id |-> m, booked |-> b]
  <2>2. w \in Counted /\ w.id = m /\ w.booked = b /\ windows' = Seated(windows, w)
    BY <2>1
  <2> HIDE DEF w
  <2>3. /\ RingOnce' /\ m \in Ids(windows)'
        /\ \A i \in DOMAIN windows' :
             \/ windows'[i] = w
             \/ windows'[i].id # m /\ \E j \in DOMAIN windows : windows'[i] = windows[j]
    BY <1>0, <2>2, SeatedRing DEF CountInv
  <2>4. /\ UNCHANGED <<gateway, fetched, rows, request, lost>>
        /\ forgotten' = forgotten \union (Ids(windows) \ Ids(windows)')
    BY <1>1 DEF Apply, Ids
  <2>5. \A x \in Meter : Through(x)' = Through(x) /\ Settled(x)' = Settled(x)
    BY <1>b, <2>4
  <2>6. ThroughCapped' /\ RowsCount'
    BY <1>0, <2>4, <2>5, FewerThrough, RowsCountSame
  <2>7. ASSUME gateway # "starting", NEW x \in Meter \ forgotten'
        PROVE  /\ \A i \in DOMAIN fetched :
                    fetched[i].id = x => Cardinality(Through(x)) <= fetched[i].booked
               /\ x \notin Ids(fetched) => \A i \in DOMAIN windows' :
                    windows'[i].id = x => Cardinality(Through(x)) <= windows'[i].booked
               /\ x \notin Ids(fetched) \union Ids(windows)' => Through(x) = {}
    <3>1. /\ \A i \in DOMAIN fetched :
               fetched[i].id = x => Cardinality(Through(x)) <= fetched[i].booked
          /\ x \notin Ids(fetched) => \A i \in DOMAIN windows :
               windows[i].id = x => Cardinality(Through(x)) <= windows[i].booked
          /\ x \notin Ids(fetched) \union Ids(windows) => Through(x) = {}
      BY <2>4, <2>7 DEF CountInv, RingCounts
    <3>2. ASSUME x \notin Ids(fetched), NEW i \in DOMAIN windows', windows'[i].id = x
          PROVE  Cardinality(Through(x)) <= windows'[i].booked
      <4>1. CASE x # m
        BY <2>2, <2>3, <3>1, <3>2, <4>1
      <4>2. CASE x = m /\ m \in Ids(windows)
        BY <2>1, <2>2, <2>3, <3>1, <3>2, <4>2
      <4>3. CASE x = m /\ m \notin Ids(windows)
        <5>1. Through(x) = {} /\ windows'[i] = w /\ w.booked = 0
          BY <2>1, <2>2, <2>3, <3>1, <3>2, <4>3
        <5>2. QED
          BY <5>1, FS_EmptySet
      <4>4. QED
        BY <4>1, <4>2, <4>3
    <3>3. x \in Ids(windows) => x \in Ids(windows)'
      BY <2>4, <2>7
    <3>4. QED
      BY <3>1, <3>2, <3>3
  <2>8. RingCounts'
    BY <2>4, <2>5, <2>7 DEF RingCounts, Ids
  <2>9. QED
    BY <2>3, <2>6, <2>8 DEF CountInv
<1>2. ASSUME NEW w \in saving, PersistWindow(w)
      PROVE  CountInv'
  <2>1. UNCHANGED <<gateway, windows, fetched, request, lost, forgotten>>
    BY <1>2 DEF PersistWindow, history
  <2>2. \A x \in Meter : Through(x)' = Through(x) /\ Settled(x)' = Settled(x)
    BY <1>b, <2>1
  <2>3. RowsCount'
    <3>1. CASE UNCHANGED rows
      BY <2>2, <3>1, RowsCountSame
    <3>2. CASE rows' = Upserted(w)
      <4>1. w \in Counted
        BY <1>0
      <4>2. rows' \in Seq(Counted) /\ \A i \in DOMAIN rows' \ DOMAIN rows : rows'[i].id \notin Ids(rows)
        BY <1>0, <3>2, <4>1, UpsertedFacts
      <4>3. RowsKept
        BY <1>2, WindowStepInv DEF WindowNext
      <4>4. QED
        BY <2>2, <4>2, <4>3, RowsCountOn
    <3>3. QED
      BY <1>2, <3>1, <3>2 DEF PersistWindow
  <2>4. QED
    BY <1>0, <2>1, <2>2, <2>3, FewerThrough, RingCountsOn DEF CountInv
<1>3. CASE Crash
  <2>1. \A t \in Truck :
          /\ request'[t].meter = request[t].meter /\ request'[t].status = request[t].status
          /\ request'[t].pc = (IF InFlight(t) THEN "done" ELSE request[t].pc)
    BY <1>0, <1>3 DEF Crash
  <2>2. /\ UNCHANGED <<rows, forgotten>> /\ gateway' = "starting" /\ windows' = <<>>
        /\ lost' = lost \union {t \in Truck : request[t].pc = "booked"}
    BY <1>3 DEF Crash
  <2>3. ASSUME NEW m \in Meter
        PROVE  Through(m)' \subseteq Through(m)
    BY <2>1, <2>2 DEF Through, InFlight
  <2>4. ASSUME NEW m \in Meter
        PROVE  Settled(m)' \subseteq Settled(m)
    <3>1. SUFFICES ASSUME NEW t \in Truck, request[t].meter = m, request[t].status # "none",
                          t \notin lost', request'[t].pc = "done"
                   PROVE  t \in Settled(m)
      BY <2>1 DEF Settled, Metered
    <3>2. request[t].pc # "booked" /\ request[t].pc # "passed" /\ t \notin lost
      BY <1>0, <2>2, <3>1 DEF RequestsFit
    <3>3. request[t].pc = "done"
      BY <2>1, <3>1, <3>2 DEF InFlight
    <3>4. QED
      BY <3>1, <3>2, <3>3 DEF Settled, Metered
  <2>5. RingOnce' /\ RingCounts'
    BY <2>2 DEF RingOnce, RingCounts
  <2>6. QED
    BY <1>0, <2>2, <2>3, <2>4, <2>5, FewerThrough, RowsCountSame DEF CountInv
<1>4. CASE RestoreRead
  <2>1. UNCHANGED <<windows, rows, request, lost>> /\ gateway = "starting"
        /\ forgotten' = forgotten \union (Ids(rows) \ Ids(fetched)')
    BY <1>4 DEF RestoreRead, Ids
  <2>2. \A x \in Meter : Through(x)' = Through(x) /\ Settled(x)' = Settled(x)
    BY <1>b, <2>1
  <2>3. \A x \in Meter : Through(x) \subseteq Settled(x)
    BY <1>0, <2>1 DEF Through, Settled, Metered, RequestsFit, DownIsQuiet, InFlight
  <2>4. \A x \in Meter : Cardinality(Through(x)) <= Cardinality(Settled(x))
    <3>1. \A x \in Meter : Settled(x) \in SUBSET Truck
      BY DEF Settled, Metered
    <3>2. QED
      BY <2>3, <3>1, TrucksCount
  <2>5. \A i \in DOMAIN fetched' : \E j \in DOMAIN rows : fetched'[i] = rows[j]
    <3>1. CASE fetched' = <<>>
      BY <3>1
    <3>2. CASE fetched' = Newest(rows)
      <4>1. PICK k \in 0 .. Len(rows) :
               /\ Newest(rows) \in Seq(Counted)
               /\ Len(Newest(rows)) = Len(rows) - k
               /\ \A i \in 1 .. Len(rows) - k : Newest(rows)[i] = rows[i + k]
        BY <1>0, NewestFacts
      <4>2. DOMAIN fetched' = 1 .. Len(rows) - k /\ DOMAIN rows = 1 .. Len(rows) /\ Len(rows) \in Nat
        BY <1>0, <3>2, <4>1
      <4>3. \A i \in DOMAIN fetched' : i + k \in DOMAIN rows /\ fetched'[i] = rows[i + k]
        BY <3>2, <4>1, <4>2
      <4>4. QED
        BY <4>3
    <3>3. QED
      BY <1>4, <3>1, <3>2 DEF RestoreRead
  <2>6. ASSUME NEW x \in Meter \ forgotten'
        PROVE  /\ \A i \in DOMAIN fetched' :
                    fetched'[i].id = x => Cardinality(Through(x)) <= fetched'[i].booked
               /\ x \notin Ids(fetched)' => Through(x) = {}
    <3>1. Cardinality(Through(x)) \in Nat /\ Cardinality(Settled(x)) \in Nat
          /\ Cardinality(Through(x)) <= Cardinality(Settled(x))
      BY <2>4, CountsAreNat
    <3>2. ASSUME NEW i \in DOMAIN fetched', fetched'[i].id = x
          PROVE  Cardinality(Through(x)) <= fetched'[i].booked
      <4>1. PICK j \in DOMAIN rows : fetched'[i] = rows[j]
        BY <2>5
      <4>2. Cardinality(Settled(x)) <= rows[j].booked /\ rows[j].booked \in Nat
        BY <1>a, <3>2, <4>1 DEF CountInv, RowsCount
      <4>3. QED
        BY <3>1, <4>1, <4>2
    <3>3. ASSUME x \notin Ids(fetched)'
          PROVE  Through(x) = {}
      <4>1. x \notin Ids(rows)
        BY <2>1, <2>6, <3>3
      <4>2. QED
        BY <2>3, <4>1 DEF CountInv, RowsCount
    <3>4. QED
      BY <3>2, <3>3
  <2>7. RingCounts'
    <3>1. \A x \in Meter : Through(x) = {} => Cardinality(Through(x)) = 0
      BY FS_EmptySet
    <3>2. ASSUME NEW x \in Meter \ forgotten', x \notin Ids(fetched)', NEW i \in DOMAIN windows
          PROVE  Cardinality(Through(x)) <= windows[i].booked
      BY <1>a, <2>6, <3>1, <3>2
    <3>3. QED
      BY <2>1, <2>2, <2>6, <3>2 DEF RingCounts
  <2>8. ThroughCapped' /\ RowsCount' /\ RingOnce'
    <3>1. RingOnce'
      BY <2>1 DEF CountInv, RingOnce
    <3>2. QED
      BY <1>0, <2>1, <2>2, <3>1, FewerThrough, RowsCountSame
  <2>9. QED
    BY <2>7, <2>8 DEF CountInv
<1>5. CASE SeatFetched
  <2> DEFINE w == fetched[1]
  <2>1. /\ Len(fetched) \in Nat /\ Len(fetched) > 0 /\ w \in Counted
        /\ windows' = Seated(windows, w)
        /\ DOMAIN fetched' = 1 .. Len(fetched) - 1
        /\ \A i \in 1 .. Len(fetched) - 1 : fetched'[i] = fetched[i + 1] /\ i + 1 \in DOMAIN fetched
    BY <1>5, TailFacts
  <2>2. 1 \in DOMAIN fetched /\ DOMAIN fetched = 1 .. Len(fetched)
    BY <1>0, <2>1
  <2>3. \A i \in DOMAIN fetched : i = 1 \/ (i - 1 \in DOMAIN fetched' /\ fetched'[i - 1] = fetched[i])
    BY <2>1, <2>2
  <2> HIDE DEF w
  <2>4. /\ RingOnce' /\ w.id \in Ids(windows)'
        /\ \A i \in DOMAIN windows' :
             \/ windows'[i] = w
             \/ windows'[i].id # w.id /\ \E j \in DOMAIN windows : windows'[i] = windows[j]
    BY <1>0, <2>1, SeatedRing DEF CountInv
  <2>5. /\ UNCHANGED <<rows, request, lost>> /\ gateway # "starting"
        /\ forgotten' = forgotten \union (Ids(windows) \ Ids(windows)')
    BY <1>5 DEF SeatFetched, Ids
  <2>6. \A x \in Meter : Through(x)' = Through(x) /\ Settled(x)' = Settled(x)
    BY <1>b, <2>5
  <2>7. ThroughCapped' /\ RowsCount'
    BY <1>0, <2>5, <2>6, FewerThrough, RowsCountSame
  <2>8. ASSUME NEW x \in Meter \ forgotten'
        PROVE  /\ \A i \in DOMAIN fetched' :
                    fetched'[i].id = x => Cardinality(Through(x)) <= fetched'[i].booked
               /\ x \notin Ids(fetched)' => \A i \in DOMAIN windows' :
                    windows'[i].id = x => Cardinality(Through(x)) <= windows'[i].booked
               /\ x \notin Ids(fetched)' \union Ids(windows)' => Through(x) = {}
    <3>1. /\ \A i \in DOMAIN fetched :
               fetched[i].id = x => Cardinality(Through(x)) <= fetched[i].booked
          /\ x \notin Ids(fetched) => \A i \in DOMAIN windows :
               windows[i].id = x => Cardinality(Through(x)) <= windows[i].booked
          /\ x \notin Ids(fetched) \union Ids(windows) => Through(x) = {}
      BY <2>5, <2>8 DEF CountInv, RingCounts
    <3>2. x \notin Ids(fetched)' /\ x # w.id => x \notin Ids(fetched)
      BY <2>3 DEF Ids, w
    <3>3. Cardinality(Through(x)) <= w.booked \/ x # w.id
      BY <2>2, <3>1 DEF w
    <3>4. \A i \in DOMAIN fetched' :
            fetched'[i].id = x => Cardinality(Through(x)) <= fetched'[i].booked
      BY <2>1, <3>1
    <3>5. ASSUME x \notin Ids(fetched)', NEW i \in DOMAIN windows', windows'[i].id = x
          PROVE  Cardinality(Through(x)) <= windows'[i].booked
      BY <2>4, <3>1, <3>2, <3>3, <3>5
    <3>6. ASSUME x \notin Ids(fetched)' \union Ids(windows)'
          PROVE  Through(x) = {}
      <4>1. x # w.id /\ x \notin Ids(windows)
        BY <2>4, <2>5, <2>8, <3>6
      <4>2. QED
        BY <3>1, <3>2, <3>6, <4>1
    <3>7. QED
      BY <3>4, <3>5, <3>6
  <2>9. RingCounts'
    BY <2>6, <2>8 DEF RingCounts, Ids
  <2>10. QED
    BY <2>4, <2>7, <2>9 DEF CountInv
<1>6. CASE Restored
  <2>1. UNCHANGED <<windows, fetched, rows, request, lost, forgotten>> /\ gateway # "starting"
    BY <1>6 DEF Restored, history
  <2>2. \A x \in Meter : Through(x)' = Through(x) /\ Settled(x)' = Settled(x)
    BY <1>b, <2>1
  <2>3. ThroughCapped' /\ RowsCount'
    BY <1>0, <2>1, <2>2, FewerThrough, RowsCountSame
  <2>4. RingOnce' /\ RingCounts'
    BY <2>1, <2>2 DEF CountInv, RingOnce, RingCounts, Ids
  <2>5. QED
    BY <2>3, <2>4 DEF CountInv
<1>7. QED
  BY <1>1, <1>2, <1>3, <1>4, <1>5, <1>6 DEF WindowNext

LEMMA CountGuardStep ==
  ASSUME MeterInv, CountInv, NEW t \in Truck, PassGuard(t)
  PROVE  CountInv'
<1>0. /\ windows \in Seq(Counted) /\ RequestsFit /\ DownIsQuiet /\ SlotCap \in [Meter -> Nat]
      /\ request \in [Truck -> [pc : {"new", "passed", "booked", "done"},
                                meter : Meter \union {Nothing},
                                status : {"none", "BOOKED", "CANCELLED", "COMPLETED"}]]
      /\ Nothing \notin Meter
  BY MeteringAssumption DEF MeterInv, MeteringTypeOK
<1>1. /\ UNCHANGED <<gateway, fetched, rows, lost, forgotten>>
      /\ request[t].pc = "new" /\ request[t].meter = Nothing /\ gateway = "serving"
      /\ request'[t].pc = "passed" /\ request'[t].status = request[t].status
      /\ fetched = <<>>
      /\ \A u \in Truck \ {t} : request'[u] = request[u]
  BY <1>0 DEF PassGuard, history, RequestsFit, DownIsQuiet
<1>2. \A m \in Meter : Settled(m)' \subseteq Settled(m)
  BY <1>1 DEF Settled, Metered
<1>3. RowsCount'
  BY <1>1, <1>2, RowsCountSame
<1>4. CASE request' = [request EXCEPT ![t].pc = "passed"] /\ UNCHANGED windows
  <2>1. request'[t].meter = Nothing
    BY <1>0, <1>1, <1>4
  <2>2. \A m \in Meter : Through(m)' \subseteq Through(m)
    BY <1>0, <1>1, <2>1 DEF Through
  <2>3. QED
    BY <1>0, <1>1, <1>3, <1>4, <2>2, FewerThrough, RingCountsOn DEF CountInv
<1>5. ASSUME NEW i \in DOMAIN windows, CapLeaves(windows[i]),
             windows' = [windows EXCEPT ![i].booked = @ + 1],
             request' = [request EXCEPT ![t].pc = "passed", ![t].meter = windows[i].id]
      PROVE  CountInv'
  <2>0. PICK m \in Meter : m = windows[i].id
    <3>1. windows[i] \in Counted
      BY <1>0
    <3>2. QED
      BY <3>1 DEF Counted
  <2>1. windows[i].booked \in Nat /\ windows[i].booked < SlotCap[m]
    <3>1. windows[i] \in Counted
      BY <1>0
    <3>2. QED
      BY <1>5, <2>0, <3>1 DEF Counted, CapLeaves
  <2>2. request'[t].meter = m
    BY <1>0, <1>5, <2>0
  <2>3. /\ DOMAIN windows' = DOMAIN windows
        /\ \A j \in DOMAIN windows :
             /\ windows'[j].id = windows[j].id
             /\ windows'[j].booked = windows[j].booked + (IF j = i THEN 1 ELSE 0)
    BY <1>0, <1>5, BumpFacts
  <2>4. \A j \in DOMAIN windows : windows[j].id = m => j = i
    BY <2>0 DEF CountInv, RingOnce
  <2>5. \A x \in Meter \ {m} : Through(x)' = Through(x)
    BY <1>0, <1>1, <2>2 DEF Through
  <2>6. Through(m)' = Through(m) \union {t} /\ t \in Truck \ Through(m)
    BY <1>0, <1>1, <2>1, <2>2 DEF Through
  <2>7. Cardinality(Through(m)') = Cardinality(Through(m)) + 1 /\ Cardinality(Through(m)) \in Nat
    <3>1. Through(m) \in SUBSET Truck
      BY DEF Through
    <3>2. QED
      BY <2>6, <3>1, TrucksCount
  <2>8. m \notin forgotten => Cardinality(Through(m)) <= windows[i].booked
    BY <1>1, <2>0, <2>1 DEF CountInv, RingCounts, Ids
  <2>9. ThroughCapped'
    <3>1. ASSUME m \notin forgotten
          PROVE  Cardinality(Through(m)') <= SlotCap[m]
      BY <1>0, <2>1, <2>7, <2>8, <3>1
    <3>2. QED
      BY <1>1, <2>5, <3>1 DEF CountInv, ThroughCapped
  <2>10. RingCounts'
    <3>1. ASSUME NEW x \in Meter \ forgotten, NEW j \in DOMAIN windows, windows[j].id = x
          PROVE  Cardinality(Through(x)') <= windows'[j].booked
      <4>1. CASE x = m
        BY <2>1, <2>3, <2>4, <2>7, <2>8, <3>1, <4>1
      <4>2. CASE x # m
        <5>1. j # i /\ windows'[j].booked = windows[j].booked + 0
          BY <2>0, <2>3, <3>1, <4>2
        <5>2. Cardinality(Through(x)) <= windows[j].booked
          BY <1>1, <3>1 DEF CountInv, RingCounts, Ids
        <5>3. windows[j].booked \in Nat
          <6>1. windows[j] \in Counted
            BY <1>0
          <6>2. QED
            BY <6>1 DEF Counted
        <5>4. QED
          BY <2>5, <3>1, <4>2, <5>1, <5>2, <5>3
      <4>3. QED
        BY <4>1, <4>2
    <3>2. Ids(windows)' = Ids(windows) /\ m \in Ids(windows)
      BY <2>0, <2>3 DEF Ids
    <3>3. \A x \in Meter \ forgotten : x \notin Ids(windows) => Through(x)' = {}
      BY <1>1, <2>5, <3>2 DEF CountInv, RingCounts, Ids
    <3>4. fetched' = <<>> /\ Ids(fetched)' = {}
      BY <1>1 DEF Ids
    <3>5. QED
      BY <1>1, <2>3, <3>1, <3>2, <3>3, <3>4 DEF RingCounts
  <2>11. RingOnce'
    BY <2>3 DEF CountInv, RingOnce
  <2>12. QED
    BY <1>3, <2>9, <2>10, <2>11 DEF CountInv
<1>6. QED
  BY <1>4, <1>5 DEF PassGuard

LEMMA CountBookingStep ==
  ASSUME MeterInv, CountInv, NEW t \in Truck, Book(t) \/ BookingFails(t) \/ BumpBooked(t)
  PROVE  CountInv'
<1>0. /\ rows \in Seq(Counted) /\ RequestsFit /\ SlotCap \in [Meter -> Nat]
      /\ request \in [Truck -> [pc : {"new", "passed", "booked", "done"},
                                meter : Meter \union {Nothing},
                                status : {"none", "BOOKED", "CANCELLED", "COMPLETED"}]]
      /\ Nothing \notin Meter
  BY MeteringAssumption DEF MeterInv, MeteringTypeOK
<1>1. /\ UNCHANGED <<gateway, windows, fetched, forgotten>>
      /\ lost \subseteq lost'
      /\ request[t].pc \in {"passed", "booked"} /\ request'[t].meter = request[t].meter
      /\ request'[t].pc # "passed"
      /\ \A u \in Truck \ {t} : request'[u] = request[u]
  BY <1>0 DEF Book, BookingFails, BumpBooked, history
<1>2. ASSUME NEW m \in Meter
      PROVE  Through(m)' \subseteq Through(m)
  <2>1. \A u \in Truck \ {t} : u \in Through(m)' => u \in Through(m)
    BY <1>1 DEF Through
  <2>2. t \in Through(m)' => t \in Through(m)
    <3>1. CASE request[t].pc = "passed"
      BY <1>1, <3>1 DEF Through
    <3>2. CASE request[t].pc = "booked"
      <4>1. request'[t].status = request[t].status
        BY <1>0, <3>2 DEF Book, BookingFails, BumpBooked
      <4>2. QED
        BY <1>1, <4>1 DEF Through
    <3>3. QED
      BY <1>1, <3>1, <3>2
  <2>3. QED
    BY <2>1, <2>2 DEF Through
<1>3. ThroughCapped' /\ RingCounts' /\ RingOnce'
  BY <1>0, <1>1, <1>2, FewerThrough, RingCountsOn
<1>4. \A m \in Meter : Settled(m)' \subseteq Settled(m) \union {t}
  BY <1>1 DEF Settled, Metered
<1>5. ASSUME NEW m \in Meter, t \notin Settled(m)'
      PROVE  Settled(m)' \subseteq Settled(m)
  BY <1>4, <1>5
<1>6. CASE Book(t)
  <2>1. \A m \in Meter : t \notin Settled(m)'
    BY <1>0, <1>1, <1>6 DEF Book, Settled, Metered
  <2>2. UNCHANGED rows
    BY <1>6 DEF Book
  <2>3. QED
    BY <1>3, <1>5, <2>1, <2>2, RowsCountSame DEF CountInv
<1>7. CASE BookingFails(t)
  <2>1. \A m \in Meter : t \notin Settled(m)'
    BY <1>0, <1>7 DEF BookingFails, Settled, Metered, RequestsFit
  <2>2. UNCHANGED rows
    BY <1>7 DEF BookingFails
  <2>3. QED
    BY <1>3, <1>5, <2>1, <2>2, RowsCountSame DEF CountInv
<1>8. CASE BumpBooked(t) /\ lost' = lost \union {t} /\ UNCHANGED rows
  <2>1. \A m \in Meter : t \notin Settled(m)'
    BY <1>8 DEF Settled
  <2>2. QED
    BY <1>3, <1>5, <1>8, <2>1, RowsCountSame DEF CountInv
<1>9. CASE /\ BumpBooked(t) /\ request[t].meter \in Ids(rows)
           /\ rows' = [i \in DOMAIN rows |-> IF rows[i].id = request[t].meter
                                             THEN [rows[i] EXCEPT !.booked = @ + 1]
                                             ELSE rows[i]]
  <2>0. PICK m0 \in Meter \union {Nothing} : m0 = request[t].meter
    BY <1>0
  <2>1. \A i \in DOMAIN rows : rows[i] \in Counted
    BY <1>0
  <2>2. /\ DOMAIN rows' = DOMAIN rows
        /\ \A i \in DOMAIN rows :
             /\ rows'[i].id = rows[i].id /\ rows[i].booked \in Nat
             /\ rows'[i].booked = rows[i].booked + (IF rows[i].id = m0 THEN 1 ELSE 0)
    <3>1. DOMAIN rows' = DOMAIN rows
      BY <1>9
    <3>2. ASSUME NEW i \in DOMAIN rows
          PROVE  /\ rows'[i].id = rows[i].id /\ rows[i].booked \in Nat
                 /\ rows'[i].booked = rows[i].booked + (IF rows[i].id = m0 THEN 1 ELSE 0)
      <4> DEFINE e == [rows[i] EXCEPT !.booked = @ + 1]
      <4>1. rows[i] \in Counted /\ rows[i].booked \in Nat
        BY <2>1 DEF Counted
      <4>2. e.id = rows[i].id /\ e.booked = rows[i].booked + 1
        BY <4>1 DEF Counted
      <4>3. rows'[i] = IF rows[i].id = m0 THEN e ELSE rows[i]
        BY <1>9, <2>0
      <4> HIDE DEF e
      <4>4. QED
        BY <4>1, <4>2, <4>3
    <3>3. QED
      BY <3>1, <3>2
  <2>3. Ids(rows)' = Ids(rows)
    BY <2>2 DEF Ids
  <2>4. \A m \in Meter : m # m0 => Settled(m)' \subseteq Settled(m)
    BY <1>1, <2>0 DEF Settled, Metered
  <2>5. m0 \in Meter => Cardinality(Settled(m0)') <= Cardinality(Settled(m0)) + 1
    <3>1. SUFFICES ASSUME m0 \in Meter
                   PROVE  Cardinality(Settled(m0)') <= Cardinality(Settled(m0)) + 1
      OBVIOUS
    <3>2. Settled(m0) \in SUBSET Truck /\ Cardinality(Settled(m0)) \in Nat
      BY CountsAreNat
    <3>3. CASE t \in Settled(m0)
      <4>1. Settled(m0)' \subseteq Settled(m0)
        BY <1>4, <3>1, <3>3
      <4>2. Cardinality(Settled(m0)') <= Cardinality(Settled(m0)) /\ Cardinality(Settled(m0)') \in Nat
        BY <4>1, CountsAreNat
      <4>3. QED
        BY <3>2, <4>2
    <3>4. CASE t \notin Settled(m0)
      <4>1. Cardinality(Settled(m0) \union {t}) = Cardinality(Settled(m0)) + 1
        BY <3>2, <3>4, TrucksCount
      <4>2. Settled(m0) \union {t} \in SUBSET Truck
        BY <3>2
      <4>3. Settled(m0)' \in SUBSET (Settled(m0) \union {t})
        BY <1>4, <3>1
      <4>4. Cardinality(Settled(m0)') <= Cardinality(Settled(m0) \union {t})
        BY <4>2, <4>3, TrucksCount
      <4>5. QED
        BY <4>1, <4>4
    <3>5. QED
      BY <3>3, <3>4
  <2>6. ASSUME NEW m \in Meter
        PROVE  /\ m \notin Ids(rows)' => Settled(m)' = {}
               /\ \A i \in DOMAIN rows' :
                    rows'[i].id = m => Cardinality(Settled(m)') <= rows'[i].booked
    <3>1. /\ m \notin Ids(rows) => Settled(m) = {}
          /\ \A i \in DOMAIN rows : rows[i].id = m => Cardinality(Settled(m)) <= rows[i].booked
      BY DEF CountInv, RowsCount
    <3>2. /\ Cardinality(Settled(m)) \in Nat /\ Cardinality(Settled(m)') \in Nat
          /\ Settled(m)' \subseteq Settled(m) => Cardinality(Settled(m)') <= Cardinality(Settled(m))
      BY CountsAreNat
    <3>3. m0 \in Ids(rows)
      BY <1>9, <2>0
    <3>4. CASE m = m0
      BY <2>2, <2>3, <2>5, <3>1, <3>2, <3>3, <3>4
    <3>5. CASE m # m0
      <4>1. Settled(m)' \subseteq Settled(m) /\ Cardinality(Settled(m)') <= Cardinality(Settled(m))
        BY <2>4, <3>2, <3>5
      <4>2. QED
        BY <2>2, <2>3, <3>1, <3>2, <3>5, <4>1
    <3>6. QED
      BY <3>4, <3>5
  <2>7. RowsCount'
    BY <2>6 DEF RowsCount
  <2>8. QED
    BY <1>3, <2>7 DEF CountInv
<1>10. QED
  BY <1>6, <1>7, <1>8, <1>9 DEF BumpBooked

LEMMA CountStep ==
  ASSUME MeterInv, CountInv, [MeteringNext]_meteringVars
  PROVE  CountInv'
<1>0. SlotCap \in [Meter -> Nat]
  BY MeteringAssumption
<1>1. ASSUME UNCHANGED <<gateway, windows, fetched, rows, lost, forgotten>>,
             \A t \in Truck : /\ request'[t].pc = request[t].pc /\ request'[t].meter = request[t].meter
                              /\ request'[t].status = "none" <=> request[t].status = "none"
      PROVE  CountInv'
  <2>1. \A m \in Meter : Through(m)' \subseteq Through(m) /\ Settled(m)' \subseteq Settled(m)
    BY <1>1 DEF Through, Settled, Metered
  <2>2. QED
    BY <1>0, <1>1, <2>1, FewerThrough, RingCountsOn, RowsCountSame DEF CountInv
<1>2. CASE AppointmentNext
  BY <1>1, <1>2, AppointmentStepInv
<1>3. CASE UNCHANGED meteringVars
  BY <1>1, <1>3 DEF meteringVars
<1>4. QED
  BY <1>2, <1>3, CountWindowStep, CountGuardStep, CountBookingStep DEF MeteringNext, BookingNext

\* However often the gateway restarts and windows are redelivered, a window lets no
\* more trucks through than its cap and those whose count was lost before the row
\* (gateway/crosstwin.py: _deferred_window_guard, bump_booked, restore).
THEOREM CapsAreKept == MeteringSpec => []CapIsKept
<1>1. MeterInv /\ CountInv /\ [MeteringNext]_meteringVars => (MeterInv /\ CountInv)'
  BY MeterStep, CountStep
<1>2. MeterInv /\ CountInv => CapIsKept
  <2>1. SUFFICES ASSUME CountInv, NEW m \in Meter \ forgotten
                 PROVE  Cardinality(Metered(m) \ lost) <= SlotCap[m]
    BY DEF CapIsKept
  <2>2. Through(m) \in SUBSET Truck /\ Metered(m) \ lost \subseteq Through(m)
    BY DEF Metered, Through
  <2>3. Cardinality(Metered(m) \ lost) <= Cardinality(Through(m))
    <3> DEFINE T == Metered(m) \ lost
               S == Through(m)
    <3>1. S \in SUBSET Truck /\ T \in SUBSET S
      BY <2>2
    <3> HIDE DEF S, T
    <3>2. Cardinality(T) <= Cardinality(S)
      BY <3>1, TrucksCount
    <3>3. QED
      BY <3>2 DEF S, T
  <2>4. Cardinality(Through(m)) <= SlotCap[m]
    BY <2>1 DEF CountInv, ThroughCapped
  <2>5. /\ Cardinality(Metered(m) \ lost) \in Nat /\ Cardinality(Through(m)) \in Nat
        /\ SlotCap[m] \in Nat
    <3>1. Metered(m) \ lost \in SUBSET Truck
      BY DEF Metered
    <3>2. QED
      BY <2>2, <3>1, TrucksCount, MeteringAssumption
  <2>6. QED
    BY <2>3, <2>4, <2>5
<1>3. QED
  BY <1>1, <1>2, MeterInitInv, CountInit, PTL DEF MeteringSpec

-----------------------------------------------------------------------------
(* Restarts *)

RowBefore(a, b) == \E k, l \in DOMAIN rows : k < l /\ rows[k].id = a /\ rows[l].id = b

\* A window that is saved, or about to be, is in the ring or about to be seated;
\* one that is about to be saved is in the ring already.
SavedIsSeated ==
  /\ \A w \in saving : w.id \in Ids(windows) \union forgotten
  /\ gateway # "starting" => Ids(rows) \subseteq Ids(windows) \union Ids(fetched) \union forgotten

\* While nothing has come too early, the ring is empty until rows are seated, they
\* are seated in the order they have in the table, and two windows of the ring are
\* in the order in which they came or in that of their rows.
RingInOrder == ~overtaken =>
  /\ gateway \in {"starting", "restoring"} => windows = <<>>
  /\ \A i, j \in DOMAIN fetched : i < j => RowBefore(fetched[i].id, fetched[j].id)
  /\ \A i \in DOMAIN windows, j \in DOMAIN fetched : RowBefore(windows[i].id, fetched[j].id)
  /\ \A i, j \in DOMAIN windows : i < j =>
       <<windows[i].id, windows[j].id>> \in older \/ RowBefore(windows[i].id, windows[j].id)

RestoreInv == SavedIsSeated /\ RingInOrder

LEMMA RowOrderKept ==
  ASSUME MeterInv, RowsKept, rows' \in Seq(Counted)
  PROVE  /\ Ids(rows) \subseteq Ids(rows)'
         /\ \A a, b \in Meter : RowBefore(a, b) => RowBefore(a, b)'
<1>1. /\ DOMAIN rows = 1 .. Len(rows) /\ DOMAIN rows' = 1 .. Len(rows') /\ Len(rows) \in Nat
  BY DEF MeterInv, MeteringTypeOK
<1>2. DOMAIN rows \subseteq DOMAIN rows' /\ \A i \in DOMAIN rows : rows'[i].id = rows[i].id
  BY <1>1 DEF RowsKept
<1>3. QED
  BY <1>2 DEF RowBefore, Ids

LEMMA RestoreWindowStep ==
  ASSUME MeterInv, RestoreInv, WindowNext
  PROVE  RestoreInv'
<1>0. /\ windows \in Seq(Counted) /\ fetched \in Seq(Counted) /\ rows \in Seq(Counted)
      /\ saving \subseteq Counted /\ DownIsQuiet /\ MeterInv' /\ RowsKept /\ rows' \in Seq(Counted)
  BY WindowStepInv DEF MeterInv, MeteringTypeOK
<1>a. /\ \A i \in DOMAIN windows : windows[i] \in Counted /\ windows[i].id \in Meter
      /\ \A i \in DOMAIN fetched : fetched[i] \in Counted /\ fetched[i].id \in Meter
  <2>1. \A i \in DOMAIN windows : windows[i] \in Counted
    BY <1>0
  <2>2. \A i \in DOMAIN fetched : fetched[i] \in Counted
    BY <1>0
  <2>3. QED
    BY <2>1, <2>2 DEF Counted
<1>1. ASSUME NEW m \in Meter, Apply(m)
      PROVE  RestoreInv'
  <2>1. PICK b \in Nat : LET w == [id |-> m, booked |-> b]
                         IN w \in Counted /\ windows' = Seated(windows, w)
                            /\ saving' = saving \union {w}
    BY <1>1, AppliedType
  <2> DEFINE w == [id |-> m, booked |-> b]
  <2>2. w \in Counted /\ w.id = m /\ windows' = Seated(windows, w) /\ saving' = saving \union {w}
    BY <2>1
  <2> HIDE DEF w
  <2>3. /\ UNCHANGED <<gateway, fetched, rows>>
        /\ forgotten' = forgotten \union (Ids(windows) \ Ids(windows)')
        /\ older' = IF m \in Ids(windows) THEN older ELSE CameLast(m)
        /\ overtaken' = (overtaken \/ gateway # "serving")
    BY <1>1 DEF Apply, Ids
  <2>4. m \in Ids(windows)'
    <3>1. w.id \in Ids(Seated(windows, w))
      BY <1>0, <2>2, SeatedFacts
    <3>2. QED
      BY <2>2, <3>1 DEF Ids
  <2>5. SavedIsSeated'
    <3>1. \A v \in saving' : v.id \in Ids(windows)' \union forgotten'
      BY <2>2, <2>3, <2>4 DEF RestoreInv, SavedIsSeated
    <3>2. Ids(fetched)' = Ids(fetched) /\ Ids(rows)' = Ids(rows)
      BY <2>3 DEF Ids
    <3>3. QED
      BY <2>3, <3>1, <3>2 DEF RestoreInv, SavedIsSeated
  <2>6. ASSUME ~overtaken', NEW i \in DOMAIN windows', NEW j \in DOMAIN windows', i < j
        PROVE  <<windows'[i].id, windows'[j].id>> \in older' \/ RowBefore(windows'[i].id, windows'[j].id)
    <3>1. \A p, q \in DOMAIN windows : p < q =>
            <<windows[p].id, windows[q].id>> \in older \/ RowBefore(windows[p].id, windows[q].id)
      BY <2>3, <2>6 DEF RestoreInv, RingInOrder
    <3>2. CASE m \in Ids(windows)
      <4>1. /\ DOMAIN windows' = DOMAIN windows
            /\ \A p \in DOMAIN windows : windows'[p].id = windows[p].id
        BY <1>0, <2>2, <3>2, SeatedNext
      <4>2. QED
        BY <2>3, <2>6, <3>1, <3>2, <4>1
    <3>3. CASE m \notin Ids(windows)
      <4>1. PICK k \in 0 .. Len(windows) :
              /\ DOMAIN windows' = 1 .. Len(windows) + 1 - k
              /\ \A p \in 1 .. Len(windows) - k :
                   windows'[p] = windows[p + k] /\ p + k \in DOMAIN windows
              /\ windows'[Len(windows) + 1 - k] = w
              /\ \A p \in DOMAIN windows' : p \in 1 .. Len(windows) - k \/ p = Len(windows) + 1 - k
        BY <1>0, <2>2, <3>3, SeatedNext
      <4>2. Len(windows) \in Nat /\ DOMAIN windows = 1 .. Len(windows)
        BY <1>0
      <4>3. i \in 1 .. Len(windows) - k /\ i + k \in DOMAIN windows /\ windows'[i] = windows[i + k]
        BY <2>6, <4>1, <4>2
      <4>4. windows'[i].id \in Meter \ {m}
        BY <1>a, <3>3, <4>3 DEF Ids
      <4>5. older' = CameLast(m)
        BY <2>3, <3>3
      <4>6. CASE j = Len(windows) + 1 - k
        <5>1. windows'[j].id = m
          BY <2>2, <4>1, <4>6
        <5>2. QED
          BY <4>4, <4>5, <5>1 DEF CameLast
      <4>7. CASE j # Len(windows) + 1 - k
        <5>1. j + k \in DOMAIN windows /\ windows'[j] = windows[j + k] /\ i + k < j + k
          BY <2>6, <4>1, <4>2, <4>7
        <5>2. windows'[j].id # m
          BY <3>3, <5>1 DEF Ids
        <5>3. <<windows'[i].id, windows'[j].id>> \in older \/ RowBefore(windows'[i].id, windows'[j].id)
          BY <3>1, <4>3, <5>1
        <5>4. QED
          BY <4>4, <4>5, <5>2, <5>3 DEF CameLast
      <4>8. QED
        BY <4>6, <4>7
    <3>4. QED
      BY <3>2, <3>3
  <2>7. RingInOrder'
    <3>1. SUFFICES ASSUME ~overtaken' PROVE RingInOrder'
      BY DEF RingInOrder
    <3>2. ~overtaken /\ gateway = "serving" /\ gateway' = "serving"
      BY <2>3, <3>1
    <3>3. fetched = <<>> /\ fetched' = <<>>
      BY <1>0, <2>3, <3>2 DEF DownIsQuiet
    <3>4. (\A i, j \in DOMAIN windows : i < j =>
             <<windows[i].id, windows[j].id>> \in older \/ RowBefore(windows[i].id, windows[j].id))'
      BY <2>3, <2>6, <3>1 DEF RowBefore
    <3>5. DOMAIN fetched' = {} /\ gateway' \notin {"starting", "restoring"}
      BY <3>2, <3>3
    <3>6. QED
      BY <3>4, <3>5 DEF RingInOrder
  <2>8. QED
    BY <2>5, <2>7 DEF RestoreInv
<1>2. ASSUME NEW w \in saving, PersistWindow(w)
      PROVE  RestoreInv'
  <2>1. UNCHANGED <<gateway, windows, fetched, forgotten, older, overtaken>> /\ saving' \subseteq saving
    BY <1>2 DEF PersistWindow, history
  <2>2. Ids(rows)' \subseteq Ids(rows) \union {w.id}
    <3>1. w \in Counted
      BY <1>0
    <3>2. \A i \in DOMAIN Upserted(w) : Upserted(w)[i].id \in Ids(rows) \union {w.id}
      <4>1. DOMAIN rows = 1 .. Len(rows)
        BY <1>0
      <4>2. QED
        BY <1>0, <3>1, <4>1, UpsertedFacts DEF Ids
    <3>3. QED
      BY <1>2, <3>2 DEF PersistWindow, Ids
  <2>3. Ids(windows)' = Ids(windows) /\ Ids(fetched)' = Ids(fetched)
    BY <2>1 DEF Ids
  <2>4. SavedIsSeated'
    BY <2>1, <2>2, <2>3 DEF RestoreInv, SavedIsSeated
  <2>5. RingInOrder'
    <3>1. \A a, b \in Meter : RowBefore(a, b) => RowBefore(a, b)'
      BY <1>0, RowOrderKept
    <3>2. QED
      BY <1>a, <2>1, <3>1 DEF RestoreInv, RingInOrder
  <2>6. QED
    BY <2>4, <2>5 DEF RestoreInv
<1>3. CASE Crash
  BY <1>3 DEF Crash, RestoreInv, SavedIsSeated, RingInOrder
<1>4. CASE RestoreRead
  <2>1. /\ UNCHANGED <<windows, rows, saving, older, overtaken>>
        /\ gateway = "starting" /\ gateway' = "restoring"
        /\ forgotten' = forgotten \union (Ids(rows) \ Ids(fetched)')
    BY <1>4 DEF RestoreRead, Ids
  <2>2. Ids(windows)' = Ids(windows) /\ Ids(rows)' = Ids(rows)
    BY <2>1 DEF Ids
  <2>3. SavedIsSeated'
    BY <2>1, <2>2 DEF RestoreInv, SavedIsSeated
  <2>4. \A i, j \in DOMAIN fetched' : i < j => RowBefore(fetched'[i].id, fetched'[j].id)
    <3>1. CASE fetched' = <<>>
      BY <3>1
    <3>2. CASE fetched' = Newest(rows)
      <4>1. PICK k \in 0 .. Len(rows) :
               /\ Newest(rows) \in Seq(Counted)
               /\ Len(Newest(rows)) = Len(rows) - k
               /\ \A i \in 1 .. Len(rows) - k : Newest(rows)[i] = rows[i + k]
        BY <1>0, NewestFacts
      <4>2. DOMAIN fetched' = 1 .. Len(rows) - k /\ DOMAIN rows = 1 .. Len(rows) /\ Len(rows) \in Nat
        BY <1>0, <3>2, <4>1
      <4>3. \A i \in DOMAIN fetched' : i + k \in DOMAIN rows /\ fetched'[i] = rows[i + k]
        BY <3>2, <4>1, <4>2
      <4>4. ASSUME NEW i \in DOMAIN fetched', NEW j \in DOMAIN fetched', i < j
            PROVE  RowBefore(fetched'[i].id, fetched'[j].id)
        <5>1. i + k \in DOMAIN rows /\ j + k \in DOMAIN rows /\ i + k < j + k
              /\ rows[i + k].id = fetched'[i].id /\ rows[j + k].id = fetched'[j].id
          BY <4>2, <4>3, <4>4
        <5>2. QED
          BY <5>1 DEF RowBefore
      <4>5. QED
        BY <4>4
    <3>3. QED
      BY <1>4, <3>1, <3>2 DEF RestoreRead
  <2>5. RingInOrder'
    <3>2. SUFFICES ASSUME ~overtaken PROVE RingInOrder'
      BY <2>1 DEF RingInOrder
    <3>3. windows = <<>> /\ windows' = <<>> /\ DOMAIN windows' = {}
      BY <2>1, <3>2 DEF RestoreInv, RingInOrder
    <3>4. (\A i, j \in DOMAIN fetched : i < j => RowBefore(fetched[i].id, fetched[j].id))'
      BY <2>1, <2>4 DEF RowBefore
    <3>5. QED
      BY <3>3, <3>4 DEF RingInOrder
  <2>6. QED
    BY <2>3, <2>5 DEF RestoreInv
<1>5. CASE SeatFetched
  <2> DEFINE w == fetched[1]
  <2>1. /\ Len(fetched) \in Nat /\ Len(fetched) > 0 /\ w \in Counted
        /\ windows' = Seated(windows, w)
        /\ DOMAIN fetched' = 1 .. Len(fetched) - 1
        /\ \A i \in 1 .. Len(fetched) - 1 : fetched'[i] = fetched[i + 1] /\ i + 1 \in DOMAIN fetched
    BY <1>5, TailFacts
  <2>2. 1 \in DOMAIN fetched /\ DOMAIN fetched = 1 .. Len(fetched)
    BY <1>0, <2>1
  <2>3. \A i \in DOMAIN fetched : i = 1 \/ (i - 1 \in DOMAIN fetched' /\ fetched'[i - 1] = fetched[i])
    BY <2>1, <2>2
  <2>4. /\ UNCHANGED <<rows, saving, older, overtaken>>
        /\ gateway # "starting" /\ gateway' = "seating"
        /\ forgotten' = forgotten \union (Ids(windows) \ Ids(windows)')
    BY <1>5 DEF SeatFetched, Ids
  <2>5. Ids(fetched) \subseteq Ids(fetched)' \union {w.id}
    BY <2>3 DEF Ids
  <2> HIDE DEF w
  <2>6. /\ windows' \in Seq(Counted) /\ w.id \in Ids(windows)'
        /\ w.id \in Ids(windows) =>
             /\ DOMAIN windows' = DOMAIN windows
             /\ \A i \in DOMAIN windows : windows'[i].id = windows[i].id
        /\ w.id \notin Ids(windows) =>
             \E k \in 0 .. Len(windows) :
               /\ DOMAIN windows' = 1 .. Len(windows) + 1 - k
               /\ \A i \in 1 .. Len(windows) - k :
                    windows'[i] = windows[i + k] /\ i + k \in DOMAIN windows
               /\ windows'[Len(windows) + 1 - k] = w
               /\ \A i \in DOMAIN windows' : i \in 1 .. Len(windows) - k \/ i = Len(windows) + 1 - k
    BY <1>0, <2>1, SeatedNext
  <2>7. SavedIsSeated'
    <3>1. Ids(rows)' = Ids(rows)
      BY <2>4 DEF Ids
    <3>2. QED
      BY <2>4, <2>5, <2>6, <3>1 DEF RestoreInv, SavedIsSeated
  <2>8. ASSUME ~overtaken'
        PROVE  RingInOrder'
    <3>0. /\ \A i, j \in DOMAIN fetched : i < j => RowBefore(fetched[i].id, fetched[j].id)
          /\ \A i \in DOMAIN windows, j \in DOMAIN fetched : RowBefore(windows[i].id, fetched[j].id)
          /\ \A i, j \in DOMAIN windows : i < j =>
               <<windows[i].id, windows[j].id>> \in older \/ RowBefore(windows[i].id, windows[j].id)
      BY <2>4, <2>8 DEF RestoreInv, RingInOrder
    <3>1. \A i \in DOMAIN windows : RowBefore(windows[i].id, w.id)
      BY <2>2, <3>0 DEF w
    <3>2. \A j \in DOMAIN fetched' : RowBefore(w.id, fetched'[j].id)
      <4>1. TAKE j \in DOMAIN fetched'
      <4>2. j + 1 \in DOMAIN fetched /\ 1 < j + 1 /\ fetched'[j] = fetched[j + 1]
        BY <2>1
      <4>3. QED
        BY <2>2, <3>0, <4>2 DEF w
    <3>3. \A i, j \in DOMAIN fetched' : i < j => RowBefore(fetched'[i].id, fetched'[j].id)
      <4>1. TAKE i, j \in DOMAIN fetched'
      <4>2. HAVE i < j
      <4>3. /\ i + 1 \in DOMAIN fetched /\ j + 1 \in DOMAIN fetched /\ i + 1 < j + 1
            /\ fetched'[i] = fetched[i + 1] /\ fetched'[j] = fetched[j + 1]
        BY <2>1, <4>2
      <4>4. QED
        BY <3>0, <4>3
    <3>4. \A i \in DOMAIN windows, j \in DOMAIN fetched' : RowBefore(windows[i].id, fetched'[j].id)
      BY <2>1, <3>0
    <3>5. /\ \A i \in DOMAIN windows', j \in DOMAIN fetched' : RowBefore(windows'[i].id, fetched'[j].id)
          /\ \A i, j \in DOMAIN windows' : i < j =>
               \/ <<windows'[i].id, windows'[j].id>> \in older
               \/ RowBefore(windows'[i].id, windows'[j].id)
      <4>1. CASE w.id \in Ids(windows)
        BY <2>6, <3>0, <3>4, <4>1
      <4>2. CASE w.id \notin Ids(windows)
        <5>1. PICK k \in 0 .. Len(windows) :
                /\ DOMAIN windows' = 1 .. Len(windows) + 1 - k
                /\ \A i \in 1 .. Len(windows) - k :
                     windows'[i] = windows[i + k] /\ i + k \in DOMAIN windows
                /\ windows'[Len(windows) + 1 - k] = w
                /\ \A i \in DOMAIN windows' : i \in 1 .. Len(windows) - k \/ i = Len(windows) + 1 - k
          BY <2>6, <4>2
        <5>2. Len(windows) \in Nat /\ DOMAIN windows = 1 .. Len(windows)
          BY <1>0
        <5>3. \A i \in DOMAIN windows' :
                \/ i = Len(windows) + 1 - k /\ windows'[i] = w
                \/ i + k \in DOMAIN windows /\ windows'[i] = windows[i + k]
          BY <5>1, <5>2
        <5>4. \A i \in DOMAIN windows', j \in DOMAIN fetched' : RowBefore(windows'[i].id, fetched'[j].id)
          BY <3>2, <3>4, <5>3
        <5>5. ASSUME NEW i \in DOMAIN windows', NEW j \in DOMAIN windows', i < j
              PROVE  \/ <<windows'[i].id, windows'[j].id>> \in older
                     \/ RowBefore(windows'[i].id, windows'[j].id)
          <6>1. i + k \in DOMAIN windows /\ windows'[i] = windows[i + k]
            BY <5>1, <5>2, <5>5
          <6>2. CASE j = Len(windows) + 1 - k
            BY <3>1, <5>1, <6>1, <6>2
          <6>3. CASE j # Len(windows) + 1 - k
            <7>1. j + k \in DOMAIN windows /\ windows'[j] = windows[j + k] /\ i + k < j + k
              BY <5>1, <5>2, <5>5, <6>3
            <7>2. QED
              BY <3>0, <6>1, <7>1
          <6>4. QED
            BY <6>2, <6>3
        <5>6. QED
          BY <5>4, <5>5
      <4>3. QED
        BY <4>1, <4>2
    <3>6. QED
      BY <2>4, <3>3, <3>5 DEF RingInOrder, RowBefore
  <2>9. RingInOrder'
    BY <2>8 DEF RingInOrder
  <2>10. QED
    BY <2>7, <2>9 DEF RestoreInv
<1>6. CASE Restored
  <2>1. /\ UNCHANGED <<windows, fetched, rows, saving, forgotten, older, overtaken>>
        /\ gateway' = "serving" /\ gateway # "starting"
    BY <1>6 DEF Restored, history
  <2>2. SavedIsSeated' /\ RingInOrder'
    BY <2>1 DEF RestoreInv, SavedIsSeated, RingInOrder, RowBefore, Ids
  <2>3. QED
    BY <2>2 DEF RestoreInv
<1>7. QED
  BY <1>1, <1>2, <1>3, <1>4, <1>5, <1>6 DEF WindowNext

LEMMA RestoreBookingStep ==
  ASSUME MeterInv, RestoreInv, BookingNext
  PROVE  RestoreInv'
<1>0. /\ windows \in Seq(Counted) /\ fetched \in Seq(Counted) /\ rows \in Seq(Counted)
      /\ MeterInv' /\ RowsKept /\ rows' \in Seq(Counted)
  BY BookingStepInv DEF MeterInv, MeteringTypeOK, BookingNext
<1>1. /\ \A i \in DOMAIN windows : windows[i].id \in Meter
      /\ \A i \in DOMAIN fetched : fetched[i].id \in Meter
  <2>1. \A i \in DOMAIN windows : windows[i] \in Counted
    BY <1>0
  <2>2. \A i \in DOMAIN fetched : fetched[i] \in Counted
    BY <1>0
  <2>3. QED
    BY <2>1, <2>2 DEF Counted
<1>2. UNCHANGED <<gateway, fetched, saving, forgotten, older, overtaken>>
  BY DEF BookingNext, PassGuard, Book, BookingFails, BumpBooked, history
<1>3. DOMAIN windows' = DOMAIN windows /\ \A i \in DOMAIN windows : windows'[i].id = windows[i].id
  <2>1. UNCHANGED windows \/ \E i \in DOMAIN windows : windows' = [windows EXCEPT ![i].booked = @ + 1]
    BY DEF BookingNext, PassGuard, Book, BookingFails, BumpBooked
  <2>2. ASSUME NEW i \in DOMAIN windows, windows' = [windows EXCEPT ![i].booked = @ + 1]
        PROVE  DOMAIN windows' = DOMAIN windows
               /\ \A j \in DOMAIN windows : windows'[j].id = windows[j].id
    BY <1>0, <2>2, BumpFacts
  <2>3. QED
    BY <2>1, <2>2
<1>4. Ids(rows)' = Ids(rows)
  <2>1. \/ UNCHANGED rows
        \/ \E t \in Truck : rows' = [i \in DOMAIN rows |-> IF rows[i].id = request[t].meter
                                                           THEN [rows[i] EXCEPT !.booked = @ + 1]
                                                           ELSE rows[i]]
    BY DEF BookingNext, PassGuard, Book, BookingFails, BumpBooked
  <2>2. DOMAIN rows' = DOMAIN rows
    BY <2>1
  <2>3. \A i \in DOMAIN rows : rows'[i].id = rows[i].id
    <3>1. DOMAIN rows = 1 .. Len(rows)
      BY <1>0
    <3>2. QED
      BY <1>0, <3>1 DEF RowsKept
  <2>4. QED
    BY <2>2, <2>3 DEF Ids
<1>5. Ids(windows)' = Ids(windows) /\ Ids(fetched)' = Ids(fetched)
  BY <1>2, <1>3 DEF Ids
<1>6. SavedIsSeated'
  BY <1>2, <1>4, <1>5 DEF RestoreInv, SavedIsSeated
<1>7. \A a, b \in Meter : RowBefore(a, b) => RowBefore(a, b)'
  BY <1>0, RowOrderKept
<1>8. windows = <<>> => windows' = <<>>
  BY <1>0, <1>3 DEF MeterInv, MeteringTypeOK
<1>9. RingInOrder'
  BY <1>1, <1>2, <1>3, <1>7, <1>8 DEF RestoreInv, RingInOrder
<1>10. QED
  BY <1>6, <1>9 DEF RestoreInv

\* A restart brings back every window with a row that the ring has room for, in the
\* order of their rows (gateway/crosstwin.py: restore).
THEOREM MetersAreRestored == MeteringSpec => []MetersSurviveRestarts
<1>1. MeteringInit => RestoreInv
  BY DEF MeteringInit, RestoreInv, SavedIsSeated, RingInOrder, Ids
<1>2. ASSUME MeterInv, RestoreInv, [MeteringNext]_meteringVars
      PROVE  RestoreInv'
  <2>1. ASSUME UNCHANGED <<gateway, windows, fetched, rows, saving, older, forgotten, overtaken>>
        PROVE  RestoreInv'
    <3>1. SavedIsSeated'
      BY <1>2, <2>1 DEF RestoreInv, SavedIsSeated, Ids
    <3>2. RingInOrder'
      BY <1>2, <2>1 DEF RestoreInv, RingInOrder, RowBefore
    <3>3. QED
      BY <3>1, <3>2 DEF RestoreInv
  <2>2. CASE AppointmentNext
    <3>1. UNCHANGED <<gateway, windows, fetched, rows, saving, older, forgotten, overtaken>>
      BY <1>2, <2>2, AppointmentStepInv
    <3>2. QED
      BY <2>1, <3>1
  <2>3. CASE UNCHANGED meteringVars
    BY <2>1, <2>3 DEF meteringVars
  <2>4. QED
    BY <1>2, <2>2, <2>3, RestoreWindowStep, RestoreBookingStep DEF MeteringNext
<1>3. MeterInv /\ RestoreInv => MetersSurviveRestarts
  <2>1. SUFFICES ASSUME MeterInv, RestoreInv PROVE MetersSurviveRestarts
    OBVIOUS
  <2>2. ASSUME gateway = "serving"
        PROVE  Ids(rows) \ forgotten \subseteq Ids(windows)
    <3>1. Ids(fetched) = {}
      BY <2>1, <2>2 DEF MeterInv, DownIsQuiet, Ids
    <3>2. QED
      BY <2>1, <2>2, <3>1 DEF RestoreInv, SavedIsSeated
  <2>3. ASSUME ~overtaken, InOrder(rows)
        PROVE  InOrder(windows)
    BY <2>1, <2>3 DEF RestoreInv, RingInOrder, RowBefore, InOrder
  <2>4. QED
    BY <2>2, <2>3 DEF MetersSurviveRestarts
<1>4. QED
  BY <1>1, <1>2, <1>3, MeterStep, MeterInitInv, PTL DEF MeteringSpec
=============================================================================
