------------------------- MODULE ContainerJob_proofs ------------------------
(***************************************************************************)
(* Proofs about ContainerJob for every fleet, every set of orders, any     *)
(* number of dispatchers and field reports, and whatever the other         *)
(* services write to the cargo row.                                        *)
(***************************************************************************)
EXTENDS ContainerJob, SequenceTheorems, TLAPS

Targets == {"ACCEPTED", "AT_GATE", "IN_YARD", "PICKED_UP", "DROPPED", "COMPLETED", "CANCELLED"}

LEMMA TransitionFacts ==
  /\ Targets \subseteq JobStatuses
  /\ \A t \in Targets : JobTransitions[t] \subseteq JobStatuses \ TERMINAL
  /\ JobTransitions["ACCEPTED"] = {"ASSIGNED"}
  /\ JobTransitions["AT_GATE"] = {"ASSIGNED", "ACCEPTED"}
  /\ JobTransitions["IN_YARD"] = {"AT_GATE"}
  /\ JobTransitions["PICKED_UP"] = {"IN_YARD"}
  /\ JobTransitions["DROPPED"] = {"IN_YARD", "PICKED_UP"}
  /\ JobTransitions["COMPLETED"] = {"PICKED_UP", "DROPPED", "AT_GATE", "IN_YARD"}
  BY DEF Targets, JobStatuses, JobTransitions, TERMINAL

LEMMA FieldFacts ==
  /\ \A k \in FieldKinds : FieldTarget[k] \in {"AT_GATE", "COMPLETED", "PICKED_UP", "DROPPED"}
  /\ \A k \in FieldKinds : /\ FieldTarget[k] = "AT_GATE" => k = "GATE_IN"
                           /\ FieldTarget[k] = "PICKED_UP" => k = "YARD_PICKUP"
                           /\ FieldTarget[k] = "DROPPED" => k = "YARD_DROP"
  BY DEF FieldKinds, FieldTarget

LEMMA RecordFacts ==
  /\ NoJob \notin Job /\ NoJob.status = "free"
  /\ \A r \in Job : r.status \in JobStatuses
  /\ IdleRequest.pc = "idle"
  /\ \A r \in Dispatch : r.pc # "idle" /\ r.order \in OrderType
  /\ \A r \in FieldRequest : r.pc # "idle" /\ r.kind \in FieldKinds /\ r.job \in JobIds
  BY DEF NoJob, Job, JobStatuses, IdleRequest, Dispatch, FieldRequest

-----------------------------------------------------------------------------
(* The other services keep the cargo table well typed.                       *)
LEMMA CargoStaysTyped ==
  ASSUME CargoTypeOK, NEW c \in Containers, CargoElsewhere(c)
  PROVE  CargoTypeOK'
<1>1. CASE CreateTxn(c, "PENDING", FALSE)
  BY <1>1 DEF CargoTypeOK, CreateTxn, Row, AuditRow, Lifecycles, ImportStates, CustomsStates
<1>2. CASE DeleteTxn(c)
  BY <1>2 DEF CargoTypeOK, DeleteTxn, AbsentRow, Row, Lifecycles, CustomsStates
<1>3. ASSUME NEW s \in CustomsStates, UpdateTxn(c, [NoPatch EXCEPT !.customs = s])
      PROVE  CargoTypeOK'
  <2>1. Patched(cargo[c], [NoPatch EXCEPT !.customs = s]) \in Row
    BY DEF CargoTypeOK, Patched, NoPatch, Row, CustomsStates
  <2>2. QED
    BY <1>3, <2>1 DEF CargoTypeOK, UpdateTxn
<1>4. QED
  BY <1>1, <1>2, <1>3 DEF CargoElsewhere

(* A status change of a job, as the row and its history see it.              *)
LEMMA TransitionType ==
  ASSUME JobTypeOK, NEW j \in JobIds, NEW t \in Targets, Transition(j, t)
  PROVE  /\ jobs' \in [JobIds -> Job \cup {NoJob}]
         /\ jobs[j] \in Job /\ jobs[j].status \in JobTransitions[t]
         /\ jobs'[j] \in Job /\ jobs'[j].status = t
         /\ jobs'[j].vehicle = jobs[j].vehicle /\ jobs'[j].container = jobs[j].container
         /\ jobs'[j].driver = jobs[j].driver
         /\ \A i \in JobIds \ {j} : jobs'[i] = jobs[i]
<1>1. jobs[j] \in Job /\ jobs[j].status \in JobTransitions[t]
  BY DEF Transition, MayTransition, JobTypeOK
<1>2. PICK new \in Job : new = [jobs[j] EXCEPT !.status = t]
  BY <1>1, TransitionFacts DEF Job
<1>3. /\ new.status = t /\ new.vehicle = jobs[j].vehicle /\ new.container = jobs[j].container
      /\ new.driver = jobs[j].driver
  BY <1>1, <1>2 DEF Job
<1>4. jobs' = [jobs EXCEPT ![j] = new]
  BY <1>2 DEF Transition
<1>5. QED
  BY <1>1, <1>3, <1>4 DEF JobTypeOK

LEMMA HistoryType ==
  ASSUME JobTypeOK, NEW j \in JobIds, NEW t \in Targets, Transition(j, t),
         DOMAIN history = JobIds
  PROVE  /\ \A i \in JobIds : history'[i] \in Seq(JobStatuses)
         /\ DOMAIN history' = JobIds
         /\ Len(history[j]) \in Nat /\ Len(history'[j]) = Len(history[j]) + 1
         /\ \A n \in 1 .. Len(history[j]) : history'[j][n] = history[j][n]
         /\ history'[j][Len(history[j]) + 1] = t
         /\ \A i \in JobIds \ {j} : history'[i] = history[i]
<1>1. history[j] \in Seq(JobStatuses) /\ t \in JobStatuses
  BY TransitionFacts DEF JobTypeOK
<1>2. history' = [history EXCEPT ![j] = Append(history[j], t)]
  BY DEF Transition
<1>3. history'[j] = Append(history[j], t) /\ \A i \in JobIds \ {j} : history'[i] = history[i]
  BY <1>2
<1>4. QED
  BY <1>1, <1>2, <1>3, AppendProperties, LenProperties DEF JobTypeOK

-----------------------------------------------------------------------------
(* A report that is past its first transaction has its fact on record.       *)
FactIsRecorded == \A f \in FieldRequests :
  field[f].pc \in {"enter", "advance"} => field[f].kind \in facts[field[f].job]

(* A container that is not there carries no customs status.                  *)
AbsentIsPending == \A c \in Containers : ~ cargo[c].present => cargo[c].customs = "PENDING"

JobInv == JobTypeOK /\ DOMAIN history = JobIds /\ FactIsRecorded /\ AbsentIsPending

LEMMA InitJobInv == ASSUME ContainerJobInit PROVE JobInv
<1>1. CargoTypeOK /\ AbsentIsPending
  <2>1. AbsentRow \in Row /\ AbsentRow.customs = "PENDING"
    BY Zenon DEF AbsentRow, Row, Lifecycles, CustomsStates
  <2>2. NoAudit \in AuditRow
    BY Zenon DEF NoAudit, AuditRow
  <2>3. \A c \in Containers : cargo[c] \in Row /\ (cargo[c].present \/ cargo[c] = AbsentRow)
    BY <2>1, LegacyRowsAssumption DEF ContainerJobInit, CargoTableInit
  <2>4. QED
    BY <2>1, <2>2, <2>3 DEF ContainerJobInit, CargoTableInit, CargoTypeOK, AbsentIsPending
<1>2. jobs \in [JobIds -> Job \cup {NoJob}] /\ DOMAIN history = JobIds
  BY DEF ContainerJobInit
<1>3. \A j \in JobIds : history[j] \in Seq(JobStatuses)
  BY EmptySeq DEF ContainerJobInit
<1>4. /\ facts \in [JobIds -> SUBSET FieldKinds]
      /\ dispatch \in [Dispatchers -> Dispatch \cup {IdleRequest}]
      /\ field \in [FieldRequests -> FieldRequest \cup {IdleRequest}]
  BY DEF ContainerJobInit
<1>5. FactIsRecorded
  BY RecordFacts DEF ContainerJobInit, FactIsRecorded
<1>6. QED
  BY <1>1, <1>2, <1>3, <1>4, <1>5 DEF JobInv, JobTypeOK

(* What a step may do to the jobs: nothing (facts may be added), an insert,  *)
(* or one status change, by a command or because of a recorded fact.         *)
LEMMA StepShapes ==
  ASSUME JobInv, JobNext
  PROVE  \/ /\ UNCHANGED jobVars
            /\ \A j \in JobIds : facts[j] \subseteq facts'[j]
         \/ \E a \in Dispatchers, j \in JobIds : AssignCreate(a, j)
         \/ \E j \in JobIds, t \in Targets :
              /\ Transition(j, t)
              /\ UNCHANGED facts
              /\ \/ t \in {"ACCEPTED", "IN_YARD", "COMPLETED", "CANCELLED"}
                 \/ \E k \in facts[j] : k \in FieldKinds /\ t = FieldTarget[k]
<1>1. ASSUME NEW a \in Dispatchers,
             (\E o \in Orders : AssignStart(a, o)) \/ AssignCheck(a) \/ AssignRefused(a)
      PROVE  UNCHANGED <<jobVars, facts>>
  BY <1>1 DEF AssignStart, AssignCheck, AssignRefused, jobVars
<1>2. ASSUME NEW j \in JobIds, AcceptJob(j) \/ CompleteJob(j) \/ CancelJob(j)
      PROVE  \E t \in {"ACCEPTED", "COMPLETED", "CANCELLED"} :
               Transition(j, t) /\ UNCHANGED facts
  BY <1>2 DEF AcceptJob, CompleteJob, CancelJob, JobCommand
<1>3. ASSUME NEW f \in FieldRequests, NEW j \in JobIds, NEW k \in FieldKinds, FieldRead(f, j, k)
      PROVE  UNCHANGED <<jobVars, facts>>
  BY <1>3 DEF FieldRead, jobVars
<1>4. ASSUME NEW f \in FieldRequests, FieldRecord(f)
      PROVE  UNCHANGED jobVars /\ \A j \in JobIds : facts[j] \subseteq facts'[j]
  BY <1>4 DEF JobInv, JobTypeOK, FieldRecord, jobVars
<1>5. ASSUME NEW f \in FieldRequests, FieldEnterYard(f)
      PROVE  /\ UNCHANGED facts
             /\ \/ UNCHANGED jobVars
                \/ field[f].job \in JobIds /\ Transition(field[f].job, "IN_YARD")
  BY <1>5, RecordFacts DEF JobInv, JobTypeOK, FieldEnterYard
<1>6. ASSUME NEW f \in FieldRequests, FieldAdvance(f)
      PROVE  /\ UNCHANGED facts
             /\ \/ UNCHANGED jobVars
                \/ /\ field[f].job \in JobIds
                   /\ field[f].kind \in FieldKinds
                   /\ field[f].kind \in facts[field[f].job]
                   /\ Transition(field[f].job, FieldTarget[field[f].kind])
  BY <1>6, RecordFacts DEF JobInv, JobTypeOK, FactIsRecorded, FieldAdvance
<1>7. ASSUME NEW f \in FieldRequests, FieldCrash(f)
      PROVE  UNCHANGED <<jobVars, facts>>
  BY <1>7 DEF FieldCrash, jobVars
<1>8. ASSUME NEW c \in Containers, CargoElsewhere(c)
      PROVE  UNCHANGED <<jobVars, facts>>
  BY <1>8 DEF CargoElsewhere, jobVars
<1>9. Mortal \subseteq FieldRequests
  BY FleetAssumption
<1>10. {"ACCEPTED", "IN_YARD", "COMPLETED", "CANCELLED"} \subseteq Targets
       /\ \A k \in FieldKinds : FieldTarget[k] \in Targets
  BY FieldFacts DEF Targets
<1>11. CASE \E a \in Dispatchers : \E j \in JobIds : AssignCreate(a, j)
  BY <1>11
<1>12. CASE JobNext /\ ~ (\E a \in Dispatchers : \E j \in JobIds : AssignCreate(a, j))
  BY <1>12, <1>1, <1>2, <1>3, <1>4, <1>5, <1>6, <1>7, <1>8, <1>9, <1>10
     DEF JobNext, JobStep, JobCrash
<1>13. QED
  BY <1>11, <1>12

(* The row an insert leaves behind.                                          *)
LEMMA CreateType ==
  ASSUME JobInv, NEW a \in Dispatchers, NEW j \in JobIds, AssignCreate(a, j)
  PROVE  /\ jobs' \in [JobIds -> Job \cup {NoJob}]
         /\ jobs[j] = NoJob /\ jobs'[j] \in Job /\ jobs'[j].status = "ASSIGNED"
         /\ jobs'[j].vehicle = dispatch[a].order.vehicle
         /\ jobs'[j].container = dispatch[a].order.container
         /\ jobs'[j].driver = dispatch[a].order.driver
         /\ dispatch[a].order \in OrderType
         /\ \A i \in JobIds \ {j} : jobs'[i] = jobs[i]
         /\ DOMAIN history' = JobIds
         /\ history'[j] = <<"ASSIGNED">> /\ "ASSIGNED" \in JobStatuses
         /\ \A i \in JobIds \ {j} : history'[i] = history[i]
<1> DEFINE o == dispatch[a].order
<1>1. o \in OrderType
  BY RecordFacts DEF AssignCreate, JobInv, JobTypeOK
<1>2. PICK new : new = [status |-> "ASSIGNED", container |-> o.container,
                        vehicle |-> o.vehicle, driver |-> o.driver, licence |-> o.licence]
  OBVIOUS
<1>3. /\ new \in Job /\ new.status = "ASSIGNED" /\ new.vehicle = o.vehicle
      /\ new.container = o.container /\ new.driver = o.driver
  BY <1>1, <1>2 DEF OrderType, Job, JobStatuses
<1>4. jobs' = [jobs EXCEPT ![j] = new] /\ jobs[j] = NoJob
  BY <1>2 DEF AssignCreate
<1>5. history' = [history EXCEPT ![j] = <<"ASSIGNED">>]
  BY DEF AssignCreate
<1>6. QED
  BY <1>1, <1>3, <1>4, <1>5 DEF JobInv, JobTypeOK, JobStatuses

LEMMA JobsStayTyped ==
  ASSUME JobInv, JobNext
  PROVE  /\ jobs' \in [JobIds -> Job \cup {NoJob}]
         /\ \A j \in JobIds : history'[j] \in Seq(JobStatuses)
         /\ DOMAIN history' = JobIds
<1>1. CASE UNCHANGED jobVars
  BY <1>1 DEF JobInv, JobTypeOK, jobVars
<1>2. ASSUME NEW a \in Dispatchers, NEW j \in JobIds, AssignCreate(a, j)
      PROVE  /\ jobs' \in [JobIds -> Job \cup {NoJob}]
             /\ \A i \in JobIds : history'[i] \in Seq(JobStatuses)
             /\ DOMAIN history' = JobIds
  <2>1. <<"ASSIGNED">> \in Seq(JobStatuses)
    BY DEF JobStatuses
  <2>2. QED
    BY <1>2, <2>1, CreateType DEF JobInv, JobTypeOK
<1>3. ASSUME NEW j \in JobIds, NEW t \in Targets, Transition(j, t)
      PROVE  /\ jobs' \in [JobIds -> Job \cup {NoJob}]
             /\ \A i \in JobIds : history'[i] \in Seq(JobStatuses)
             /\ DOMAIN history' = JobIds
  BY <1>3, TransitionType, HistoryType DEF JobInv
<1>4. QED
  BY <1>1, <1>2, <1>3, StepShapes

LEMMA RequestsStayTyped ==
  ASSUME JobInv, JobNext
  PROVE  /\ facts' \in [JobIds -> SUBSET FieldKinds]
         /\ dispatch' \in [Dispatchers -> Dispatch \cup {IdleRequest}]
         /\ field' \in [FieldRequests -> FieldRequest \cup {IdleRequest}]
         /\ FactIsRecorded'
<1> USE RecordFacts DEF JobInv, JobTypeOK
<1>1. ASSUME NEW a \in Dispatchers, NEW o \in Orders, AssignStart(a, o)
      PROVE  /\ UNCHANGED <<facts, field>>
             /\ dispatch' \in [Dispatchers -> Dispatch \cup {IdleRequest}]
  BY <1>1, FleetAssumption DEF AssignStart, Dispatch
<1>2. ASSUME NEW a \in Dispatchers, AssignCheck(a)
      PROVE  /\ UNCHANGED <<facts, field>>
             /\ dispatch' \in [Dispatchers -> Dispatch \cup {IdleRequest}]
  <2>1. dispatch[a] \in Dispatch /\ dispatch[a].pc \in DOMAIN NextCheck
    BY <1>2 DEF AssignCheck, NextCheck, IdleRequest
  <2>2. [dispatch[a] EXCEPT !.pc = NextCheck[dispatch[a].pc]] \in Dispatch
    BY <2>1 DEF Dispatch, NextCheck
  <2>3. QED
    BY <1>2, <2>2 DEF AssignCheck
<1>3. ASSUME NEW a \in Dispatchers, AssignRefused(a) \/ \E j \in JobIds : AssignCreate(a, j)
      PROVE  /\ UNCHANGED <<facts, field>>
             /\ dispatch' \in [Dispatchers -> Dispatch \cup {IdleRequest}]
  BY <1>3 DEF AssignRefused, AssignCreate
<1>4. ASSUME NEW j \in JobIds, AcceptJob(j) \/ CompleteJob(j) \/ CancelJob(j)
      PROVE  UNCHANGED <<facts, field, dispatch>>
  BY <1>4 DEF AcceptJob, CompleteJob, CancelJob, JobCommand
<1>5. ASSUME NEW f \in FieldRequests, NEW j \in JobIds, NEW k \in FieldKinds, FieldRead(f, j, k)
      PROVE  /\ UNCHANGED <<facts, dispatch>>
             /\ field' \in [FieldRequests -> FieldRequest \cup {IdleRequest}]
             /\ FactIsRecorded'
  <2>1. jobs[j] \in Job
    BY <1>5 DEF FieldRead
  <2>2. PICK r : r = [pc |-> "record", kind |-> k, job |-> j, seen |-> jobs[j].status]
    OBVIOUS
  <2>3. r \in FieldRequest /\ r.pc = "record"
    BY <2>1, <2>2 DEF FieldRequest
  <2>4. field' = [field EXCEPT ![f] = r] /\ UNCHANGED <<facts, dispatch>>
    BY <1>5, <2>2 DEF FieldRead
  <2>5. QED
    BY <2>3, <2>4 DEF FactIsRecorded
<1>6. ASSUME NEW f \in FieldRequests, NEW p \in {"enter", "advance"},
             field[f].pc # "idle", FieldGoesTo(f, p)
      PROVE  /\ field' \in [FieldRequests -> FieldRequest \cup {IdleRequest}]
             /\ field'[f].kind = field[f].kind /\ field'[f].job = field[f].job
             /\ field[f].kind \in FieldKinds /\ field[f].job \in JobIds
             /\ \A g \in FieldRequests \ {f} : field'[g] = field[g]
  <2>1. field[f] \in FieldRequest
    BY <1>6
  <2>2. PICK r \in FieldRequest : r = [field[f] EXCEPT !.pc = p]
    BY <2>1 DEF FieldRequest
  <2>3. r.kind = field[f].kind /\ r.job = field[f].job
    BY <2>1, <2>2 DEF FieldRequest
  <2>4. field' = [field EXCEPT ![f] = r]
    BY <1>6, <2>2 DEF FieldGoesTo
  <2>5. QED
    BY <2>1, <2>3, <2>4
<1>7. ASSUME NEW f \in FieldRequests, FieldDone(f)
      PROVE  /\ field' \in [FieldRequests -> FieldRequest \cup {IdleRequest}]
             /\ UNCHANGED facts => FactIsRecorded'
  BY <1>7 DEF FieldDone, FactIsRecorded
<1>8. ASSUME NEW f \in FieldRequests, FieldRecord(f)
      PROVE  /\ UNCHANGED dispatch
             /\ facts' \in [JobIds -> SUBSET FieldKinds]
             /\ field' \in [FieldRequests -> FieldRequest \cup {IdleRequest}]
             /\ FactIsRecorded'
  <2>1. field[f].pc # "idle" /\ \E p \in {"enter", "advance"} : FieldGoesTo(f, p)
    BY <1>8 DEF FieldRecord
  <2>2. /\ field' \in [FieldRequests -> FieldRequest \cup {IdleRequest}]
        /\ field'[f].kind = field[f].kind /\ field'[f].job = field[f].job
        /\ field[f].kind \in FieldKinds /\ field[f].job \in JobIds
        /\ \A g \in FieldRequests \ {f} : field'[g] = field[g]
    BY <2>1, <1>6
  <2>3. facts' = [facts EXCEPT ![field[f].job] = @ \cup {field[f].kind}]
    BY <1>8 DEF FieldRecord
  <2>4. /\ \A j \in JobIds : facts[j] \subseteq facts'[j]
        /\ field[f].kind \in facts'[field[f].job]
        /\ facts' \in [JobIds -> SUBSET FieldKinds]
    BY <2>2, <2>3
  <2>5. ASSUME NEW g \in FieldRequests, field'[g].pc \in {"enter", "advance"}
        PROVE  field'[g].kind \in facts'[field'[g].job]
    <3>1. CASE g = f
      BY <3>1, <2>2, <2>4
    <3>2. CASE g # f
      <4>1. field[g].kind \in facts[field[g].job] /\ field[g].job \in JobIds
        BY <3>2, <2>2, <2>5 DEF FactIsRecorded
      <4>2. QED
        BY <4>1, <3>2, <2>2, <2>4
    <3>3. QED
      BY <3>1, <3>2
  <2>6. UNCHANGED dispatch
    BY <1>8 DEF FieldRecord
  <2>7. QED
    BY <2>2, <2>4, <2>5, <2>6 DEF FactIsRecorded
<1>9. ASSUME NEW f \in FieldRequests, FieldEnterYard(f)
      PROVE  /\ UNCHANGED <<facts, dispatch>>
             /\ field' \in [FieldRequests -> FieldRequest \cup {IdleRequest}]
             /\ FactIsRecorded'
  <2>1. UNCHANGED <<facts, dispatch>> /\ field[f].pc = "enter"
    BY <1>9 DEF FieldEnterYard
  <2>2. CASE FieldGoesTo(f, "advance")
    <3>1. /\ field' \in [FieldRequests -> FieldRequest \cup {IdleRequest}]
          /\ field'[f].kind = field[f].kind /\ field'[f].job = field[f].job
          /\ \A g \in FieldRequests \ {f} : field'[g] = field[g]
      BY <2>1, <2>2, <1>6
    <3>2. QED
      BY <2>1, <3>1 DEF FactIsRecorded
  <2>3. QED
    BY <1>9, <1>7, <2>1, <2>2 DEF FieldEnterYard
<1>10. ASSUME NEW f \in FieldRequests, FieldAdvance(f) \/ FieldCrash(f)
       PROVE  UNCHANGED <<facts, dispatch>> /\ FieldDone(f)
  BY <1>10 DEF FieldAdvance, FieldCrash
<1>11. ASSUME NEW c \in Containers, CargoElsewhere(c)
       PROVE  UNCHANGED <<facts, field, dispatch>>
  BY <1>11 DEF CargoElsewhere
<1>12. UNCHANGED <<facts, field>> => FactIsRecorded'
  BY DEF FactIsRecorded
<1>13. Mortal \subseteq FieldRequests
  BY FleetAssumption
<1>14. QED
  BY <1>1, <1>2, <1>3, <1>4, <1>5, <1>7, <1>8, <1>9, <1>10, <1>11, <1>12, <1>13
     DEF JobNext, JobStep, JobCrash

LEMMA CargoIsOthers ==
  ASSUME JobInv, JobNext
  PROVE  CargoTypeOK' /\ AbsentIsPending'
<1>1. UNCHANGED cargoVars \/ \E c \in Containers : CargoElsewhere(c)
  BY DEF JobNext, JobStep, JobCrash, AssignStart, AssignCheck, AssignRefused, AssignCreate,
         AcceptJob, CompleteJob, CancelJob, JobCommand, FieldRead, FieldRecord, FieldEnterYard,
         FieldAdvance, FieldCrash, cargoVars
<1>2. CASE UNCHANGED cargoVars
  BY <1>2 DEF JobInv, JobTypeOK, CargoTypeOK, AbsentIsPending, cargoVars
<1>3. ASSUME NEW c \in Containers, CargoElsewhere(c)
      PROVE  CargoTypeOK' /\ AbsentIsPending'
  <2>1. CargoTypeOK'
    BY <1>3, CargoStaysTyped DEF JobInv, JobTypeOK
  <2>2. CASE CreateTxn(c, "PENDING", FALSE)
    <3>1. PICK new : new = [present |-> TRUE, lifecycle |-> "CREATED", customs |-> "PENDING",
                            released |-> FALSE, yard |-> FALSE]
      OBVIOUS
    <3>2. cargo' = [cargo EXCEPT ![c] = new] /\ new.present
      BY <2>2, <3>1 DEF CreateTxn
    <3>3. cargo'[c].present /\ \A d \in Containers \ {c} : cargo'[d] = cargo[d]
      BY <3>2 DEF JobInv, JobTypeOK, CargoTypeOK
    <3>4. QED
      BY <2>1, <3>3 DEF JobInv, AbsentIsPending
  <2>3. CASE DeleteTxn(c)
    <3>1. AbsentRow.customs = "PENDING"
      BY DEF AbsentRow
    <3>2. cargo' = [cargo EXCEPT ![c] = AbsentRow]
      BY <2>3 DEF DeleteTxn
    <3>3. cargo'[c].customs = "PENDING" /\ \A d \in Containers \ {c} : cargo'[d] = cargo[d]
      BY <3>1, <3>2 DEF JobInv, JobTypeOK, CargoTypeOK
    <3>4. QED
      BY <2>1, <3>3 DEF JobInv, AbsentIsPending
  <2>4. ASSUME NEW s \in CustomsStates, UpdateTxn(c, [NoPatch EXCEPT !.customs = s])
        PROVE  AbsentIsPending'
    <3>1. Patched(cargo[c], [NoPatch EXCEPT !.customs = s]).present = cargo[c].present
      BY DEF JobInv, JobTypeOK, CargoTypeOK, Patched, NoPatch, Row
    <3>2. QED
      BY <2>4, <3>1 DEF JobInv, JobTypeOK, CargoTypeOK, UpdateTxn, AbsentIsPending
  <2>5. QED
    BY <1>3, <2>1, <2>2, <2>3, <2>4 DEF CargoElsewhere
<1>4. QED
  BY <1>1, <1>2, <1>3

LEMMA InvariantHolds == ContainerJobSpec => []JobInv
<1>1. JobInv /\ JobNext => JobInv'
  BY JobsStayTyped, RequestsStayTyped, CargoIsOthers DEF JobInv, JobTypeOK
<1>2. JobInv /\ UNCHANGED containerJobVars => JobInv'
  BY DEF JobInv, JobTypeOK, CargoTypeOK, FactIsRecorded, AbsentIsPending, containerJobVars
<1>3. QED
  BY <1>1, <1>2, InitJobInv, PTL DEF ContainerJobSpec

-----------------------------------------------------------------------------
(* Jobs, history, facts and the requests in flight are well typed in every   *)
(* state, for any fleet and any orders: JobTypeOK.                           *)
THEOREM JobTypeCorrect == ContainerJobSpec => []JobTypeOK
  BY InvariantHolds, PTL DEF JobInv

(* A status change reopens no job and leaves every claim as it was.           *)
LEMMA TransitionKeepsClaims ==
  ASSUME JobInv, NEW j \in JobIds, NEW t \in Targets, Transition(j, t)
  PROVE  /\ OpenJobs' \subseteq OpenJobs /\ OpenJobs \subseteq JobIds
         /\ \A i \in OpenJobs : /\ jobs'[i].vehicle = jobs[i].vehicle
                                /\ jobs'[i].container = jobs[i].container
                                /\ jobs'[i].driver = jobs[i].driver
<1>1. /\ jobs[j] \in Job /\ jobs[j].status \in JobTransitions[t]
      /\ jobs'[j].vehicle = jobs[j].vehicle /\ jobs'[j].container = jobs[j].container
      /\ jobs'[j].driver = jobs[j].driver
      /\ \A i \in JobIds \ {j} : jobs'[i] = jobs[i]
  BY TransitionType DEF JobInv
<1>2. j \in OpenJobs /\ OpenJobs' \subseteq OpenJobs /\ OpenJobs \subseteq JobIds
  BY <1>1, TransitionFacts, RecordFacts DEF OpenJobs
<1>3. QED
  BY <1>1, <1>2

(* No two open jobs share a vehicle row, a container or a driver record,     *)
(* whatever the dispatchers read before they insert: OneOpenJobEach.         *)
THEOREM OpenJobsAreExclusive == ContainerJobSpec => []OneOpenJobEach
<1>1. ContainerJobInit => OneOpenJobEach
  BY DEF ContainerJobInit, OneOpenJobEach, OpenJobs
<1>2. ASSUME JobInv, OneOpenJobEach, JobNext
      PROVE  OneOpenJobEach'
  <2>1. CASE UNCHANGED jobVars
    BY <1>2, <2>1 DEF OneOpenJobEach, OpenJobs, jobVars
  <2>2. ASSUME NEW a \in Dispatchers, NEW j \in JobIds, AssignCreate(a, j)
        PROVE  OneOpenJobEach'
    <3>1. OpenJobs' \subseteq OpenJobs \cup {j}
      BY <1>2, <2>2, CreateType DEF OpenJobs
    <3>2. j \notin OpenJobs /\ OpenJobs \subseteq JobIds /\ IndexesAllow(dispatch[a].order)
      BY <2>2 DEF AssignCreate, OpenJobs
    <3>3. /\ \A i \in OpenJobs : jobs'[i] = jobs[i]
          /\ jobs'[j].vehicle = dispatch[a].order.vehicle
          /\ jobs'[j].container = dispatch[a].order.container
          /\ jobs'[j].driver = dispatch[a].order.driver
      BY <1>2, <2>2, <3>2, CreateType
    <3>4. ASSUME NEW i \in OpenJobs', NEW k \in OpenJobs', i # k
          PROVE  /\ jobs'[i].vehicle # jobs'[k].vehicle
                 /\ jobs'[i].container # None => jobs'[i].container # jobs'[k].container
                 /\ jobs'[i].driver # None => jobs'[i].driver # jobs'[k].driver
      <4>1. CASE i = j
        BY <4>1, <3>1, <3>2, <3>3, <3>4 DEF IndexesAllow
      <4>2. CASE k = j
        BY <4>2, <3>1, <3>2, <3>3, <3>4 DEF IndexesAllow
      <4>3. CASE i # j /\ k # j
        BY <1>2, <4>3, <3>1, <3>3, <3>4 DEF OneOpenJobEach
      <4>4. QED
        BY <4>1, <4>2, <4>3
    <3>5. QED
      BY <3>4 DEF OneOpenJobEach
  <2>3. ASSUME NEW j \in JobIds, NEW t \in Targets, Transition(j, t)
        PROVE  OneOpenJobEach'
    BY <1>2, <2>3, TransitionKeepsClaims DEF OneOpenJobEach
  <2>4. QED
    BY <1>2, <2>1, <2>2, <2>3, StepShapes
<1>3. OneOpenJobEach /\ UNCHANGED containerJobVars => OneOpenJobEach'
  BY DEF OneOpenJobEach, OpenJobs, containerJobVars
<1>4. QED
  BY <1>1, <1>2, <1>3, InvariantHolds, PTL DEF ContainerJobSpec

-----------------------------------------------------------------------------
(* The refinement: an insert is a claim, the end of a job gives it up, and   *)
(* nothing else is seen of a job.                                            *)
LEMMA JobStages ==
  ASSUME jobs \in [JobIds -> Job \cup {NoJob}], NEW j \in JobIds
  PROVE  /\ jobs[j] = NoJob => JobStage(j) = "new" /\ j \notin OpenJobs
         /\ jobs[j] # NoJob /\ jobs[j].status \notin TERMINAL
              => JobStage(j) = "holding" /\ j \in OpenJobs
         /\ jobs[j] # NoJob /\ jobs[j].status \in TERMINAL
              => JobStage(j) = "done" /\ j \notin OpenJobs
  BY DEF JobStage, OpenJobs

LEMMA OccupiedIsFree ==
  ASSUME NEW o, IndexesAllow(o), NEW p \in OpenJobs, NEW new,
         new.vehicle = o.vehicle, new.container = o.container, new.driver = o.driver
  PROVE  Occupied(jobs[p]) \cap Occupied(new) = {}
<1>1. /\ jobs[p].vehicle # new.vehicle
      /\ new.container # None => jobs[p].container # new.container
      /\ new.driver # None => jobs[p].driver # new.driver
  BY DEF IndexesAllow
<1>2. ASSUME NEW x \in Occupied(jobs[p]), x \in Occupied(new) PROVE FALSE
  <2>1. x # <<"container", None>> /\ x # <<"driver", None>>
    BY <1>2 DEF Occupied
  <2>2. CASE x = <<"vehicle", new.vehicle>>
    BY <1>1, <1>2, <2>2 DEF Occupied
  <2>3. CASE x = <<"container", new.container>>
    BY <1>1, <1>2, <2>1, <2>3 DEF Occupied
  <2>4. CASE x = <<"driver", new.driver>>
    BY <1>1, <1>2, <2>1, <2>4 DEF Occupied
  <2>5. QED
    BY <1>2, <2>2, <2>3, <2>4 DEF Occupied
<1>3. QED
  BY <1>2

LEMMA OccupiedAreThings ==
  ASSUME NEW job \in Job PROVE Occupied(job) \in SUBSET JobThings
<1>1. /\ job.vehicle \in Vehicles /\ job.container \in Containers \cup {None}
      /\ job.driver \in Drivers \cup {None}
  BY DEF Job
<1>2. QED
  BY <1>1 DEF Occupied, JobThings

LEMMA JobStepClaims ==
  ASSUME JobInv, JobNext
  PROVE  [JobRegister!ClaimNext]_(JobRegister!claimVars)
<1> DEFINE st == [j \in JobIds |-> JobStage(j)]
           cl == [j \in JobIds |-> IF j \in OpenJobs THEN Occupied(jobs[j]) ELSE {}]
<1>t. jobs \in [JobIds -> Job \cup {NoJob}] /\ jobs' \in [JobIds -> Job \cup {NoJob}]
  BY JobsStayTyped DEF JobInv, JobTypeOK
<1>u. /\ DOMAIN st = JobIds /\ DOMAIN st' = JobIds
      /\ DOMAIN cl = JobIds /\ DOMAIN cl' = JobIds
  OBVIOUS
<1>1. CASE UNCHANGED jobVars
  <2>1. jobs' = jobs
    BY <1>1 DEF jobVars
  <2>2. QED
    BY <2>1 DEF JobRegister!claimVars, JobStage, OpenJobs
<1>2. ASSUME NEW j \in JobIds, \A i \in JobIds \ {j} : jobs'[i] = jobs[i]
      PROVE  /\ st' = [st EXCEPT ![j] = JobStage(j)']
             /\ cl' = [cl EXCEPT ![j] = IF j \in OpenJobs' THEN Occupied(jobs'[j]) ELSE {}]
  <2>1. \A i \in JobIds \ {j} : JobStage(i)' = JobStage(i) /\ (i \in OpenJobs' <=> i \in OpenJobs)
    BY <1>2 DEF JobStage, OpenJobs
  <2>2. QED
    BY <1>2, <2>1
<1>3. ASSUME NEW a \in Dispatchers, NEW j \in JobIds, AssignCreate(a, j)
      PROVE  JobRegister!Claim(j)
  <2>1. /\ jobs[j] = NoJob /\ jobs'[j] \in Job /\ jobs'[j].status = "ASSIGNED"
        /\ jobs'[j].vehicle = dispatch[a].order.vehicle
        /\ jobs'[j].container = dispatch[a].order.container
        /\ jobs'[j].driver = dispatch[a].order.driver
        /\ \A i \in JobIds \ {j} : jobs'[i] = jobs[i]
    BY <1>3, CreateType
  <2>2. jobs'[j] # NoJob /\ jobs'[j].status \notin TERMINAL
    BY <2>1, RecordFacts DEF TERMINAL
  <2>3. st[j] = "new"
    BY <1>t, <2>1, JobStages
  <2>4. JobStage(j)' = "holding" /\ j \in OpenJobs'
    BY <2>2 DEF JobStage, OpenJobs
  <2>5. /\ st' = [st EXCEPT ![j] = "holding"]
        /\ cl' = [cl EXCEPT ![j] = Occupied(jobs'[j])]
    BY <1>2, <2>1, <2>4
  <2>6. Occupied(jobs'[j]) \in SUBSET JobThings
    BY <2>1, OccupiedAreThings
  <2>7. IndexesAllow(dispatch[a].order)
    BY <1>3 DEF AssignCreate
  <2>8. \A p \in JobIds : cl[p] \cap Occupied(jobs'[j]) = {}
    <3> SUFFICES ASSUME NEW p \in OpenJobs PROVE Occupied(jobs[p]) \cap Occupied(jobs'[j]) = {}
      BY DEF OpenJobs
    <3>1. QED
      BY <2>1, <2>7, OccupiedIsFree
  <2>9. QED
    BY <2>3, <2>5, <2>6, <2>8 DEF JobRegister!Claim, JobRegister!Unclaimed
<1>4. ASSUME NEW j \in JobIds, NEW t \in Targets, Transition(j, t)
      PROVE  [JobRegister!ClaimNext]_(JobRegister!claimVars)
  <2>1. /\ jobs[j] \in Job /\ jobs[j].status \in JobTransitions[t]
        /\ jobs'[j] \in Job /\ jobs'[j].status = t
        /\ jobs'[j].vehicle = jobs[j].vehicle /\ jobs'[j].container = jobs[j].container
        /\ jobs'[j].driver = jobs[j].driver
        /\ \A i \in JobIds \ {j} : jobs'[i] = jobs[i]
    BY <1>4, TransitionType DEF JobInv
  <2>2. jobs[j] # NoJob /\ jobs[j].status \notin TERMINAL /\ jobs'[j] # NoJob
    BY <2>1, TransitionFacts, RecordFacts
  <2>3. st[j] = "holding" /\ j \in OpenJobs
    BY <1>t, <2>2, JobStages
  <2>4. CASE t \in TERMINAL
    <3>1. JobStage(j)' = "done" /\ j \notin OpenJobs'
      BY <2>1, <2>2, <2>4 DEF JobStage, OpenJobs
    <3>2. st' = [st EXCEPT ![j] = "done"] /\ cl' = [cl EXCEPT ![j] = {}]
      BY <1>2, <2>1, <3>1
    <3>3. JobRegister!GiveUp(j)
      BY <2>3, <3>2 DEF JobRegister!GiveUp
    <3>4. QED
      BY <3>3 DEF JobRegister!ClaimNext
  <2>5. CASE t \notin TERMINAL
    <3>1. JobStage(j)' = "holding" /\ j \in OpenJobs'
      BY <2>1, <2>2, <2>5 DEF JobStage, OpenJobs
    <3>2. Occupied(jobs'[j]) = Occupied(jobs[j])
      BY <2>1 DEF Occupied
    <3>3. st' = [st EXCEPT ![j] = st[j]] /\ cl' = [cl EXCEPT ![j] = cl[j]]
      BY <1>2, <2>1, <2>3, <3>1, <3>2
    <3>4. \A f : f = [i \in JobIds |-> f[i]] => [f EXCEPT ![j] = f[j]] = f
      OBVIOUS
    <3>5. st' = st /\ cl' = cl
      BY <3>3, <3>4
    <3>6. QED
      BY <3>5 DEF JobRegister!claimVars
  <2>6. QED
    BY <2>4, <2>5
<1>5. QED
  BY <1>1, <1>3, <1>4, StepShapes DEF JobRegister!ClaimNext

(* The job table is a register of exclusive claims (ImplementsJobRegister):  *)
(* whatever was read before the insert and whichever way a job ends, it has  *)
(* its truck row, container and driver record to itself in between, and is   *)
(* never opened again.                                                       *)
THEOREM JobsImplementTheRegister == ContainerJobSpec => ImplementsJobRegister
<1>1. ContainerJobInit => JobRegister!ClaimInit
  BY DEF ContainerJobInit, JobRegister!ClaimInit, JobStage, OpenJobs
<1>2. JobInv /\ [JobNext]_containerJobVars => [JobRegister!ClaimNext]_(JobRegister!claimVars)
  <2>1. ASSUME UNCHANGED containerJobVars PROVE UNCHANGED JobRegister!claimVars
    BY <2>1 DEF containerJobVars, JobRegister!claimVars, JobStage, OpenJobs
  <2>2. QED
    BY <2>1, JobStepClaims
<1>3. QED
  BY <1>1, <1>2, InvariantHolds, PTL
     DEF ContainerJobSpec, ImplementsJobRegister, JobRegister!ClaimSpec

(* The history of every job starts at ASSIGNED, makes only moves of the job  *)
(* state machine and ends at the status of the row: HistoryExplainsStatus.   *)
(* No step reopens a finished job and none changes a status unlogged.        *)
THEOREM HistoriesExplainStatuses == ContainerJobSpec => []HistoryExplainsStatus
<1>1. ContainerJobInit => HistoryExplainsStatus
  BY DEF ContainerJobInit, HistoryExplainsStatus
<1>2. ASSUME JobInv, HistoryExplainsStatus, JobNext
      PROVE  HistoryExplainsStatus'
  <2>1. CASE UNCHANGED jobVars
    BY <1>2, <2>1 DEF HistoryExplainsStatus, jobVars
  <2>2. ASSUME NEW a \in Dispatchers, NEW j \in JobIds, AssignCreate(a, j)
        PROVE  HistoryExplainsStatus'
    <3>1. /\ history'[j] = <<"ASSIGNED">> /\ jobs'[j].status = "ASSIGNED"
          /\ \A i \in JobIds \ {j} : jobs'[i] = jobs[i] /\ history'[i] = history[i]
      BY <1>2, <2>2, CreateType
    <3>2. /\ Len(<<"ASSIGNED">>) = 1 /\ <<"ASSIGNED">>[1] = "ASSIGNED" /\ <<"ASSIGNED">> # <<>>
          /\ 2 .. 1 = {}
      OBVIOUS
    <3>3. QED
      BY <1>2, <3>1, <3>2 DEF HistoryExplainsStatus
  <2>3. ASSUME NEW j \in JobIds, NEW t \in Targets, Transition(j, t)
        PROVE  HistoryExplainsStatus'
    <3>1. /\ jobs[j] \in Job /\ jobs[j].status \in JobTransitions[t] /\ jobs'[j].status = t
          /\ \A i \in JobIds \ {j} : jobs'[i] = jobs[i]
      BY <1>2, <2>3, TransitionType DEF JobInv
    <3>2. /\ Len(history[j]) \in Nat /\ Len(history'[j]) = Len(history[j]) + 1
          /\ \A n \in 1 .. Len(history[j]) : history'[j][n] = history[j][n]
          /\ history'[j][Len(history[j]) + 1] = t
          /\ \A i \in JobIds \ {j} : history'[i] = history[i]
          /\ history[j] \in Seq(JobStatuses) /\ history'[j] \in Seq(JobStatuses)
      BY <1>2, <2>3, HistoryType DEF JobInv, JobTypeOK
    <3>3. /\ history[j] # <<>> /\ history[j][1] = "ASSIGNED"
          /\ history[j][Len(history[j])] = jobs[j].status
          /\ \A n \in 2 .. Len(history[j]) : history[j][n - 1] \in JobTransitions[history[j][n]]
      BY <1>2, <3>1, RecordFacts DEF HistoryExplainsStatus
    <3>4. Len(history[j]) >= 1
      BY <3>2, <3>3, EmptySeq
    <3>5. history'[j][1] = "ASSIGNED" /\ history'[j][Len(history'[j])] = t /\ history'[j] # <<>>
      BY <3>2, <3>3, <3>4
    <3>6. ASSUME NEW n \in 2 .. Len(history'[j])
          PROVE  history'[j][n - 1] \in JobTransitions[history'[j][n]]
      <4>1. CASE n = Len(history[j]) + 1
        <5>1. n - 1 = Len(history[j])
          BY <4>1, <3>2
        <5>2. history'[j][n - 1] = jobs[j].status /\ history'[j][n] = t
          BY <4>1, <5>1, <3>2, <3>3, <3>4
        <5>3. QED
          BY <5>2, <3>1
      <4>2. CASE n # Len(history[j]) + 1
        <5>1. n \in 2 .. Len(history[j]) /\ n - 1 \in 1 .. Len(history[j])
          BY <4>2, <3>2
        <5>2. QED
          BY <5>1, <3>2, <3>3
      <4>3. QED
        BY <4>1, <4>2
    <3>7. QED
      BY <1>2, <3>1, <3>2, <3>5, <3>6 DEF HistoryExplainsStatus
  <2>4. QED
    BY <1>2, <2>1, <2>2, <2>3, StepShapes
<1>3. HistoryExplainsStatus /\ UNCHANGED containerJobVars => HistoryExplainsStatus'
  BY DEF HistoryExplainsStatus, containerJobVars
<1>4. QED
  BY <1>1, <1>2, <1>3, InvariantHolds, PTL DEF ContainerJobSpec

(* A job that is past the gate was let in.                                   *)
PastTheGate == \A j \in JobIds :
  jobs[j] # NoJob /\ jobs[j].status \in {"AT_GATE", "IN_YARD", "PICKED_UP", "DROPPED"}
    => "GATE_IN" \in facts[j]

FactOf == [AT_GATE |-> "GATE_IN", COMPLETED |-> "GATE_IN",
           PICKED_UP |-> "YARD_PICKUP", DROPPED |-> "YARD_DROP"]

(* StatusBackedByFacts, one history row at a time.                           *)
RowsAreBacked == \A j \in JobIds : \A n \in 1 .. Len(history[j]) :
  history[j][n] \in DOMAIN FactOf => FactOf[history[j][n]] \in facts[j]

LEMMA RowsAndReached == RowsAreBacked => StatusBackedByFacts
<1> SUFFICES ASSUME RowsAreBacked, NEW j \in JobIds
    PROVE  \A n \in 1 .. Len(history[j]) :
             /\ history[j][n] \in {"AT_GATE", "COMPLETED"} => "GATE_IN" \in facts[j]
             /\ history[j][n] = "PICKED_UP" => "YARD_PICKUP" \in facts[j]
             /\ history[j][n] = "DROPPED" => "YARD_DROP" \in facts[j]
  BY DEF StatusBackedByFacts
<1>1. DOMAIN FactOf = {"AT_GATE", "COMPLETED", "PICKED_UP", "DROPPED"}
      /\ FactOf["AT_GATE"] = "GATE_IN" /\ FactOf["COMPLETED"] = "GATE_IN"
      /\ FactOf["PICKED_UP"] = "YARD_PICKUP" /\ FactOf["DROPPED"] = "YARD_DROP"
  BY DEF FactOf
<1>2. QED
  BY <1>1 DEF RowsAreBacked

(* A status change happens only with its fact on record.                     *)
LEMMA TransitionIsBacked ==
  ASSUME JobInv, PastTheGate, NEW j \in JobIds, NEW t \in Targets, Transition(j, t),
         \/ t \in {"ACCEPTED", "IN_YARD", "COMPLETED", "CANCELLED"}
         \/ \E k \in facts[j] : k \in FieldKinds /\ t = FieldTarget[k]
  PROVE  /\ t \in DOMAIN FactOf => FactOf[t] \in facts[j]
         /\ t \in {"AT_GATE", "IN_YARD", "PICKED_UP", "DROPPED"} => "GATE_IN" \in facts[j]
<1>1. jobs[j] # NoJob /\ jobs[j].status \in JobTransitions[t]
  BY TransitionType, RecordFacts DEF JobInv
<1>2. t \in {"IN_YARD", "PICKED_UP", "DROPPED", "COMPLETED"} => "GATE_IN" \in facts[j]
  BY <1>1, TransitionFacts DEF PastTheGate
<1>3. /\ t = "AT_GATE" => "GATE_IN" \in facts[j]
      /\ t = "PICKED_UP" => "YARD_PICKUP" \in facts[j]
      /\ t = "DROPPED" => "YARD_DROP" \in facts[j]
  BY FieldFacts
<1>4. QED
  BY <1>2, <1>3 DEF FactOf

(* A job is never ahead of the recorded facts: StatusBackedByFacts.  A status*)
(* change reads the fact its own request recorded before it, and every       *)
(* status past the gate can only be entered from one that is.                *)
THEOREM StatusesAreBacked == ContainerJobSpec => []StatusBackedByFacts
<1> DEFINE Backed == RowsAreBacked /\ PastTheGate
<1>1. ContainerJobInit => Backed
  <2>1. ASSUME ContainerJobInit PROVE \A j \in JobIds : 1 .. Len(history[j]) = {}
    <3>1. Len(<<>>) = 0 /\ 1 .. 0 = {}
      OBVIOUS
    <3>2. \A j \in JobIds : history[j] = <<>>
      BY <2>1 DEF ContainerJobInit
    <3>3. QED
      BY <3>1, <3>2
  <2>2. QED
    BY <2>1 DEF ContainerJobInit, RowsAreBacked, PastTheGate
<1>2. ASSUME JobInv, Backed, JobNext
      PROVE  Backed'
  <2>1. CASE UNCHANGED jobVars /\ \A j \in JobIds : facts[j] \subseteq facts'[j]
    BY <1>2, <2>1 DEF RowsAreBacked, PastTheGate, jobVars
  <2>2. ASSUME NEW a \in Dispatchers, NEW j \in JobIds, AssignCreate(a, j)
        PROVE  Backed'
    <3>1. /\ history'[j] = <<"ASSIGNED">> /\ jobs'[j].status = "ASSIGNED"
          /\ \A i \in JobIds \ {j} : jobs'[i] = jobs[i] /\ history'[i] = history[i]
          /\ UNCHANGED facts
      BY <1>2, <2>2, CreateType DEF AssignCreate
    <3>2. \A n \in 1 .. Len(<<"ASSIGNED">>) : <<"ASSIGNED">>[n] = "ASSIGNED"
      OBVIOUS
    <3>3. "ASSIGNED" \notin DOMAIN FactOf
      BY DEF FactOf
    <3>4. QED
      BY <1>2, <3>1, <3>2, <3>3 DEF RowsAreBacked, PastTheGate
  <2>3. ASSUME NEW j \in JobIds, NEW t \in Targets, Transition(j, t), UNCHANGED facts,
               \/ t \in {"ACCEPTED", "IN_YARD", "COMPLETED", "CANCELLED"}
               \/ \E k \in facts[j] : k \in FieldKinds /\ t = FieldTarget[k]
        PROVE  Backed'
    <3>1. /\ t \in DOMAIN FactOf => FactOf[t] \in facts[j]
          /\ t \in {"AT_GATE", "IN_YARD", "PICKED_UP", "DROPPED"} => "GATE_IN" \in facts[j]
      BY <1>2, <2>3, TransitionIsBacked
    <3>2. /\ jobs'[j].status = t /\ \A i \in JobIds \ {j} : jobs'[i] = jobs[i]
      BY <1>2, <2>3, TransitionType DEF JobInv
    <3>3. /\ Len(history[j]) \in Nat /\ Len(history'[j]) = Len(history[j]) + 1
          /\ \A n \in 1 .. Len(history[j]) : history'[j][n] = history[j][n]
          /\ history'[j][Len(history[j]) + 1] = t
          /\ \A i \in JobIds \ {j} : history'[i] = history[i]
      BY <1>2, <2>3, HistoryType DEF JobInv
    <3>4. \A n \in 1 .. Len(history'[j]) :
            history'[j][n] \in DOMAIN FactOf => FactOf[history'[j][n]] \in facts'[j]
      BY <1>2, <2>3, <3>1, <3>3 DEF RowsAreBacked
    <3>5. RowsAreBacked'
      BY <1>2, <2>3, <3>3, <3>4 DEF RowsAreBacked
    <3>6. PastTheGate'
      BY <1>2, <2>3, <3>1, <3>2 DEF PastTheGate
    <3>7. QED
      BY <3>5, <3>6
  <2>4. QED
    BY <1>2, <2>1, <2>2, <2>3, StepShapes
<1>3. Backed /\ UNCHANGED containerJobVars => Backed'
  BY DEF RowsAreBacked, PastTheGate, containerJobVars
<1>4. Backed => StatusBackedByFacts
  BY RowsAndReached
<1>5. QED
  BY <1>1, <1>2, <1>3, <1>4, InvariantHolds, PTL DEF ContainerJobSpec

(* No truck is dispatched against a container under a customs hold, even one *)
(* that lands after the pre-flight check: NoDispatchUnderHold.  A container  *)
(* whose row is gone has no hold either.                                     *)
THEOREM HoldsStopDispatch == ContainerJobSpec => NoDispatchUnderHold
<1> DEFINE Allowed == \A j \in JobIds :
       jobs[j] = NoJob /\ jobs'[j] # NoJob /\ jobs'[j].container # None =>
         cargo[jobs'[j].container].customs \notin CUSTOMS_BLOCKS_RELEASE
<1>1. ASSUME JobInv, JobNext PROVE Allowed
  <2>1. CASE UNCHANGED jobVars
    BY <2>1 DEF jobVars
  <2>2. ASSUME NEW a \in Dispatchers, NEW j \in JobIds, AssignCreate(a, j)
        PROVE  Allowed
    <3>1. /\ jobs'[j].container = dispatch[a].order.container
          /\ dispatch[a].order \in OrderType
          /\ \A i \in JobIds \ {j} : jobs'[i] = jobs[i]
      BY <1>1, <2>2, CreateType
    <3>2. CustomsAllows(dispatch[a].order)
      BY <2>2 DEF AssignCreate
    <3>3. jobs'[j].container # None => jobs'[j].container \in Containers
      BY <3>1 DEF OrderType
    <3>4. jobs'[j].container # None =>
            cargo[jobs'[j].container].customs \notin CUSTOMS_BLOCKS_RELEASE
      BY <1>1, <3>1, <3>2, <3>3
         DEF CustomsAllows, JobInv, AbsentIsPending, CUSTOMS_BLOCKS_RELEASE
    <3>5. QED
      BY <3>1, <3>4
  <2>3. ASSUME NEW j \in JobIds, NEW t \in Targets, Transition(j, t)
        PROVE  Allowed
    <3>1. jobs[j] \in Job /\ \A i \in JobIds \ {j} : jobs'[i] = jobs[i]
      BY <1>1, <2>3, TransitionType DEF JobInv
    <3>2. QED
      BY <3>1, RecordFacts
  <2>4. QED
    BY <1>1, <2>1, <2>2, <2>3, StepShapes
<1>2. QED
  BY <1>1, InvariantHolds, PTL DEF ContainerJobSpec, NoDispatchUnderHold

-----------------------------------------------------------------------------
(* What the pre-flight reads are good for: two conditions under which a      *)
(* truck, which is a plate and not a row, is on one open job, and one under  *)
(* which a pickup moves its truck into the yard.                             *)

(* Where no two vehicle rows carry one plate, the unique index on the row is *)
(* one on the truck: OneOpenJobPerTruck, however many dispatchers race.      *)
THEOREM OneRowPerPlateIsEnough ==
  ASSUME \A v, w \in Vehicles : Plate[v] = Plate[w] => v = w
  PROVE  ContainerJobSpec => []OneOpenJobPerTruck
<1>1. ASSUME JobTypeOK, OneOpenJobEach PROVE OneOpenJobPerTruck
  <2>1. \A j \in OpenJobs : jobs[j] \in Job
    BY <1>1 DEF JobTypeOK, OpenJobs
  <2>2. \A j \in OpenJobs : jobs[j].vehicle \in Vehicles
    BY <2>1 DEF Job
  <2>3. QED
    BY <1>1, <2>2 DEF OneOpenJobEach, OneOpenJobPerTruck
<1>2. QED
  BY <1>1, JobTypeCorrect, OpenJobsAreExclusive, PTL

(* What a dispatcher has looked up still holds until it inserts.             *)
LookupHolds == \A a \in Dispatchers :
  dispatch[a].pc \in {"driver", "create"} => VehicleFree(dispatch[a].order.vehicle)

LEMMA LoneDispatchStep ==
  ASSUME \A a, b \in Dispatchers : a = b,
         JobInv, LookupHolds, OneOpenJobPerTruck, JobNext
  PROVE  LookupHolds' /\ OneOpenJobPerTruck'
<1>t. dispatch \in [Dispatchers -> Dispatch \cup {IdleRequest}]
  BY DEF JobInv, JobTypeOK
<1>1. ASSUME NEW a \in Dispatchers, NEW o \in Orders, AssignStart(a, o)
      PROVE  UNCHANGED jobVars /\ dispatch'[a].pc \in {"vehicle", "container"}
  BY <1>1, <1>t DEF AssignStart, jobVars
<1>2. ASSUME NEW a \in Dispatchers, AssignCheck(a)
      PROVE  /\ UNCHANGED jobVars
             /\ dispatch'[a].pc \in {"driver", "create"}
                  => VehicleFree(dispatch[a].order.vehicle)
             /\ dispatch'[a].order = dispatch[a].order
  <2>1. dispatch[a] \in Dispatch /\ dispatch[a].pc \in DOMAIN NextCheck
    BY <1>2, <1>t DEF AssignCheck, NextCheck, IdleRequest
  <2>2. PICK r : r = [dispatch[a] EXCEPT !.pc = NextCheck[dispatch[a].pc]]
    OBVIOUS
  <2>3. r.pc = NextCheck[dispatch[a].pc] /\ r.order = dispatch[a].order
    BY <2>1, <2>2 DEF Dispatch
  <2>4. dispatch' = [dispatch EXCEPT ![a] = r]
    BY <1>2, <2>2 DEF AssignCheck
  <2>5. dispatch'[a] = r
    BY <2>4, <1>t
  <2>6. r.pc \in {"driver", "create"} => dispatch[a].pc \in {"vehicle", "driver"}
    BY <2>1, <2>3 DEF NextCheck
  <2>7. dispatch[a].pc = "vehicle" => VehicleFree(dispatch[a].order.vehicle)
    BY <1>2 DEF AssignCheck, Passes
  <2>8. QED
    BY <1>2, <2>3, <2>5, <2>6, <2>7 DEF AssignCheck, LookupHolds, jobVars
<1>3. ASSUME NEW a \in Dispatchers, AssignRefused(a)
      PROVE  UNCHANGED jobVars /\ dispatch'[a].pc = "idle"
  BY <1>3, <1>t, RecordFacts DEF AssignRefused, jobVars
<1>4. ASSUME NEW a \in Dispatchers, NEW j \in JobIds, AssignCreate(a, j)
      PROVE  LookupHolds' /\ OneOpenJobPerTruck'
  <2>1. dispatch'[a].pc = "idle"
    BY <1>4, <1>t, RecordFacts DEF AssignCreate
  <2>2. VehicleFree(dispatch[a].order.vehicle)
    BY <1>4 DEF AssignCreate, LookupHolds
  <2>3. /\ j \notin OpenJobs /\ OpenJobs \subseteq JobIds
        /\ jobs'[j].vehicle = dispatch[a].order.vehicle
        /\ \A i \in JobIds \ {j} : jobs'[i] = jobs[i]
    BY <1>4, CreateType DEF OpenJobs
  <2>4. OpenJobs' \subseteq OpenJobs \cup {j}
    BY <2>3 DEF OpenJobs
  <2>5. \A i \in OpenJobs : Plate[jobs'[i].vehicle] # Plate[jobs'[j].vehicle]
    BY <2>2, <2>3 DEF VehicleFree
  <2>6. \A i, k \in OpenJobs : i # k => Plate[jobs'[i].vehicle] # Plate[jobs'[k].vehicle]
    BY <2>3 DEF OneOpenJobPerTruck
  <2>7. QED
    BY <2>1, <2>4, <2>5, <2>6 DEF LookupHolds, OneOpenJobPerTruck
<1>5. ASSUME NEW j \in JobIds, NEW t \in Targets, Transition(j, t), UNCHANGED dispatch
      PROVE  LookupHolds' /\ OneOpenJobPerTruck'
  <2>1. /\ OpenJobs' \subseteq OpenJobs
        /\ \A i \in OpenJobs : jobs'[i].vehicle = jobs[i].vehicle
    BY <1>5, TransitionKeepsClaims
  <2>2. QED
    BY <1>5, <2>1 DEF LookupHolds, VehicleFree, OneOpenJobPerTruck
<1>6. \/ \E a \in Dispatchers :
            \/ (\E o \in Orders : AssignStart(a, o)) \/ AssignCheck(a) \/ AssignRefused(a)
            \/ \E j \in JobIds : AssignCreate(a, j)
      \/ UNCHANGED dispatch
  BY DEF JobNext, JobStep, JobCrash, AcceptJob, CompleteJob, CancelJob, JobCommand, FieldRead,
         FieldRecord, FieldEnterYard, FieldAdvance, FieldCrash, CargoElsewhere
<1>7. ASSUME UNCHANGED jobVars
      PROVE  /\ OneOpenJobPerTruck'
             /\ \A v : VehicleFree(v)' <=> VehicleFree(v)
  BY <1>7 DEF OneOpenJobPerTruck, VehicleFree, OpenJobs, jobVars
<1>8. ASSUME NEW a \in Dispatchers,
             \/ \E o \in Orders : AssignStart(a, o)
             \/ AssignCheck(a)
             \/ AssignRefused(a)
      PROVE  LookupHolds' /\ OneOpenJobPerTruck'
  <2>1. /\ UNCHANGED jobVars
        /\ dispatch'[a].pc \in {"driver", "create"}
             => /\ dispatch'[a].order = dispatch[a].order
                /\ VehicleFree(dispatch[a].order.vehicle)
    BY <1>1, <1>2, <1>3, <1>8
  <2>2. \A b \in Dispatchers : b = a
    OBVIOUS
  <2>3. QED
    BY <1>7, <2>1, <2>2 DEF LookupHolds
<1>9. CASE UNCHANGED dispatch /\ UNCHANGED jobVars
  BY <1>7, <1>9 DEF LookupHolds
<1>10. QED
  BY <1>4, <1>5, <1>6, <1>8, <1>9, StepShapes

(* One dispatcher at a time reads, and then inserts, what nobody has changed *)
(* in between: then the pre-flight look at the plate is enough by itself,    *)
(* twin rows or not (OneOpenJobPerTruck).                                    *)
THEOREM LoneDispatcherSeesTwins ==
  ASSUME \A a, b \in Dispatchers : a = b
  PROVE  ContainerJobSpec => []OneOpenJobPerTruck
<1> DEFINE Inv == LookupHolds /\ OneOpenJobPerTruck
<1>1. ContainerJobInit => Inv
  BY RecordFacts DEF ContainerJobInit, LookupHolds, OneOpenJobPerTruck, OpenJobs
<1>2. JobInv /\ Inv /\ JobNext => Inv'
  BY LoneDispatchStep
<1>3. Inv /\ UNCHANGED containerJobVars => Inv'
  BY DEF LookupHolds, OneOpenJobPerTruck, VehicleFree, OpenJobs, containerJobVars
<1>4. Inv => OneOpenJobPerTruck
  OBVIOUS
<1>5. QED
  BY <1>1, <1>2, <1>3, <1>4, InvariantHolds, PTL DEF ContainerJobSpec

(* A movement report that has found its truck elsewhere than at the gate is  *)
(* right until it moves the job: only another report could take it there.    *)
ReportIsCurrent == \A f \in FieldRequests :
  /\ (field[f].pc = "record" /\ field[f].seen # "AT_GATE")
       => jobs[field[f].job].status # "AT_GATE"
  /\ (field[f].pc = "advance" /\ field[f].kind = "YARD_PICKUP")
       => jobs[field[f].job].status # "AT_GATE"

LEMMA LoneReportStep ==
  ASSUME \A f, g \in FieldRequests : f = g,
         JobInv, ReportIsCurrent, JobNext
  PROVE  ReportIsCurrent'
<1>t. field \in [FieldRequests -> FieldRequest \cup {IdleRequest}]
  BY DEF JobInv, JobTypeOK
<1>1. ASSUME NEW f \in FieldRequests, NEW j \in JobIds, NEW k \in FieldKinds, FieldRead(f, j, k)
      PROVE  ReportIsCurrent'
  <2>1. PICK r : r = [pc |-> "record", kind |-> k, job |-> j, seen |-> jobs[j].status]
    OBVIOUS
  <2>2. field' = [field EXCEPT ![f] = r] /\ jobs' = jobs
    BY <1>1, <2>1 DEF FieldRead
  <2>3. field'[f] = r /\ r.pc = "record" /\ r.job = j /\ r.seen = jobs[j].status
    BY <1>t, <2>1, <2>2
  <2>4. QED
    BY <2>2, <2>3 DEF ReportIsCurrent
<1>2. ASSUME NEW f \in FieldRequests, NEW p \in {"enter", "advance"},
             field[f].pc # "idle", FieldGoesTo(f, p)
      PROVE  /\ field[f] \in FieldRequest /\ field[f].job \in JobIds
             /\ field'[f].pc = p /\ field'[f].kind = field[f].kind
             /\ field'[f].job = field[f].job
  <2>1. field[f] \in FieldRequest
    BY <1>2, <1>t, RecordFacts
  <2>2. PICK r : r = [field[f] EXCEPT !.pc = p]
    OBVIOUS
  <2>3. r.pc = p /\ r.kind = field[f].kind /\ r.job = field[f].job
    BY <2>1, <2>2 DEF FieldRequest
  <2>4. field' = [field EXCEPT ![f] = r]
    BY <1>2, <2>2 DEF FieldGoesTo
  <2>5. QED
    BY <1>t, <2>1, <2>3, <2>4, RecordFacts
<1>3. ASSUME NEW f \in FieldRequests, FieldRecord(f)
      PROVE  ReportIsCurrent'
  <2>1. PICK p \in {"enter", "advance"} :
          /\ FieldGoesTo(f, p)
          /\ p = IF IsMovement(field[f].kind) /\ field[f].seen = "AT_GATE"
                 THEN "enter" ELSE "advance"
    BY <1>3 DEF FieldRecord
  <2>2. field[f].pc = "record" /\ jobs' = jobs
    BY <1>3 DEF FieldRecord
  <2>3. /\ field'[f].pc = p /\ field'[f].kind = field[f].kind
        /\ field'[f].job = field[f].job
    BY <1>2, <2>1, <2>2
  <2>4. p = "advance" /\ field[f].kind = "YARD_PICKUP" => field[f].seen # "AT_GATE"
    BY <2>1 DEF IsMovement
  <2>5. QED
    BY <2>1, <2>2, <2>3, <2>4 DEF ReportIsCurrent
<1>4. ASSUME NEW f \in FieldRequests, FieldEnterYard(f)
      PROVE  ReportIsCurrent'
  <2>1. CASE Transition(field[f].job, "IN_YARD") /\ FieldGoesTo(f, "advance")
    <3>1. /\ field[f].job \in JobIds /\ field'[f].pc = "advance"
          /\ field'[f].job = field[f].job
      BY <1>2, <1>4, <2>1 DEF FieldEnterYard
    <3>2. jobs'[field[f].job].status = "IN_YARD"
      BY <2>1, <3>1, TransitionType DEF JobInv, Targets
    <3>3. QED
      BY <3>1, <3>2 DEF ReportIsCurrent
  <2>2. CASE FieldDone(f)
    BY <1>t, <2>2, RecordFacts DEF FieldDone, ReportIsCurrent
  <2>3. QED
    BY <1>4, <2>1, <2>2 DEF FieldEnterYard
<1>5. ASSUME NEW f \in FieldRequests, FieldAdvance(f) \/ FieldCrash(f)
      PROVE  ReportIsCurrent'
  BY <1>t, <1>5, RecordFacts DEF FieldAdvance, FieldCrash, FieldDone, ReportIsCurrent
<1>6. ASSUME NEW j \in JobIds, AcceptJob(j) \/ CompleteJob(j) \/ CancelJob(j)
      PROVE  ReportIsCurrent'
  <2>1. PICK t \in {"ACCEPTED", "COMPLETED", "CANCELLED"} : Transition(j, t)
    BY <1>6 DEF AcceptJob, CompleteJob, CancelJob, JobCommand
  <2>2. field' = field
    BY <1>6 DEF AcceptJob, CompleteJob, CancelJob, JobCommand
  <2>3. t \in Targets
    BY DEF Targets
  <2>4. /\ jobs'[j].status = t /\ \A i \in JobIds \ {j} : jobs'[i] = jobs[i]
    BY <2>1, <2>3, TransitionType DEF JobInv
  <2>5. \A f \in FieldRequests : field[f].pc # "idle" => field[f].job \in JobIds
    BY <1>t, RecordFacts
  <2>6. QED
    BY <2>2, <2>4, <2>5 DEF ReportIsCurrent
<1>7. ASSUME NEW a \in Dispatchers, NEW j \in JobIds, AssignCreate(a, j)
      PROVE  ReportIsCurrent'
  <2>1. /\ jobs'[j].status = "ASSIGNED" /\ \A i \in JobIds \ {j} : jobs'[i] = jobs[i]
        /\ field' = field
    BY <1>7, CreateType DEF AssignCreate
  <2>2. \A f \in FieldRequests : field[f].pc # "idle" => field[f].job \in JobIds
    BY <1>t, RecordFacts
  <2>3. QED
    BY <2>1, <2>2 DEF ReportIsCurrent
<1>8. CASE UNCHANGED <<jobs, field>>
  BY <1>8 DEF ReportIsCurrent
<1>9. \/ \E f \in FieldRequests :
            \/ \E j \in JobIds, k \in FieldKinds : FieldRead(f, j, k)
            \/ FieldRecord(f) \/ FieldEnterYard(f) \/ FieldAdvance(f) \/ FieldCrash(f)
      \/ \E j \in JobIds : AcceptJob(j) \/ CompleteJob(j) \/ CancelJob(j)
      \/ \E a \in Dispatchers, j \in JobIds : AssignCreate(a, j)
      \/ UNCHANGED <<jobs, field>>
  BY FleetAssumption DEF JobNext, JobStep, JobCrash, AssignStart, AssignCheck, AssignRefused,
     CargoElsewhere
<1>10. QED
  BY <1>1, <1>3, <1>4, <1>5, <1>6, <1>7, <1>8, <1>9

(* A pickup that is recorded for a truck at the gate takes it into the yard, *)
(* as long as reports come one at a time, also when some of them die half    *)
(* way and whatever drivers and dispatchers do meanwhile: PickupEntersYard.  *)
THEOREM LonePickupEntersTheYard ==
  ASSUME \A f, g \in FieldRequests : f = g
  PROVE  ContainerJobSpec => PickupEntersYard
<1> DEFINE Entered == \A f \in FieldRequests :
       field[f].pc = "advance" /\ field'[f].pc = "idle"
         /\ field[f].kind = "YARD_PICKUP"
         => jobs'[field[f].job].status # "AT_GATE"
<1>1. ContainerJobInit => ReportIsCurrent
  BY RecordFacts DEF ContainerJobInit, ReportIsCurrent
<1>2. JobInv /\ ReportIsCurrent /\ JobNext => ReportIsCurrent'
  BY LoneReportStep
<1>3. ReportIsCurrent /\ UNCHANGED containerJobVars => ReportIsCurrent'
  BY DEF ReportIsCurrent, containerJobVars
<1>4. ASSUME JobInv, ReportIsCurrent, JobNext PROVE Entered
  <2> SUFFICES ASSUME NEW f \in FieldRequests, field[f].pc = "advance", field'[f].pc = "idle",
                      field[f].kind = "YARD_PICKUP"
               PROVE  jobs'[field[f].job].status # "AT_GATE"
    OBVIOUS
  <2>1. jobs[field[f].job].status # "AT_GATE" /\ field[f].job \in JobIds
    BY <1>4, RecordFacts DEF ReportIsCurrent, JobInv, JobTypeOK
  <2>2. FieldAdvance(f) \/ FieldCrash(f)
    <3>1. field'[f] # field[f]
      OBVIOUS
    <3>2. \A g \in FieldRequests : g = f
      OBVIOUS
    <3>3. ~ FieldRecord(f) /\ ~ FieldEnterYard(f)
          /\ \A j \in JobIds, k \in FieldKinds : ~ FieldRead(f, j, k)
      BY DEF FieldRecord, FieldEnterYard, FieldRead
    <3>4. QED
      BY <1>4, <3>1, <3>2, <3>3, FleetAssumption
      DEF JobNext, JobStep, JobCrash, AssignStart, AssignCheck, AssignRefused, AssignCreate,
          AcceptJob, CompleteJob, CancelJob, JobCommand, CargoElsewhere
  <2>3. CASE jobs' = jobs
    BY <2>1, <2>3
  <2>4. CASE Transition(field[f].job, "PICKED_UP")
    BY <1>4, <2>1, <2>4, TransitionType DEF JobInv, Targets
  <2>5. QED
    BY <2>2, <2>3, <2>4 DEF FieldAdvance, FieldCrash, FieldTarget, jobVars
<1>5. JobInv /\ ReportIsCurrent /\ [JobNext]_containerJobVars => [Entered]_containerJobVars
  BY <1>4
<1>6. QED
  BY <1>1, <1>2, <1>3, <1>5, InvariantHolds, PTL DEF ContainerJobSpec, PickupEntersYard

=============================================================================
