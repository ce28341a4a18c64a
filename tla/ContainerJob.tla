---------------------------- MODULE ContainerJob ----------------------------
(***************************************************************************)
(* services.container_job.ContainerJobService: binding a truck and a       *)
(* driver to a container (a chain of reads, then one INSERT guarded by     *)
(* partial unique indexes) and driving the job through the gate and the    *)
(* yard (a fact recorded in one transaction, the job advanced in others).  *)
(* The cargo row belongs to other services, which write it at any time.    *)
(***************************************************************************)
EXTENDS CargoTable, Sequences

CONSTANTS
  JobIds,        (* the rows core.container_job_assignment can hold *)
  Vehicles,      (* core.vehicle.vehicle_id *)
  Drivers,       (* core.driver_identity.driver_id *)
  Licences,      (* normalised driving licences *)
  Plates,        (* normalised registration plates *)
  Plate,         (* the plate of each vehicle row; twins share one *)
  LicenceOf,     (* the licence of each driver record; twins share one *)
  Dispatchers,   (* in-flight POST /api/jobs requests *)
  FieldRequests, (* in-flight gate-event and yard-movement requests *)
  Mortal,        (* those whose server may die *)
  Orders,        (* the assignments dispatchers ask for *)
  CargoWrites    (* what other services do to the cargo row meanwhile *)

None == "none"

OrderType == [container : Containers \cup {None},  (* None: a group-code job *)
              vehicle   : Vehicles,
              driver    : Drivers \cup {None},     (* None: not an import pick *)
              licence   : Licences \cup {None}]

ASSUME FleetAssumption ==
  /\ Mortal \subseteq FieldRequests
  /\ Plate \in [Vehicles -> Plates]
  /\ LicenceOf \in [Drivers -> Licences]
  /\ Orders \subseteq OrderType
  /\ \A o \in Orders : o.driver # None => o.licence = LicenceOf[o.driver]

VARIABLES
  jobs,      (* core.container_job_assignment *)
  history,   (* core.container_job_event: the statuses each job went through *)
  facts,     (* core.gate_event and core.cargo_movement_event, per job *)
  dispatch,  (* the progress of each assignment request *)
  field      (* the progress of each gate or yard request *)

jobVars == <<jobs, history>>
containerJobVars == <<cargo, audit, jobs, history, facts, dispatch, field>>

JobStatuses == {"ASSIGNED", "ACCEPTED", "AT_GATE", "IN_YARD", "PICKED_UP",
                "DROPPED", "COMPLETED", "CANCELLED"}

TERMINAL == {"COMPLETED", "CANCELLED"}

(* Faulty variant: an ACCEPTED truck is not let in by a GATE_IN. *)
JobTransitionsStrictGate ==
  [ACCEPTED  |-> {"ASSIGNED"},
   AT_GATE   |-> {"ASSIGNED"},
   IN_YARD   |-> {"AT_GATE"},
   PICKED_UP |-> {"IN_YARD"},
   DROPPED   |-> {"IN_YARD", "PICKED_UP"},
   COMPLETED |-> {"PICKED_UP", "DROPPED", "AT_GATE", "IN_YARD"},
   CANCELLED |-> JobStatuses \ TERMINAL]

(* Faulty variant: a driver may still accept a job that was cancelled. *)
JobTransitionsReopening ==
  [JobTransitionsStrictGate EXCEPT !.ACCEPTED = {"ASSIGNED", "CANCELLED"}]

(* target status -> the statuses it may be entered from *)
JobTransitions ==
  [ACCEPTED  |-> {"ASSIGNED"},
   AT_GATE   |-> {"ASSIGNED", "ACCEPTED"},
   IN_YARD   |-> {"AT_GATE"},
   PICKED_UP |-> {"IN_YARD"},
   DROPPED   |-> {"IN_YARD", "PICKED_UP"},
   COMPLETED |-> {"PICKED_UP", "DROPPED", "AT_GATE", "IN_YARD"},
   CANCELLED |-> JobStatuses \ TERMINAL]

Job == [status    : JobStatuses,
        container : Containers \cup {None},
        vehicle   : Vehicles,
        driver    : Drivers \cup {None},
        licence   : Licences \cup {None}]

NoJob == [status |-> "free"]

FieldKinds == {"GATE_IN", "GATE_OUT", "YARD_PICKUP", "YARD_DROP"}

(* The status a recorded fact moves its job to. *)
FieldTarget == [GATE_IN |-> "AT_GATE", GATE_OUT |-> "COMPLETED",
                YARD_PICKUP |-> "PICKED_UP", YARD_DROP |-> "DROPPED"]

IdleRequest == [pc |-> "idle"]

Dispatch == [pc : {"container", "cargo", "vehicle", "driver", "create"},
             order : OrderType]

FieldRequest == [pc   : {"record", "enter", "advance"},
                 kind : FieldKinds,
                 job  : JobIds,
                 seen : JobStatuses]   (* the status in the job as first read *)

JobTypeOK ==
  /\ CargoTypeOK
  /\ jobs \in [JobIds -> Job \cup {NoJob}]
  /\ \A j \in JobIds : history[j] \in Seq(JobStatuses)
  /\ facts \in [JobIds -> SUBSET FieldKinds]
  /\ dispatch \in [Dispatchers -> Dispatch \cup {IdleRequest}]
  /\ field \in [FieldRequests -> FieldRequest \cup {IdleRequest}]

ContainerJobInit ==
  /\ CargoTableInit
  /\ jobs = [j \in JobIds |-> NoJob]
  /\ history = [j \in JobIds |-> <<>>]
  /\ facts = [j \in JobIds |-> {}]
  /\ dispatch = [a \in Dispatchers |-> IdleRequest]
  /\ field = [f \in FieldRequests |-> IdleRequest]

OpenJobs == {j \in JobIds : jobs[j] # NoJob /\ jobs[j].status \notin TERMINAL}

-----------------------------------------------------------------------------
(* The reads of validate_assignment, each its own statement. *)

ContainerFree(c) == \A j \in OpenJobs : jobs[j].container # c

Dispatchable(c) ==
  cargo[c].present /\ cargo[c].customs \notin CUSTOMS_BLOCKS_RELEASE

(* A truck is its plate: a job on a twin row of core.vehicle occupies it. *)
VehicleFree(v) == \A j \in OpenJobs : Plate[jobs[j].vehicle] # Plate[v]

(* A person is a licence, on the job itself or on the driver record it names. *)
DriverFree(d, l) ==
  \A j \in OpenJobs :
    /\ jobs[j].driver # d
    /\ l # None => /\ jobs[j].licence # l
                   /\ jobs[j].driver # None => LicenceOf[jobs[j].driver] # l

NextCheck == [container |-> "cargo", cargo |-> "vehicle",
              vehicle |-> "driver", driver |-> "create"]

Passes(pc, o) ==
  CASE pc = "container" -> ContainerFree(o.container)
    [] pc = "cargo"     -> Dispatchable(o.container)
    [] pc = "vehicle"   -> VehicleFree(o.vehicle)
    [] pc = "driver"    -> o.driver # None => DriverFree(o.driver, o.licence)

(* A group-code job has no container to look at. *)
AssignStart(a, o) ==
  /\ dispatch[a].pc = "idle"
  /\ dispatch' = [dispatch EXCEPT ![a] =
       [pc |-> IF o.container = None THEN "vehicle" ELSE "container", order |-> o]]
  /\ UNCHANGED <<cargo, audit, jobs, history, facts, field>>

AssignCheck(a) ==
  /\ dispatch[a].pc \in DOMAIN NextCheck
  /\ Passes(dispatch[a].pc, dispatch[a].order)
  /\ dispatch' = [dispatch EXCEPT ![a].pc = NextCheck[@]]
  /\ UNCHANGED <<cargo, audit, jobs, history, facts, field>>

(* A check failed, here or in the registries this model leaves open (gate     *)
(* documents, vehicle and driver status, permit, blacklist), an index refused *)
(* the row, or the client has gone.                                          *)
AssignRefused(a) ==
  /\ dispatch[a].pc # "idle"
  /\ dispatch' = [dispatch EXCEPT ![a] = IdleRequest]
  /\ UNCHANGED <<cargo, audit, jobs, history, facts, field>>

(* uq_job_open_container, uq_job_open_vehicle and uq_job_open_driver. *)
IndexesAllow(o) ==
  \A j \in OpenJobs :
    /\ jobs[j].vehicle # o.vehicle
    /\ o.container # None => jobs[j].container # o.container
    /\ o.driver # None => jobs[j].driver # o.driver

(* Faulty variant: the customs status is not read again under the row lock. *)
CustomsAllowsUnchecked(o) == TRUE

(* The row lock of create_job; a row that is gone has no status to refuse. *)
CustomsAllows(o) ==
  o.container # None /\ cargo[o.container].present =>
    cargo[o.container].customs \notin CUSTOMS_BLOCKS_RELEASE

AssignCreate(a, j) ==
  LET o == dispatch[a].order IN
    /\ dispatch[a].pc = "create"
    /\ jobs[j] = NoJob
    /\ CustomsAllows(o)
    /\ IndexesAllow(o)
    /\ jobs' = [jobs EXCEPT ![j] =
         [status |-> "ASSIGNED", container |-> o.container, vehicle |-> o.vehicle,
          driver |-> o.driver, licence |-> o.licence]]
    /\ history' = [history EXCEPT ![j] = <<"ASSIGNED">>]
    /\ dispatch' = [dispatch EXCEPT ![a] = IdleRequest]
    /\ UNCHANGED <<cargo, audit, facts, field>>

-----------------------------------------------------------------------------
(* One status change under the job's row lock, with its history row. *)
MayTransition(j, target) ==
  jobs[j] # NoJob /\ jobs[j].status \in JobTransitions[target]

Transition(j, target) ==
  /\ MayTransition(j, target)
  /\ jobs' = [jobs EXCEPT ![j].status = target]
  /\ history' = [history EXCEPT ![j] = Append(@, target)]

JobCommand(j, target) ==
  Transition(j, target) /\ UNCHANGED <<cargo, audit, facts, dispatch, field>>

AcceptJob(j)   == JobCommand(j, "ACCEPTED")
CompleteJob(j) == JobCommand(j, "COMPLETED")
CancelJob(j)   == JobCommand(j, "CANCELLED")

-----------------------------------------------------------------------------
FieldGoesTo(f, pc) == field' = [field EXCEPT ![f].pc = pc]

FieldDone(f) == field' = [field EXCEPT ![f] = IdleRequest]

(* A gate crossing or a yard movement starts by reading the job it names. *)
FieldRead(f, j, kind) ==
  /\ field[f].pc = "idle"
  /\ jobs[j] # NoJob
  /\ field' = [field EXCEPT ![f] = [pc |-> "record", kind |-> kind, job |-> j,
                                    seen |-> jobs[j].status]]
  /\ UNCHANGED <<cargo, audit, jobs, history, facts, dispatch>>

IsMovement(kind) == kind \in {"YARD_PICKUP", "YARD_DROP"}

(* Faulty variant: the job is advanced without the fact. *)
FieldRecordNothing(f) ==
  /\ field[f].pc = "record"
  /\ FieldGoesTo(f, IF IsMovement(field[f].kind) /\ field[f].seen = "AT_GATE"
                    THEN "enter" ELSE "advance")
  /\ UNCHANGED <<cargo, audit, jobs, history, facts, dispatch>>

(* The fact is recorded whatever the job's status.  A movement goes through  *)
(* IN_YARD first when the job was AT_GATE as read.                           *)
FieldRecord(f) ==
  /\ field[f].pc = "record"
  /\ facts' = [facts EXCEPT ![field[f].job] = @ \cup {field[f].kind}]
  /\ FieldGoesTo(f, IF IsMovement(field[f].kind) /\ field[f].seen = "AT_GATE"
                    THEN "enter" ELSE "advance")
  /\ UNCHANGED <<cargo, audit, jobs, history, dispatch>>

(* A conflict here is swallowed and ends the request. *)
FieldEnterYard(f) ==
  /\ field[f].pc = "enter"
  /\ IF MayTransition(field[f].job, "IN_YARD")
     THEN Transition(field[f].job, "IN_YARD") /\ FieldGoesTo(f, "advance")
     ELSE UNCHANGED jobVars /\ FieldDone(f)
  /\ UNCHANGED <<cargo, audit, facts, dispatch>>

FieldAdvance(f) ==
  /\ field[f].pc = "advance"
  /\ LET target == FieldTarget[field[f].kind] IN
       IF MayTransition(field[f].job, target)
       THEN Transition(field[f].job, target)
       ELSE UNCHANGED jobVars
  /\ FieldDone(f)
  /\ UNCHANGED <<cargo, audit, facts, dispatch>>

(* The process dies between two transactions of the request. *)
FieldCrash(f) ==
  /\ field[f].pc # "idle"
  /\ FieldDone(f)
  /\ UNCHANGED <<cargo, audit, jobs, history, facts, dispatch>>

-----------------------------------------------------------------------------
(* The cargo row as the other services write it: created, deleted, its       *)
(* customs status changed.                                                   *)
CargoElsewhere(c) ==
  /\ \/ "create" \in CargoWrites /\ CreateTxn(c, "PENDING", FALSE)
     \/ "delete" \in CargoWrites /\ DeleteTxn(c)
     \/ "customs" \in CargoWrites
          /\ \E s \in CustomsStates : UpdateTxn(c, [NoPatch EXCEPT !.customs = s])
  /\ UNCHANGED <<jobs, history, facts, dispatch, field>>

JobStep ==
  \/ \E a \in Dispatchers :
       \/ \E o \in Orders : AssignStart(a, o)
       \/ AssignCheck(a)
       \/ AssignRefused(a)
       \/ \E j \in JobIds : AssignCreate(a, j)
  \/ \E j \in JobIds : AcceptJob(j) \/ CompleteJob(j) \/ CancelJob(j)
  \/ \E f \in FieldRequests :
       \/ \E j \in JobIds, kind \in FieldKinds : FieldRead(f, j, kind)
       \/ FieldRecord(f)
       \/ FieldEnterYard(f)
       \/ FieldAdvance(f)
  \/ \E c \in Containers : CargoElsewhere(c)

JobCrash == \E f \in Mortal : FieldCrash(f)

JobNext == JobStep \/ JobCrash

(* A server that does not die finishes the field requests it has started. *)
ContainerJobFairness ==
  \A f \in FieldRequests \ Mortal :
    WF_containerJobVars(FieldRecord(f) \/ FieldEnterYard(f) \/ FieldAdvance(f))

ContainerJobSpec ==
  ContainerJobInit /\ [][JobNext]_containerJobVars /\ ContainerJobFairness

-----------------------------------------------------------------------------
(* However dispatchers race and whatever happens to the jobs afterwards, a   *)
(* vehicle row, a container and a driver record are each on at most one open *)
(* job (the partial unique indexes, and no status change that reopens a job).*)
OneOpenJobEach ==
  \A i, j \in OpenJobs :
    i # j => /\ jobs[i].vehicle # jobs[j].vehicle
             /\ jobs[i].container # None => jobs[i].container # jobs[j].container
             /\ jobs[i].driver # None => jobs[i].driver # jobs[j].driver

(* What an open job occupies: its vehicle row and, where it names them, its  *)
(* container and its driver record.                                          *)
JobThings == ({"vehicle"} \X Vehicles) \cup ({"container"} \X Containers)
               \cup ({"driver"} \X Drivers)

Occupied(job) ==
  {<<"vehicle", job.vehicle>>, <<"container", job.container>>, <<"driver", job.driver>>}
    \ ({"container", "driver"} \X {None})

JobStage(j) ==
  IF jobs[j] = NoJob THEN "new" ELSE IF j \in OpenJobs THEN "holding" ELSE "done"

JobRegister == INSTANCE ExclusiveClaims WITH
  Owners <- JobIds,
  Things <- JobThings,
  stage  <- [j \in JobIds |-> JobStage(j)],
  claims <- [j \in JobIds |-> IF j \in OpenJobs THEN Occupied(jobs[j]) ELSE {}]

(* Though seven reads precede the insert and the status of a job changes in  *)
(* many ways, jobs share no truck row, container or driver record, a job     *)
(* occupies what it was assigned until it ends, and it ends once.            *)
ImplementsJobRegister == JobRegister!ClaimSpec

(* The history of a job explains its status: it starts at ASSIGNED, each row *)
(* is a legal move from the one before, and the last one is the status.      *)
HistoryExplainsStatus ==
  \A j \in JobIds :
    jobs[j] # NoJob =>
      /\ history[j] # <<>>
      /\ history[j][1] = "ASSIGNED"
      /\ history[j][Len(history[j])] = jobs[j].status
      /\ \A i \in 2..Len(history[j]) :
           history[j][i - 1] \in JobTransitions[history[j][i]]

(* A job is never ahead of the facts: it was at the gate only if a GATE_IN   *)
(* is on record, picked up or dropped only if that movement is, and complete *)
(* only if the truck came in through the gate.                               *)
StatusBackedByFacts ==
  \A j \in JobIds :
    LET reached == {history[j][i] : i \in 1..Len(history[j])} IN
      /\ "AT_GATE" \in reached \/ "COMPLETED" \in reached => "GATE_IN" \in facts[j]
      /\ "PICKED_UP" \in reached => "YARD_PICKUP" \in facts[j]
      /\ "DROPPED" \in reached => "YARD_DROP" \in facts[j]

(* No truck is dispatched against a box customs holds or examines, even when *)
(* the hold lands after the pre-flight check.                                *)
NoDispatchUnderHold ==
  [][\A j \in JobIds :
       jobs[j] = NoJob /\ jobs'[j] # NoJob /\ jobs'[j].container # None =>
         cargo[jobs'[j].container].customs \notin CUSTOMS_BLOCKS_RELEASE]_containerJobVars

(* One truck, known by its plate, is on at most one open job. *)
OneOpenJobPerTruck ==
  \A i, j \in OpenJobs : i # j => Plate[jobs[i].vehicle] # Plate[jobs[j].vehicle]

(* A crossing that reports a truck on its way in is not forgotten: the job   *)
(* is at the gate, or past it, or cancelled, in the end, unless its server   *)
(* dies.                                                                     *)
GateInTakesEffect ==
  \A f \in FieldRequests \ Mortal, j \in JobIds :
    (field[f].pc # "idle" /\ field[f].kind = "GATE_IN" /\ field[f].job = j)
      ~> jobs[j].status \notin {"ASSIGNED", "ACCEPTED"}

(* Entering the yard is implied by the first pickup: a pickup that is        *)
(* recorded for a truck standing at the gate does not leave it there.        *)
PickupEntersYard ==
  [][\A f \in FieldRequests :
       field[f].pc = "advance" /\ field'[f].pc = "idle"
         /\ field[f].kind = "YARD_PICKUP"
         => jobs'[field[f].job].status # "AT_GATE"]_containerJobVars

=============================================================================
