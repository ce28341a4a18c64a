---------------------------- MODULE CargoService ----------------------------
(***************************************************************************)
(* services.cargo.CargoService: the HTTP operations on one cargo record.   *)
(* An operation that is a single repository transaction is one action.  An *)
(* operation that runs several transactions (PUT, yard assignment, verify) *)
(* is a request r that keeps its progress and what it has read in req[r];  *)
(* any other request may commit between its steps.                         *)
(***************************************************************************)
EXTENDS CargoTable

CONSTANTS
  Requests,     (* in-flight multi-transaction requests *)
  Ops,          (* the operations that are offered *)
  Patches       (* the PUT bodies clients send *)

AllOps == {"create", "delete", "discharge", "pendency", "put", "yard",
           "position", "reefer", "rake", "verify", "release"}

ASSUME OpsAssumption == Ops \subseteq AllOps
ASSUME PatchesAssumption == Patches \subseteq Patch

VARIABLES
  req,          (* the progress of each in-flight request *)
  scanLog       (* core.cargo_scan_verification: the verdicts on record *)

serviceVars == <<req, scanLog>>
cargoServiceVars == <<cargo, audit, req, scanLog>>

(* pc names the transaction the request runs next. *)
Request == [pc    : {"write", "advance", "record"},
            c     : Containers,
            patch : Patch,
            flag  : BOOLEAN]   (* is_released as a PUT read it; a verdict *)

Idle == [pc |-> "idle"]

CargoServiceTypeOK ==
  /\ CargoTypeOK
  /\ req \in [Requests -> Request \cup {Idle}]
  /\ scanLog \in [Containers -> SUBSET BOOLEAN]

CargoServiceInit ==
  /\ CargoTableInit
  /\ req = [r \in Requests |-> Idle]
  /\ scanLog = [c \in Containers |-> {}]

(* The request has run a transaction and goes on with the one named by pc. *)
Suspend(r, pc, c, patch, flag) ==
  req' = [req EXCEPT ![r] = [pc |-> pc, c |-> c, patch |-> patch, flag |-> flag]]

Finish(r) == req' = [req EXCEPT ![r] = Idle]

-----------------------------------------------------------------------------
(* POST /api/cargo.  A body with is_released = true is refused before the    *)
(* INSERT, so a new row is never released.                                   *)
Create(c) ==
  /\ "create" \in Ops
  /\ \E customs \in CustomsStates, yard \in BOOLEAN : CreateTxn(c, customs, yard)
  /\ UNCHANGED serviceVars

Delete(c) ==
  /\ "delete" \in Ops
  /\ DeleteTxn(c)
  /\ UNCHANGED serviceVars

(* An advance along the state machine that touches no other column. *)
Advance(c, op, target) ==
  /\ op \in Ops
  /\ AdvanceTxn(c, target, AllowedPredecessors(target), NoPatch, {})
  /\ UNCHANGED serviceVars

Discharge(c)     == Advance(c, "discharge", "VESSEL_DISCHARGED")
RecordPendency(c) == Advance(c, "pendency", "PENDENCY")
PlanReefer(c)    == Advance(c, "reefer", "REEFER_PLANNED")
PlanRake(c)      == Advance(c, "rake", "RAKE_ASSIGNED")

AllocateYardPosition(c) ==
  /\ "position" \in Ops
  /\ AdvanceTxn(c, "YARD_POSITION_ALLOCATED", YardPositionFrom, NoPatch, {})
  /\ UNCHANGED serviceVars

(* POST /api/cargo/{c}/release: lifecycle, is_released and both gates in one  *)
(* transaction.                                                              *)
Release(c) ==
  /\ "release" \in Ops
  /\ AdvanceTxn(c, "RELEASED", AllowedPredecessors("RELEASED"),
                [NoPatch EXCEPT !.released = "true"], CUSTOMS_BLOCKS_RELEASE)
  /\ UNCHANGED serviceVars

-----------------------------------------------------------------------------
(* PUT /api/cargo/{c}: read a snapshot (no lock), then write.  A release of  *)
(* a container that is not there is a 404 here, any other patch at the write.*)
PutRead(r, c, patch) ==
  /\ "put" \in Ops
  /\ req[r].pc = "idle"
  /\ cargo[c].present \/ patch.released # "true"
  /\ Suspend(r, "write", c, patch, cargo[c].released)
  /\ UNCHANGED <<cargo, audit, scanLog>>

(* Faulty variant: a PUT never counts as a release, so it never meets a gate. *)
ReleasingNever(r) == FALSE

(* The snapshot decides that this PUT is a release. *)
Releasing(r) == req[r].patch.released = "true" /\ ~ req[r].flag

PutRelease(r) ==
  AdvanceTxn(req[r].c, "RELEASED", AllowedPredecessors("RELEASED"),
             req[r].patch, CUSTOMS_BLOCKS_RELEASE)

PutUpdate(r) == UpdateTxn(req[r].c, req[r].patch)

PutWrite(r) ==
  /\ req[r].pc = "write"
  /\ \/ Releasing(r) /\ PutRelease(r)
     \/ ~ Releasing(r) /\ PutUpdate(r)
  /\ Finish(r)
  /\ UNCHANGED scanLog

(* 404, or a 409 from one of the two gates: nothing is written. *)
PutRefused(r) ==
  /\ req[r].pc = "write"
  /\ ~ IF Releasing(r)
       THEN MayAdvance(req[r].c, AllowedPredecessors("RELEASED"),
                       req[r].patch, CUSTOMS_BLOCKS_RELEASE)
       ELSE cargo[req[r].c].present
  /\ Finish(r)
  /\ UNCHANGED <<cargo, audit, scanLog>>

-----------------------------------------------------------------------------
(* PUT /api/cargo/{c}/yard-assignment: yard_block in one transaction, then a *)
(* best-effort advance in another.                                           *)
YardWrite(r, c) ==
  /\ "yard" \in Ops
  /\ req[r].pc = "idle"
  /\ UpdateTxn(c, [NoPatch EXCEPT !.yard = "set"])
  /\ Suspend(r, "advance", c, NoPatch, FALSE)
  /\ UNCHANGED scanLog

MayYardAdvance(c) == MayAdvance(c, YardAssignFrom, NoPatch, {})

YardAdvance(r) ==
  /\ req[r].pc = "advance"
  /\ IF MayYardAdvance(req[r].c)
     THEN AdvanceTxn(req[r].c, "YARD_ASSIGNED", YardAssignFrom, NoPatch, {})
     ELSE UNCHANGED cargoVars
  /\ Finish(r)
  /\ UNCHANGED scanLog

-----------------------------------------------------------------------------
(* POST /api/cargo/{c}/verify with verified = true: the advance in one       *)
(* transaction, the verification record in another.                          *)
VerifyAdvance(r, c) ==
  /\ "verify" \in Ops
  /\ req[r].pc = "idle"
  /\ AdvanceTxn(c, "VERIFIED", AllowedPredecessors("VERIFIED"), NoPatch, {})
  /\ Suspend(r, "record", c, NoPatch, TRUE)
  /\ UNCHANGED scanLog

(* verified = false: the container must exist; only the record is written. *)
VerifyFailed(r, c) ==
  /\ "verify" \in Ops
  /\ req[r].pc = "idle"
  /\ cargo[c].present
  /\ Suspend(r, "record", c, NoPatch, FALSE)
  /\ UNCHANGED <<cargo, audit, scanLog>>

VerifyRecord(r) ==
  /\ req[r].pc = "record"
  /\ scanLog' = [scanLog EXCEPT ![req[r].c] = @ \cup {req[r].flag}]
  /\ Finish(r)
  /\ UNCHANGED cargoVars

-----------------------------------------------------------------------------
(* The process serving r dies, or its connection is lost, between two        *)
(* transactions: what is committed stays, the rest never happens.            *)
Crash(r) ==
  /\ req[r].pc # "idle"
  /\ Finish(r)
  /\ UNCHANGED <<cargo, audit, scanLog>>

CargoStep ==
  \/ \E c \in Containers :
       \/ Create(c) \/ Delete(c) \/ Discharge(c) \/ RecordPendency(c)
       \/ PlanReefer(c) \/ PlanRake(c) \/ AllocateYardPosition(c)
       \/ Release(c)
  \/ \E r \in Requests, c \in Containers :
       \/ YardWrite(r, c)
       \/ VerifyAdvance(r, c)
       \/ VerifyFailed(r, c)
       \/ \E patch \in Patches : PutRead(r, c, patch)
  \/ \E r \in Requests :
       \/ PutWrite(r) \/ PutRefused(r) \/ YardAdvance(r) \/ VerifyRecord(r)

CargoCrash == \E r \in Requests : Crash(r)

CargoNext == CargoStep \/ CargoCrash

(* Requests may die. *)
CargoSpec == CargoServiceInit /\ [][CargoNext]_cargoServiceVars

(* No request dies, and the server finishes what it has started. *)
CargoFairness ==
  \A r \in Requests :
    /\ WF_cargoServiceVars(PutWrite(r) \/ PutRefused(r))
    /\ WF_cargoServiceVars(YardAdvance(r))
    /\ WF_cargoServiceVars(VerifyRecord(r))

CargoFairSpec ==
  CargoServiceInit /\ [][CargoStep]_cargoServiceVars /\ CargoFairness

-----------------------------------------------------------------------------
(* Read in order, the audit log is a chain: each row starts at the state the *)
(* previous one ended in, a CREATE starts afresh.  Only the first row of a   *)
(* legacy container, whose log is empty, starts from an inferred state.      *)
AuditIsAChain ==
  [][\A c \in Containers :
       audit'[c] # audit[c] =>
         \/ audit'[c].old = "NONE"
         \/ audit'[c].old = audit[c].new
         \/ cargo[c].lifecycle = "NULL"]_cargoServiceVars

(* "The update and the audit insert share one transaction": the log is a     *)
(* chain, and it ends in the state the row is in.                            *)
AuditIsFaithful == []AuditMatchesRow /\ AuditIsAChain

(* is_released never claims a release the state machine has not made: the    *)
(* pair (is_released, not RELEASED) that migration 0115 had to repair.       *)
FlagImpliesReleased ==
  \A c \in Containers : cargo[c].released => Effective(cargo[c]) = "RELEASED"

(* Once a container's column is set, only a forward move changes it, no      *)
(* mandatory gate is passed by, but for the discharge when a container is    *)
(* assigned a yard (assign_yard takes CREATED), and RELEASED is final; the   *)
(* one way back is to delete the record.                                     *)
LifecycleForwardOnly ==
  [][\A c \in Containers :
       LET from == Effective(cargo[c])
           to   == Effective(cargo'[c])
       IN /\ cargo[c].present /\ cargo'[c].present
          /\ cargo[c].lifecycle # "NULL"
          /\ from # to
          => /\ Rank[from] < Rank[to]
             /\ \A m \in MandatoryStates : Rank[from] < Rank[m] /\ Rank[m] < Rank[to]
                  => m = "VESSEL_DISCHARGED" /\ to = "YARD_ASSIGNED"]_cargoServiceVars

(* A container customs is holding or examining is never released, by         *)
(* POST /release or by PUT, whatever the request had read before.            *)
NoReleaseUnderHold ==
  [][\A c \in Containers :
       cargo'[c].lifecycle = "RELEASED" /\ cargo[c].lifecycle # "RELEASED"
         => cargo'[c].customs \notin CUSTOMS_BLOCKS_RELEASE]_cargoServiceVars

(* A container that reached VERIFIED has a passed verification on record, or *)
(* the request that verified it is still about to write it (no crashes).     *)
VerifiedIsRecorded ==
  \A c \in Containers :
    cargo[c].lifecycle \in {"VERIFIED", "RELEASED"}
      => \/ TRUE \in scanLog[c]
         \/ \E r \in Requests :
              req[r].pc = "record" /\ req[r].c = c /\ req[r].flag

(* A yard assignment that has written yard_block eventually has the container *)
(* at YARD_ASSIGNED or beyond, whichever state it found it in, unless the     *)
(* record is deleted meanwhile.                                              *)
YardAssignmentTakesEffect ==
  \A r \in Requests, c \in Containers :
    (req[r].pc = "advance" /\ req[r].c = c)
      ~> (\/ ~ cargo[c].present
          \/ Rank[Effective(cargo[c])] >= Rank["YARD_ASSIGNED"])

(* The gate a release passes, as customs sees it: CargoService implements     *)
(* ReleaseGate.  A legacy row whose column is unset is open: its is_released *)
(* is a plain column, which a PUT may clear again.                           *)
Phase(row) ==
  IF ~ row.present THEN "absent"
  ELSE IF row.lifecycle = "RELEASED" THEN "released"
  ELSE IF row.lifecycle = "VERIFIED" THEN "verified"
  ELSE "open"

Gate == INSTANCE ReleaseGate WITH
  phase <- [c \in Containers |-> Phase(cargo[c])],
  held  <- [c \in Containers |-> cargo[c].customs \in CUSTOMS_BLOCKS_RELEASE]

(* No interleaving, crash or stale snapshot lets a container out without the *)
(* verification, under a hold, or twice.                                     *)
ImplementsReleaseGate == Gate!GateSpec

=============================================================================
