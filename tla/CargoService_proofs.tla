------------------------ MODULE CargoService_proofs -------------------------
(***************************************************************************)
(* Proofs about CargoService for every set of containers, requests, legacy *)
(* rows, offered operations and PUT bodies.                                *)
(***************************************************************************)
EXTENDS CargoService, TLAPS

(* The transactions keep the tables well typed. *)
LEMMA PatchedType ==
  ASSUME NEW row \in Row, NEW patch \in Patch
  PROVE  Patched(row, patch) \in Row
  BY DEF Row, Patch, Patched, CustomsStates

LEMMA EffectiveType ==
  ASSUME NEW row \in Row
  PROVE  Effective(row) \in Lifecycles \ {"NULL"}
  BY DEF Row, Effective, Lifecycles, ImportStates

LEMMA NoPatchType == NoPatch \in Patch /\ [NoPatch EXCEPT !.released = "true"] \in Patch
                       /\ [NoPatch EXCEPT !.yard = "set"] \in Patch
  BY DEF NoPatch, Patch

LEMMA AbsentRowType == AbsentRow \in Row /\ ~ AbsentRow.present
  BY DEF AbsentRow, Row, Lifecycles, CustomsStates

LEMMA TxnType ==
  ASSUME CargoTypeOK, NEW c \in Containers
  PROVE  /\ \A customs \in CustomsStates, yard \in BOOLEAN :
              CreateTxn(c, customs, yard) => CargoTypeOK'
         /\ DeleteTxn(c) => CargoTypeOK'
         /\ \A patch \in Patch : UpdateTxn(c, patch) => CargoTypeOK'
         /\ \A patch \in Patch, target \in ImportStates :
              \A from, blocked :
                AdvanceTxn(c, target, from, patch, blocked) => CargoTypeOK'
<1>1. ASSUME NEW customs \in CustomsStates, NEW yard \in BOOLEAN,
             CreateTxn(c, customs, yard)
      PROVE  CargoTypeOK'
  BY <1>1 DEF CargoTypeOK, CreateTxn, Row, AuditRow, Lifecycles, ImportStates
<1>2. ASSUME DeleteTxn(c) PROVE CargoTypeOK'
  BY <1>2, AbsentRowType DEF CargoTypeOK, DeleteTxn
<1>3. ASSUME NEW patch \in Patch, UpdateTxn(c, patch) PROVE CargoTypeOK'
  BY <1>3, PatchedType DEF CargoTypeOK, UpdateTxn
<1>4. ASSUME NEW patch \in Patch, NEW target \in ImportStates, NEW from, NEW blocked,
             AdvanceTxn(c, target, from, patch, blocked)
      PROVE  CargoTypeOK'
  <2>1. Patched(cargo[c], patch) \in Row
    BY PatchedType DEF CargoTypeOK
  <2>2. [Patched(cargo[c], patch) EXCEPT !.lifecycle = target] \in Row
    BY <2>1 DEF Row, Lifecycles
  <2>3. [old |-> Effective(cargo[c]), new |-> target] \in AuditRow
    BY EffectiveType DEF CargoTypeOK, AuditRow, Lifecycles
  <2>4. QED
    BY <1>4, <2>2, <2>3 DEF CargoTypeOK, AdvanceTxn
<1>5. QED
  BY <1>1, <1>2, <1>3, <1>4

(* The ends of the ranking: only VERIFIED precedes RELEASED, RELEASED        *)
(* precedes nothing, and nothing but RELEASED comes after VERIFIED.          *)
LEMMA RankEnds ==
  /\ AllowedPredecessors("RELEASED") = {"VERIFIED"}
  /\ \A target \in ImportStates :
       AllowedPredecessors(target) \in SUBSET ImportStates
  /\ \A target \in ImportStates \ {"RELEASED"} :
       /\ "VERIFIED" \notin AllowedPredecessors(target)
       /\ "RELEASED" \notin AllowedPredecessors(target)
<1>1. /\ \A s \in ImportStates : Rank[s] \in Nat
      /\ Rank["VERIFIED"] = 30 /\ Rank["RELEASED"] = 40
      /\ \A s \in ImportStates \ {"VERIFIED", "RELEASED"} : Rank[s] < 30
  BY DEF Rank, ImportStates
<1>2. {"VERIFIED", "RELEASED"} \in SUBSET (ImportStates \cap MandatoryStates)
  BY DEF ImportStates, MandatoryStates
<1>3. \A m \in MandatoryStates : m \in ImportStates
  BY DEF ImportStates, MandatoryStates
<1>4. AllowedPredecessors("RELEASED") = {"VERIFIED"}
  <2>1. CanTransition("VERIFIED", "RELEASED")
    <3>1. ASSUME NEW m \in MandatoryStates
          PROVE  ~ (Rank["VERIFIED"] < Rank[m] /\ Rank[m] < Rank["RELEASED"])
      BY <1>1, <1>2, <1>3
    <3>2. QED
      BY <1>1, <1>2, <3>1 DEF CanTransition
  <2>2. ASSUME NEW s \in ImportStates, CanTransition(s, "RELEASED")
        PROVE  s = "VERIFIED"
    BY <1>1, <1>2, <2>2 DEF CanTransition
  <2>3. QED
    BY <1>2, <2>1, <2>2 DEF AllowedPredecessors
<1>5. ASSUME NEW target \in ImportStates \ {"RELEASED"}
      PROVE  ~ CanTransition("VERIFIED", target) /\ ~ CanTransition("RELEASED", target)
  BY <1>1, <1>2 DEF CanTransition
<1>6. QED
  BY <1>4, <1>5 DEF AllowedPredecessors

LEMMA FromSets ==
  \A from \in {YardAssignFrom, YardPositionFrom} :
    /\ from \in SUBSET ImportStates
    /\ "VERIFIED" \notin from
    /\ "RELEASED" \notin from
  BY DEF YardAssignFrom, YardPositionFrom, ImportStates

(* No rank is lost between two states, and no gate is jumped but the         *)
(* discharge, on the way to a yard.                                          *)
Forward(from, to) ==
  /\ Rank[from] < Rank[to]
  /\ \A m \in MandatoryStates : Rank[from] < Rank[m] /\ Rank[m] < Rank[to]
                                => m = "VESSEL_DISCHARGED" /\ to = "YARD_ASSIGNED"

(* Every set of predecessors an operation names lies behind its target.      *)
LEMMA FromsGoForward ==
  /\ \A target \in ImportStates : \A s \in AllowedPredecessors(target) : Forward(s, target)
  /\ \A s \in YardAssignFrom : Forward(s, "YARD_ASSIGNED")
  /\ \A s \in YardPositionFrom :
       s # "YARD_POSITION_ALLOCATED" => Forward(s, "YARD_POSITION_ALLOCATED")
<1>1. \A target \in ImportStates : \A s \in AllowedPredecessors(target) : Forward(s, target)
  BY DEF AllowedPredecessors, CanTransition, Forward, MandatoryStates
<1>2. /\ Rank["CREATED"] = 0 /\ Rank["VESSEL_DISCHARGED"] = 10 /\ Rank["PENDENCY"] = 15
      /\ Rank["YARD_ASSIGNED"] = 20 /\ Rank["YARD_POSITION_ALLOCATED"] = 21
      /\ Rank["VERIFIED"] = 30 /\ Rank["RELEASED"] = 40
  BY DEF Rank, ImportStates
<1>3. QED
  BY <1>1, <1>2 DEF YardAssignFrom, YardPositionFrom, Forward, MandatoryStates

-----------------------------------------------------------------------------
(* What one step may do to the tables: nothing, or one transaction on one    *)
(* container.  Every proof below splits on this disjunction only.            *)
WriterSaw(c) ==
  \E r \in Requests : req[r].pc = "write" /\ req[r].c = c /\ req[r].flag

AdvanceOf(c) ==
  \E patch \in Patch, target \in ImportStates,
     from \in SUBSET ImportStates, blocked \in SUBSET CustomsStates :
    /\ AdvanceTxn(c, target, from, patch, blocked)
    /\ target # "RELEASED" =>
         patch = NoPatch /\ "VERIFIED" \notin from /\ "RELEASED" \notin from
    /\ target = "RELEASED" =>
         from = {"VERIFIED"} /\ blocked = CUSTOMS_BLOCKS_RELEASE
    /\ \A s \in from : s # target => Forward(s, target)
    /\ target = "VERIFIED" => \E r \in Requests : VerifyAdvance(r, c)

UpdateOf(c) ==
  \E patch \in Patch :
    UpdateTxn(c, patch) /\ (patch.released = "true" => WriterSaw(c))

TableStep(c) ==
  \/ \E customs \in CustomsStates, yard \in BOOLEAN : CreateTxn(c, customs, yard)
  \/ "delete" \in Ops /\ DeleteTxn(c)
  \/ UpdateOf(c)
  \/ AdvanceOf(c)

LEMMA AdvanceIsTableStep ==
  ASSUME NEW c \in Containers, NEW op, NEW target \in ImportStates \ {"RELEASED", "VERIFIED"},
         Advance(c, op, target)
  PROVE  AdvanceOf(c)
  BY RankEnds, FromsGoForward, NoPatchType DEF Advance, AdvanceOf

LEMMA StepIsTableStep ==
  ASSUME CargoServiceTypeOK, [CargoNext]_cargoServiceVars
  PROVE  UNCHANGED cargoVars \/ \E c \in Containers : TableStep(c)
<1> DEFINE Goal == UNCHANGED cargoVars \/ \E c \in Containers : TableStep(c)
<1>a. {} \in SUBSET CustomsStates /\ CUSTOMS_BLOCKS_RELEASE \in SUBSET CustomsStates
  BY DEF CUSTOMS_BLOCKS_RELEASE, CustomsStates
<1>b. \A r \in Requests : req[r].pc # "idle" => req[r] \in Request
  BY DEF CargoServiceTypeOK, Idle
<1>1. ASSUME NEW c \in Containers, Create(c) PROVE Goal
  BY <1>1 DEF Create, TableStep
<1>2. ASSUME NEW c \in Containers, Delete(c) PROVE Goal
  BY <1>2 DEF Delete, TableStep
<1>3. ASSUME NEW c \in Containers,
             Discharge(c) \/ RecordPendency(c) \/ PlanReefer(c) \/ PlanRake(c)
      PROVE  Goal
  BY <1>3, AdvanceIsTableStep
     DEF Discharge, RecordPendency, PlanReefer, PlanRake, TableStep, ImportStates
<1>4. ASSUME NEW c \in Containers, AllocateYardPosition(c) PROVE Goal
  <2>1. "YARD_POSITION_ALLOCATED" \in ImportStates \ {"RELEASED"}
    BY DEF ImportStates
  <2>2. AdvanceOf(c)
    BY <1>4, <1>a, <2>1, FromSets, FromsGoForward, NoPatchType DEF AllocateYardPosition, AdvanceOf
  <2>3. QED
    BY <2>2 DEF TableStep
<1>5. ASSUME NEW c \in Containers, Release(c) PROVE Goal
  <2>1. "RELEASED" \in ImportStates
    BY DEF ImportStates
  <2>2. AdvanceOf(c)
    BY <1>5, <1>a, <2>1, RankEnds, FromsGoForward, NoPatchType DEF Release, AdvanceOf
  <2>3. QED
    BY <2>2 DEF TableStep
<1>6. ASSUME NEW r \in Requests, PutWrite(r) PROVE Goal
  <2>1. req[r] \in Request
    BY <1>6, <1>b DEF PutWrite
  <2>2. CASE Releasing(r) /\ PutRelease(r)
    <3>1. "RELEASED" \in ImportStates
      BY DEF ImportStates
    <3>2. AdvanceOf(req[r].c)
      BY <2>1, <2>2, <1>a, <3>1, RankEnds, FromsGoForward DEF PutRelease, AdvanceOf, Request
    <3>3. QED
      BY <2>1, <3>2 DEF TableStep, Request
  <2>3. CASE ~ Releasing(r) /\ PutUpdate(r)
    <3>1. req[r].patch.released = "true" => WriterSaw(req[r].c)
      BY <1>6, <2>3 DEF PutWrite, Releasing, WriterSaw
    <3>2. UpdateOf(req[r].c)
      BY <2>1, <2>3, <3>1 DEF PutUpdate, UpdateOf, Request
    <3>3. QED
      BY <2>1, <3>2 DEF TableStep, Request
  <2>4. QED
    BY <1>6, <2>2, <2>3 DEF PutWrite
<1>7. ASSUME NEW r \in Requests, NEW c \in Containers, YardWrite(r, c) PROVE Goal
  <2>1. UpdateOf(c)
    BY <1>7, NoPatchType DEF YardWrite, UpdateOf, NoPatch
  <2>2. QED
    BY <2>1 DEF TableStep
<1>8. ASSUME NEW r \in Requests, YardAdvance(r) PROVE Goal
  <2>1. req[r] \in Request
    BY <1>8, <1>b DEF YardAdvance
  <2>2. CASE MayYardAdvance(req[r].c)
    <3>1. "YARD_ASSIGNED" \in ImportStates \ {"RELEASED"}
      BY DEF ImportStates
    <3>2. AdvanceOf(req[r].c)
      BY <1>8, <2>1, <2>2, <1>a, <3>1, FromSets, FromsGoForward, NoPatchType DEF YardAdvance, AdvanceOf
    <3>3. QED
      BY <2>1, <3>2 DEF TableStep, Request
  <2>3. CASE ~ MayYardAdvance(req[r].c)
    BY <1>8, <2>3 DEF YardAdvance
  <2>4. QED
    BY <2>2, <2>3
<1>9. ASSUME NEW r \in Requests, NEW c \in Containers, VerifyAdvance(r, c) PROVE Goal
  <2>1. "VERIFIED" \in ImportStates \ {"RELEASED"}
    BY DEF ImportStates
  <2>2. AdvanceOf(c)
    <3>1. AdvanceTxn(c, "VERIFIED", AllowedPredecessors("VERIFIED"), NoPatch, {})
      BY <1>9 DEF VerifyAdvance
    <3>2. /\ AllowedPredecessors("VERIFIED") \in SUBSET ImportStates
          /\ "VERIFIED" \notin AllowedPredecessors("VERIFIED")
          /\ "RELEASED" \notin AllowedPredecessors("VERIFIED")
          /\ \A s \in AllowedPredecessors("VERIFIED") : Forward(s, "VERIFIED")
      BY <2>1, RankEnds, FromsGoForward
    <3>3. QED
      BY <1>9, <1>a, <2>1, <3>1, <3>2, NoPatchType DEF AdvanceOf
  <2>3. QED
    BY <2>2 DEF TableStep
<1>10. ASSUME NEW r \in Requests, NEW c \in Containers,
              VerifyFailed(r, c) \/ \E patch \in Patches : PutRead(r, c, patch)
       PROVE  Goal
  BY <1>10 DEF VerifyFailed, PutRead, cargoVars
<1>11. ASSUME NEW r \in Requests, PutRefused(r) \/ VerifyRecord(r) \/ Crash(r)
       PROVE  Goal
  BY <1>11 DEF PutRefused, VerifyRecord, Crash, cargoVars
<1>12. CASE UNCHANGED cargoServiceVars
  BY <1>12 DEF cargoServiceVars, cargoVars
<1>13. QED
  BY <1>1, <1>2, <1>3, <1>4, <1>5, <1>6, <1>7, <1>8, <1>9, <1>10, <1>11, <1>12
     DEF CargoNext, CargoStep, CargoCrash

-----------------------------------------------------------------------------
(* Type correctness. *)
LEMMA TableStepType ==
  ASSUME CargoTypeOK, NEW c \in Containers, TableStep(c)
  PROVE  CargoTypeOK'
  BY TxnType DEF TableStep, UpdateOf, AdvanceOf

LEMMA RequestsStepType ==
  ASSUME CargoServiceTypeOK, [CargoNext]_cargoServiceVars
  PROVE  /\ req' \in [Requests -> Request \cup {Idle}]
         /\ scanLog' \in [Containers -> SUBSET BOOLEAN]
<1> DEFINE Goal == /\ req' \in [Requests -> Request \cup {Idle}]
                   /\ scanLog' \in [Containers -> SUBSET BOOLEAN]
<1>1. req \in [Requests -> Request \cup {Idle}] /\ scanLog \in [Containers -> SUBSET BOOLEAN]
  BY DEF CargoServiceTypeOK
<1>2. ASSUME NEW r \in Requests, Finish(r)
      PROVE  req' \in [Requests -> Request \cup {Idle}]
  BY <1>1, <1>2 DEF Finish
<1>3. ASSUME NEW r \in Requests, NEW c \in Containers, NEW patch \in Patch,
             NEW flag \in BOOLEAN, NEW pc \in {"write", "advance", "record"},
             Suspend(r, pc, c, patch, flag)
      PROVE  req' \in [Requests -> Request \cup {Idle}]
  BY <1>1, <1>3 DEF Suspend, Request
<1>4. ASSUME NEW c \in Containers,
             \/ Create(c) \/ Delete(c) \/ Discharge(c) \/ RecordPendency(c)
             \/ PlanReefer(c) \/ PlanRake(c) \/ AllocateYardPosition(c) \/ Release(c)
      PROVE  Goal
  BY <1>1, <1>4 DEF Create, Delete, Discharge, RecordPendency, PlanReefer, PlanRake,
     Advance, AllocateYardPosition, Release, serviceVars
<1>5. ASSUME NEW r \in Requests, NEW c \in Containers,
             YardWrite(r, c) \/ VerifyAdvance(r, c) \/ VerifyFailed(r, c)
      PROVE  Goal
  <2>1. NoPatch \in Patch
    BY NoPatchType
  <2>2. CASE YardWrite(r, c)
    <3>1. Suspend(r, "advance", c, NoPatch, FALSE) /\ UNCHANGED scanLog
      BY <2>2 DEF YardWrite
    <3>2. QED
      BY <1>1, <1>3, <2>1, <3>1
  <2>3. CASE VerifyAdvance(r, c)
    <3>1. Suspend(r, "record", c, NoPatch, TRUE) /\ UNCHANGED scanLog
      BY <2>3 DEF VerifyAdvance
    <3>2. QED
      BY <1>1, <1>3, <2>1, <3>1
  <2>4. CASE VerifyFailed(r, c)
    <3>1. Suspend(r, "record", c, NoPatch, FALSE) /\ UNCHANGED scanLog
      BY <2>4 DEF VerifyFailed
    <3>2. QED
      BY <1>1, <1>3, <2>1, <3>1
  <2>5. QED
    BY <1>5, <2>2, <2>3, <2>4
<1>6. ASSUME NEW r \in Requests, NEW c \in Containers, NEW patch \in Patches,
             PutRead(r, c, patch)
      PROVE  Goal
  <2>1. patch \in Patch
    BY PatchesAssumption
  <2>2. cargo[c].released \in BOOLEAN
    BY DEF CargoServiceTypeOK, CargoTypeOK, Row
  <2>3. Suspend(r, "write", c, patch, cargo[c].released) /\ UNCHANGED scanLog
    BY <1>6 DEF PutRead
  <2>4. QED
    BY <1>1, <1>3, <2>1, <2>2, <2>3
<1>7. ASSUME NEW r \in Requests,
             PutWrite(r) \/ PutRefused(r) \/ YardAdvance(r) \/ Crash(r)
      PROVE  Goal
  <2>1. Finish(r) /\ UNCHANGED scanLog
    BY <1>7 DEF PutWrite, PutRefused, YardAdvance, Crash
  <2>2. QED
    BY <1>1, <1>2, <2>1
<1>8. ASSUME NEW r \in Requests, VerifyRecord(r) PROVE Goal
  <2>1. req[r] \in Request
    BY <1>1, <1>8 DEF VerifyRecord, Idle
  <2>2. req[r].c \in Containers /\ req[r].flag \in BOOLEAN
    BY <2>1 DEF Request
  <2>3. scanLog' \in [Containers -> SUBSET BOOLEAN]
    BY <1>1, <1>8, <2>2 DEF VerifyRecord
  <2>4. QED
    BY <1>2, <1>8, <2>3 DEF VerifyRecord
<1>9. CASE UNCHANGED cargoServiceVars
  BY <1>1, <1>9 DEF cargoServiceVars
<1>10. QED
  BY <1>4, <1>5, <1>6, <1>7, <1>8, <1>9 DEF CargoNext, CargoStep, CargoCrash

LEMMA CargoInitType == CargoServiceInit => CargoServiceTypeOK
<1> SUFFICES ASSUME CargoServiceInit PROVE CargoServiceTypeOK
  OBVIOUS
<1>1. cargo \in [Containers -> Row]
  BY LegacyRowsAssumption, AbsentRowType DEF CargoServiceInit, CargoTableInit
<1>2. audit \in [Containers -> AuditRow]
  BY DEF CargoServiceInit, CargoTableInit, NoAudit, AuditRow
<1>3. QED
  BY <1>1, <1>2 DEF CargoServiceInit, CargoServiceTypeOK, CargoTypeOK

LEMMA CargoStepType ==
  ASSUME CargoServiceTypeOK, [CargoNext]_cargoServiceVars
  PROVE  CargoServiceTypeOK'
<1>1. CASE UNCHANGED cargoVars
  BY <1>1, RequestsStepType DEF cargoVars, CargoServiceTypeOK, CargoTypeOK
<1>2. CASE \E c \in Containers : TableStep(c)
  BY <1>2, TableStepType, RequestsStepType DEF CargoServiceTypeOK
<1>3. QED
  BY <1>1, <1>2, StepIsTableStep

(* Every reachable state is well typed: no transaction, and no request cut   *)
(* short, ever stores a value outside a column's domain.                     *)
THEOREM CargoTypeCorrect == CargoSpec => []CargoServiceTypeOK
<1>1. CargoServiceTypeOK /\ [CargoNext]_cargoServiceVars => CargoServiceTypeOK'
  BY CargoStepType
<1>2. QED
  BY <1>1, CargoInitType, PTL DEF CargoSpec

-----------------------------------------------------------------------------
(***************************************************************************)
(* The safety of the audit log and of the release.  All of it follows from *)
(* StepIsTableStep: a step runs at most one transaction on one container.  *)
(***************************************************************************)
(* Type correctness and the audit log, the invariant the others rest on. *)
AuditInv == CargoServiceTypeOK /\ AuditMatchesRow

(* The effects of one transaction on the row it touches; it touches no other. *)
LEMMA TableStepFrame ==
  ASSUME CargoTypeOK, NEW c \in Containers, TableStep(c)
  PROVE  \A d \in Containers \ {c} : cargo'[d] = cargo[d] /\ audit'[d] = audit[d]
  BY DEF CargoTypeOK, TableStep, CreateTxn, DeleteTxn, UpdateOf, UpdateTxn,
         AdvanceOf, AdvanceTxn

LEMMA CreateEffect ==
  ASSUME CargoTypeOK, NEW c \in Containers,
         NEW customs \in CustomsStates, NEW yard \in BOOLEAN,
         CreateTxn(c, customs, yard)
  PROVE  /\ ~ cargo[c].present
         /\ cargo'[c].present /\ cargo'[c].lifecycle = "CREATED"
         /\ cargo'[c].customs = customs /\ ~ cargo'[c].released
         /\ audit'[c] = [old |-> "NONE", new |-> "CREATED"]
  BY DEF CargoTypeOK, CreateTxn

LEMMA UpdateEffect ==
  ASSUME CargoTypeOK, NEW c \in Containers, UpdateOf(c)
  PROVE  /\ cargo[c].present /\ cargo'[c].present
         /\ cargo'[c].lifecycle = cargo[c].lifecycle
         /\ audit' = audit
         /\ cargo'[c].released => cargo[c].released \/ WriterSaw(c)
  BY DEF CargoTypeOK, Row, UpdateOf, UpdateTxn, Patched

LEMMA AdvanceEffect ==
  ASSUME CargoTypeOK, NEW c \in Containers, AdvanceOf(c)
  PROVE  /\ cargo[c].present /\ cargo'[c].present
         /\ cargo'[c].lifecycle \in ImportStates
         /\ audit'[c].old = Effective(cargo[c])
         /\ audit'[c].new = cargo'[c].lifecycle
         /\ Effective(cargo[c]) # "RELEASED"
         /\ cargo'[c].lifecycle # "RELEASED" =>
              /\ cargo'[c].released = cargo[c].released
              /\ cargo'[c].customs = cargo[c].customs
              /\ Effective(cargo[c]) # "VERIFIED"
         /\ cargo'[c].lifecycle = "RELEASED" =>
              /\ Effective(cargo[c]) = "VERIFIED"
              /\ cargo'[c].customs \notin CUSTOMS_BLOCKS_RELEASE
         /\ Effective(cargo[c]) # cargo'[c].lifecycle =>
              Forward(Effective(cargo[c]), cargo'[c].lifecycle)
         /\ cargo'[c].lifecycle = "VERIFIED" => \E r \in Requests : VerifyAdvance(r, c)
<1>1. PICK patch \in Patch, target \in ImportStates,
           from \in SUBSET ImportStates, blocked \in SUBSET CustomsStates :
        /\ AdvanceTxn(c, target, from, patch, blocked)
        /\ target # "RELEASED" =>
             patch = NoPatch /\ "VERIFIED" \notin from /\ "RELEASED" \notin from
        /\ target = "RELEASED" =>
             from = {"VERIFIED"} /\ blocked = CUSTOMS_BLOCKS_RELEASE
        /\ \A s \in from : s # target => Forward(s, target)
        /\ target = "VERIFIED" => \E r \in Requests : VerifyAdvance(r, c)
  BY DEF AdvanceOf
<1>2. cargo[c] \in Row
  BY DEF CargoTypeOK
<1>3. Patched(cargo[c], patch) \in Row
  BY <1>2, PatchedType
<1>4. cargo'[c] = [Patched(cargo[c], patch) EXCEPT !.lifecycle = target]
  BY <1>1 DEF AdvanceTxn, CargoTypeOK
<1>5. /\ cargo'[c].lifecycle = target
      /\ cargo'[c].present = Patched(cargo[c], patch).present
      /\ cargo'[c].customs = Patched(cargo[c], patch).customs
      /\ cargo'[c].released = Patched(cargo[c], patch).released
  BY <1>3, <1>4 DEF Row
<1>6. audit'[c] = [old |-> Effective(cargo[c]), new |-> target]
  BY <1>1 DEF AdvanceTxn, CargoTypeOK
<1>7. cargo[c].present /\ cargo'[c].present
  BY <1>1, <1>2, <1>5 DEF AdvanceTxn, MayAdvance, Patched, Row
<1>8. Effective(cargo[c]) \in from /\ cargo'[c].customs \notin blocked
  BY <1>1, <1>5 DEF AdvanceTxn, MayAdvance
<1>9. patch = NoPatch => /\ cargo'[c].released = cargo[c].released
                         /\ cargo'[c].customs = cargo[c].customs
  BY <1>2, <1>5 DEF NoPatch, Patched, Row
<1>10. QED
  BY <1>1, <1>5, <1>6, <1>7, <1>8, <1>9

-----------------------------------------------------------------------------
(* The audit log never diverges from the row: what the docstring of          *)
(* transition_lifecycle promises, kept by every operation and every crash.   *)
LEMMA AuditInductive ==
  /\ CargoServiceInit => AuditMatchesRow
  /\ AuditInv /\ [CargoNext]_cargoServiceVars => AuditMatchesRow'
<1>1. CargoServiceInit => AuditMatchesRow
  BY LegacyRowsAssumption
     DEF CargoServiceInit, CargoTableInit, AuditMatchesRow, AbsentRow
<1>2. ASSUME AuditInv, [CargoNext]_cargoServiceVars PROVE AuditMatchesRow'
  <2>1. CargoTypeOK /\ AuditMatchesRow
    BY <1>2 DEF AuditInv, CargoServiceTypeOK
  <2>2. CASE UNCHANGED cargoVars
    BY <2>1, <2>2 DEF cargoVars, AuditMatchesRow
  <2>3. ASSUME NEW c \in Containers, TableStep(c) PROVE AuditMatchesRow'
    <3>1. SUFFICES ASSUME cargo'[c].present, cargo'[c].lifecycle # "NULL"
                   PROVE  audit'[c].new = cargo'[c].lifecycle
      BY <2>1, <2>3, TableStepFrame DEF AuditMatchesRow
    <3>2. CASE \E customs \in CustomsStates, yard \in BOOLEAN : CreateTxn(c, customs, yard)
      BY <2>1, <3>2, CreateEffect
    <3>3. CASE DeleteTxn(c)
      BY <2>1, <3>1, <3>3, AbsentRowType DEF DeleteTxn, CargoTypeOK
    <3>4. CASE UpdateOf(c)
      BY <2>1, <3>1, <3>4, UpdateEffect DEF AuditMatchesRow
    <3>5. CASE AdvanceOf(c)
      BY <2>1, <3>5, AdvanceEffect
    <3>6. QED
      BY <2>3, <3>2, <3>3, <3>4, <3>5 DEF TableStep
  <2>4. QED
    BY <1>2, <2>2, <2>3, StepIsTableStep DEF AuditInv
<1>3. QED
  BY <1>1, <1>2

(* For every container and every run: the newest audit row names the state   *)
(* of the row it explains.                                                   *)
THEOREM AuditNeverDiverges == CargoSpec => []AuditMatchesRow
<1>1. CargoServiceInit => AuditMatchesRow
  BY AuditInductive
<1>2. CargoServiceTypeOK /\ AuditMatchesRow /\ [CargoNext]_cargoServiceVars
        => AuditMatchesRow'
  BY AuditInductive DEF AuditInv
<1>3. QED
  BY <1>1, <1>2, CargoTypeCorrect, PTL DEF CargoSpec

(* The audit log of a container reads as one chain of moves. *)
THEOREM AuditChains == CargoSpec => AuditIsAChain
<1> DEFINE Chain ==
      \A c \in Containers :
        audit'[c] # audit[c] =>
          \/ audit'[c].old = "NONE"
          \/ audit'[c].old = audit[c].new
          \/ cargo[c].lifecycle = "NULL"
<1>1. ASSUME CargoServiceTypeOK, AuditMatchesRow, [CargoNext]_cargoServiceVars
      PROVE  Chain
  <2>1. CargoTypeOK
    BY <1>1 DEF CargoServiceTypeOK
  <2>2. CASE UNCHANGED cargoVars
    BY <2>2 DEF cargoVars
  <2>3. ASSUME NEW c \in Containers, TableStep(c) PROVE Chain
    <3>1. SUFFICES ASSUME audit'[c] # audit[c], cargo[c].lifecycle # "NULL"
                   PROVE  audit'[c].old = "NONE" \/ audit'[c].old = audit[c].new
      BY <2>1, <2>3, TableStepFrame
    <3>2. CASE \E customs \in CustomsStates, yard \in BOOLEAN : CreateTxn(c, customs, yard)
      BY <2>1, <3>2, CreateEffect
    <3>3. CASE DeleteTxn(c)
      BY <3>1, <3>3 DEF DeleteTxn
    <3>4. CASE UpdateOf(c)
      BY <2>1, <3>1, <3>4, UpdateEffect
    <3>5. CASE AdvanceOf(c)
      BY <1>1, <2>1, <3>1, <3>5, AdvanceEffect DEF AuditMatchesRow, Effective
    <3>6. QED
      BY <2>3, <3>2, <3>3, <3>4, <3>5 DEF TableStep
  <2>4. QED
    BY <1>1, <2>2, <2>3, StepIsTableStep
<1>2. CargoServiceTypeOK /\ AuditMatchesRow /\ [CargoNext]_cargoServiceVars
        => [Chain]_cargoServiceVars
  BY <1>1
<1>3. QED
  BY <1>2, CargoTypeCorrect, AuditNeverDiverges, PTL DEF CargoSpec, AuditIsAChain

(* The log of a container is a chain that ends in the state of its row.      *)
THEOREM AuditStaysFaithful == CargoSpec => AuditIsFaithful
  BY AuditNeverDiverges, AuditChains, PTL DEF AuditIsFaithful

(* No request releases a container that customs holds or examines. *)
THEOREM ReleaseNeverUnderHold == CargoSpec => NoReleaseUnderHold
<1> DEFINE Clear ==
      \A c \in Containers :
        cargo'[c].lifecycle = "RELEASED" /\ cargo[c].lifecycle # "RELEASED"
          => cargo'[c].customs \notin CUSTOMS_BLOCKS_RELEASE
<1>1. ASSUME CargoServiceTypeOK, [CargoNext]_cargoServiceVars
      PROVE  Clear
  <2>1. CargoTypeOK
    BY <1>1 DEF CargoServiceTypeOK
  <2>2. CASE UNCHANGED cargoVars
    BY <2>2 DEF cargoVars
  <2>3. ASSUME NEW c \in Containers, TableStep(c) PROVE Clear
    <3>1. SUFFICES ASSUME cargo'[c].lifecycle = "RELEASED",
                          cargo[c].lifecycle # "RELEASED"
                   PROVE  cargo'[c].customs \notin CUSTOMS_BLOCKS_RELEASE
      BY <2>1, <2>3, TableStepFrame
    <3>2. CASE \E customs \in CustomsStates, yard \in BOOLEAN : CreateTxn(c, customs, yard)
      BY <2>1, <3>1, <3>2, CreateEffect
    <3>3. CASE DeleteTxn(c)
      BY <2>1, <3>1, <3>3 DEF DeleteTxn, CargoTypeOK, AbsentRow
    <3>4. CASE UpdateOf(c)
      BY <2>1, <3>1, <3>4, UpdateEffect
    <3>5. CASE AdvanceOf(c)
      BY <2>1, <3>1, <3>5, AdvanceEffect
    <3>6. QED
      BY <2>3, <3>2, <3>3, <3>4, <3>5 DEF TableStep
  <2>4. QED
    BY <1>1, <2>2, <2>3, StepIsTableStep
<1>2. CargoServiceTypeOK /\ [CargoNext]_cargoServiceVars => [Clear]_cargoServiceVars
  BY <1>1
<1>3. QED
  BY <1>2, CargoTypeCorrect, PTL DEF CargoSpec, NoReleaseUnderHold

-----------------------------------------------------------------------------
(* The release flag.  Two things are needed besides the flag itself: a row   *)
(* that is there has its column set, and a PUT that read is_released = true  *)
(* finds the row RELEASED when it writes.  Both fail when a record may be    *)
(* deleted and created again between the read and the write.                 *)
ReleasedRow(c) == cargo[c].present /\ cargo[c].lifecycle = "RELEASED"

FlagInv ==
  /\ \A c \in Containers : cargo[c].present => cargo[c].lifecycle # "NULL"
  /\ \A c \in Containers : cargo[c].released => ReleasedRow(c)
  /\ \A c \in Containers : WriterSaw(c) => ReleasedRow(c)

LEMMA WriterSawStep ==
  ASSUME CargoServiceTypeOK, FlagInv, [CargoNext]_cargoServiceVars,
         NEW c \in Containers, WriterSaw(c)'
  PROVE  ReleasedRow(c)
<1>1. PICK r \in Requests : req'[r].pc = "write" /\ req'[r].c = c /\ req'[r].flag
  BY DEF WriterSaw
<1>2. CASE req'[r] = req[r]
  BY <1>1, <1>2 DEF FlagInv, WriterSaw
<1>3. CASE req'[r] # req[r]
  <2>1. req \in [Requests -> Request \cup {Idle}]
    BY DEF CargoServiceTypeOK
  <2>2. ASSUME NEW s \in Requests, Finish(s) PROVE FALSE
    BY <1>1, <1>3, <2>1, <2>2 DEF Finish, Idle
  <2>3. ASSUME NEW s \in Requests, NEW pc, NEW d, NEW patch, NEW flag,
               Suspend(s, pc, d, patch, flag)
        PROVE  pc = "write" /\ d = c /\ flag
    BY <1>1, <1>3, <2>1, <2>3 DEF Suspend
  <2>4. ASSUME NEW s \in Requests, NEW d \in Containers, NEW patch \in Patches,
               PutRead(s, d, patch)
        PROVE  ReleasedRow(c)
    <3>1. d = c /\ cargo[d].released
      BY <2>3, <2>4 DEF PutRead
    <3>2. QED
      BY <3>1 DEF FlagInv
  <2>5. ASSUME NEW s \in Requests, NEW d \in Containers,
               YardWrite(s, d) \/ VerifyAdvance(s, d) \/ VerifyFailed(s, d)
        PROVE  FALSE
    <3>1. PICK pc \in {"advance", "record"}, flag \in BOOLEAN :
            Suspend(s, pc, d, NoPatch, flag)
      BY <2>5 DEF YardWrite, VerifyAdvance, VerifyFailed
    <3>2. QED
      BY <2>3, <3>1
  <2>6. ASSUME NEW s \in Requests,
               PutWrite(s) \/ PutRefused(s) \/ YardAdvance(s) \/ VerifyRecord(s) \/ Crash(s)
        PROVE  FALSE
    BY <2>2, <2>6 DEF PutWrite, PutRefused, YardAdvance, VerifyRecord, Crash
  <2>7. ASSUME NEW d \in Containers,
               \/ Create(d) \/ Delete(d) \/ Discharge(d) \/ RecordPendency(d)
               \/ PlanReefer(d) \/ PlanRake(d) \/ AllocateYardPosition(d) \/ Release(d)
        PROVE  FALSE
    BY <1>3, <2>7 DEF Create, Delete, Discharge, RecordPendency, PlanReefer, PlanRake,
       Advance, AllocateYardPosition, Release, serviceVars
  <2>8. CASE UNCHANGED cargoServiceVars
    BY <1>3, <2>8 DEF cargoServiceVars
  <2>9. QED
    BY <2>4, <2>5, <2>6, <2>7, <2>8 DEF CargoNext, CargoStep, CargoCrash
<1>4. QED
  BY <1>2, <1>3

LEMMA FlagInductive ==
  ASSUME "delete" \notin Ops, LegacyRows = {}
  PROVE  /\ CargoServiceInit => FlagInv
         /\ CargoServiceTypeOK /\ FlagInv /\ [CargoNext]_cargoServiceVars => FlagInv'
<1>1. CargoServiceInit => FlagInv
  BY DEF CargoServiceInit, CargoTableInit, FlagInv, AbsentRow, WriterSaw, Idle
<1>2. ASSUME CargoServiceTypeOK, FlagInv, [CargoNext]_cargoServiceVars
      PROVE  FlagInv'
  <2>1. CargoTypeOK
    BY <1>2 DEF CargoServiceTypeOK
  <2>2. \A c \in Containers : WriterSaw(c)' => ReleasedRow(c)
    BY <1>2, WriterSawStep
  <2>3. CASE UNCHANGED cargoVars
    BY <1>2, <2>2, <2>3 DEF cargoVars, FlagInv, ReleasedRow
  <2>4. ASSUME NEW c \in Containers, TableStep(c) PROVE FlagInv'
    <3>1. /\ cargo'[c].present => cargo'[c].lifecycle # "NULL"
          /\ cargo'[c].released => ReleasedRow(c)'
          /\ ReleasedRow(c) => ReleasedRow(c)'
      <4>1. CASE \E customs \in CustomsStates, yard \in BOOLEAN : CreateTxn(c, customs, yard)
        BY <2>1, <4>1, CreateEffect DEF ReleasedRow
      <4>2. CASE UpdateOf(c)
        BY <1>2, <2>1, <4>2, UpdateEffect DEF FlagInv, ReleasedRow
      <4>3. CASE AdvanceOf(c)
        <5>1. "NULL" \notin ImportStates
          BY DEF ImportStates
        <5>2. cargo[c].present /\ cargo[c].lifecycle # "RELEASED" /\ ~ cargo[c].released
          BY <1>2, <2>1, <4>3, AdvanceEffect DEF FlagInv, ReleasedRow, Effective
        <5>3. QED
          BY <2>1, <4>3, <5>1, <5>2, AdvanceEffect DEF ReleasedRow
      <4>4. QED
        BY <2>4, <4>1, <4>2, <4>3 DEF TableStep
    <3>2. \A d \in Containers \ {c} : cargo'[d] = cargo[d]
      BY <2>1, <2>4, TableStepFrame
    <3>3. QED
      BY <1>2, <2>2, <3>1, <3>2 DEF FlagInv, ReleasedRow
  <2>5. QED
    BY <1>2, <2>3, <2>4, StepIsTableStep
<1>3. QED
  BY <1>1, <1>2

(* As long as no record is deleted and none comes from the legacy schema,    *)
(* is_released is never set on a container the state machine has not         *)
(* released, whatever snapshot a PUT acted on.                               *)
THEOREM FlagNeverAhead ==
  ASSUME "delete" \notin Ops, LegacyRows = {}
  PROVE  CargoSpec => []FlagImpliesReleased
<1>1. CargoServiceInit => FlagInv
  BY FlagInductive
<1>2. CargoServiceTypeOK /\ FlagInv /\ [CargoNext]_cargoServiceVars => FlagInv'
  BY FlagInductive
<1>3. FlagInv => FlagImpliesReleased
  BY DEF FlagInv, FlagImpliesReleased, ReleasedRow, Effective
<1>4. QED
  BY <1>1, <1>2, <1>3, CargoTypeCorrect, PTL DEF CargoSpec

-----------------------------------------------------------------------------
(* A container moves forward only, past no mandatory gate but the discharge  *)
(* when it is assigned a yard, and is released once; the one way back is to  *)
(* delete its record (CargoService._advance).                                *)
THEOREM LifecycleGoesForward == CargoSpec => LifecycleForwardOnly
<1> DEFINE Moves ==
      \A c \in Containers :
        LET from == Effective(cargo[c])
            to   == Effective(cargo'[c])
        IN /\ cargo[c].present /\ cargo'[c].present
           /\ cargo[c].lifecycle # "NULL"
           /\ from # to
           => /\ Rank[from] < Rank[to]
              /\ \A m \in MandatoryStates : Rank[from] < Rank[m] /\ Rank[m] < Rank[to]
                   => m = "VESSEL_DISCHARGED" /\ to = "YARD_ASSIGNED"
<1>1. ASSUME CargoServiceTypeOK, [CargoNext]_cargoServiceVars
      PROVE  Moves
  <2>1. CargoTypeOK
    BY <1>1 DEF CargoServiceTypeOK
  <2>2. CASE UNCHANGED cargoVars
    BY <2>2 DEF cargoVars
  <2>3. ASSUME NEW c \in Containers, TableStep(c) PROVE Moves
    <3>1. SUFFICES ASSUME cargo[c].present, cargo'[c].present, cargo[c].lifecycle # "NULL",
                          Effective(cargo[c]) # Effective(cargo'[c])
                   PROVE  Forward(Effective(cargo[c]), Effective(cargo'[c]))
      BY <2>1, <2>3, TableStepFrame DEF Forward
    <3>2. CASE \E customs \in CustomsStates, yard \in BOOLEAN : CreateTxn(c, customs, yard)
      BY <2>1, <3>1, <3>2, CreateEffect
    <3>3. CASE DeleteTxn(c)
      BY <2>1, <3>1, <3>3, AbsentRowType DEF DeleteTxn, CargoTypeOK
    <3>4. CASE UpdateOf(c)
      BY <2>1, <3>1, <3>4, UpdateEffect DEF Effective
    <3>5. CASE AdvanceOf(c)
      <4>1. "NULL" \notin ImportStates
        BY DEF ImportStates
      <4>2. Effective(cargo'[c]) = cargo'[c].lifecycle
        BY <2>1, <3>5, <4>1, AdvanceEffect DEF Effective
      <4>3. QED
        BY <2>1, <3>1, <3>5, <4>2, AdvanceEffect
    <3>6. QED
      BY <2>3, <3>2, <3>3, <3>4, <3>5 DEF TableStep
  <2>4. QED
    BY <1>1, <2>2, <2>3, StepIsTableStep
<1>2. CargoServiceTypeOK /\ [CargoNext]_cargoServiceVars => [Moves]_cargoServiceVars
  BY <1>1
<1>3. QED
  BY <1>2, CargoTypeCorrect, PTL DEF CargoSpec, LifecycleForwardOnly

-----------------------------------------------------------------------------
(* The verification record.  A request that owes one keeps owing it until it *)
(* writes it, as long as requests do not die.                                *)
LEMMA RecordIsKept ==
  ASSUME CargoServiceTypeOK, [CargoStep]_cargoServiceVars
  PROVE  /\ \A c \in Containers : scanLog[c] \subseteq scanLog'[c]
         /\ \A r \in Requests :
              req[r].pc = "record" =>
                req'[r] = req[r] \/ req[r].flag \in scanLog'[req[r].c]
<1> DEFINE Goal == /\ \A c \in Containers : scanLog[c] \subseteq scanLog'[c]
                   /\ \A r \in Requests :
                        req[r].pc = "record" =>
                          req'[r] = req[r] \/ req[r].flag \in scanLog'[req[r].c]
<1>1. req \in [Requests -> Request \cup {Idle}] /\ scanLog \in [Containers -> SUBSET BOOLEAN]
  BY DEF CargoServiceTypeOK
<1>2. ASSUME NEW s \in Requests, req[s].pc # "record", UNCHANGED scanLog, NEW d,
             req' = [req EXCEPT ![s] = d]
      PROVE  Goal
  BY <1>1, <1>2
<1>3. ASSUME NEW c \in Containers,
             \/ Create(c) \/ Delete(c) \/ Discharge(c) \/ RecordPendency(c)
             \/ PlanReefer(c) \/ PlanRake(c) \/ AllocateYardPosition(c) \/ Release(c)
      PROVE  Goal
  BY <1>3 DEF Create, Delete, Discharge, RecordPendency, PlanReefer, PlanRake,
     Advance, AllocateYardPosition, Release, serviceVars
<1>4. ASSUME NEW s \in Requests, NEW c \in Containers,
             \/ YardWrite(s, c) \/ VerifyAdvance(s, c) \/ VerifyFailed(s, c)
             \/ \E patch \in Patches : PutRead(s, c, patch)
      PROVE  Goal
  <2>1. req[s].pc # "record" /\ UNCHANGED scanLog
    BY <1>4 DEF YardWrite, VerifyAdvance, VerifyFailed, PutRead
  <2>2. \E d : req' = [req EXCEPT ![s] = d]
    BY <1>4 DEF YardWrite, VerifyAdvance, VerifyFailed, PutRead, Suspend
  <2>3. QED
    BY <1>2, <2>1, <2>2
<1>5. ASSUME NEW s \in Requests, PutWrite(s) \/ PutRefused(s) \/ YardAdvance(s)
      PROVE  Goal
  <2>1. req[s].pc # "record" /\ UNCHANGED scanLog /\ req' = [req EXCEPT ![s] = Idle]
    BY <1>5 DEF PutWrite, PutRefused, YardAdvance, Finish
  <2>2. QED
    BY <1>2, <2>1
<1>6. ASSUME NEW s \in Requests, VerifyRecord(s) PROVE Goal
  <2>1. /\ req[s].pc = "record" /\ req' = [req EXCEPT ![s] = Idle]
        /\ scanLog' = [scanLog EXCEPT ![req[s].c] = @ \cup {req[s].flag}]
    BY <1>6 DEF VerifyRecord, Finish
  <2>2. req[s].c \in Containers
    BY <1>1, <2>1 DEF Request, Idle
  <2>3. QED
    BY <1>1, <2>1, <2>2
<1>7. CASE UNCHANGED cargoServiceVars
  BY <1>7 DEF cargoServiceVars
<1>8. QED
  BY <1>3, <1>4, <1>5, <1>6, <1>7 DEF CargoStep

(* As long as no request dies, no container stands at VERIFIED or beyond     *)
(* without its verification record, or the request about to write it         *)
(* (verify_cargo advances first and records afterwards).                     *)
THEOREM VerificationIsRecorded == CargoFairSpec => []VerifiedIsRecorded
<1> DEFINE Inv == CargoServiceTypeOK /\ VerifiedIsRecorded
<1>1. CargoServiceInit => Inv
  <2>1. CargoServiceInit => VerifiedIsRecorded
    BY LegacyRowsAssumption
       DEF CargoServiceInit, CargoTableInit, VerifiedIsRecorded, AbsentRow
  <2>2. QED
    BY <2>1, CargoInitType
<1>2. Inv /\ [CargoStep]_cargoServiceVars => Inv'
  <2> SUFFICES ASSUME CargoServiceTypeOK, VerifiedIsRecorded, [CargoStep]_cargoServiceVars
               PROVE  CargoServiceTypeOK' /\ VerifiedIsRecorded'
    OBVIOUS
  <2>1. [CargoNext]_cargoServiceVars /\ CargoTypeOK
    BY DEF CargoNext, CargoServiceTypeOK
  <2>2. CargoServiceTypeOK'
    BY <2>1, CargoStepType
  <2>3. ASSUME NEW c \in Containers, cargo[c].lifecycle \in {"VERIFIED", "RELEASED"}
        PROVE  \/ TRUE \in scanLog'[c]
               \/ \E r \in Requests : req'[r].pc = "record" /\ req'[r].c = c /\ req'[r].flag
    <3>1. CASE TRUE \in scanLog[c]
      BY <3>1, RecordIsKept
    <3>2. CASE TRUE \notin scanLog[c]
      <4>1. PICK r \in Requests : req[r].pc = "record" /\ req[r].c = c /\ req[r].flag
        BY <2>3, <3>2 DEF VerifiedIsRecorded
      <4>2. req[r].flag = TRUE
        BY <4>1 DEF CargoServiceTypeOK, Request, Idle
      <4>3. QED
        BY <4>1, <4>2, RecordIsKept
    <3>3. QED
      BY <3>1, <3>2
  <2>4. ASSUME NEW c \in Containers, cargo'[c].lifecycle \in {"VERIFIED", "RELEASED"},
               cargo[c].lifecycle \notin {"VERIFIED", "RELEASED"}
        PROVE  \E r \in Requests : VerifyAdvance(r, c)
    <3>1. PICK d \in Containers : TableStep(d)
      BY <2>1, <2>4, StepIsTableStep DEF cargoVars
    <3>2. d = c
      BY <2>1, <2>4, <3>1, TableStepFrame
    <3>3. CASE \E customs \in CustomsStates, yard \in BOOLEAN : CreateTxn(c, customs, yard)
      BY <2>1, <2>4, <3>3, CreateEffect
    <3>4. CASE DeleteTxn(c)
      BY <2>1, <2>4, <3>4 DEF DeleteTxn, CargoTypeOK, AbsentRow
    <3>5. CASE UpdateOf(c)
      BY <2>1, <2>4, <3>5, UpdateEffect
    <3>6. CASE AdvanceOf(c)
      BY <2>1, <2>4, <3>6, AdvanceEffect DEF Effective
    <3>7. QED
      BY <3>1, <3>2, <3>3, <3>4, <3>5, <3>6 DEF TableStep
  <2>5. ASSUME NEW c \in Containers, NEW r \in Requests, VerifyAdvance(r, c)
        PROVE  req'[r].pc = "record" /\ req'[r].c = c /\ req'[r].flag
    BY <2>5 DEF VerifyAdvance, Suspend, CargoServiceTypeOK
  <2>6. QED
    BY <2>2, <2>3, <2>4, <2>5 DEF VerifiedIsRecorded
<1>3. QED
  BY <1>1, <1>2, PTL DEF CargoFairSpec

-----------------------------------------------------------------------------
(* The refinement: each transaction is one step of the gate. *)
LEMMA TransactionIsGateStep ==
  ASSUME CargoTypeOK, NEW c \in Containers, TableStep(c)
  PROVE  [Gate!GateNext]_(Gate!gateVars)
<1> DEFINE ph == [d \in Containers |-> Phase(cargo[d])]
           hd == [d \in Containers |-> cargo[d].customs \in CUSTOMS_BLOCKS_RELEASE]
           newPh == Phase(cargo'[c])
           newHd == cargo'[c].customs \in CUSTOMS_BLOCKS_RELEASE
<1>1. ph' = [ph EXCEPT ![c] = newPh] /\ hd' = [hd EXCEPT ![c] = newHd]
  BY TableStepFrame DEF Phase, Effective
<1>2. ph[c] = Phase(cargo[c]) /\ hd[c] = (cargo[c].customs \in CUSTOMS_BLOCKS_RELEASE)
  OBVIOUS
<1>3. newHd \in BOOLEAN
  OBVIOUS
<1>4. CASE \E customs \in CustomsStates, yard \in BOOLEAN : CreateTxn(c, customs, yard)
  <2>1. Phase(cargo[c]) = "absent" /\ newPh = "open"
    BY <1>4, CreateEffect DEF Phase
  <2>2. Gate!Register(c)
    BY <1>1, <1>2, <1>3, <2>1 DEF Gate!Register, Gate!Move
  <2>3. QED
    BY <2>2 DEF Gate!GateNext
<1>5. CASE DeleteTxn(c)
  <2>1. newPh = "absent" /\ newHd = FALSE
    BY <1>5, AbsentRowType DEF DeleteTxn, CargoTypeOK, Phase, AbsentRow, CUSTOMS_BLOCKS_RELEASE
  <2>2. Gate!Remove(c)
    BY <1>1, <2>1 DEF Gate!Remove
  <2>3. QED
    BY <2>2 DEF Gate!GateNext
<1>6. CASE UpdateOf(c)
  <2>1. newPh = Phase(cargo[c])
    BY <1>6, UpdateEffect DEF Phase
  <2>2. ph' = ph
    BY <1>1, <1>2, <2>1
  <2>3. Gate!Dispose(c)
    BY <1>1, <1>3, <2>2 DEF Gate!Dispose
  <2>4. QED
    BY <2>3 DEF Gate!GateNext
<1>7. CASE AdvanceOf(c)
  <2>1. /\ cargo[c].present /\ cargo'[c].present
        /\ cargo[c].lifecycle = "RELEASED" => Effective(cargo[c]) = "RELEASED"
        /\ cargo[c].lifecycle = "VERIFIED" => Effective(cargo[c]) = "VERIFIED"
        /\ Effective(cargo[c]) = "VERIFIED" => cargo[c].lifecycle = "VERIFIED"
    BY <1>7, AdvanceEffect DEF Effective
  <2>2. CASE cargo'[c].lifecycle = "RELEASED"
    <3>1. Phase(cargo[c]) = "verified" /\ newPh = "released" /\ newHd = FALSE
      BY <1>7, <2>1, <2>2, AdvanceEffect DEF Phase
    <3>2. Gate!Leave(c)
      BY <1>1, <1>2, <3>1 DEF Gate!Leave, Gate!Move
    <3>3. QED
      BY <3>2 DEF Gate!GateNext
  <2>3. CASE cargo'[c].lifecycle # "RELEASED"
    <3>1. Phase(cargo[c]) = "open" /\ newHd = hd[c]
      BY <1>7, <2>1, <2>3, AdvanceEffect DEF Phase
    <3>2. hd' = hd
      BY <1>1, <3>1
    <3>3. CASE cargo'[c].lifecycle = "VERIFIED"
      <4>1. newPh = "verified"
        BY <2>1, <3>3 DEF Phase
      <4>2. Gate!Verify(c)
        BY <1>1, <1>2, <3>1, <3>2, <4>1 DEF Gate!Verify, Gate!Move
      <4>3. QED
        BY <4>2 DEF Gate!GateNext
    <3>4. CASE cargo'[c].lifecycle # "VERIFIED"
      <4>1. newPh = "open"
        BY <2>1, <2>3, <3>4 DEF Phase
      <4>2. ph' = ph
        BY <1>1, <1>2, <3>1, <4>1
      <4>3. QED
        BY <3>2, <4>2 DEF Gate!gateVars
    <3>5. QED
      BY <3>3, <3>4
  <2>4. QED
    BY <2>2, <2>3
<1>8. QED
  BY <1>4, <1>5, <1>6, <1>7 DEF TableStep

(* CargoService implements ReleaseGate: a container leaves only verified and *)
(* not held, in every interleaving of requests and crashes.                  *)
THEOREM ServiceImplementsGate == CargoSpec => ImplementsReleaseGate
<1>1. CargoServiceInit => Gate!GateInit
  <2>1. ASSUME CargoServiceInit, NEW c \in Containers
        PROVE  Phase(cargo[c]) \in {"absent", "open"}
    BY <2>1, LegacyRowsAssumption
       DEF CargoServiceInit, CargoTableInit, Phase, AbsentRow
  <2>2. QED
    BY <2>1 DEF Gate!GateInit
<1>2. CargoServiceTypeOK /\ [CargoNext]_cargoServiceVars
        => [Gate!GateNext]_(Gate!gateVars)
  <2>1. SUFFICES ASSUME CargoServiceTypeOK, [CargoNext]_cargoServiceVars
                 PROVE  [Gate!GateNext]_(Gate!gateVars)
    OBVIOUS
  <2>2. CASE UNCHANGED cargoVars
    BY <2>2 DEF cargoVars, Gate!gateVars, Phase, Effective
  <2>3. CASE \E c \in Containers : TableStep(c)
    BY <2>1, <2>3, TransactionIsGateStep DEF CargoServiceTypeOK
  <2>4. QED
    BY <2>1, <2>2, <2>3, StepIsTableStep
<1>3. QED
  BY <1>1, <1>2, CargoTypeCorrect, PTL DEF CargoSpec, ImplementsReleaseGate, Gate!GateSpec

=============================================================================
