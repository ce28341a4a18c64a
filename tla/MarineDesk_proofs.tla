------------------------- MODULE MarineDesk_proofs --------------------------
(***************************************************************************)
(* Proofs about MarineDesk for every set of calls and craft and every set  *)
(* of message contents: what the desk's rows, the milestone ledger and the *)
(* port columns of a call promise each other.                              *)
(***************************************************************************)
EXTENDS MarineDesk, TLAPS

Tow == [call : Call, rung : Rungs, last : BOOLEAN]
Duty == [call : Call, rung : 1..4]
PilotRow == [status : {"Assigned", "Onboard", "Released"}, leg : Legs \cup {"undeclared"}]
Milestones == CraftEvents \cup PilotEvents \cup VESARR \cup VESDEP \cup {"BERTH_VACATED"}

CraftStep(c) == (\E v \in Call : CommitCraft(c, v)) \/ (\E r \in Rungs : AdvanceCraft(c, r))
PilotStep(v) ==
  \/ \E leg \in Legs \cup {"undeclared"} : AssignPilot(v, leg)
  \/ LandPilot(v) \/ RollBackPilot(v) \/ BoardPilot(v) \/ ReleasePilot(v)
SheetStep(v) == \E named \in SUBSET {"ata", "atd"} : ImportSheet(v, named)
SweepStep == Supersede \/ SupersedeFails

LEMMA NextSplit ==
  ASSUME MarineNext
  PROVE  \/ \E c \in Craft : CraftStep(c) \/ LandCraft(c) \/ RollBackCraft(c)
         \/ \E v \in Call : PilotStep(v) \/ ImportPilotage(v) \/ SheetStep(v)
                            \/ \E m \in Messages : ImportMovement(v, m)
         \/ SweepStep
  BY DEF MarineNext, CraftNext, PilotNext, ImportNext, CraftStep, PilotStep, SheetStep,
         SweepStep

(* The milestones of the ladder are told apart from all others.              *)
LEMMA MilestoneFacts ==
  /\ Milestone[1] = "CRAFT_ASSIGNED" /\ Milestone[2] = "CRAFT_DISPATCHED"
  /\ Milestone[3] = "CRAFT_ON_SCENE" /\ Milestone[4] = "CRAFT_ASSISTING"
  /\ Milestone[5] = "CRAFT_RELEASED"
  /\ CraftEvents = {"CRAFT_ASSIGNED", "CRAFT_DISPATCHED", "CRAFT_ON_SCENE",
                    "CRAFT_ASSISTING", "CRAFT_RELEASED"}
  /\ \A r \in Rungs : Milestone[r] \in CraftEvents
<1>1. Rungs = {1, 2, 3, 4, 5}
  BY DEF Rungs
<1>2. /\ Milestone[1] = "CRAFT_ASSIGNED" /\ Milestone[2] = "CRAFT_DISPATCHED"
      /\ Milestone[3] = "CRAFT_ON_SCENE" /\ Milestone[4] = "CRAFT_ASSISTING"
      /\ Milestone[5] = "CRAFT_RELEASED"
  BY DEF Milestone
<1>3. QED
  BY <1>1, <1>2 DEF CraftEvents

-----------------------------------------------------------------------------
(* Types.                                                                    *)
LEMMA NullFacts ==
  /\ Ashore \notin Duty /\ Ashore.call \notin Call /\ NoTow \notin Tow /\ NoTow.call \notin Call
  /\ NoPilot \notin PilotRow /\ NoPilot.status = "none" /\ NoPilot.leg = "none"
<1>1. Ashore.call \notin Call /\ NoTow.call \notin Call
  BY MarineAssumption DEF Ashore, NoTow
<1>2. QED
  BY <1>1 DEF Duty, Tow, PilotRow, NoPilot

LEMMA LandedType ==
  ASSUME MarineTypeOK, NEW t \in Tow
  PROVE  DutyAfter(t) \in {Ashore} \cup Duty /\ Chain(t) \in SUBSET Milestones
<1>1. t.rung \in Rungs /\ t.call \in Call
  BY DEF Tow
<1>2. t.rung # Released => t.rung \in 1..4
  BY <1>1 DEF Rungs, Released
<1>3. ledger[t.call] \subseteq Milestones
  BY <1>1 DEF MarineTypeOK, Milestones
<1>4. Chain(t) \in SUBSET Milestones
  <2>1. Milestone[t.rung] \in Milestones /\ Milestone[1] \in Milestones
    BY <1>1, MilestoneFacts DEF Milestones, Rungs
  <2>2. QED
    BY <1>3, <2>1 DEF Chain
<1>5. QED
  BY <1>1, <1>2, <1>4 DEF DutyAfter, Duty

LEMMA TypeStep ==
  ASSUME MarineTypeOK, MarineNext
  PROVE  MarineTypeOK'
<1>1. /\ duty \in [Craft -> {Ashore} \cup Duty] /\ tow \in [Craft -> {NoTow} \cup Tow]
      /\ ledger \in [Call -> SUBSET Milestones] /\ pilot \in [Call -> {NoPilot} \cup PilotRow]
  BY DEF MarineTypeOK, Duty, Tow, Milestones, PilotRow
<1>2. ASSUME duty' \in [Craft -> {Ashore} \cup Duty], tow' \in [Craft -> {NoTow} \cup Tow],
             crossed' \subseteq Call, ledger' \in [Call -> SUBSET Milestones],
             UNCHANGED visitVars
      PROVE  MarineTypeOK'
  BY <1>2 DEF MarineTypeOK, Duty, Tow, Milestones, PilotRow, visitVars
<1>3. ASSUME pilot' \in [Call -> {NoPilot} \cup PilotRow], ledger' \in [Call -> SUBSET Milestones],
             boarding' \in [Call -> Legs \cup {"none", "undeclared"}],
             ata' \in [Call -> Actuals],
             atd' \in [Call -> Actuals],
             pilotage' \subseteq Call, missed' \subseteq Call, sweep' \in BOOLEAN,
             UNCHANGED craftVars
      PROVE  MarineTypeOK'
  BY <1>3 DEF MarineTypeOK, Duty, Tow, Milestones, PilotRow, craftVars
<1>4. ASSUME NEW c \in Craft, NEW v \in Call, NEW r \in Rungs, Take(c, v, r)
      PROVE  MarineTypeOK'
  <2>1. [call |-> v, rung |-> r, last |-> StillCommitted(c, v) = {}] \in Tow
    BY DEF Tow
  <2>2. tow' \in [Craft -> {NoTow} \cup Tow] /\ crossed' \subseteq Call
    BY <1>1, <1>4, <2>1 DEF Take, MarineTypeOK
  <2>3. QED
    BY <1>1, <1>2, <1>4, <2>2 DEF Take
<1>5. ASSUME NEW c \in Craft, CraftStep(c) \/ LandCraft(c) \/ RollBackCraft(c)
      PROVE  MarineTypeOK'
  <2>1. CASE CraftStep(c)
    <3>1. 1 \in Rungs
      BY DEF Rungs
    <3>2. duty[c] # Ashore => duty[c].call \in Call
      BY <1>1 DEF Duty
    <3>3. QED
      BY <1>4, <2>1, <3>1, <3>2 DEF CraftStep, CommitCraft, AdvanceCraft
  <2>2. CASE LandCraft(c)
    <3>1. tow[c] \in Tow /\ tow' = [tow EXCEPT ![c] = NoTow]
      BY <1>1, <2>2 DEF LandCraft
    <3>2. duty' \in [Craft -> {Ashore} \cup Duty] /\ ledger' \in [Call -> SUBSET Milestones]
      BY <1>1, <2>2, <3>1, LandedType DEF LandCraft
    <3>3. crossed' \subseteq Call
      BY <2>2 DEF LandCraft, MarineTypeOK
    <3>4. QED
      BY <1>1, <1>2, <2>2, <3>1, <3>2, <3>3 DEF LandCraft
  <2>3. CASE RollBackCraft(c)
    BY <1>1, <1>2, <2>3 DEF RollBackCraft, MarineTypeOK
  <2>4. QED
    BY <1>5, <2>1, <2>2, <2>3
<1>6. ASSUME NEW v \in Call, PilotStep(v) PROVE MarineTypeOK'
  <2>1. ASSUME NEW leg \in Legs \cup {"undeclared"}, AssignPilot(v, leg) PROVE MarineTypeOK'
    BY <1>1, <1>3, <2>1 DEF AssignPilot, MarineTypeOK
  <2>2. CASE LandPilot(v)
    <3>1. boarding[v] \in Legs \cup {"undeclared"}
      BY <2>2 DEF LandPilot, MarineTypeOK
    <3>2. [status |-> "Assigned", leg |-> boarding[v]] \in PilotRow
      BY <3>1 DEF PilotRow
    <3>3. ledger' \in [Call -> SUBSET Milestones]
      BY <1>1, <2>2 DEF LandPilot, Milestones, PilotEvents
    <3>4. QED
      BY <1>1, <1>3, <2>2, <3>2, <3>3 DEF LandPilot, MarineTypeOK
  <2>3. CASE RollBackPilot(v)
    BY <1>1, <1>3, <2>3 DEF RollBackPilot, MarineTypeOK
  <2>4. CASE BoardPilot(v)
    <3>1. pilot[v] \in PilotRow
      BY <1>1, <2>4, NullFacts DEF BoardPilot
    <3>2. [pilot[v] EXCEPT !.status = "Onboard"] \in PilotRow
      BY <3>1 DEF PilotRow
    <3>3. ledger' \in [Call -> SUBSET Milestones]
      BY <1>1, <2>4 DEF BoardPilot, Milestones, PilotEvents
    <3>4. QED
      BY <1>1, <1>3, <2>4, <3>2, <3>3 DEF BoardPilot, MarineTypeOK
  <2>5. CASE ReleasePilot(v)
    <3>1. pilot[v] \in PilotRow
      BY <1>1, <2>5, NullFacts DEF ReleasePilot
    <3>2. [pilot[v] EXCEPT !.status = "Released"] \in PilotRow
      BY <3>1 DEF PilotRow
    <3>3. Completes(pilot[v].leg) \cup {"PILOT_DISEMBARKED"} \subseteq Milestones
      BY DEF Completes, Milestones, PilotEvents, VESARR, VESDEP
    <3>4. ledger' \in [Call -> SUBSET Milestones]
      BY <1>1, <2>5, <3>3 DEF ReleasePilot
    <3>5. ata' \in [Call -> Actuals] /\ atd' \in [Call -> Actuals]
      BY <2>5 DEF ReleasePilot, MarineTypeOK, Stamped, Actuals
    <3>6. QED
      BY <1>1, <1>3, <2>5, <3>2, <3>4, <3>5 DEF ReleasePilot, MarineTypeOK
  <2>6. QED
    BY <1>6, <2>1, <2>2, <2>3, <2>4, <2>5 DEF PilotStep
<1>7. ASSUME NEW v \in Call, ImportPilotage(v) PROVE MarineTypeOK'
  BY <1>1, <1>3, <1>7 DEF ImportPilotage, MarineTypeOK
<1>8. ASSUME NEW v \in Call, NEW m \in Messages, ImportMovement(v, m) PROVE MarineTypeOK'
  <2>1. ledger' \in [Call -> SUBSET Milestones]
    BY <1>1, <1>8, MarineAssumption DEF ImportMovement, Milestones
  <2>2. ata' \in [Call -> Actuals] /\ atd' \in [Call -> Actuals]
    BY <1>8 DEF ImportMovement, MarineTypeOK, Actuals
  <2>3. QED
    BY <1>1, <1>3, <1>8, <2>1, <2>2 DEF ImportMovement, MarineTypeOK
<1>9. CASE SweepStep
  <2>1. pilot' \in [Call -> {NoPilot} \cup PilotRow] /\ missed' \subseteq Call
    BY <1>1, <1>9 DEF SweepStep, Supersede, SupersedeFails, MarineTypeOK
  <2>2. QED
    BY <1>1, <1>3, <1>9, <2>1 DEF SweepStep, Supersede, SupersedeFails, MarineTypeOK
<1>10. ASSUME NEW v \in Call, SheetStep(v) PROVE MarineTypeOK'
  <2>1. ata' \in [Call -> Actuals] /\ atd' \in [Call -> Actuals]
    BY <1>10 DEF SheetStep, ImportSheet, MarineTypeOK, Actuals
  <2>2. QED
    BY <1>1, <1>3, <1>10, <2>1 DEF SheetStep, ImportSheet, MarineTypeOK
<1>11. QED
  BY <1>5, <1>6, <1>7, <1>8, <1>9, <1>10, NextSplit

(* Every reachable state is well typed.                                      *)
THEOREM MarineTypeCorrect == MarineSpec => []MarineTypeOK
<1>1. MarineInit => MarineTypeOK
  BY DEF MarineInit, MarineTypeOK, Actuals
<1>2. MarineTypeOK /\ [MarineNext]_marineVars => MarineTypeOK'
  <2>1. ASSUME MarineTypeOK, UNCHANGED marineVars PROVE MarineTypeOK'
    BY <2>1 DEF MarineTypeOK, marineVars
  <2>2. QED
    BY <2>1, TypeStep
<1>3. QED
  BY <1>1, <1>2, PTL DEF MarineSpec

-----------------------------------------------------------------------------
(* The visit: no step takes a visit milestone away, and the port columns and *)
(* the legs rest on those milestones.                                        *)
VisitMilestones == {"ARRIVED", "BERTHED", "SAILED", "DEPARTED", "BERTH_VACATED"}

ColumnsFollowLedger ==
  \A v \in Call : /\ ata[v] \in {"manual", "imported"} => Arrived(v)
                  /\ "ARRIVED" \in ledger[v] => ata[v] \in {"imported", "sheet"}
                  /\ Departed(v) => atd[v] \in {"imported", "sheet"}
                  /\ atd[v] = "imported" => Departed(v)

AssignedFromPort ==
  \A v \in Call : /\ boarding[v] = "SHIFTING" => Alongside(v)
                  /\ boarding[v] = "OUTWARD" => Arrived(v)

SweepSeesPilots ==
  \A v \in pilotage : boarding[v] # "none" => sweep \/ v \in missed

VisitInv == /\ MarineTypeOK /\ ColumnsFollowLedger /\ AssignedFromPort /\ SweepSeesPilots
            /\ LegsStartFromPort /\ ReleasedMovementIsWhole /\ ShadowedPilotNeedsAMiss

LEMMA VisitApart == VisitMilestones \cap (CraftEvents \cup PilotEvents) = {}
  BY MilestoneFacts DEF VisitMilestones, PilotEvents

LEMMA VisitMilestonesStay ==
  ASSUME MarineTypeOK, MarineNext, NEW v \in Call, NEW m \in VisitMilestones, m \in ledger[v]
  PROVE  m \in ledger'[v]
<1>1. ledger \in [Call -> SUBSET Milestones] /\ tow \in [Craft -> {NoTow} \cup Tow]
  BY DEF MarineTypeOK, Milestones, Tow
<1>2. m \notin CraftEvents /\ m \notin PilotEvents
  BY VisitApart
<1>3. ASSUME NEW c \in Craft, CraftStep(c) \/ LandCraft(c) \/ RollBackCraft(c)
      PROVE  m \in ledger'[v]
  <2>1. CASE LandCraft(c)
    <3>1. tow[c] \in Tow /\ tow[c].call \in Call
      BY <1>1, <2>1 DEF LandCraft, Tow
    <3>2. ledger' = [ledger EXCEPT ![tow[c].call] = Chain(tow[c])]
      BY <2>1 DEF LandCraft
    <3>3. m \in ledger[tow[c].call] => m \in Chain(tow[c])
      BY <1>2 DEF Chain
    <3>4. QED
      BY <1>1, <3>1, <3>2, <3>3
  <2>2. CASE CraftStep(c) \/ RollBackCraft(c)
    BY <2>2 DEF CraftStep, CommitCraft, AdvanceCraft, Take, RollBackCraft
  <2>3. QED
    BY <1>3, <2>1, <2>2
<1>4. ASSUME NEW u \in Call, PilotStep(u) \/ ImportPilotage(u) \/ SheetStep(u)
      PROVE  m \in ledger'[v]
  <2>1. CASE LandPilot(u)
    BY <1>1, <1>2, <2>1 DEF LandPilot
  <2>2. CASE BoardPilot(u) \/ ReleasePilot(u)
    BY <1>1, <2>2 DEF BoardPilot, ReleasePilot
  <2>3. QED
    BY <1>4, <2>1, <2>2
    DEF PilotStep, AssignPilot, RollBackPilot, ImportPilotage, SheetStep, ImportSheet
<1>5. ASSUME NEW u \in Call, NEW w \in Messages, ImportMovement(u, w)
      PROVE  m \in ledger'[v]
  BY <1>1, <1>5 DEF ImportMovement
<1>6. CASE SweepStep
  BY <1>6 DEF SweepStep, Supersede, SupersedeFails
<1>7. QED
  BY <1>3, <1>4, <1>5, <1>6, NextSplit

LEMMA VisitStays ==
  ASSUME MarineTypeOK, MarineNext
  PROVE  \A v \in Call : /\ Arrived(v) => Arrived(v)'
                         /\ Alongside(v) => Alongside(v)'
                         /\ {"SAILED", "BERTH_VACATED"} \subseteq ledger[v]
                              => {"SAILED", "BERTH_VACATED"} \subseteq ledger'[v]
  BY VisitMilestonesStay DEF Arrived, Alongside, VisitMilestones

(* Every step of a craft takes, lands or rolls back its transaction.         *)
LEMMA CraftStepsMove ==
  ASSUME MarineTypeOK, UNCHANGED craftVars, NEW c \in Craft
  PROVE  ~CraftStep(c) /\ ~LandCraft(c) /\ ~RollBackCraft(c)
<1>1. tow' = tow /\ tow \in [Craft -> {NoTow} \cup Tow]
  BY DEF craftVars, MarineTypeOK, Tow
<1>2. ~LandCraft(c) /\ ~RollBackCraft(c)
  BY <1>1 DEF LandCraft, RollBackCraft
<1>3. ASSUME NEW u \in Call, NEW r \in Rungs, tow[c] = NoTow, Take(c, u, r) PROVE FALSE
  <2>1. tow'[c].call = u
    BY <1>1, <1>3 DEF Take
  <2>2. QED
    BY <1>1, <1>3, <2>1, NullFacts
<1>4. ~CraftStep(c)
  <2>1. 1 \in Rungs
    BY DEF Rungs
  <2>2. duty[c] # Ashore => duty[c].call \in Call
    BY DEF MarineTypeOK
  <2>3. QED
    BY <1>3, <2>1, <2>2 DEF CraftStep, CommitCraft, AdvanceCraft
<1>5. QED
  BY <1>2, <1>4

(* The two ends of a visit come from messages alone.                         *)
LEMMA EndsAreImported ==
  ASSUME MarineTypeOK, MarineNext, NEW v \in Call, NEW end \in {"ARRIVED", "DEPARTED"},
         end \in ledger'[v]
  PROVE  \/ end \in ledger[v]
         \/ \E m \in Messages : ImportMovement(v, m)
<1>1. ledger \in [Call -> SUBSET Milestones] /\ tow \in [Craft -> {NoTow} \cup Tow]
  BY DEF MarineTypeOK, Milestones, Tow
<1>2. end \notin CraftEvents /\ end \notin PilotEvents
  BY VisitApart DEF VisitMilestones
<1>3. SUFFICES ASSUME end \notin ledger[v]
               PROVE  \E m \in Messages : ImportMovement(v, m)
  OBVIOUS
<1>4. ASSUME NEW c \in Craft, CraftStep(c) \/ LandCraft(c) \/ RollBackCraft(c)
      PROVE  FALSE
  <2>1. CASE LandCraft(c)
    <3>1. tow[c] \in Tow /\ tow[c].call \in Call /\ tow[c].rung \in Rungs
      BY <1>1, <2>1 DEF LandCraft, Tow
    <3>2. ledger' = [ledger EXCEPT ![tow[c].call] = Chain(tow[c])]
      BY <2>1 DEF LandCraft
    <3>3. Milestone[tow[c].rung] \in CraftEvents /\ Milestone[1] \in CraftEvents
      BY <3>1, MilestoneFacts
    <3>4. end \in Chain(tow[c]) => end \in ledger[tow[c].call]
      BY <1>2, <3>3 DEF Chain
    <3>5. QED
      BY <1>1, <1>3, <3>1, <3>2, <3>4
  <2>2. CASE CraftStep(c) \/ RollBackCraft(c)
    BY <1>3, <2>2 DEF CraftStep, CommitCraft, AdvanceCraft, Take, RollBackCraft
  <2>3. QED
    BY <1>4, <2>1, <2>2
<1>5. ASSUME NEW u \in Call, PilotStep(u) \/ ImportPilotage(u) \/ SheetStep(u)
      PROVE  FALSE
  <2>1. CASE LandPilot(u)
    BY <1>1, <1>3, <2>1 DEF LandPilot
  <2>2. CASE BoardPilot(u) \/ ReleasePilot(u)
    BY <1>1, <1>3, <2>2 DEF BoardPilot, ReleasePilot, Completes
  <2>3. QED
    BY <1>3, <1>5, <2>1, <2>2
    DEF PilotStep, AssignPilot, RollBackPilot, ImportPilotage, SheetStep, ImportSheet
<1>6. ASSUME NEW u \in Call, NEW w \in Messages, ImportMovement(u, w)
      PROVE  u = v
  BY <1>1, <1>3, <1>6 DEF ImportMovement
<1>7. CASE SweepStep
  BY <1>3, <1>7 DEF SweepStep, Supersede, SupersedeFails
<1>8. QED
  BY <1>4, <1>5, <1>6, <1>7, NextSplit

LEMMA VisitInvStep ==
  ASSUME VisitInv, MarineNext
  PROVE  VisitInv'
<1>1. MarineTypeOK /\ MarineTypeOK'
  BY TypeStep DEF VisitInv
<1>2. \A v \in Call : /\ Arrived(v) => Arrived(v)'
                      /\ Alongside(v) => Alongside(v)'
                      /\ {"SAILED", "BERTH_VACATED"} \subseteq ledger[v]
                           => {"SAILED", "BERTH_VACATED"} \subseteq ledger'[v]
  BY <1>1, VisitStays
<1>3. /\ pilot \in [Call -> {NoPilot} \cup PilotRow]
      /\ boarding \in [Call -> Legs \cup {"none", "undeclared"}]
      /\ ata \in [Call -> Actuals]
      /\ atd \in [Call -> Actuals]
      /\ ledger \in [Call -> SUBSET Milestones] /\ pilotage \subseteq Call
  BY <1>1 DEF MarineTypeOK, PilotRow, Milestones
<1>4. ColumnsFollowLedger'
  <2>1. ASSUME NEW u \in Call, PilotStep(u), NEW v \in Call
        PROVE  /\ \/ ata'[v] = ata[v]
                  \/ ata[v] = "null" /\ ata'[v] = "manual" /\ "BERTHED" \in ledger'[v]
               /\ \/ atd'[v] = atd[v]
                  \/ atd[v] = "null" /\ atd'[v] = "manual"
               /\ "ARRIVED" \in ledger'[v] <=> "ARRIVED" \in ledger[v]
               /\ "DEPARTED" \in ledger'[v] <=> "DEPARTED" \in ledger[v]
    <3>1. CASE ReleasePilot(u)
      BY <1>3, <3>1 DEF ReleasePilot, Completes, Stamped
    <3>2. CASE ~ReleasePilot(u)
      BY <1>3, <2>1, <3>2
      DEF PilotStep, AssignPilot, LandPilot, RollBackPilot, BoardPilot, PilotEvents
    <3>3. QED
      BY <3>1, <3>2
  <2>2. ASSUME NEW u \in Call, PilotStep(u) PROVE ColumnsFollowLedger'
    <3>1. SUFFICES ASSUME NEW v \in Call
                   PROVE  /\ ata'[v] \in {"manual", "imported"} => Arrived(v)'
                          /\ "ARRIVED" \in ledger'[v] => ata'[v] \in {"imported", "sheet"}
                          /\ Departed(v)' => atd'[v] \in {"imported", "sheet"}
                          /\ atd'[v] = "imported" => Departed(v)'
      BY DEF ColumnsFollowLedger
    <3>2. QED
      BY <1>2, <2>1, <2>2
      DEF VisitInv, ColumnsFollowLedger, Departed, Arrived, Alongside
  <2>3. ASSUME NEW u \in Call, NEW m \in Messages, ImportMovement(u, m)
        PROVE  ColumnsFollowLedger'
    <3>1. SUFFICES ASSUME NEW v \in Call
                   PROVE  /\ ata'[v] \in {"manual", "imported"} => Arrived(v)'
                          /\ "ARRIVED" \in ledger'[v] => ata'[v] \in {"imported", "sheet"}
                          /\ Departed(v)' => atd'[v] \in {"imported", "sheet"}
                          /\ atd'[v] = "imported" => Departed(v)'
      BY DEF ColumnsFollowLedger
    <3>2. CASE v = u
      <4>1. /\ ledger[v] \subseteq ledger'[v]
            /\ ata'[v] = IF "ARRIVED" \in ledger'[v] THEN "imported" ELSE ata[v]
            /\ atd'[v] = IF "DEPARTED" \in ledger'[v] THEN "imported" ELSE atd[v]
        BY <1>3, <2>3, <3>2 DEF ImportMovement
      <4>2. QED
        BY <1>2, <4>1 DEF VisitInv, ColumnsFollowLedger, Departed, Arrived, Alongside
    <3>3. CASE v # u
      <4>1. ledger'[v] = ledger[v] /\ ata'[v] = ata[v] /\ atd'[v] = atd[v]
        BY <1>3, <2>3, <3>3 DEF ImportMovement
      <4>2. QED
        BY <4>1 DEF VisitInv, ColumnsFollowLedger, Departed, Arrived, Alongside
    <3>4. QED
      BY <3>2, <3>3
  <2>4. ASSUME NEW u \in Call, SheetStep(u) PROVE ColumnsFollowLedger'
    <3>1. /\ ledger' = ledger
          /\ \A v \in Call : ata'[v] \in {ata[v], "sheet"} /\ atd'[v] \in {atd[v], "sheet"}
      BY <1>3, <2>4 DEF SheetStep, ImportSheet
    <3>2. QED
      BY <3>1 DEF VisitInv, ColumnsFollowLedger, Departed, Arrived, Alongside
  <2>5. CASE \/ \E c \in Craft : CraftStep(c) \/ LandCraft(c) \/ RollBackCraft(c)
             \/ \E u \in Call : ImportPilotage(u)
             \/ SweepStep
    <3>1. UNCHANGED <<ata, atd>>
      BY <2>5
      DEF CraftStep, CommitCraft, AdvanceCraft, Take, LandCraft, RollBackCraft,
          ImportPilotage, SweepStep, Supersede, SupersedeFails, visitVars
    <3>2. ASSUME NEW v \in Call, NEW end \in {"ARRIVED", "DEPARTED"}
          PROVE  end \in ledger'[v] <=> end \in ledger[v]
      <4>1. end \in ledger[v] => end \in ledger'[v]
        BY <1>1, VisitMilestonesStay DEF VisitMilestones
      <4>2. ASSUME end \in ledger'[v], NEW m \in Messages, ImportMovement(v, m)
            PROVE  end \in ledger[v]
        <5>1. UNCHANGED craftVars /\ ~sweep /\ sweep'
          BY <4>2 DEF ImportMovement
        <5>2. \A c \in Craft : ~CraftStep(c) /\ ~LandCraft(c) /\ ~RollBackCraft(c)
          BY <1>1, <5>1, CraftStepsMove
        <5>3. CASE \E u \in Call : ImportPilotage(u)
          BY <4>2, <5>3 DEF ImportPilotage
        <5>4. CASE SweepStep
          BY <5>1, <5>4 DEF SweepStep, Supersede, SupersedeFails
        <5>5. QED
          BY <2>5, <5>2, <5>3, <5>4
      <4>3. QED
        BY <1>1, <4>1, <4>2, EndsAreImported
    <3>3. QED
      BY <1>2, <3>1, <3>2 DEF VisitInv, ColumnsFollowLedger, Departed
  <2>6. QED
    BY <2>2, <2>3, <2>4, <2>5, NextSplit
<1>5. AssignedFromPort' /\ LegsStartFromPort'
  <2>1. ASSUME NEW v \in Call
        PROVE  /\ boarding'[v] = "SHIFTING" => boarding[v] = "SHIFTING" \/ Alongside(v)
               /\ boarding'[v] = "OUTWARD" => boarding[v] = "OUTWARD" \/ Arrived(v)
               /\ pilot'[v].leg = "SHIFTING" => pilot[v].leg = "SHIFTING" \/ boarding[v] = "SHIFTING"
               /\ pilot'[v].leg = "OUTWARD" => pilot[v].leg = "OUTWARD" \/ boarding[v] = "OUTWARD"
    <3>1. ASSUME NEW u \in Call, NEW leg \in Legs \cup {"undeclared"}, AssignPilot(u, leg)
          PROVE  /\ boarding'[v] = "SHIFTING" => boarding[v] = "SHIFTING" \/ Alongside(v)
                 /\ boarding'[v] = "OUTWARD" => boarding[v] = "OUTWARD" \/ Arrived(v)
                 /\ pilot' = pilot
      BY <1>3, <3>1 DEF AssignPilot, Possible, LegalMovements, AtBerth, InPort
    <3>2. ASSUME NEW u \in Call, PilotStep(u), \A leg \in Legs \cup {"undeclared"} : ~AssignPilot(u, leg)
          PROVE  /\ boarding'[v] \in {boarding[v], "none"}
                 /\ pilot'[v].leg \in {pilot[v].leg, boarding[v]}
      <4>1. CASE LandPilot(u)
        BY <1>3, <4>1 DEF LandPilot
      <4>2. CASE RollBackPilot(u)
        BY <1>3, <4>2 DEF RollBackPilot
      <4>3. CASE BoardPilot(u) \/ ReleasePilot(u)
        <5>1. pilot[u] \in PilotRow
          BY <1>3, <4>3, NullFacts DEF BoardPilot, ReleasePilot
        <5>2. QED
          BY <1>3, <4>3, <5>1 DEF BoardPilot, ReleasePilot, PilotRow
      <4>4. QED
        BY <3>2, <4>1, <4>2, <4>3 DEF PilotStep
    <3>3. CASE SweepStep
      BY <1>3, <3>3, NullFacts DEF SweepStep, Supersede, SupersedeFails
    <3>4. CASE \/ \E c \in Craft : CraftStep(c) \/ LandCraft(c) \/ RollBackCraft(c)
               \/ \E u \in Call : ImportPilotage(u) \/ SheetStep(u)
                                  \/ \E m \in Messages : ImportMovement(u, m)
      BY <3>4
      DEF CraftStep, CommitCraft, AdvanceCraft, Take, LandCraft, RollBackCraft,
          ImportPilotage, SheetStep, ImportSheet, ImportMovement, visitVars
    <3>5. QED
      BY <3>1, <3>2, <3>3, <3>4, NextSplit
  <2>2. QED
    BY <1>2, <2>1 DEF VisitInv, AssignedFromPort, LegsStartFromPort
<1>6. ReleasedMovementIsWhole'
  <2>1. ASSUME NEW v \in Call, pilot'[v].status = "Released", pilot'[v] # pilot[v]
        PROVE  ReleasePilot(v)
    <3>1. ASSUME NEW u \in Call, PilotStep(u) PROVE ReleasePilot(v)
      <4>1. CASE LandPilot(u)
        BY <1>3, <2>1, <4>1 DEF LandPilot
      <4>2. CASE BoardPilot(u)
        <5>1. pilot[u] \in PilotRow
          BY <1>3, <4>2, NullFacts DEF BoardPilot
        <5>2. QED
          BY <1>3, <2>1, <4>2, <5>1 DEF BoardPilot, PilotRow
      <4>3. CASE ReleasePilot(u)
        BY <1>3, <2>1, <4>3 DEF ReleasePilot
      <4>4. QED
        BY <2>1, <3>1, <4>1, <4>2, <4>3 DEF PilotStep, AssignPilot, RollBackPilot
    <3>2. ~SweepStep
      BY <1>3, <2>1, NullFacts DEF SweepStep, Supersede, SupersedeFails
    <3>3. CASE \/ \E c \in Craft : CraftStep(c) \/ LandCraft(c) \/ RollBackCraft(c)
               \/ \E u \in Call : ImportPilotage(u) \/ SheetStep(u)
                                  \/ \E m \in Messages : ImportMovement(u, m)
      BY <2>1, <3>3
      DEF CraftStep, CommitCraft, AdvanceCraft, Take, LandCraft, RollBackCraft,
          ImportPilotage, SheetStep, ImportSheet, ImportMovement, visitVars
    <3>4. QED
      BY <3>1, <3>2, <3>3, NextSplit
  <2>2. ASSUME NEW v \in Call, ReleasePilot(v)
        PROVE  /\ pilot'[v].leg = "INWARD" => Alongside(v)' /\ ata'[v] # "null"
               /\ pilot'[v].leg = "OUTWARD" =>
                    {"SAILED", "BERTH_VACATED"} \subseteq ledger'[v] /\ atd'[v] # "null"
    <3>1. pilot[v] \in PilotRow
      BY <1>3, <2>2, NullFacts DEF ReleasePilot
    <3>2. pilot'[v].leg = pilot[v].leg
      BY <1>3, <2>2, <3>1 DEF ReleasePilot, PilotRow
    <3>3. /\ ledger'[v] = ledger[v] \cup {"PILOT_DISEMBARKED"} \cup Completes(pilot[v].leg)
          /\ ata'[v] = IF pilot[v].leg = "INWARD" THEN Stamped(ata[v]) ELSE ata[v]
          /\ atd'[v] = IF pilot[v].leg = "OUTWARD" THEN Stamped(atd[v]) ELSE atd[v]
      BY <1>3, <2>2 DEF ReleasePilot
    <3>4. QED
      BY <3>2, <3>3 DEF Completes, Stamped, Alongside
  <2>3. ASSUME NEW v \in Call
        PROVE  (ata[v] # "null" => ata'[v] # "null") /\ (atd[v] # "null" => atd'[v] # "null")
    <3>1. ASSUME NEW u \in Call, PilotStep(u)
          PROVE  (ata[v] # "null" => ata'[v] # "null") /\ (atd[v] # "null" => atd'[v] # "null")
      BY <1>3, <3>1
      DEF PilotStep, AssignPilot, LandPilot, RollBackPilot, BoardPilot, ReleasePilot, Stamped
    <3>2. ASSUME NEW u \in Call, NEW m \in Messages, ImportMovement(u, m)
          PROVE  (ata[v] # "null" => ata'[v] # "null") /\ (atd[v] # "null" => atd'[v] # "null")
      BY <1>3, <3>2 DEF ImportMovement
    <3>3. ASSUME NEW u \in Call, SheetStep(u)
          PROVE  (ata[v] # "null" => ata'[v] # "null") /\ (atd[v] # "null" => atd'[v] # "null")
      BY <1>3, <3>3 DEF SheetStep, ImportSheet
    <3>4. CASE \/ \E c \in Craft : CraftStep(c) \/ LandCraft(c) \/ RollBackCraft(c)
               \/ \E u \in Call : ImportPilotage(u)
               \/ SweepStep
      BY <3>4
      DEF CraftStep, CommitCraft, AdvanceCraft, Take, LandCraft, RollBackCraft,
          ImportPilotage, SweepStep, Supersede, SupersedeFails, visitVars
    <3>5. QED
      BY <3>1, <3>2, <3>3, <3>4, NextSplit
  <2>4. QED
    BY <1>2, <2>1, <2>2, <2>3 DEF VisitInv, ReleasedMovementIsWhole
<1>7. SweepSeesPilots' /\ ShadowedPilotNeedsAMiss'
  <2>1. ASSUME NEW u \in Call, PilotStep(u)
        PROVE  SweepSeesPilots' /\ ShadowedPilotNeedsAMiss'
    <3>1. UNCHANGED <<pilotage, sweep, missed>>
      BY <2>1 DEF PilotStep, AssignPilot, LandPilot, RollBackPilot, BoardPilot, ReleasePilot
    <3>2. \A v \in Call : boarding'[v] # "none" => boarding[v] # "none" \/ v \notin pilotage
      BY <1>3, <2>1
      DEF PilotStep, AssignPilot, LandPilot, RollBackPilot, BoardPilot, ReleasePilot, Insertable
    <3>3. \A v \in Call : pilot'[v] # NoPilot => pilot[v] # NoPilot \/ boarding[v] # "none"
      <4>1. BoardPilot(u) \/ ReleasePilot(u) => pilot[u] # NoPilot
        BY DEF BoardPilot, ReleasePilot, NoPilot
      <4>2. QED
        BY <1>3, <2>1, <4>1
        DEF PilotStep, AssignPilot, LandPilot, RollBackPilot, BoardPilot, ReleasePilot
    <3>4. QED
      BY <1>3, <3>1, <3>2, <3>3 DEF VisitInv, SweepSeesPilots, ShadowedPilotNeedsAMiss
  <2>2. CASE \E u \in Call : ImportPilotage(u) \/ SheetStep(u)
                            \/ \E m \in Messages : ImportMovement(u, m)
    BY <2>2
    DEF ImportPilotage, ImportMovement, SheetStep, ImportSheet, SweepSeesPilots,
        ShadowedPilotNeedsAMiss
  <2>3. CASE SweepStep
    BY <1>3, <2>3
    DEF SweepStep, Supersede, SupersedeFails, SweepSeesPilots, ShadowedPilotNeedsAMiss
  <2>4. CASE \E c \in Craft : CraftStep(c) \/ LandCraft(c) \/ RollBackCraft(c)
    BY <2>4
    DEF CraftStep, CommitCraft, AdvanceCraft, Take, LandCraft, RollBackCraft, visitVars,
        VisitInv, SweepSeesPilots, ShadowedPilotNeedsAMiss
  <2>5. QED
    BY <2>1, <2>2, <2>3, <2>4, NextSplit
<1>8. QED
  BY <1>1, <1>4, <1>5, <1>6, <1>7 DEF VisitInv

LEMMA VisitInvAlways == MarineSpec => []VisitInv
<1>1. MarineInit => VisitInv
  <2>1. MarineInit => MarineTypeOK
    BY DEF MarineInit, MarineTypeOK, Actuals
  <2>2. MarineInit => ColumnsFollowLedger /\ AssignedFromPort /\ SweepSeesPilots
    BY DEF MarineInit, ColumnsFollowLedger, AssignedFromPort, SweepSeesPilots, Departed
  <2>3. MarineInit => LegsStartFromPort /\ ReleasedMovementIsWhole /\ ShadowedPilotNeedsAMiss
    BY NullFacts
    DEF MarineInit, LegsStartFromPort, ReleasedMovementIsWhole, ShadowedPilotNeedsAMiss
  <2>4. QED
    BY <2>1, <2>2, <2>3 DEF VisitInv
<1>2. VisitInv /\ [MarineNext]_marineVars => VisitInv'
  <2>1. ASSUME VisitInv, UNCHANGED marineVars PROVE VisitInv'
    BY <2>1
    DEF VisitInv, MarineTypeOK, ColumnsFollowLedger, AssignedFromPort, SweepSeesPilots,
        LegsStartFromPort, ReleasedMovementIsWhole, ShadowedPilotNeedsAMiss, marineVars,
        Arrived, Alongside, Departed
  <2>2. QED
    BY <2>1, VisitInvStep
<1>3. QED
  BY <1>1, <1>2, PTL DEF MarineSpec

(* A call whose arrival an operator's release or a message has recorded, and *)
(* nobody its departure, is in port for the engine; and the arrivals and     *)
(* departures of the messages are in the columns.  A sheet may say otherwise *)
(* of the columns it writes (in_port_sql, _PROJECT_CALL_ACTUALS).            *)
THEOREM ColumnsAreBacked == MarineSpec => []InPortColumnsAreBacked
<1>1. VisitInv => InPortColumnsAreBacked
  BY DEF VisitInv, ColumnsFollowLedger, InPortColumnsAreBacked, InPort
<1>2. QED
  BY <1>1, VisitInvAlways, PTL

(* No pilot shifts a vessel that never berthed or takes out one that never   *)
(* arrived, although the check and the insert are apart.                     *)
THEOREM LegsFromPort == MarineSpec => []LegsStartFromPort
<1>1. VisitInv => LegsStartFromPort
  BY DEF VisitInv
<1>2. QED
  BY <1>1, VisitInvAlways, PTL

(* A released pilot has recorded his whole movement, and no later import,    *)
(* assignment or craft takes a part of it away.                              *)
THEOREM MovementIsWhole == MarineSpec => []ReleasedMovementIsWhole
<1>1. VisitInv => ReleasedMovementIsWhole
  BY DEF VisitInv
<1>2. QED
  BY <1>1, VisitInvAlways, PTL

(* A manual pilot outlives imported pilotage only beside a supersede that is *)
(* due, failed, or could not see him.                                        *)
THEOREM ShadowNeedsAMiss == MarineSpec => []ShadowedPilotNeedsAMiss
<1>1. VisitInv => ShadowedPilotNeedsAMiss
  BY DEF VisitInv
<1>2. QED
  BY <1>1, VisitInvAlways, PTL

-----------------------------------------------------------------------------
(* The craft: on a call that no two transactions have crossed, one is in     *)
(* flight at most, and it has seen who else was out.                         *)
Engaged(v) == "CRAFT_ASSIGNED" \in ledger[v] /\ "CRAFT_RELEASED" \notin ledger[v]

TowsFollowDuty ==
  \A c \in Craft : tow[c] # NoTow =>
    \/ duty[c] = Ashore /\ tow[c].rung = 1
    \/ duty[c] # Ashore /\ duty[c].call = tow[c].call /\ tow[c].rung > duty[c].rung

LoneTow(v) ==
  \A c \in Craft : tow[c].call = v =>
    /\ ~Underway(c, v)
    /\ tow[c].last <=> StillCommitted(c, v) = {}

DutiesAreLogged(v) ==
  /\ Engaged(v) <=> \E c \in Craft : duty[c].call = v
  /\ \A c \in Craft : duty[c].call = v => Milestone[duty[c].rung] \in ledger[v]

CraftInv ==
  /\ MarineTypeOK /\ TowsFollowDuty
  /\ \A v \in Call \ crossed : LoneTow(v) /\ DutiesAreLogged(v)

(* The state the engine derives is the highest rung on the ledger.           *)
LEMMA EngagedState ==
  ASSUME NEW v \in Call, ~Departed(v)
  PROVE  /\ ~Engaged(v) => CraftState(v) = 0
         /\ Engaged(v) => /\ CraftState(v) \in 1..4
                          /\ \A q \in 1..4 : Milestone[q] \in ledger[v] => q <= CraftState(v)
<1>1. ~Engaged(v) => CraftState(v) = 0
  BY DEF Engaged, CraftState
<1>2. ASSUME Engaged(v)
      PROVE  /\ CraftState(v) \in 1..4
             /\ \A q \in 1..4 : Milestone[q] \in ledger[v] => q <= CraftState(v)
  <2> DEFINE Top(r) == /\ Milestone[r] \in ledger[v]
                       /\ \A q \in 1..4 : Milestone[q] \in ledger[v] => q <= r
  <2>1. CraftState(v) = CHOOSE r \in 1..4 : Top(r)
    BY <1>2 DEF Engaged, CraftState
  <2>2. \E r \in 1..4 : Top(r)
    <3>1. Milestone[1] \in ledger[v]
      BY <1>2, MilestoneFacts DEF Engaged
    <3>2. CASE Milestone[4] \in ledger[v]
      BY <3>2
    <3>3. CASE Milestone[4] \notin ledger[v] /\ Milestone[3] \in ledger[v]
      <4>1. Top(3)
        BY <3>3
      <4>2. QED
        BY <4>1
    <3>4. CASE Milestone[4] \notin ledger[v] /\ Milestone[3] \notin ledger[v]
               /\ Milestone[2] \in ledger[v]
      <4>1. \A q \in 1..4 : q = 1 \/ q = 2 \/ q = 3 \/ q = 4
        OBVIOUS
      <4>2. Top(2)
        BY <3>4, <4>1
      <4>3. QED
        BY <4>2
    <3>5. CASE Milestone[4] \notin ledger[v] /\ Milestone[3] \notin ledger[v]
               /\ Milestone[2] \notin ledger[v]
      <4>1. \A q \in 1..4 : q = 1 \/ q = 2 \/ q = 3 \/ q = 4
        OBVIOUS
      <4>2. Top(1)
        BY <3>1, <3>5, <4>1
      <4>3. QED
        BY <4>2
    <3>6. QED
      BY <3>2, <3>3, <3>4, <3>5
  <2> HIDE DEF Top
  <2>3. CraftState(v) \in 1..4 /\ Top(CraftState(v))
    BY <2>1, <2>2
  <2>4. QED
    BY <2>3 DEF Top
<1>3. QED
  BY <1>1, <1>2

LEMMA CraftInvImplies == CraftInv => CraftStateNeedsARace
<1> SUFFICES ASSUME CraftInv, NEW v \in Call, v \notin crossed, ~Departed(v)
             PROVE  /\ CraftState(v) = 0 <=> \A c \in Craft : duty[c].call # v
                    /\ \A c \in Craft : duty[c].call = v =>
                         Milestone[duty[c].rung] \in ledger[v] /\ duty[c].rung <= CraftState(v)
  BY DEF CraftStateNeedsARace
<1>1. DutiesAreLogged(v)
  BY DEF CraftInv
<1>2. \A c \in Craft : duty[c].call = v => duty[c].rung \in 1..4
  BY NullFacts DEF CraftInv, MarineTypeOK, Duty
<1>3. QED
  BY <1>1, <1>2, EngagedState DEF DutiesAreLogged

LEMMA TakeKeeps ==
  ASSUME CraftInv, MarineTypeOK', NEW c \in Craft, NEW v \in Call, NEW r \in Rungs,
         tow[c] = NoTow, Take(c, v, r),
         \/ duty[c] = Ashore /\ r = 1
         \/ duty[c] # Ashore /\ duty[c].call = v /\ r > duty[c].rung
  PROVE  CraftInv'
<1> DEFINE t == [call |-> v, rung |-> r, last |-> StillCommitted(c, v) = {}]
<1>1. /\ tow' = [tow EXCEPT ![c] = t] /\ UNCHANGED <<duty, ledger>>
      /\ crossed' = IF Underway(c, v) THEN crossed \cup {v} ELSE crossed
  BY DEF Take
<1>2. tow \in [Craft -> {NoTow} \cup Tow]
  BY DEF CraftInv, MarineTypeOK, Tow
<1>3. \A d \in Craft : tow'[d] = IF d = c THEN t ELSE tow[d]
  BY <1>1, <1>2
<1>4. TowsFollowDuty'
  BY <1>1, <1>3 DEF CraftInv, TowsFollowDuty
<1>5. ASSUME NEW u \in Call, u \notin crossed' PROVE (LoneTow(u) /\ DutiesAreLogged(u))'
  <2>1. u \notin crossed /\ (u = v => ~Underway(c, v))
    BY <1>1, <1>5
  <2>2. LoneTow(u) /\ DutiesAreLogged(u)
    BY <2>1 DEF CraftInv
  <2>3. DutiesAreLogged(u)'
    BY <1>1, <2>2 DEF DutiesAreLogged, Engaged
  <2>4. LoneTow(u)'
    <3>1. SUFFICES ASSUME NEW d \in Craft, tow'[d].call = u
                   PROVE  /\ \A e \in Craft \ {d} : tow'[e].call # u
                          /\ tow'[d].last <=> StillCommitted(d, u)' = {}
      BY DEF LoneTow, Underway, StillCommitted
    <3>2. StillCommitted(d, u)' = StillCommitted(d, u)
      BY <1>1 DEF StillCommitted
    <3>2a. tow'[c].call = v /\ (tow'[c].last <=> StillCommitted(c, v) = {})
      <4>1. tow'[c] = t
        BY <1>3
      <4>2. t.call = v /\ (t.last <=> StillCommitted(c, v) = {})
        OBVIOUS
      <4> HIDE DEF t
      <4>3. QED
        BY <4>1, <4>2
    <3>3. CASE d = c
      BY <1>3, <2>1, <3>1, <3>2, <3>2a, <3>3 DEF Underway
    <3>4. CASE d # c
      <4>1. tow[d].call = u /\ tow'[d] = tow[d]
        BY <1>3, <3>1, <3>4
      <4>2. u # v
        BY <2>1, <3>4, <4>1 DEF Underway
      <4>3. QED
        BY <1>3, <2>2, <3>2, <3>2a, <4>1, <4>2 DEF LoneTow, Underway
    <3>5. QED
      BY <3>3, <3>4
  <2>5. QED
    BY <2>3, <2>4
<1>6. QED
  BY <1>4, <1>5 DEF CraftInv

(* What one landing makes of the call it is about.                           *)
LEMMA LandedCall ==
  ASSUME CraftInv, NEW c \in Craft, LandCraft(c),
         NEW t, t = tow[c], NEW v, v = t.call, v \notin crossed'
  PROVE  ~Underway(c, v) /\ DutiesAreLogged(v)'
<1>1. /\ t \in Tow /\ v \in Call /\ t.rung \in 1..5 /\ t.last \in BOOLEAN /\ t # NoTow
      /\ duty \in [Craft -> {Ashore} \cup Duty] /\ ledger \in [Call -> SUBSET Milestones]
      /\ tow \in [Craft -> {NoTow} \cup Tow]
  BY DEF CraftInv, MarineTypeOK, LandCraft, Tow, Duty, Rungs, Milestones
<1>2. /\ duty' = [duty EXCEPT ![c] = DutyAfter(t)] /\ ledger' = [ledger EXCEPT ![v] = Chain(t)]
      /\ crossed' = IF t.rung = 1 /\ t.last /\ StillCommitted(c, v) = {} /\ ~Underway(c, v)
                    THEN crossed \ {v} ELSE crossed
  BY DEF LandCraft
<1>3. /\ ledger'[v] = Chain(t)
      /\ \A d \in Craft : duty'[d] = IF d = c THEN DutyAfter(t) ELSE duty[d]
  BY <1>1, <1>2
<1>4. v \notin crossed => LoneTow(v) /\ DutiesAreLogged(v)
  BY <1>1 DEF CraftInv
<1>5. ~Underway(c, v) /\ (t.last <=> StillCommitted(c, v) = {})
  BY <1>2, <1>4 DEF LoneTow
<1>6. v \notin crossed \/ (t.rung = 1 /\ t.last)
  BY <1>2
<1>7. \/ duty[c] = Ashore /\ t.rung = 1
      \/ duty[c] # Ashore /\ duty[c].call = v /\ t.rung > duty[c].rung
  BY <1>1 DEF CraftInv, TowsFollowDuty
<1>8. t.rung > 1 => Engaged(v) /\ v \notin crossed
  <2>1. t.rung > 1 => duty[c].call = v
    BY <1>1, <1>7
  <2>2. QED
    BY <1>1, <1>4, <1>6, <2>1 DEF DutiesAreLogged
<1>9. \A d \in Craft : duty[d].call = v => duty[d].rung \in 1..4
  BY <1>1, NullFacts DEF Duty
<1>10. CASE t.rung = 1 /\ t.last
  <2>1. \A d \in Craft \ {c} : duty[d].call # v
    BY <1>5, <1>10 DEF StillCommitted
  <2>2. duty'[c].call = v /\ duty'[c].rung = 1
    BY <1>3, <1>10 DEF DutyAfter, Released
  <2>3. ledger'[v] = (ledger[v] \ CraftEvents) \cup {"CRAFT_ASSIGNED"}
    BY <1>3, <1>10, MilestoneFacts DEF Chain
  <2>4. Engaged(v)' /\ Milestone[1] \in ledger'[v]
    BY <2>3, MilestoneFacts DEF Engaged
  <2>5. QED
    BY <1>3, <1>5, <2>1, <2>2, <2>4 DEF DutiesAreLogged, Engaged
<1>11. CASE t.rung = 1 /\ ~t.last
  <2>1. v \notin crossed /\ \E d \in Craft \ {c} : duty[d].call = v
    BY <1>5, <1>6, <1>11 DEF StillCommitted
  <2>2. Engaged(v)
    BY <1>4, <2>1 DEF DutiesAreLogged
  <2>3. duty'[c].call = v /\ duty'[c].rung = 1
    BY <1>3, <1>11 DEF DutyAfter, Released
  <2>4. ledger'[v] = ledger[v] \cup {"CRAFT_ASSIGNED"}
    BY <1>3, <1>11, MilestoneFacts DEF Chain
  <2>5. Engaged(v)' /\ Milestone[1] \in ledger'[v]
    BY <2>2, <2>4, MilestoneFacts DEF Engaged
  <2>6. QED
    BY <1>3, <1>4, <1>5, <2>1, <2>3, <2>4, <2>5 DEF DutiesAreLogged, Engaged
<1>12. CASE t.rung \in 2..4
  <2>1. duty'[c].call = v /\ duty'[c].rung = t.rung
    BY <1>3, <1>12 DEF DutyAfter, Released
  <2>2. ledger'[v] = ledger[v] \cup {Milestone[t.rung]}
    BY <1>3, <1>12 DEF Chain, Released
  <2>3. Milestone[t.rung] # "CRAFT_RELEASED"
    <3>1. t.rung = 2 \/ t.rung = 3 \/ t.rung = 4
      BY <1>12
    <3>2. QED
      BY <3>1, MilestoneFacts
  <2>4. Engaged(v)'
    BY <1>8, <1>12, <2>2, <2>3 DEF Engaged
  <2>5. QED
    BY <1>3, <1>4, <1>5, <1>8, <1>12, <2>1, <2>2, <2>4 DEF DutiesAreLogged, Engaged
<1>13. CASE t.rung = 5
  <2>1. duty'[c] = Ashore /\ duty'[c].call # v
    BY <1>1, <1>3, <1>13, NullFacts DEF DutyAfter, Released
  <2>2. Engaged(v) /\ v \notin crossed
    BY <1>8, <1>13
  <2>3. CASE t.last
    <3>1. \A d \in Craft : duty'[d].call # v
      BY <1>3, <1>5, <2>1, <2>3 DEF StillCommitted
    <3>2. "CRAFT_RELEASED" \in ledger'[v]
      BY <1>3, <1>13, <2>3, MilestoneFacts DEF Chain, Released
    <3>3. QED
      BY <1>5, <3>1, <3>2 DEF DutiesAreLogged, Engaged
  <2>4. CASE ~t.last
    <3>1. ledger'[v] = ledger[v]
      BY <1>3, <1>13, <2>4 DEF Chain, Released
    <3>2. \E d \in Craft \ {c} : duty[d].call = v
      BY <1>5, <2>4 DEF StillCommitted
    <3>3. QED
      BY <1>3, <1>4, <1>5, <2>1, <2>2, <3>1, <3>2 DEF DutiesAreLogged, Engaged
  <2>5. QED
    BY <1>1, <2>3, <2>4
<1>14. QED
  BY <1>1, <1>10, <1>11, <1>12, <1>13

LEMMA LandKeeps ==
  ASSUME CraftInv, MarineTypeOK', NEW c \in Craft, LandCraft(c)
  PROVE  CraftInv'
<1> PICK t : t = tow[c]
  OBVIOUS
<1> PICK v : v = t.call
  OBVIOUS
<1>1. /\ t \in Tow /\ v \in Call /\ t # NoTow /\ NoTow.call \notin Call
      /\ duty \in [Craft -> {Ashore} \cup Duty] /\ ledger \in [Call -> SUBSET Milestones]
      /\ tow \in [Craft -> {NoTow} \cup Tow]
  BY NullFacts DEF CraftInv, MarineTypeOK, LandCraft, Tow, Duty, Milestones
<1>2. /\ duty' = [duty EXCEPT ![c] = DutyAfter(t)] /\ ledger' = [ledger EXCEPT ![v] = Chain(t)]
      /\ tow' = [tow EXCEPT ![c] = NoTow]
      /\ crossed \subseteq crossed' \cup {v} /\ crossed' \subseteq crossed
  BY DEF LandCraft
<1>3. \A d \in Craft : /\ duty'[d] = IF d = c THEN DutyAfter(t) ELSE duty[d]
                       /\ tow'[d] = IF d = c THEN NoTow ELSE tow[d]
  BY <1>1, <1>2
<1>4. DutyAfter(t) = Ashore \/ DutyAfter(t).call = v
  BY DEF DutyAfter
<1>5. TowsFollowDuty'
  BY <1>3 DEF CraftInv, TowsFollowDuty
<1>6. duty[c] = Ashore \/ duty[c].call = v
  BY <1>1 DEF CraftInv, TowsFollowDuty
<1>7. ASSUME NEW u \in Call, u \notin crossed', u # v PROVE (LoneTow(u) /\ DutiesAreLogged(u))'
  <2>1. LoneTow(u) /\ DutiesAreLogged(u)
    BY <1>2, <1>7 DEF CraftInv
  <2>2. \A d \in Craft : (duty'[d].call = u <=> duty[d].call = u)
                         /\ (duty[d].call = u => duty'[d] = duty[d])
    BY <1>3, <1>4, <1>6, <1>7, NullFacts
  <2>3. \A d \in Craft : (tow'[d].call = u <=> tow[d].call = u)
                         /\ (tow[d].call = u => tow'[d] = tow[d])
    BY <1>1, <1>3, <1>7
  <2>4. ledger'[u] = ledger[u]
    BY <1>1, <1>2, <1>7
  <2>5. DutiesAreLogged(u)'
    BY <2>1, <2>2, <2>4 DEF DutiesAreLogged, Engaged
  <2>6. LoneTow(u)'
    BY <2>1, <2>2, <2>3 DEF LoneTow, Underway, StillCommitted
  <2>7. QED
    BY <2>5, <2>6
<1>8. ASSUME v \notin crossed' PROVE (LoneTow(v) /\ DutiesAreLogged(v))'
  <2>1. ~Underway(c, v) /\ DutiesAreLogged(v)'
    BY <1>8, LandedCall
  <2>2. \A d \in Craft : tow'[d].call # v
    BY <1>1, <1>3, <2>1 DEF Underway
  <2>3. QED
    BY <2>1, <2>2 DEF LoneTow
<1>9. QED
  BY <1>5, <1>7, <1>8 DEF CraftInv

(* Nothing but a craft's transaction touches the ladder's milestones.        *)
LEMMA OthersKeepCraft ==
  ASSUME CraftInv, MarineTypeOK', MarineNext, UNCHANGED craftVars
  PROVE  CraftInv'
<1>1. ASSUME NEW v \in Call, NEW m \in CraftEvents
      PROVE  m \in ledger'[v] <=> m \in ledger[v]
  <2>1. ledger \in [Call -> SUBSET Milestones]
    BY DEF CraftInv, MarineTypeOK, Milestones
  <2>2. m \notin PilotEvents /\ m \notin VESARR /\ m \notin VESDEP /\ m \notin VisitMilestones
    BY MilestoneFacts, VisitApart DEF PilotEvents, VESARR, VESDEP
  <2>3. ASSUME NEW u \in Call, PilotStep(u)
        PROVE  m \in ledger'[v] <=> m \in ledger[v]
    BY <2>1, <2>2, <2>3
    DEF PilotStep, AssignPilot, LandPilot, RollBackPilot, BoardPilot, ReleasePilot,
        Completes, PilotEvents, VisitMilestones
  <2>4. ASSUME NEW u \in Call, NEW w \in Messages, ImportMovement(u, w)
        PROVE  m \in ledger'[v] <=> m \in ledger[v]
    BY <2>1, <2>2, <2>4, MarineAssumption DEF ImportMovement
  <2>5. CASE SweepStep \/ \E u \in Call : ImportPilotage(u) \/ SheetStep(u)
    BY <2>5 DEF SweepStep, Supersede, SupersedeFails, ImportPilotage, SheetStep, ImportSheet
  <2>6. \A c \in Craft : ~CraftStep(c) /\ ~LandCraft(c) /\ ~RollBackCraft(c)
    BY CraftStepsMove DEF CraftInv
  <2>7. QED
    BY <2>3, <2>4, <2>5, <2>6, NextSplit
<1>2. /\ \A v \in Call : Engaged(v)' <=> Engaged(v)
      /\ \A v \in Call, r \in 1..4 : Milestone[r] \in ledger'[v] <=> Milestone[r] \in ledger[v]
  <2>1. {"CRAFT_ASSIGNED", "CRAFT_RELEASED"} \subseteq CraftEvents
        /\ \A r \in 1..4 : Milestone[r] \in CraftEvents
    BY MilestoneFacts DEF Rungs
  <2>2. QED
    BY <1>1, <2>1 DEF Engaged
<1>3. \A c \in Craft, v \in Call : duty[c].call = v => duty[c].rung \in 1..4
  BY NullFacts DEF CraftInv, MarineTypeOK, Duty
<1>4. \A v \in Call : DutiesAreLogged(v) => DutiesAreLogged(v)'
  BY <1>2, <1>3 DEF DutiesAreLogged, craftVars
<1>5. (\A v \in Call : LoneTow(v) => LoneTow(v)') /\ TowsFollowDuty'
  BY DEF LoneTow, Underway, StillCommitted, craftVars, CraftInv, TowsFollowDuty
<1>6. QED
  BY <1>4, <1>5 DEF CraftInv, craftVars

LEMMA RollBackKeeps ==
  ASSUME CraftInv, MarineTypeOK', NEW c \in Craft, RollBackCraft(c)
  PROVE  CraftInv'
<1>1. /\ tow' = [tow EXCEPT ![c] = NoTow] /\ UNCHANGED <<duty, ledger, crossed>>
      /\ tow \in [Craft -> {NoTow} \cup Tow]
  BY DEF RollBackCraft, CraftInv, MarineTypeOK, Tow
<1>2. \A d \in Craft : tow'[d] = IF d = c THEN NoTow ELSE tow[d]
  BY <1>1
<1>3. TowsFollowDuty'
  BY <1>1, <1>2 DEF CraftInv, TowsFollowDuty
<1>4. \A v \in Call : (LoneTow(v) => LoneTow(v)') /\ (DutiesAreLogged(v) => DutiesAreLogged(v)')
  BY <1>1, <1>2, NullFacts DEF LoneTow, Underway, StillCommitted, DutiesAreLogged, Engaged
<1>5. QED
  BY <1>1, <1>3, <1>4 DEF CraftInv

(* Whether craft are out, and how far they have got, is what the engine      *)
(* derives from the ledger, on every call that no two craft transactions     *)
(* have crossed since it last began to be served alone.                      *)
THEOREM CraftStateTrue == MarineSpec => []CraftStateNeedsARace
<1>1. MarineInit => CraftInv
  <2>1. MarineInit => MarineTypeOK
    BY DEF MarineInit, MarineTypeOK, Actuals
  <2>2. ASSUME MarineInit PROVE TowsFollowDuty /\ \A v \in Call : LoneTow(v) /\ DutiesAreLogged(v)
    BY <2>2, NullFacts
    DEF MarineInit, TowsFollowDuty, LoneTow, DutiesAreLogged, Engaged
  <2>3. QED
    BY <2>1, <2>2 DEF CraftInv
<1>2. CraftInv /\ [MarineNext]_marineVars => CraftInv'
  <2>1. SUFFICES ASSUME CraftInv, [MarineNext]_marineVars PROVE CraftInv'
    OBVIOUS
  <2>2. CASE UNCHANGED marineVars
    BY <2>1, <2>2
    DEF marineVars, CraftInv, MarineTypeOK, TowsFollowDuty, LoneTow, Underway,
        StillCommitted, DutiesAreLogged, Engaged
  <2>3. ASSUME MarineNext PROVE CraftInv'
    <3>1. MarineTypeOK'
      BY <2>1, <2>3, TypeStep DEF CraftInv
    <3>2. ASSUME NEW c \in Craft, CraftStep(c) PROVE CraftInv'
      <4>1. /\ 1 \in Rungs
            /\ duty[c] # Ashore => duty[c].call \in Call
        BY <2>1 DEF Rungs, CraftInv, MarineTypeOK
      <4>2. QED
        BY <2>1, <3>1, <3>2, <4>1, TakeKeeps DEF CraftStep, CommitCraft, AdvanceCraft
    <3>3. ASSUME NEW c \in Craft, LandCraft(c) \/ RollBackCraft(c) PROVE CraftInv'
      BY <2>1, <3>1, <3>3, LandKeeps, RollBackKeeps
    <3>4. CASE SweepStep \/ \E v \in Call : PilotStep(v) \/ ImportPilotage(v) \/ SheetStep(v)
                                            \/ \E m \in Messages : ImportMovement(v, m)
      <4>1. UNCHANGED craftVars
        BY <3>4
        DEF SweepStep, Supersede, SupersedeFails, PilotStep, AssignPilot, LandPilot,
            RollBackPilot, BoardPilot, ReleasePilot, ImportPilotage, ImportMovement,
            SheetStep, ImportSheet
      <4>2. QED
        BY <2>1, <2>3, <3>1, <4>1, OthersKeepCraft
    <3>5. QED
      BY <2>3, <3>2, <3>3, <3>4, NextSplit
  <2>4. QED
    BY <2>1, <2>2, <2>3
<1>3. QED
  BY <1>1, <1>2, CraftInvImplies, PTL DEF MarineSpec

(* An actual that came with a message or a sheet is never overwritten by an  *)
(* operator's (_STAMP_ACTUAL).                                               *)
THEOREM ImportsStand == MarineSpec => ImportedActualsStand
<1> DEFINE Stand == \A v \in Call :
      /\ ata[v] \in {"imported", "sheet"} => ata'[v] \in {"imported", "sheet"}
      /\ atd[v] \in {"imported", "sheet"} => atd'[v] \in {"imported", "sheet"}
<1>1. MarineTypeOK /\ [MarineNext]_marineVars => [Stand]_marineVars
  <2>1. SUFFICES ASSUME MarineTypeOK, MarineNext PROVE Stand
    OBVIOUS
  <2>2. /\ ata \in [Call -> Actuals]
        /\ atd \in [Call -> Actuals]
    BY <2>1 DEF MarineTypeOK
  <2>3. ASSUME NEW v \in Call, PilotStep(v) PROVE Stand
    BY <2>2, <2>3
    DEF PilotStep, AssignPilot, LandPilot, RollBackPilot, BoardPilot, ReleasePilot, Stamped
  <2>4. ASSUME NEW v \in Call, NEW m \in Messages, ImportMovement(v, m) PROVE Stand
    BY <2>2, <2>4 DEF ImportMovement
  <2>5. ASSUME NEW v \in Call, SheetStep(v) PROVE Stand
    BY <2>2, <2>5 DEF SheetStep, ImportSheet
  <2>6. CASE \/ \E c \in Craft : CraftStep(c) \/ LandCraft(c) \/ RollBackCraft(c)
             \/ \E v \in Call : ImportPilotage(v)
             \/ SweepStep
    BY <2>6
    DEF CraftStep, CommitCraft, AdvanceCraft, Take, LandCraft, RollBackCraft,
        ImportPilotage, SweepStep, Supersede, SupersedeFails, visitVars
  <2>7. QED
    BY <2>1, <2>3, <2>4, <2>5, <2>6, NextSplit
<1>2. QED
  BY <1>1, MarineTypeCorrect, PTL DEF MarineSpec, ImportedActualsStand
=============================================================================
