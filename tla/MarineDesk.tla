----------------------------- MODULE MarineDesk -----------------------------
(***************************************************************************)
(* The marine desk: craft and pilots an operator commits to a vessel call, *)
(* the milestone ledger they share with the imported messages, and the     *)
(* state the engine derives from it (services/marine).                     *)
(*                                                                         *)
(* Every service call is one READ COMMITTED transaction.  What it reads    *)
(* and decides is one step (CommitCraft, AdvanceCraft, AssignPilot), what  *)
(* it writes becomes visible in another (LandCraft, LandPilot); in between *)
(* it holds the row lock, or the unique-index entry, of its craft or of    *)
(* its call's pilot row.  It may also be rolled back.  Boarding, releasing *)
(* and importing decide nothing from an earlier read and are one step.     *)
(*                                                                         *)
(* The ledger is a set of milestones, as derive_state reads it; times,     *)
(* berth numbers, ANCHORED and BERTH_ALLOTTED are left out.                *)
(***************************************************************************)
EXTENDS Naturals, FiniteSets

CONSTANTS
  Call,       \* vessel calls
  Craft,      \* tugs, launches and mooring craft
  NoCall,     \* the call of a craft nobody has committed
  Messages    \* milestone sets a VESARR or VESDEP message may carry

VESARR == {"PILOT_BOARDED", "BERTHED", "ARRIVED"}
VESDEP == {"PILOT_BOARDED", "SAILED", "DEPARTED"}

ASSUME MarineAssumption == /\ NoCall \notin Call
                           /\ \A m \in Messages : m \subseteq VESARR \/ m \subseteq VESDEP

VARIABLES
  duty,      \* each craft's live commitment, a call and a rung, or Ashore
  tow,       \* each craft's transaction in flight, or NoTow
  ledger,    \* core.vessel_call_event: the milestones of each call
  pilot,     \* each call's active manual pilot row, or NoPilot
  boarding,  \* the leg each pilot assignment in flight has passed with
  pilotage,  \* calls with imported pilotage
  ata, atd,  \* who wrote the actuals on core.vessel_call last, "null" for nobody
  sweep,     \* an import has committed and its supersede has still to run
  crossed,   \* history: calls on which two craft transactions overlapped
  missed     \* history: calls a supersede could not see

marineVars == <<duty, tow, ledger, pilot, boarding, pilotage, ata, atd, sweep, crossed, missed>>
craftVars == <<duty, tow, crossed>>
visitVars == <<pilot, boarding, pilotage, ata, atd, sweep, missed>>

Rungs == 1..5         \* LADDER: Assigned, Dispatched, On Scene, Assisting, Released
Released == 5
Milestone == <<"CRAFT_ASSIGNED", "CRAFT_DISPATCHED", "CRAFT_ON_SCENE",
               "CRAFT_ASSISTING", "CRAFT_RELEASED">>
CraftEvents == {Milestone[r] : r \in Rungs}
PilotEvents == {"PILOT_REQUESTED", "PILOT_BOARDED", "PILOT_DISEMBARKED"}
Legs == {"INWARD", "SHIFTING", "OUTWARD"}
\* An operator's release, the projection of a message, or a vessel-call sheet.
Actuals == {"null", "manual", "imported", "sheet"}

Ashore == [call |-> NoCall, rung |-> 0]
NoTow == [call |-> NoCall, rung |-> 0, last |-> FALSE]
NoPilot == [status |-> "none", leg |-> "none"]

-----------------------------------------------------------------------------
(* state_engine.derive_state, the parts the desk relies on. *)

Departed(v) == "DEPARTED" \in ledger[v]
Alongside(v) == "BERTHED" \in ledger[v]
Arrived(v) == Alongside(v) \/ "ARRIVED" \in ledger[v]
InPort(v) == Arrived(v) /\ ~Departed(v)
AtBerth(v) == Alongside(v) /\ ~Departed(v)

\* craft_state as a rung: 0 is Idle.
CraftState(v) ==
  IF Departed(v) \/ "CRAFT_RELEASED" \in ledger[v] \/ "CRAFT_ASSIGNED" \notin ledger[v] THEN 0
  ELSE CHOOSE r \in 1..4 : /\ Milestone[r] \in ledger[v]
                           /\ \A q \in 1..4 : Milestone[q] \in ledger[v] => q <= r

LegalMovements(v) == {l \in Legs : \/ l = "INWARD" /\ ~Arrived(v)
                                   \/ l = "SHIFTING" /\ AtBerth(v)
                                   \/ l = "OUTWARD" /\ InPort(v)}

-----------------------------------------------------------------------------
(* manual_craft *)

\* _STILL_COMMITTED: the other live commitments of the call, as committed so far.
StillCommitted(c, v) == {d \in Craft \ {c} : duty[d].call = v}
Underway(c, v) == \E d \in Craft \ {c} : tow[d].call = v

\* A transaction takes craft c's row: the call is crossed when another one is in flight on it.
Take(c, v, r) ==
  /\ tow' = [tow EXCEPT ![c] = [call |-> v, rung |-> r, last |-> StillCommitted(c, v) = {}]]
  /\ crossed' = IF Underway(c, v) THEN crossed \cup {v} ELSE crossed
  /\ UNCHANGED <<duty, ledger, visitVars>>

\* assign: refused by uq_manual_craft_assignment_live while the craft is out.
CommitCraft(c, v) == tow[c] = NoTow /\ duty[c] = Ashore /\ Take(c, v, 1)

\* advance and release: only to a later rung.
AdvanceCraft(c, r) ==
  tow[c] = NoTow /\ duty[c] # Ashore /\ r > duty[c].rung /\ Take(c, duty[c].call, r)

\* Faulty variant: the milestones of the last engagement stay.
ChainKept(t) == ledger[t.call] \cup {Milestone[t.rung]}
DutyAfter(t) == IF t.rung = Released THEN Ashore ELSE [call |-> t.call, rung |-> t.rung]

\* The milestones the transaction leaves behind on its call.
Chain(t) ==
  LET chain == ledger[t.call]
  IN  IF t.rung = 1 THEN (IF t.last THEN chain \ CraftEvents ELSE chain) \cup {Milestone[1]}
      ELSE IF t.rung = Released /\ ~t.last THEN chain
      ELSE chain \cup {Milestone[t.rung]}

\* An engagement begun with nobody else out or in flight starts a chain of its own.
LandCraft(c) ==
  LET t == tow[c] IN
  /\ t # NoTow
  /\ tow' = [tow EXCEPT ![c] = NoTow]
  /\ duty' = [duty EXCEPT ![c] = DutyAfter(t)]
  /\ ledger' = [ledger EXCEPT ![t.call] = Chain(t)]
  /\ crossed' = IF t.rung = 1 /\ t.last /\ StillCommitted(c, t.call) = {} /\ ~Underway(c, t.call)
                THEN crossed \ {t.call} ELSE crossed
  /\ UNCHANGED visitVars

RollBackCraft(c) ==
  /\ tow[c] # NoTow
  /\ tow' = [tow EXCEPT ![c] = NoTow]
  /\ UNCHANGED <<duty, ledger, crossed, visitVars>>

-----------------------------------------------------------------------------
(* manual_pilot *)

Insertable(v) == pilot[v] = NoPilot /\ v \notin pilotage

\* Faulty variant: the position of the vessel is not looked at.
PossibleAny(v) == Legs \cup {"undeclared"}

\* An undeclared leg is never refused; a declared one must be possible now.
Possible(v) == LegalMovements(v) \cup {"undeclared"}

\* assign, up to the INSERT ... WHERE NOT EXISTS and its unique-index entry.
AssignPilot(v, leg) ==
  /\ boarding[v] = "none"
  /\ leg \in Possible(v)
  /\ Insertable(v)
  /\ boarding' = [boarding EXCEPT ![v] = leg]
  /\ UNCHANGED <<craftVars, ledger, pilot, pilotage, ata, atd, sweep, missed>>

\* The chain is cleared unless imported pilotage has landed since.
LandPilot(v) ==
  /\ boarding[v] # "none"
  /\ pilot' = [pilot EXCEPT ![v] = [status |-> "Assigned", leg |-> boarding[v]]]
  /\ ledger' = [ledger EXCEPT ![v] =
       (IF v \in pilotage THEN @ ELSE @ \ PilotEvents) \cup {"PILOT_REQUESTED"}]
  /\ boarding' = [boarding EXCEPT ![v] = "none"]
  /\ UNCHANGED <<craftVars, pilotage, ata, atd, sweep, missed>>

RollBackPilot(v) ==
  /\ boarding[v] # "none"
  /\ boarding' = [boarding EXCEPT ![v] = "none"]
  /\ UNCHANGED <<craftVars, ledger, pilot, pilotage, ata, atd, sweep, missed>>

BoardPilot(v) ==
  /\ pilot[v].status = "Assigned"
  /\ pilot' = [pilot EXCEPT ![v].status = "Onboard"]
  /\ ledger' = [ledger EXCEPT ![v] = @ \cup {"PILOT_BOARDED"}]
  /\ UNCHANGED <<craftVars, boarding, pilotage, ata, atd, sweep, missed>>

\* Faulty variant: the visit milestone of a vessel that comes in is left out.
CompletesNothingInward(leg) == IF leg = "OUTWARD" THEN {"SAILED", "BERTH_VACATED"} ELSE {}

\* What a completed leg records: its visit milestone and, outward, the vacated berth.
Completes(leg) == CASE leg \in {"INWARD", "SHIFTING"} -> {"BERTHED"}
                    [] leg = "OUTWARD" -> {"SAILED", "BERTH_VACATED"}
                    [] OTHER -> {}

\* _STAMP_ACTUAL fires only over NULL.
Stamped(actual) == IF actual = "null" THEN "manual" ELSE actual

ReleasePilot(v) ==
  /\ pilot[v].status \in {"Assigned", "Onboard"}
  /\ pilot' = [pilot EXCEPT ![v].status = "Released"]
  /\ ledger' = [ledger EXCEPT ![v] = @ \cup {"PILOT_DISEMBARKED"} \cup Completes(pilot[v].leg)]
  /\ ata' = [ata EXCEPT ![v] = IF pilot[v].leg = "INWARD" THEN Stamped(@) ELSE @]
  /\ atd' = [atd EXCEPT ![v] = IF pilot[v].leg = "OUTWARD" THEN Stamped(@) ELSE @]
  /\ UNCHANGED <<craftVars, boarding, pilotage, sweep, missed>>

-----------------------------------------------------------------------------
(* The import path: one file at a time, then the supersede. *)

\* The actuals follow the ledger, so a re-import heals what an operator stamped.
ImportMovement(v, m) ==
  /\ ~sweep
  /\ ledger' = [ledger EXCEPT ![v] = @ \cup m]
  /\ ata' = [ata EXCEPT ![v] = IF "ARRIVED" \in ledger'[v] THEN "imported" ELSE @]
  /\ atd' = [atd EXCEPT ![v] = IF "DEPARTED" \in ledger'[v] THEN "imported" ELSE @]
  /\ sweep' = TRUE
  /\ UNCHANGED <<craftVars, pilot, boarding, pilotage, missed>>

\* A vessel-call sheet names its actuals outright: they replace what the columns
\* hold, and no milestone is written.
ImportSheet(v, named) ==
  /\ ~sweep
  /\ ata' = [ata EXCEPT ![v] = IF "ata" \in named THEN "sheet" ELSE @]
  /\ atd' = [atd EXCEPT ![v] = IF "atd" \in named THEN "sheet" ELSE @]
  /\ sweep' = TRUE
  /\ UNCHANGED <<craftVars, ledger, pilot, boarding, pilotage, missed>>

ImportPilotage(v) ==
  /\ ~sweep
  /\ pilotage' = pilotage \cup {v}
  /\ sweep' = TRUE
  /\ UNCHANGED <<craftVars, ledger, pilot, boarding, ata, atd, missed>>

\* Faulty variant: the supersede takes a released pilot only.
SupersedeReleased ==
  /\ sweep
  /\ sweep' = FALSE
  /\ pilot' = [v \in Call |-> IF v \in pilotage /\ pilot[v].status = "Released" THEN NoPilot
                              ELSE pilot[v]]
  /\ missed' = {v \in pilotage : boarding[v] # "none"}
  /\ UNCHANGED <<craftVars, ledger, boarding, pilotage, ata, atd>>

\* _SUPERSEDE, in a transaction of its own: it cannot see an assignment in flight.
Supersede ==
  /\ sweep
  /\ sweep' = FALSE
  /\ pilot' = [v \in Call |-> IF v \in pilotage THEN NoPilot ELSE pilot[v]]
  /\ missed' = {v \in pilotage : boarding[v] # "none"}
  /\ UNCHANGED <<craftVars, ledger, boarding, pilotage, ata, atd>>

\* The supersede fails (only logged) or the process dies before it.
SupersedeFails ==
  /\ sweep
  /\ sweep' = FALSE
  /\ missed' = pilotage
  /\ UNCHANGED <<craftVars, ledger, pilot, boarding, pilotage, ata, atd>>

-----------------------------------------------------------------------------
MarineInit ==
  /\ duty = [c \in Craft |-> Ashore]
  /\ tow = [c \in Craft |-> NoTow]
  /\ ledger = [v \in Call |-> {}]
  /\ pilot = [v \in Call |-> NoPilot]
  /\ boarding = [v \in Call |-> "none"]
  /\ pilotage = {} /\ crossed = {} /\ missed = {}
  /\ ata = [v \in Call |-> "null"] /\ atd = [v \in Call |-> "null"]
  /\ sweep = FALSE

CraftNext == \E c \in Craft : \/ \E v \in Call : CommitCraft(c, v)
                             \/ \E r \in Rungs : AdvanceCraft(c, r)
                             \/ LandCraft(c) \/ RollBackCraft(c)
PilotNext == \E v \in Call : \/ \E leg \in Legs \cup {"undeclared"} : AssignPilot(v, leg)
                            \/ LandPilot(v) \/ RollBackPilot(v)
                            \/ BoardPilot(v) \/ ReleasePilot(v)
ImportNext == \/ \E v \in Call : \/ \E m \in Messages : ImportMovement(v, m)
                                \/ \E named \in SUBSET {"ata", "atd"} : ImportSheet(v, named)
                                \/ ImportPilotage(v)
              \/ Supersede \/ SupersedeFails

MarineNext == CraftNext \/ PilotNext \/ ImportNext

MarineSpec == MarineInit /\ [][MarineNext]_marineVars

-----------------------------------------------------------------------------
MarineTypeOK ==
  /\ duty \in [Craft -> {Ashore} \cup [call : Call, rung : 1..4]]
  /\ tow \in [Craft -> {NoTow} \cup [call : Call, rung : Rungs, last : BOOLEAN]]
  /\ ledger \in [Call -> SUBSET (CraftEvents \cup PilotEvents \cup VESARR \cup VESDEP
                                 \cup {"BERTH_VACATED"})]
  /\ pilot \in [Call -> {NoPilot} \cup [status : {"Assigned", "Onboard", "Released"},
                                         leg : Legs \cup {"undeclared"}]]
  /\ boarding \in [Call -> Legs \cup {"none", "undeclared"}]
  /\ ata \in [Call -> Actuals] /\ atd \in [Call -> Actuals]
  /\ pilotage \subseteq Call /\ crossed \subseteq Call /\ missed \subseteq Call
  /\ sweep \in BOOLEAN

\* Whether craft are out, and how far they have got, is what the engine says
\* it is, unless two craft transactions of the call overlapped; then the two
\* last craft may each count the other as still out and CRAFT_RELEASED is never
\* written, or a craft is committed under a CRAFT_RELEASED.  The next
\* engagement of the call that begins alone puts it right.
CraftStateNeedsARace ==
  \A v \in Call : v \notin crossed /\ ~Departed(v) =>
    /\ CraftState(v) = 0 <=> \A c \in Craft : duty[c].call # v
    /\ \A c \in Craft : duty[c].call = v => /\ Milestone[duty[c].rung] \in ledger[v]
                                            /\ duty[c].rung <= CraftState(v)

\* An operator's pilot row stays active beside imported pilotage only while the
\* supersede is still to come, or after one that failed or that ran while the
\* row was not yet committed.
ShadowedPilotNeedsAMiss ==
  \A v \in pilotage : pilot[v] # NoPilot => sweep \/ v \in missed

\* The columns and the engine agree on who is in port, except where a sheet has
\* written the column.  An arrival by a release or by a message, and no departure
\* (in_port_sql), is in port for the engine; and a vessel whose arrival came by
\* message, and no departure, has an actual arrival and no imported departure.
InPortColumnsAreBacked ==
  \A v \in Call :
    /\ ata[v] \in {"manual", "imported"} /\ atd[v] = "null" => InPort(v)
    /\ "ARRIVED" \in ledger[v] /\ ~Departed(v) => ata[v] # "null" /\ atd[v] # "imported"

\* A released pilot has recorded his whole movement: the visit milestone, the
\* vacated berth when outward, and the actual of the leg.
ReleasedMovementIsWhole ==
  \A v \in Call : pilot[v].status = "Released" =>
    /\ pilot[v].leg = "INWARD" => Alongside(v) /\ ata[v] # "null"
    /\ pilot[v].leg = "OUTWARD" => {"SAILED", "BERTH_VACATED"} \subseteq ledger[v] /\ atd[v] # "null"

\* No pilot shifts a vessel that never berthed or takes out one that never
\* arrived, whatever was imported between the check and the insert.
LegsStartFromPort ==
  \A v \in Call : /\ pilot[v].leg = "SHIFTING" => Alongside(v)
                  /\ pilot[v].leg = "OUTWARD" => Arrived(v)

\* An actual that was imported, by a message or by a sheet, is never replaced by
\* an operator's.
ImportedActualsStand ==
  [][\A v \in Call : /\ ata[v] \in {"imported", "sheet"} => ata'[v] \in {"imported", "sheet"}
                     /\ atd[v] \in {"imported", "sheet"} => atd'[v] \in {"imported", "sheet"}
    ]_marineVars
=============================================================================
