--------------------------- MODULE CustomsBinding ---------------------------
(***************************************************************************)
(* The writers of core.cargo.customs_status outside the cargo service: the *)
(* import of customs files through its ledger, with its automatic          *)
(* reconcile, POST /api/customs/materialize with the reconcile that        *)
(* follows it, and the scan events of services.container_job.              *)
(***************************************************************************)
EXTENDS CargoTable

CONSTANTS
  Files,            (* contents: the ledger knows a file by its hash *)
  FileModule,       (* "IGM", "OOC" or "RMS", as the parser finds it *)
  FileContainer,    (* the container a file is about *)
  FilePosition,     (* for RMS: the place in the selection list *)
  Directory,        (* files found in the customer data directory *)
  Synced,           (* files the JNPA synchronisation delivers *)
  Fallible,         (* files whose transaction may fail *)
  CustomsRequests,  (* in-flight imports, materialize calls and scan events *)
  MortalCustoms,    (* those whose server may die *)
  Scanned           (* containers that pass a scanner *)

ASSUME CustomsAssumption ==
  /\ FileModule \in [Files -> {"IGM", "OOC", "RMS"}]
  /\ FileContainer \in [Files -> Containers]
  /\ DOMAIN FilePosition = Files
  /\ Directory \subseteq Files /\ Synced \subseteq Files /\ Fallible \subseteq Files
  /\ MortalCustoms \subseteq CustomsRequests
  /\ Scanned \subseteq Containers

VARIABLES
  ledger,      (* core.customs_message: the status of each file, per origin *)
  manifest,    (* containers some imported IGM line names *)
  ooc,         (* containers with an imported Out-Of-Charge *)
  selection,   (* the RMS lists: the container in each position *)
  customsReq   (* the progress of each request *)

factVars == <<ledger, manifest, ooc, selection>>
customsBindingVars == <<cargo, audit, factVars, customsReq>>

Origins == {"MANUAL", "API"}
Positions == {FilePosition[f] : f \in Files}
NoContainer == "none"

(* The verdicts a scanner reports: the last writes no status. *)
Verdicts == {"SCANNED_CLEAN", "SCAN_HOLD", "OTHER"}

CustomsRequest ==
  [pc : {"import"}, origin : Origins, todo : SUBSET Files, fresh : BOOLEAN]
    \cup [pc : {"persist"}, origin : Origins, todo : SUBSET Files,
          fresh : BOOLEAN, f : Files]
    \cup [pc : {"reconcile"}]
    \cup [pc : {"inspect"}, cleared : SUBSET Containers]
    \cup [pc : {"reflect"}, c : Containers, verdict : Verdicts]

IdleCustoms == [pc |-> "idle"]

CustomsTypeOK ==
  /\ CargoTypeOK
  /\ ledger \in [Files \X Origins -> {"none", "SUCCESS", "FAILED"}]
  /\ manifest \subseteq Containers
  /\ ooc \subseteq Containers
  /\ selection \in [Positions -> Containers \cup {NoContainer}]
  /\ customsReq \in [CustomsRequests -> CustomsRequest \cup {IdleCustoms}]

CustomsInit ==
  /\ CargoTableInit
  /\ ledger = [d \in Files \X Origins |-> "none"]
  /\ manifest = {}
  /\ ooc = {}
  /\ selection = [p \in Positions |-> NoContainer]
  /\ customsReq = [q \in CustomsRequests |-> IdleCustoms]

Begin(q, request) ==
  /\ customsReq[q].pc = "idle"
  /\ customsReq' = [customsReq EXCEPT ![q] = request]

Step(q, pc, next) ==
  /\ customsReq[q].pc = pc
  /\ customsReq' = [customsReq EXCEPT ![q] = next]

-----------------------------------------------------------------------------
(* Importing files.  A directory run takes its files one by one and          *)
(* reconciles once; the synchronisation imports one file and does not.       *)
ImportStart(q) ==
  /\ \E found \in SUBSET Directory \ {{}} :
       Begin(q, [pc |-> "import", origin |-> "MANUAL", todo |-> found, fresh |-> FALSE])
  /\ UNCHANGED <<cargoVars, factVars>>

SyncStart(q) ==
  /\ \E f \in Synced :
       Begin(q, [pc |-> "import", origin |-> "API", todo |-> {f}, fresh |-> FALSE])
  /\ UNCHANGED <<cargoVars, factVars>>

Without(r, f, fresh) ==
  [pc |-> "import", origin |-> r.origin, todo |-> r.todo \ {f},
   fresh |-> r.fresh \/ fresh]

(* The next file is parsed and looked up; a FAILED ledger row is no          *)
(* duplicate.  The file goes on to its transaction, or is left out.          *)
ImportCheck(q) ==
  LET r == customsReq[q] IN
  /\ r.pc = "import"
  /\ \E f \in r.todo :
       IF ledger[<<f, r.origin>>] = "SUCCESS"
       THEN Step(q, "import", Without(r, f, FALSE))
       ELSE Step(q, "import", [pc |-> "persist", origin |-> r.origin,
                               todo |-> r.todo, fresh |-> r.fresh, f |-> f])
  /\ UNCHANGED <<cargoVars, factVars>>

(* The file cannot be parsed. *)
ImportUnreadable(q) ==
  /\ customsReq[q].pc = "import"
  /\ \E f \in customsReq[q].todo : Step(q, "import", Without(customsReq[q], f, FALSE))
  /\ UNCHANGED <<cargoVars, factVars>>

PersistIgm(f) ==
  manifest' = manifest \cup {FileContainer[f]} /\ UNCHANGED <<ooc, selection>>

PersistOoc(f) ==
  ooc' = ooc \cup {FileContainer[f]} /\ UNCHANGED <<manifest, selection>>

(* An amended list replaces the container in the position. *)
PersistRms(f) ==
  /\ selection' = [selection EXCEPT ![FilePosition[f]] = FileContainer[f]]
  /\ UNCHANGED <<manifest, ooc>>

Persist(f) ==
  CASE FileModule[f] = "IGM" -> PersistIgm(f)
    [] FileModule[f] = "OOC" -> PersistOoc(f)
    [] FileModule[f] = "RMS" -> PersistRms(f)

(* The facts and the ledger row, in one transaction. *)
ImportPersist(q) ==
  LET r == customsReq[q] IN
  /\ r.pc = "persist"
  /\ Step(q, "persist", Without(r, r.f, TRUE))
  /\ Persist(r.f)
  /\ ledger' = [ledger EXCEPT ![<<r.f, r.origin>>] = "SUCCESS"]
  /\ UNCHANGED cargoVars

(* Faulty variant: the ledger row survives the rollback. *)
RecordFailureAsImported(f, origin) ==
  ledger' = [ledger EXCEPT ![<<f, origin>>] = "SUCCESS"]

(* The failure is an upsert in a transaction of its own, whatever the ledger *)
(* says of the file by then; or it is found imported, or is not recorded.    *)
RecordFailure(f, origin) ==
  ledger' = [ledger EXCEPT ![<<f, origin>>] = "FAILED"] \/ UNCHANGED ledger

(* The transaction fails and is rolled back. *)
ImportFail(q) ==
  LET r == customsReq[q] IN
  /\ r.pc = "persist" /\ r.f \in Fallible
  /\ Step(q, "persist", Without(r, r.f, FALSE))
  /\ RecordFailure(r.f, r.origin)
  /\ UNCHANGED <<cargoVars, manifest, ooc, selection>>

(* Faulty variant: a run reconciles only if every file was imported. *)
ReconcilesAfterAll(r) == r.origin = "MANUAL" /\ r.fresh /\ ~ \E f \in Directory :
  ledger[<<f, "MANUAL">>] # "SUCCESS"

ReconcilesAfter(r) == r.origin = "MANUAL" /\ r.fresh

ImportEnd(q) ==
  LET r == customsReq[q] IN
  /\ r.pc = "import" /\ r.todo = {}
  /\ Step(q, "import", IF ReconcilesAfter(r) THEN [pc |-> "reconcile"] ELSE IdleCustoms)
  /\ UNCHANGED <<cargoVars, factVars>>

-----------------------------------------------------------------------------
(* The reconcile, one transaction of two statements.  Each statement sees    *)
(* the facts committed when it begins; the rows it touches are decided then. *)
Selected == {selection[p] : p \in Positions}

ReconcileClear(q) ==
  /\ Step(q, "reconcile",
          [pc |-> "inspect",
           cleared |-> {c \in ooc : cargo[c].present /\ cargo[c].customs # "CLEARED"}])
  /\ UNCHANGED <<cargoVars, factVars>>

(* Faulty variant: a selection wins over an Out-Of-Charge. *)
BoundSelectionFirst(c, cleared) ==
  IF c \in Selected THEN "UNDER_INSPECTION"
  ELSE IF c \in cleared THEN "CLEARED"
  ELSE cargo[c].customs

(* What the two statements leave of a row. *)
Bound(c, cleared) ==
  IF c \in cleared THEN "CLEARED"
  ELSE IF c \in Selected \ ooc /\ cargo[c].customs # "CLEARED" THEN "UNDER_INSPECTION"
  ELSE cargo[c].customs

ReconcileInspect(q) ==
  /\ Step(q, "inspect", IdleCustoms)
  /\ cargo' = [c \in Containers |->
                 IF cargo[c].present
                 THEN [cargo[c] EXCEPT !.customs = Bound(c, customsReq[q].cleared)]
                 ELSE cargo[c]]
  /\ UNCHANGED <<audit, factVars>>

(* POST /api/customs/reconcile. *)
ReconcileStart(q) ==
  /\ Begin(q, [pc |-> "reconcile"])
  /\ UNCHANGED <<cargoVars, factVars>>

-----------------------------------------------------------------------------
InsertMissing(named) ==
  cargo' = [c \in Containers |->
              IF c \in named /\ ~ cargo[c].present
              THEN [AbsentRow EXCEPT !.present = TRUE, !.lifecycle = "CREATED"]
              ELSE cargo[c]]

(* Rows for the manifested containers the call selects (one IGM, a limit)    *)
(* that have none; no audit row.  The caller may leave out the reconcile.    *)
Materialize(q) ==
  /\ \E chosen \in SUBSET manifest : InsertMissing(chosen)
  /\ Begin(q, [pc |-> "reconcile"])
  /\ UNCHANGED <<audit, factVars>>

MaterializeOnly ==
  /\ \E chosen \in SUBSET manifest : InsertMissing(chosen)
  /\ UNCHANGED <<audit, factVars, customsReq>>

(* POST /api/scan/events: core.scan_event takes the verdict, an append-only  *)
(* row no rule reads; then the status it stands for goes to the cargo row.    *)
ScanRecord(q, c, verdict) ==
  /\ Begin(q, [pc |-> "reflect", c |-> c, verdict |-> verdict])
  /\ UNCHANGED <<cargoVars, factVars>>

ScanStatus(verdict) ==
  CASE verdict = "SCANNED_CLEAN" -> "PENDING"
    [] verdict = "SCAN_HOLD"     -> "UNDER_INSPECTION"
    [] verdict = "OTHER"         -> "keep"

(* A blind UPDATE: no row, no effect; whatever the status was, it is gone. *)
ScanReflect(q) ==
  LET c == customsReq[q].c
      patch == [NoPatch EXCEPT !.customs = ScanStatus(customsReq[q].verdict)]
  IN /\ Step(q, "reflect", IdleCustoms)
     /\ \/ UpdateTxn(c, patch)
        \/ ~ cargo[c].present /\ UNCHANGED cargoVars
     /\ UNCHANGED factVars

(* The server dies, or a reconcile fails and is only logged. *)
CustomsCrash(q) ==
  /\ customsReq[q].pc # "idle"
  /\ customsReq' = [customsReq EXCEPT ![q] = IdleCustoms]
  /\ UNCHANGED <<cargoVars, factVars>>

(* The steps of the cargo service this module needs: a record that becomes   *)
(* verified and is released behind the customs gate.                         *)
ReleaseElsewhere(c) ==
  /\ \/ AdvanceTxn(c, "YARD_ASSIGNED", YardAssignFrom, NoPatch, {})
     \/ AdvanceTxn(c, "VERIFIED", AllowedPredecessors("VERIFIED"), NoPatch, {})
     \/ AdvanceTxn(c, "RELEASED", AllowedPredecessors("RELEASED"),
                   [NoPatch EXCEPT !.released = "true"], CUSTOMS_BLOCKS_RELEASE)
  /\ UNCHANGED <<factVars, customsReq>>

CustomsRun(q) ==
  \/ ImportStart(q) \/ SyncStart(q)
  \/ ImportCheck(q) \/ ImportUnreadable(q)
  \/ ImportPersist(q) \/ ImportFail(q) \/ ImportEnd(q)
  \/ ReconcileStart(q) \/ ReconcileClear(q) \/ ReconcileInspect(q)
  \/ Materialize(q)
  \/ \E c \in Scanned, verdict \in Verdicts : ScanRecord(q, c, verdict)
  \/ ScanReflect(q)

CustomsNext ==
  \/ \E q \in CustomsRequests : CustomsRun(q)
  \/ \E q \in MortalCustoms : CustomsCrash(q)
  \/ MaterializeOnly
  \/ \E c \in Containers : ReleaseElsewhere(c)

(* The steps a request takes once it was started. *)
Continues(q) ==
  \/ ImportCheck(q) \/ ImportUnreadable(q)
  \/ ImportPersist(q) \/ ImportFail(q) \/ ImportEnd(q)
  \/ ReconcileClear(q) \/ ReconcileInspect(q) \/ ScanReflect(q)

(* A request whose server does not die runs to its end. *)
CustomsFairness ==
  \A q \in CustomsRequests \ MortalCustoms : WF_customsBindingVars(Continues(q))

CustomsSpec ==
  CustomsInit /\ [][CustomsNext]_customsBindingVars /\ CustomsFairness

-----------------------------------------------------------------------------
WillReconcile(q) ==
  \/ customsReq[q].pc = "reconcile"
  \/ customsReq[q].pc \in {"import", "persist"}
       /\ customsReq[q].origin = "MANUAL" /\ customsReq[q].fresh

(* Files and rows may come in any order and files may fail: once a request   *)
(* that survives has imported one file or materialized, every container that *)
(* has an Out-Of-Charge and a row comes to be CLEARED.                       *)
OutOfChargeReachesCargo ==
  \A q \in CustomsRequests \ MortalCustoms, c \in Containers :
    (WillReconcile(q) /\ c \in ooc /\ cargo[c].present) ~> (cargo[c].customs = "CLEARED")

(* But for a scanner, a disposition changes only for a customs fact: no      *)
(* concurrent or late reconcile, and no amended list, takes a clearance back *)
(* or gives one.                                                             *)
DispositionHasFact ==
  [][\A c \in Containers :
       cargo'[c].customs # cargo[c].customs =>
         \/ cargo'[c].customs = "CLEARED" /\ c \in ooc
         \/ /\ cargo'[c].customs = "UNDER_INSPECTION"
            /\ c \in Selected /\ c \notin ooc
         \/ ~ cargo[c].present
         \/ \E q \in CustomsRequests :
              /\ customsReq[q].pc = "reflect" /\ customsReq[q].c = c
              /\ cargo'[c].customs = ScanStatus(customsReq[q].verdict)]_customsBindingVars

(* A file the ledger will skip from now on is one whose facts were imported, *)
(* however imports of it race, fail, are repeated or die.                    *)
SkippedFilesAreImported ==
  \A f \in Files, o \in Origins :
    FileModule[f] = "OOC" /\ ledger[<<f, o>>] = "SUCCESS" => FileContainer[f] \in ooc

(* Materialize may be called at any time: it disturbs no container already   *)
(* moving through the yard.                                                  *)
NothingFastForwardedOrReset ==
  [][\A c \in Containers :
       cargo[c].present =>
         /\ cargo'[c].present
         /\ \/ cargo'[c].lifecycle = cargo[c].lifecycle
            \/ Rank[Effective(cargo[c])] < Rank[Effective(cargo'[c])]
         /\ cargo[c].released => cargo'[c].released]_customsBindingVars

(* A hold that lands from a scan or a reconcile, at whatever moment, stops a *)
(* release that has not committed.                                           *)
HoldStopsRelease ==
  [][\A c \in Containers :
       cargo'[c].lifecycle = "RELEASED" /\ cargo[c].lifecycle # "RELEASED"
         => cargo[c].customs \notin CUSTOMS_BLOCKS_RELEASE]_customsBindingVars

=============================================================================
