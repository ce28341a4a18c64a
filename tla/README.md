# A TLA+ model of the UC-III port core

The repository is a digital twin of Jawaharlal Nehru Port: a FastAPI gateway, some twenty
services on one PostgreSQL database, stream ingestion, AI services and two front ends.  This
directory specifies the parts of it that keep state and change it concurrently, checks them with
TLC on small instances, and proves their safety properties with TLAPS for every instance.

What decides where a container may go is the container record and its lifecycle
(`services/cargo`), the truck jobs bound to containers (`services/container_job`), the customs
documents that clear or hold them (`services/customs`) and the export bookings that share the same
row (`services/export_lifecycle`).  Around it lie the ways records come in (`services/jnpa_sync`,
`services/email_ingest`, `ingest/rfid`), what the port does about vehicles and vessels
(`gateway/enforcement.py`, `services/enforcement_escalation`, `parking`, `services/marine`,
`gateway/crosstwin.py`), and the tool that carries the database to another server
(`tools/migrate_to_rds`).

Almost every request of these services runs as **several short PostgreSQL transactions**, with
nothing held between them.  The models take one transaction as one step.  Inside a transaction the
code takes the row lock (`SELECT ... FOR UPDATE`), looks, writes and appends the audit row, or it
relies on one guarded statement or a unique index; between two transactions anything may commit,
and the process may die.  All the hard behaviour of the system lies there.  Where a transaction
reads, decides and writes under READ COMMITTED without a lock (the marine desk), the decision and
the commit are two steps.

## The parts of the system

| part | state it keeps | operations | what is hard | what makes it correct |
|---|---|---|---|---|
| Cargo record (`services/cargo`) | `core.cargo`, `core.cargo_lifecycle_event`, `core.cargo_scan_verification` | create, PUT, delete, discharge, pendency, yard assignment, yard position, reefer and rake plan, verify, release | a PUT decides from an unlocked snapshot; verify, PUT and yard assignment are several transactions; rows with an unset lifecycle are judged by other columns | the audit log explains the row; lifecycle moves forward through the gates; no release without verification or under a customs hold; `is_released` agrees with the lifecycle |
| Slot planning (same service) | `core.cargo_yard_plan`, `core.cargo_reefer_plan` | yard plan, reefer plan, yard position | count in one transaction, insert in another | no slot planned twice |
| Container jobs (`services/container_job`) | `core.container_job_assignment`, `core.container_job_event`, `core.gate_event`, `core.cargo_movement_event` | assign, accept, complete, cancel, gate crossing, yard movement, scan event | seven reads before one INSERT; facts recorded in one transaction and acted on in the next, with the status read before either | one open job per truck, container and driver; no dispatch under a hold; status backed by facts and by history; a recorded crossing takes effect |
| Customs binding (`services/customs`) | the import ledger, the document tables behind `mart.v_customs_container_status`, `core.cargo.customs_status` | import with automatic reconcile, materialize, reconcile | facts and rows come in either order; files fail, are retried, repeated or amended; a run may die before its reconcile; scan verdicts and reconcile write one column | a skipped file was imported; a cleared container has an Out-Of-Charge; an Out-Of-Charge clears its container; materialize disturbs nothing |
| Export lifecycle (`services/export_lifecycle`) | `core.export_booking`, `core.export_booking_event`, and the mirror in `core.cargo` | book, Form 13, gate-in, VGM, LEO, load list, load, cancel | the mirror is a second transaction and a blind upsert | one open booking per container; the mirror is never ahead, and catches up with the load |
| Port data sync (`services/jnpa_sync`) | `core.api_record`, `core.api_sync_state`, the raw store, an advisory lock | scheduled and manual walk of a group, land a record, replay | ties in the published times, faults between the five steps of one record, overlapping runs, a replay beside them, copies of one file | no record before the watermark is missing; publishing ends in processing; a record that is stuck met a fault |
| E-mail ingestion (`services/email_ingest`) | `core.email_message`, `core.email_attachment`, `core.email_processing_error`, and the ledgers of the two importers | poll, preview, import, override | previews write; two requests on one message; the message moves; an importer fails half way, or writes nothing and counts nothing; a request dies | PROCESSED means imported (violated), or at least that not everything failed; every failure has its explanation; an import settles |
| Enforcement (`gateway/enforcement.py`, `gateway/routers/violations.py`) | `core.violation_case`, `core.alert`, `core.challan`, `core.case_audit` | open or commit a case, issue a challan, move through the states | every statement commits on its own; two requests on one case; a request that dies in between | a challan fines what its alerts say; the audit log names the status; a hop is legal |
| Escalation (`services/enforcement_escalation`) | `core.violation_escalation`, `core.notification_delivery` | evaluate, fire a rung, deliver on three channels | evaluators race; mail leaves before its row; the mailer fails; an evaluator dies | each rung is announced once a channel, no rung is passed over, and every fired rung is announced |
| Parking (`parking`) | `core.parking_slot`, `core.parking_transaction` | allocate, release | two transactions each; a subquery a waiting release does not evaluate again | a slot has one vehicle; a slot with nobody in it is free |
| Marine desk (`services/marine`) | craft and pilot assignments, `core.vessel_call_event`, `core.vessel_call` | assign, advance, release craft; assign, board, release a pilot; imports of VESARR, VESDEP, vessel-call sheets and pilotage, with their supersede | reads under READ COMMITTED; the import's supersede is a transaction of its own; manual and imported facts in one ledger; a sheet writes columns and no milestone | milestones agree with the rows; no leg that the position forbids; columns and engine agree on who is in port, sheets apart |
| Gate appointments and cross-twin windows (`gateway/crosstwin.py`, `gateway/tas_mock.py`, `gateway/routers/rms_tas.py`) | a ring of windows in memory, `core.deferred_arrival_window`, `core.tas_appointment`, `core.tas_booking` | apply a window, restore at start, book, cancel, seed, sync | redelivery, restart, the count lost between memory and row; order of the restore | the cap of a window holds over restarts; the newest window rules; seats are counted |
| Correlator (`ingest/rfid/correlator.py`) | two buffers per gate, the pairs confirmed | plate read, tag read, expire, prune | late and repeated reads, two threads, event time against arrival time | a pair is confirmed once a window; no pair that fits is left over |
| Copy to RDS (`tools/migrate_to_rds`) | the target database, the state file, the sequences | migrate, resume, verify | killed anywhere, resumed, repeated, beside a source in use | a prefix of the source, each row once; a verdict that is true; no key given out twice |
| Event bus (`services/lifecycle_bus.py`) | none | fan-out to Kafka, WebSocket, notifications | best effort, after the commit | no request fails because of it |
| Provisional verification (`gateway/provisional.py`, `gateway/fallback.py`) | in-memory entries | admit provisionally, reconcile | restart, reconcile racing a late answer | every provisional entry is decided once |
| Rail, CFS, registries, identity, AI, front ends, schema | their own tables | import, CRUD, dashboards | mostly numeric or I/O | listed in `PROJECT.json` with the reason each is left out |

How they interact: all through rows.  `core.cargo` is written by the cargo service, by customs
(reconcile, materialize), by scan events of the job service and by the export mirror; a job reads
it under a lock when it is created.  `CargoTable` is therefore a module of its own: it holds the
table and the transactions, and every component that touches the table EXTENDS it.  The sync and
the mailbox hand files to the customs importers, of which they see only the outcome.  Cases,
ladders, parking slots, vessel calls, windows and copies share no row with one another.

## Modules

| module | models | state | actions |
|---|---|---|---|
| `CargoLifecycle` | the pure rules: states, ranks, mandatory gates, predecessors | none | none |
| `CargoTable` | `core.cargo` and its audit log, one operator per repository transaction | `cargo`, `audit` | none (operators used by the others) |
| `CargoService` | `services.cargo.service` | + `req` (what a request has read and does next), `scanLog` | one per operation, or one per transaction of it; `Crash` |
| `ReleaseGate` | abstract: what customs is promised about a container that leaves | `phase`, `held` | `Register Remove Dispose Verify Leave` |
| `ExclusiveClaims` | abstract: what a unique index on open rows promises an owner; `ContainerJob` and `ExportLifecycle` implement it | `stage claims` | `Claim GiveUp` |
| `YardPlanning` | the two slot allocators | `block plans positions reefers planner`, history `departures` | read, insert, crash, and containers that come and go |
| `ContainerJob` | `services.container_job` | + `jobs history facts dispatch field` | each check of an assignment, the INSERT, each transaction of a gate or yard report, commands, crash |
| `CustomsBinding` | the import ledger and the customs writers of `customs_status` | + `ledger manifest ooc selection customsReq` | each step of an import (look up, persist, fail, end), the two statements of a reconcile, materialize, scan event, crash, release |
| `ExportLifecycle` | `services.export_lifecycle` | + `booking reached exportReq` | check, INSERT, the six steps, mirror, cancel, crash |
| `PortSync` | `sync_group` and `replay_unrouted` of one indexed group | `published row storedPath store imported watermark lock run replay` | publish, take the lock, start, list, insert, probe, fetch, route, mark, finish, every failure, crash, replay |
| `EmailIngest` | `process()` of one e-mail, what it sees of the two importers, and the poll | `parts uid listed mailStatus partStatus partErrors landed filed reader`, history `silent` | each statement of a preview or an import, the mailbox moving, the poll, death |
| `ViolationCase` | one case with its alerts, challan and audit log | `status total alert challan audit`, and where each request is | each statement of commit, `advance_to`, issue and transition; death |
| `EscalationLadder` | the ladder of one challan | `ledger log mails climb` | evaluate, fire, send, record, done, death |
| `ParkingSlots` | allocate and release | `slot stays clerk` | the two transactions of each; death |
| `MarineDesk` | `manual_craft`, `manual_pilot`, the imports of a call | `duty tow ledger pilot boarding pilotage ata atd sweep` | decide, land or roll back; board, release; imports by message, by sheet and of pilotage; supersede |
| `TasMetering` | the windows, their rows, and bookings | `gateway windows fetched rows saving appointment request` | apply, persist, crash, the three steps of a restore, guard, book, bump, set status, seed, sync |
| `Correlator` | one gate of the correlator | `plates tags emitted` | plate read, tag read, prune, tick |
| `RdsMigration` | runs of the copy over a plan of tables | `source target complete sequence job verdict` | start, reconcile, open, write a batch, finish, verify, align, die; the source in use |
| `MCCargoService`, `MCContainerJob`, `MCYardPlanning` | instances of one component | | |
| `MCDispatch`, `MCRecords`, `MCTerminal`, `MCVehicles` | instances of several, as scenes | + `scene` | |
| `*_proofs` | TLAPS proofs: `CargoService_proofs`, `ContainerJob_proofs`, `Terminal_proofs` (export, customs, yard, windows and appointments), `PortSync_proofs`, `EmailIngest_proofs`, `Enforcement_proofs` (cases, ladder, parking), `MarineDesk_proofs`, `Records_proofs` (copy, correlator) | | |

**Scenes.**  Components that share no row cannot disturb each other, so one run takes several of
them: the first state picks the scene, the actions of that component run, and the variables of the
others stay as they are.  The instances of a run stay small and no interleaving that could matter is
lost.  `MCDispatch` has the cargo row in both its scenes.

How to read the state: `cargo[c]` is the row of container `c` with the four columns that rules
read (`lifecycle_status`, `customs_status`, `is_released`, whether `yard_block` is set);
`audit[c]` is the newest audit row, enough because properties about the whole log are stated as
action properties on its growth.  A request record keeps `pc`, the transaction it runs next, and
the values it read earlier: those are exactly the local variables of the Python function that
survive an `await`.  Variables called *history* are read by properties only.  Which operator stands
for which lines is in `PROJECT.json` under `map`.

Definitions marked *Faulty variant* are not part of the system.  Each is the code with one
plausible mistake in it, kept next to the definition it would replace, and shows that the
property aimed at it can fail.

Abstractions worth knowing:

- Legacy rows, copied by migration 0201 with `lifecycle_status` NULL, are in `Init`
  (`LegacyRows`); `Effective` is `_infer_lifecycle`.
- The registries an assignment consults without writing them (gate documents, permits,
  blacklist, vehicle and driver status) are one refusal that may happen at any check
  (`AssignRefused`).  The reads with which properties are concerned are kept, in their order.
- An export step with an invalid document is refused before it starts, and a VGM out of tolerance
  is flagged while the step applies, so the model may take a step whenever the booking's status
  allows it.
- A customs file is its content: a model value with a module and the container it is about; the
  ledger keeps one status per file and origin, as the hash index does.  Files in the data
  directory are `Directory`, those the JNPA synchronisation brings `Synced`; a file whose
  transaction may fail is `Fallible`, and any file may turn out unreadable.
- Reconcile's two UPDATEs run in one transaction, but each sees what is committed when it begins:
  `ReconcileClear` decides the rows of the first, `ReconcileInspect` decides those of the second
  and commits both.
- `PortSync`: a record is its position in the upstream's order, a file is its content.  A row's
  status is `routed_status`, `NULL` between the insert and the mark.  The consumer is a set of
  contents it has imported, and a list of outcomes it may answer with.
- `EmailIngest`: what the parser makes of an attachment is given (`Parsed`: valid, valid in part, no
  valid row, refused as a whole, empty), and what the importer makes of its rows is one of its
  outcomes (`Fate`).  `process()` sees only numbers, and the model keeps which of them are zero:
  `Counts` says when rows are counted as rejected, `written` when some were written.  A file that is
  refused as a whole, a transaction that failed and rows none of which could be inserted give
  neither; `silent` remembers the attachments an import passed over in this way.  `filed` is a
  ledger row of an importer without data behind it: it makes a later import of the same file a
  duplicate at the marine importer, not at the one of gate documents.  An attachment the classifier
  has no confident answer for is in review.
- `ViolationCase`: a fine is a pair of a kind and the rate of the hour, so that a challan can be
  compared with the alerts without arithmetic.
- `MarineDesk`: the ledger is a set of milestones, since `derive_state` asks only which are there.
  Times, berth numbers, anchoring and allotment are left out.  `ata` and `atd` keep who wrote them
  last: a release (`manual`), a message with its milestone (`imported`), or a sheet, which writes any
  of the two columns and no milestone (`sheet`).
- `TasMetering`: the windows cover appointments, not times; a redelivered window comes with the
  contents it had.  COMPLETED stands for NO_SHOW.
- `Correlator`: time is whole ticks, and `_match` comes just after the read that called it, so that
  expiry, which compares with `<`, and pairing, which compares with `<=`, keep their difference.
  The ids of the reads number their arrivals, so a buffer is a set.  The greedy loop over the sorted
  pairs is stated by what it does: a pair is used unless a nearer one that is used shares a read
  with it.  `GreedyPassIsAMatching` proves that there is such a set of pairs.
- `YardPlanning`: the number of plan rows of a block is the size of a set that has one element for
  every row, `RowsPerSlot`.
- `RdsMigration`: a row of a keyed table has values; a row of a hypertable is never changed.

## Runs

| run | scenes and instance | what it shows |
|---|---|---|
| `service_crash` | *cargo*: one container, two requests, every operation, legacy rows, crashes; *job*: two dispatchers, two vehicle rows of one truck, two driver records of one person, customs changing and deleting the row, which the scene registers itself | `AuditIsFaithful`, `LifecycleForwardOnly`, `ImplementsReleaseGate`; `ImplementsJobRegister`, `NoDispatchUnderHold` |
| `service_fair` | *cargo* without deletes, legacy rows and crashes; *job*: one job, two field reports of which one may die | `FlagImpliesReleased`, `YardAssignmentTakesEffect`; `StatusBackedByFacts`, `GateInTakesEffect` |
| `records` | *customs*: a manifest, an Out-Of-Charge, a selection and an amended list that puts another container in its place, two requests of which one may die; *sync*: two workers and a replay, three records of which two share a content and two a time, two faults; *mail*: an importing operator and one who looks or overrides, six e-mails (none or two attachments; refused, unresolved or partly valid files; a gate document), one move, one death | `SkippedFilesAreImported`, `DispositionHasFact`, `OutOfChargeReachesCargo`, `HoldStopsRelease`; `NoRecordSkipped`, `StuckRecordNeedsAFault`, `PublishedIsProcessed`; `ProcessedIsAccountedFor`, `EveryFailureIsExplained`, `ImportsSettle` |
| `terminal` | *export*: two bookings of one container, two requests of which one may die; *yard*: two planners, one departure; *craft*: one call, two craft, messages of four contents; *pilot*: one call, one pilot row, every import; *window*: two windows over one appointment, two trucks, one restart; *seat*: statuses and capacities; *copy*: a keyed table and a hypertable | `MirrorNeverAhead`, `LoadedIsMirrored`; `CollisionsNeedARace`; `CraftStateNeedsARace`, `ShadowedPilotNeedsAMiss`, `InPortColumnsAreBacked`, `LegsStartFromPort`; `CapIsKept`, `MetersSurviveRestarts`, `SeatsAreCounted`; `TargetIsAPrefix`, `VerdictIsTrue`, `MigratedKeysAreReserved` |
| `vehicles` | *reads*: two plates, two tags; *case*: two requests, two kinds, two rates, one crash; *ladder*: two evaluators, one mail fault, one crash; *parking*: two trucks, slots and clerks, one death | `SamePairOnce`, `NoReadsLeftOver`; `StatusIsAudited`, `ChallanBackedByAlerts`, `LoneHopsAreLegal`; `OneNoticePerChannel`, `FiredRungsAreNotified`; `SlotsAreHeld` |
| `job_twins` | two dispatchers, two `core.vehicle` rows of one plate | **violated**: `OneOpenJobPerTruck` |
| `job_pickup` | two field reports, none dies | **violated**: `PickupEntersYard` |
| `yard_leave` | one planner | **violated**: `PlansDoNotCollide` |
| `case_paid` | one operator, one request at a time | **violated**: `PaidOnlyAfterAChallan` |
| `copy_sweep` | the *copy* scene | **violated**: `SweepBringsEverything` |
| `reads_once` | the *reads* scene | **violated**: `ReadConfirmsOnce` |
| `mail_processed` | the *mail* scene | **violated**: `ProcessedIsImported` |

The type invariant of each module is proved (below) and is no property of a run.

**Why the bounds are enough.**  No rule of the cargo, customs or export code reads two container
rows at once, so one container carries every interleaving of its writers (the customs scene has a
second one, which only takes the first one's place in the amended list).  A race needs two
requests; a third can only repeat what one of the two does, since all a request brings into its
second transaction is its own snapshot, and the single steps of *all other* operations are
available in between without a request.  The job properties relate two jobs, hence two job rows and
two dispatchers; a report touches one job.  Cases, ladders, calls, messages, gates and windows are
independent rows, one of each (two windows, for which of them rules).  The named bounds:

- `MaxSlot = 3` (4 in `yard_leave`), `MaxDepartures = 1`: every planner has room to plan and to
  collide.
- `MaxRecords = 3`, `MaxTime = 2`, `MaxFaults = 2`: a tie, a copy, and a record that is hit while
  its copy is landed.
- `MaxStays = 3`, `MaxLost = 1`: a double release needs a vehicle to come back, and a third stay to
  take the slot that was freed too early.
- `MaxCrashes = 1`, `MaxLadderCrashes = 1`, `MaxMailFaults = 1`, `MaxMoves = 1`, `MaxDeaths = 1`,
  `MaxRestarts = 1`: one fault already puts the survivor in every state it can leave behind.
- `Window = 2`, `MaxDelay = 1`, `MaxReads = 2`, `MaxNow = 3`: reads of one gate a window apart, late
  ones, and an expiry while the memory of the pair lives on.
- The copy has one keyed row with two values and three hypertable rows, two of which share a time,
  with `BatchSize = 1`; runs and crashes are not bounded.
- `MaxWindows = 2` leaves no window out of the ring.  A ring that overflows, and a gateway that
  starts again from the rows of two earlier lives, are left to the proofs.

The proofs remove the bounds altogether.

**Fairness.**  Weak fairness of the next transaction of a request that has started: an `async def`
handler, once its first transaction has committed, goes on to its next statement unless the
process dies or the connection is lost.  Requests that may die are named (`Mortal`,
`MortalExports`, `MortalCustoms`, or have a bounded death action) and exempt.  The sync has, beside
its workers, weak fairness of taking the lock: `jnpa_sync_loop` calls `sync_group` again and again
and survives every exception, and PostgreSQL frees the advisory lock of a session that dies.  An
evaluator that has started goes on (`Climb`), an e-mail request goes on (`Proceed`).  In a run with
scenes each fairness is guarded by its scene.  Nothing obliges a client to send a request, a driver
to accept, customs to clear or the upstream to publish, so no other action is fair.

**Deadlock** is checked where a component never comes to rest (`MCDispatch`, `MCContainerJob`).  It
is off in `MCTerminal` (every booking loaded, slots run out at `MaxSlot`), `MCVehicles` (every
request answered, the reads at their bound) and `MCRecords` (every record processed), and in
`yard_leave`, which plans up to its bound.

## Proofs

Every theorem holds for any values of the constants that satisfy the assumptions the modules name
(`...Assumption`: types of the constants, bounds that are natural numbers, model values that are
not members of the sets they stand beside, and finite sets where a count of their members is
taken, as `YardSetsAssumption` says of planners and containers).  A theorem that needs more says so
in an `ASSUME` of its own.  `PROJECT.json` lists the main theorems, among them safety properties
that no run repeats; the type invariant of every module with state is proved too.

The argument is the same each time: a strengthening of the property that is inductive, one lemma or
step per action, and the temporal step at the end.

- **`CargoService_proofs`**.  `StepIsTableStep`, the lemma everything else rests on: a step of the
  service leaves the tables alone or runs one transaction on one container, of one of four shapes
  (create, delete, plain update, advance), and an advance to RELEASED comes from VERIFIED with the
  customs gate armed, whoever asked for it.  From it: `AuditStaysFaithful`, where `AuditMatchesRow`
  is inductive with the types and the chain follows, because the old state an advance records is
  the state the previous audit row named; `LifecycleGoesForward`; `ReleaseNeverUnderHold`;
  `ServiceImplementsGate`, the refinement: each shape of transaction is a step of `ReleaseGate` or
  leaves the mapped variables alone.  `FlagNeverAhead` needs more: a PUT writes what an old snapshot
  justified, so `FlagInv` adds that a request which read `is_released = true` finds its row RELEASED
  when it writes, and that a row which is present has its column set.  The first is false when
  records can be deleted and registered again, the second with legacy rows, so the theorem assumes
  `"delete" \notin Ops` and `LegacyRows = {}`.  `VerificationIsRecorded` is about `CargoFairSpec`,
  which has no crashes.
- **`ContainerJob_proofs`**.  `JobInv`: besides the types, that every job has a history, that what a
  report in flight is about to advance is on record (`FactIsRecorded`), and that a row which is gone
  holds nothing (`AbsentIsPending`).  The exclusive claims need only the indexes of the INSERT and
  that no transition reopens a terminal job; the pre-flight reads add nothing, as `job_twins` shows
  from the other side.
  `JobsImplementTheRegister` says this of the steps: with `Occupied` as the claims of an open job,
  an INSERT is a `Claim`, a transition into COMPLETED or CANCELLED a `GiveUp`, and nothing else
  touches the mapped variables (`JobStepClaims`); `OpenJobsAreExclusive` is the same as an invariant.
  What the two violated claims would need is proved beside them.  `OneOpenJobPerTruck` holds if no
  two vehicle rows carry one plate (`OneRowPerPlateIsEnough`), and also with twin rows if dispatchers
  work one at a time (`LoneDispatcherSeesTwins`): then `LookupHolds`, that what the look at the plate
  has found is still so at the INSERT, is inductive.  `PickupEntersYard` holds if reports
  come one at a time (`LonePickupEntersTheYard`), because a report then acts on the status it has
  seen (`ReportIsCurrent`), even after earlier reports have died half way.
- **`Terminal_proofs`**.  `ExportInv`: a request about to mirror a step has a booking that has
  reached it; hence `MirrorsStayBehind`.  `BookingsImplementTheRegister`: the bookings implement
  `ExclusiveClaims` too, with their container as the only claim.  `CustomsInv`: the ledger says
  SUCCESS only of contents whose facts are in, and a reconcile between its two statements has only
  containers with facts bound; hence `DispositionsHaveFacts`, `LedgerIsHonest`,
  `HoldsStopReleases`, `NothingIsReset`.  For the windows, `CountInv`: a row counts at least the
  trucks that are done and not lost (`RowsCount`), and once the rows are read, the ring and the
  rows still to be seated count at least everyone a window has let through, while a window that is
  in neither and not forgotten has let nobody through (`RingCounts`); hence `CapsAreKept`, with a
  restart in which a window arrives before its row is seated as the hard case.  `RestoreInv`
  compares positions in the ring with positions in the table: two windows of the ring are in the
  order in which they came, or their rows are in that order too, which no later step can undo;
  hence `MetersAreRestored`.  For the slot planners, `PlacesInv` compares the number a planner
  would be given next, which is one more than a count, with each place.  While the number is below
  the place, the rows of the place and the requests about to add one are at most `planners *
  departures`, those that departures have let back; when it has come to the place, its rows alone
  are at most that many, but every planner may have read it by now; and rows and requests never
  exceed `planners * (1 + departures)`.  A departure takes one from the count, and so is the only
  step that can bring it back under a place.  Hence `YardCollisionsBounded`, and
  `LonePlannerDoesNotCollide`, the case in which the docstring of `next_yard_slot` is right.
- **`PortSync_proofs`**.  `SyncInv`: the position of a walk and every row before it, the watermark
  never past the walk, the lock held by the one worker that writes, the stored path only with the
  bytes in the store.  `NothingSkipped` rests on the rewind of `Since`: the listing is exclusive of
  it, so a tie with the watermark is listed again.
- **`EmailIngest_proofs`**.  `MailInv` relates the request in flight to the rows it has written so
  far: an import that has passed an attachment without counting a failure has rows of it in the
  tables, or has passed it over in silence.  Hence `ProcessedMeansAccountedFor`; and
  `CountedMailIsImported`, that the violated `ProcessedIsImported` holds wherever every attachment
  that brings no row is counted (`CountedParts`).  `FailuresAreExplained` counts, besides, who has
  still to add which error rows, since a second request may clear those of the first before it adds
  its own.
- **`Enforcement_proofs`**.  `CaseInv` is `CaseTypeOK`, `JobFits` (a request is where its job may
  take it), `RowIsOpen` and `SeenIsACase`; `StatusesAreAudited` adds which request owes which
  audit row, `LoneHopsAlwaysLegal` that a lone request has seen the status the row holds.
  `PaidCasesHaveChallans` is what the violated `PaidOnlyAfterAChallan` would need: as long as
  nobody sets a case to CHALLAN_ISSUED by hand, `ChallanComesFirst` is inductive, since a commit
  then writes that status only behind its challan, and a case reaches PAID from there only.
  `LadderInv` says that an evaluator at a rung has every rung below it in the ledger and that only
  the one whose insert was fresh owns its notices.  For parking, who holds a slot (a stay, or a
  clerk between two transactions) is one of three predicates, and at most one of them is true of a
  slot until a stay is closed twice.
- **`MarineDesk_proofs`**.  `ColumnsAreBacked` goes by who wrote a column: a release and a message
  write the milestone in the same transaction, and a sheet, which does not, marks the column as its
  own.  Its second half needs `EndsAreImported`, that ARRIVED and DEPARTED enter the ledger by
  messages alone, which write the column with them, and that no writer empties a column.  A leg
  starts from port because milestones are only ever taken away in the two chains; `CraftStateTrue`
  needs, for a call that is not `crossed`, that the transaction in flight has counted right.
- **`Records_proofs`**.  `RdsInv` is `RdsTypeOK`, `TodoFits`, `HyperFits`, `NoRowTwice`,
  `PrefixIsWhole`, `ReadFits`, `WriteFits`, `RunFits`, `KeysFit` and `QuietFits`: what an open cursor
  has still to bring is exactly what lies at or beyond the watermark and is not on the target, and on
  a quiet source everything a run has passed is settled.  `VerdictsAreTrue` then needs that equal
  counts mean equal sets: one is a subset of the other and both are finite.  For the correlator,
  `GreedyPassIsAMatching` shows that the pass exists for any finite buffers (a finite set of pairs
  under a strict order has a nearest one: take it, drop what shares a read with it, and go on with
  a smaller set), uses a read at most once and leaves no candidate whose reads are both unused.
  `ReadsInv` is `CorrelatorTypeOK`, `IdsAreGivenOnce`, the two properties, and `EventsAreRemembered`:
  a confirmation that is still in `emitted` is not younger than its entry there, and one that is not
  lies more than four windows back, by when its plate read has expired.

Only model-checked: the seven liveness properties (`YardAssignmentTakesEffect`, `GateInTakesEffect`,
`OutOfChargeReachesCargo`, `LoadedIsMirrored`, `FiredRungsAreNotified`, `PublishedIsProcessed`,
`ImportsSettle`); temporal reasoning under fairness is out of the prover's reach.  Only proved:
`ImplementsBookingRegister`, the type invariants, and the theorems listed without a property.

## Where the code and its own words differ

Shown by a run (`PROJECT.json`, `findings`):

- one truck on two open jobs through twin vehicle rows (`job_twins`); not with one row per plate,
  nor with one dispatcher at a time;
- the pickup that stays at the gate (`job_pickup`); not with one report at a time;
- the slot planned twice once a container has left its block (`yard_leave`); not by one planner in
  a yard no container leaves;
- a case that is PAID without a challan (`case_paid`; `enforcement.py:44`); not unless somebody sets
  CHALLAN_ISSUED by hand;
- the final sweep of the migration, which does not sweep a table it calls complete (`copy_sweep`);
- the read that confirms twice, each time with another partner (`reads_once`); not in one pass;
- the e-mail that ends PROCESSED with nothing imported, and is then refused (`mail_processed`;
  `email_ingest/service.py:180-184`); not where the importers count what they do not write.

That the conditions after the semicolons are enough is proved (see *Proofs*).

Met while modelling, and described here only:

*Cargo, jobs, customs, export*

- A PUT that saw a released record, overtaken by a delete and a new registration, sets `is_released`
  on a CREATED row (`services/cargo/service.py:379`).
- `assign_yard` accepts CREATED (`services/cargo/service.py:506`), while lines 75-76 say that no
  move skips the mandatory discharge.  `LifecycleForwardOnly` names it as the one gate that is passed.
- A PUT of `customs_status` after the release puts a RELEASED row under inspection (service.py:402;
  lines 100-101 call it a state no real container can be in).
- A PUT with `is_released = false` clears the flag of a RELEASED row, which no later PUT can set
  again, although `infra/postgres/v3/0115_*.sql:176-177` says that the two can never disagree.
- Two driver records with one licence race past the licence check as twin vehicles do past the
  plate (`container_job/service.py:391-392`).
- The handover queue leaves out containers with an *open* job (`container_job/repository.py:410`),
  so a released container whose job is COMPLETED is listed as not yet dispatched.
- `materialize` and the export upsert write `lifecycle_status` without an audit row
  (`customs/repository.py:669`, `export_lifecycle/repository.py:178`), against
  `cargo/repository.py:227-228` and `608-609`.
- Two scan verdicts may be reflected in the other order than recorded, and a clean scan writes
  PENDING over a clearance an Out-Of-Charge has given (`container_job/service.py:706-707`).
- Customs files that arrive through the JNPA sync are not reconciled
  (`jnpa_sync/routing.py:290`), unlike those of a directory import.
- A directory import that dies, or whose reconcile fails, after its files are in: the next run
  finds duplicates only, so `totals["succeeded"]` is 0 and it reconciles nothing
  (`customs/service.py:211-218`).  The facts wait for another import or a materialize;
  `OutOfChargeReachesCargo` is therefore about requests that survive.
- The failure record is an upsert, so an import that fails after a concurrent one of the same file
  has succeeded turns SUCCESS into FAILED (`customs/repository.py:964-966`), although
  `find_message_by_sha` reads FAILED as "not imported content" (lines 120-122).  The file is then
  imported again; `SkippedFilesAreImported` holds in spite of it.
- An amended RMS list replaces the container in its position (`customs/repository.py:1172`); a
  container under inspection that the amendment drops is never taken out of inspection.
- The mirrors of two export steps may commit in the other order, so the row stays at the earlier
  step until the next one (`export_lifecycle/service.py:153-155`), and cancelling a booking leaves
  the row in its export state (`:369`).

*Port data and e-mail*

- A record "counts toward the watermark (i.e. it is fully processed...)"
  (`jnpa_sync/service.py:255-256`) also when a fault has cut its landing off after the insert: the
  row stays with a NULL status, which neither the next walk nor the replay looks at again.
  `StuckRecordNeedsAFault` says that nothing else leaves one behind.
- A copy of a file whose first row FAILED or is UNROUTED is skipped as a duplicate, since that row
  has a stored path (`jnpa_sync/repository.py:416-418`); and only the ledger rows of the API's own
  imports are looked at.
- Two overlapping replays may write FAILED over SUCCESS (`jnpa_sync/service.py:363`); the 304 branch
  is never taken, because the caller sends no ETag.
- A preview is called "dry run - writes nothing" (`email_ingest/service.py:171-173`), but clears the
  error rows and writes the statuses of the attachments (`:202`, `:259`).
- An e-mail of which one attachment was written and another raised is PROCESSED, and the duplicate
  guard then refuses to import it again without an override; one whose import died stays in
  PROCESSING, and its error rows are gone.  The importer of gate documents does not see the override.
- Three ways lead to the e-mail of `mail_processed`.  A file refused as a whole answers 0 for
  imported, invalid and failed (`gate_documents/service.py:91-100`).  So does an importer whose
  transaction fails, since `_record_failure` has no such key (`marine/repository.py:710-724`).  And
  an import of events that resolve to no call ends FAILED but leaves its row in the ledger, so the
  retry the screen offers is answered "duplicate" and ends PROCESSED (`marine/repository.py:459-463`).

*Enforcement, parking, marine*

- `advance_to` reads once and then writes every next status over what the row holds by then: a race
  takes a CLOSED case back to CONFIRMED, although "no illegal jump can be recorded"
  (`enforcement.py:428-429`).
- A loser of the alert insert is told by the name `uq_alerts_case_kind` (`enforcement.py:419`); the
  index is called `uq_alert_case_kind`.
- DISPUTED is a legal target that the column's CHECK refuses, so the request fails with 503; a
  commit on a CLOSED case mints an ISSUED challan; two racing opens write two CASE_OPENED rows; a
  request that dies between the status and its audit row leaves a status nobody recorded.
- A rung whose evaluator dies after the ledger row is never announced.  The gateway builds the
  escalation service without a mailer, so e-mail is always UNAVAILABLE there.
- Two releases of one vehicle may close one stay twice, and the second frees a slot that has been
  given away ("concurrent allocations never hand out the same slot", `parking/persistence.py:256-257`);
  a claim or a release that dies leaves a slot occupied for good; a vehicle may hold two slots.
- Two concurrent releases of the last two craft each count the other one, and CRAFT_RELEASED is
  never written; a craft assigned while the last one is released leaves both milestones current
  ("never both current", `state_engine.py:340-341`).
- The position "cannot change between the check and the insert" (`manual_pilot.py:384-386`) can:
  READ COMMITTED takes a new snapshot.
- `_CLEAR_PILOT_CHAIN` deletes an imported PILOT_BOARDED when the pilot card has not been imported
  (`manual_pilot.py:297-303`).  A released pilot row stays active, so the unique index refuses every
  later assignment of the call.  Migrations 0054 and 0055, which the code names, are not in the
  repository.
- The SQL of "in port" and the engine's `is_in_port` differ after a manual OUTWARD release, and after
  a vessel-call sheet, which writes `ata` and `atd` with no milestone (`marine/repository.py:1264-1294`,
  and `:1003-1004` for calls without a VCN), although `in_port_sql()` is "the single definition of
  'in port'" (`state_engine.py:9`) and "the actuals ARE the source of truth" (`repository.py:1082`).
  A sheet of one column may put a call in port, or take it out, for the dashboards alone.
  `InPortColumnsAreBacked` says what holds of the other writers.

*Windows*

- After a redelivery a window has no `applied_slots`, since its slots are no longer BOOKED; the
  pushes then go to every booked driver of the gate, and on the first delivery to nobody, because
  the ids of mock slots are never codes of bookings, against "Drivers whose slot just moved get a
  real advisory on their own device only" (`crosstwin.py:122`).
- The pump starts before the restore (`gateway/main.py:559-574`), so a window that arrives while the
  rows are read is seated before older ones and does not rule over them, against "oldest first so
  newest ends up last in the ring" (`crosstwin.py:175`); `MetersSurviveRestarts` says that nothing
  else turns them round but rows saved out of order.
- The count of a booking is lost if the gateway dies before `bump_booked`, which hands one booking of
  the cap out again; it is counted twice in the row if a redelivery is saved meanwhile, which only
  lowers the cap.  A booking that the guard has counted and the appointment refuses stays counted.
- A cancelled booking that is set back to BOOKED takes no seat (`rms_tas.py:285-295`), and a sync may
  cut the capacity below what is booked (`:402-408`).  Nothing sets an appointment CLOSED.

*Copy and correlation*

- "Retries per batch on transient errors" (`tools/migrate_to_rds/README.md:141`): every attempt runs
  on the connection, or in the transaction, that has just failed (`migrate.py:389-405`), so only the
  first can succeed, and the run dies.
- A re-run "converges to the source" (README:208), but a keyed row the source has deleted stays on
  the target, and every later run reports FAILED; so does a hypertable row that came with a time
  before the watermark.
- "the current batch finishes and commits, then the tool stops" (README:217): the flag of Ctrl-C is
  looked at between tables only.
- A correlator that comes back goes on from its committed offsets and replays what it missed, while
  the docstring expects the latest (`correlator.py:252-254`); what it had confirmed it has forgotten.

## Not modelled

The columns no rule reads (vessel, gate, camera, e-seal), notifications and the workflow log;
the parsers of the imports and the customs modules no rule of these services reads (SMTP, LEO,
shipping bill); the report groups of the port data API, which are snapshots keyed by their hash;
the event bus, whose events no modelled service reads back; fines as numbers, the hash of the audit
chain and evidence files; berth numbers, anchoring, allotment and every time at the marine desk; the
slots of the TAS mock and the pushes to drivers; the Kafka consumers of the correlator; the schema
preflight and the indexes of the copy.  Registries, enrolment and one-time passwords are single-row
CRUD behind a check; FASTag and ULIP are clients of external systems; congestion, anomaly and face
models are numeric; the front ends keep no state the services rely on (the PWA has a read cache and
submits nothing while offline).  They are the bulk of the repository's lines.  `PROJECT.json` lists
every component with its reason.

## Plan

1. *Done*: the container row and everything that writes it; the two ways in; enforcement, parking
   and the marine desk; the windows; the correlator; the copy; the register of exclusive claims
   that jobs and bookings both implement; and the proofs of their safety, down to the last
   invariant a run checks.
2. `PortSpine`: `CargoService`, `ContainerJob` and `CustomsBinding` on one row, from the manifest to
   the gate-out, with "no truck leaves with a container under a hold" as its question.
3. `Provisional`: entries that are reconciled after a restart or against a late answer.
4. `ReportIngest` beside `PortSync`, and the hand-over of a synced Out-Of-Charge to `CustomsBinding`.
5. Delivery of lifecycle events (Kafka accepted, WebSocket dropped).
6. Proofs: `PortSpine`, once it is there.
