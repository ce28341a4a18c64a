------------------------------ MODULE PortSync ------------------------------
(***************************************************************************)
(* The incremental synchronisation of one indexed group of the JNPA port   *)
(* data API (services/jnpa_sync): workers that walk the listing from the   *)
(* watermark under the group's advisory lock and land every record - row,  *)
(* checksum probe, download, raw store, consumer - in steps that fail or   *)
(* die apart, and the replay, which runs beside them without the lock.     *)
(* The upstream publishes in order, many records in one second.  A dry run *)
(* writes nothing and is left out; so is the 304 branch, since the caller  *)
(* sends no ETag.                                                          *)
(***************************************************************************)
EXTENDS Integers, Sequences

CONSTANTS Worker,      \* overlapping sync_group calls (scheduled, manual)
          Replayer,    \* replay_unrouted calls
          Content,     \* file contents, told apart by their sha256
          NoFile,      \* a record without a file
          Offer,       \* what the n-th record published may carry
          MaxRecords,  \* bound on published records
          MaxTime,     \* bound on the upstream clock, in seconds
          MaxFaults    \* bound on crashes and failed requests

ASSUME NoFileAssumption == NoFile \notin Content
ASSUME SyncBoundsAssumption ==
    MaxRecords \in Nat /\ MaxTime \in Nat \ {0} /\ MaxFaults \in Nat

Id == 1..MaxRecords
\* "OPEN" is UNROUTED, FAILED or REJECTED: a record the replay may route again;
\* "SUCCESS" is also PARTIAL and IMPORTED.
Statuses == {"SUCCESS", "OPEN", "SKIPPED_DUPLICATE"}
Nobody == "nobody"
ASSUME OfferAssumption == Offer \in [Id -> SUBSET (Content \union {NoFile})]
ASSUME NobodyAssumption == Nobody \notin Worker

VARIABLES
    clock, published,  \* upstream: the time, and the records in order
    row,               \* api_record.routed_status: "absent", "NULL" or a status
    storedPath,        \* the rows with a stored_path
    store,             \* the contents in the raw store
    imported,          \* the contents a consumer's ledger knows (not FAILED)
    watermark,         \* api_sync_state.watermark_ts, 0 for NULL
    lock,              \* who holds the group's advisory lock
    run,               \* worker -> its sync_group call
    replay,            \* replayer -> the record and outcome it is about to write
    faulted,           \* history: records whose landing was cut off
    faults

syncVars == <<clock, published, row, storedPath, store, imported, watermark,
              lock, run, replay, faulted, faults>>
upstream == <<clock, published>>
files == <<storedPath, store, imported>>

NoRun == [pc |-> "idle", since |-> 0, pos |-> 0, max |-> 0, restarted |-> FALSE,
          outcome |-> "NULL"]
NoReplay == [at |-> 0, outcome |-> "NULL"]
Later(a, b) == IF a > b THEN a ELSE b

SyncInit ==
    /\ clock = 1 /\ published = <<>>
    /\ row = [i \in Id |-> "absent"] /\ storedPath = {} /\ store = {} /\ imported = {}
    /\ watermark = 0 /\ lock = Nobody
    /\ run = [w \in Worker |-> NoRun] /\ replay = [p \in Replayer |-> NoReplay]
    /\ faulted = {} /\ faults = 0

-----------------------------------------------------------------------------
(* The upstream *)

Publish(file) ==
    /\ Len(published) < MaxRecords /\ file \in Offer[Len(published) + 1]
    /\ published' = Append(published, [at |-> clock, file |-> file])
    /\ UNCHANGED <<clock, row, files, watermark, lock, run, replay, faulted, faults>>

Tick ==
    /\ clock < MaxTime
    /\ clock' = clock + 1
    /\ UNCHANGED <<published, row, files, watermark, lock, run, replay, faulted, faults>>

-----------------------------------------------------------------------------
(* sync_group *)

\* pg_try_advisory_lock
LockFree == lock = Nobody

\* The caller that loses the lock leaves at once, which changes nothing.
TakeLock(w) ==
    /\ run[w].pc = "idle" /\ LockFree
    /\ lock' = w
    /\ run' = [run EXCEPT ![w] = [NoRun EXCEPT !.pc = "start"]]
    /\ UNCHANGED <<upstream, row, files, watermark, replay, faulted, faults>>

\* Faulty variant: the walk resumes exactly at the watermark.
SinceExact(mark) == mark

\* WATERMARK_REWIND: "since" is exclusive, one second back re-reads the ties.
Since(mark) == IF mark = 0 THEN 0 ELSE mark - 1

Start(w) ==
    /\ run[w].pc = "start"
    /\ run' = [run EXCEPT ![w].pc = "walk", ![w].since = Since(watermark),
                          ![w].max = watermark]
    /\ UNCHANGED <<upstream, row, files, watermark, lock, replay, faulted, faults>>

Listed(w) == {i \in DOMAIN published :
                 i > run[w].pos /\ published[i].at > run[w].since}

\* The record counts toward the watermark.
Counted(w, i) == [run[w] EXCEPT !.pc = "walk", !.outcome = "NULL",
                                !.max = Later(run[w].max, published[i].at)]

\* _land_record, the row: ON CONFLICT (record_id) DO NOTHING, and a record
\* whose row is there already counts as fully known.
InsertRow(w) ==
    /\ run[w].pc = "walk"
    /\ \E i \in Listed(w) :
         /\ \A j \in Listed(w) : i <= j
         /\ IF row[i] = "absent"
            THEN /\ row' = [row EXCEPT ![i] = "NULL"]
                 /\ run' = [run EXCEPT ![w].pc = "land", ![w].pos = i]
            ELSE /\ run' = [run EXCEPT ![w] = [Counted(w, i) EXCEPT !.pos = i]]
                 /\ UNCHANGED row
    /\ UNCHANGED <<upstream, files, watermark, lock, replay, faulted, faults>>

\* known_sha: a consumer has imported these bytes, or a stored row has them.
KnownSha(c) ==
    c \in imported \/ \E j \in storedPath : published[j].file = c

\* Faulty variant: the skip leaves the row's status unset.
LandWithoutMark(w) ==
    LET i == run[w].pos IN
    /\ run[w].pc = "land"
    /\ \/ published[i].file = NoFile /\ row' = [row EXCEPT ![i] = "OPEN"]
       \/ published[i].file # NoFile /\ KnownSha(published[i].file) /\ UNCHANGED row
    /\ run' = [run EXCEPT ![w] = Counted(w, i)]
    /\ UNCHANGED <<upstream, files, watermark, lock, replay, faulted, faults>>

\* A record without a file, or with bytes known already, is done.
LandWithout(w) ==
    LET i == run[w].pos IN
    /\ run[w].pc = "land"
    /\ \/ published[i].file = NoFile /\ row' = [row EXCEPT ![i] = "OPEN"]
       \/ /\ published[i].file # NoFile /\ KnownSha(published[i].file)
          /\ row' = [row EXCEPT ![i] = "SKIPPED_DUPLICATE"]
    /\ run' = [run EXCEPT ![w] = Counted(w, i)]
    /\ UNCHANGED <<upstream, files, watermark, lock, replay, faulted, faults>>

\* fetch_file and store.save
Fetch(w) ==
    LET c == published[run[w].pos].file IN
    /\ run[w].pc = "land" /\ c # NoFile /\ ~KnownSha(c)
    /\ store' = store \union {c}
    /\ run' = [run EXCEPT ![w].pc = "route"]
    /\ UNCHANGED <<upstream, row, storedPath, imported, watermark, lock, replay,
                   faulted, faults>>

\* JnpaRouter.route never raises; a consumer skips bytes its ledger knows.
Outcomes(c) == IF c \in imported THEN {"SKIPPED_DUPLICATE", "OPEN"}
               ELSE {"SUCCESS", "OPEN"}
ImportedAfter(c, outcome) ==
    IF outcome = "SUCCESS" THEN imported \union {c} ELSE imported

Route(w) ==
    LET c == published[run[w].pos].file IN
    /\ run[w].pc = "route"
    /\ \E o \in Outcomes(c) : /\ run' = [run EXCEPT ![w].pc = "mark", ![w].outcome = o]
                              /\ imported' = ImportedAfter(c, o)
    /\ UNCHANGED <<upstream, row, storedPath, store, watermark, lock, replay,
                   faulted, faults>>

\* update_record_routing
Mark(w) ==
    LET i == run[w].pos IN
    /\ run[w].pc = "mark"
    /\ row' = [row EXCEPT ![i] = run[w].outcome]
    /\ storedPath' = storedPath \union {i}
    /\ run' = [run EXCEPT ![w] = Counted(w, i)]
    /\ UNCHANGED <<upstream, store, imported, watermark, lock, replay, faulted, faults>>

WalkDone(w) ==
    /\ run[w].pc = "walk" /\ Listed(w) = {}
    /\ run' = [run EXCEPT ![w].pc = "finish"]
    /\ UNCHANGED <<upstream, row, files, watermark, lock, replay, faulted, faults>>

\* upsert_sync_state, also after an error, then the lock.
Finish(w) ==
    /\ run[w].pc = "finish"
    /\ watermark' = IF run[w].max = 0 THEN watermark ELSE run[w].max
    /\ lock' = Nobody
    /\ run' = [run EXCEPT ![w] = NoRun]
    /\ UNCHANGED <<upstream, row, files, replay, faulted, faults>>

Sync(w) == \/ Start(w) \/ InsertRow(w) \/ LandWithout(w) \/ Fetch(w) \/ Route(w)
           \/ Mark(w) \/ WalkDone(w) \/ Finish(w)

-----------------------------------------------------------------------------
(* What goes wrong *)

\* Faulty variant: the error leaves the run without releasing the lock.
RequestFailsHolding(w) ==
    /\ faults < MaxFaults /\ faults' = faults + 1
    /\ run[w].pc = "walk"
    /\ run' = [run EXCEPT ![w] = NoRun]
    /\ UNCHANGED <<upstream, row, files, watermark, lock, replay, faulted>>

\* A listing page or a download fails: the run ends with an ERROR, and what has
\* been counted so far is kept.
RequestFails(w) ==
    /\ faults < MaxFaults /\ faults' = faults + 1
    /\ \/ run[w].pc = "walk" /\ UNCHANGED faulted
       \/ /\ run[w].pc = "land" /\ published[run[w].pos].file # NoFile
          /\ ~KnownSha(published[run[w].pos].file)
          /\ faulted' = faulted \union {run[w].pos}
    /\ run' = [run EXCEPT ![w].pc = "finish"]
    /\ UNCHANGED <<upstream, row, files, watermark, lock, replay>>

\* 400 bad_cursor: the walk starts over, once.
BadCursor(w) ==
    /\ run[w].pc = "walk" /\ ~run[w].restarted
    /\ faults < MaxFaults /\ faults' = faults + 1
    /\ run' = [run EXCEPT ![w].pos = 0, ![w].restarted = TRUE]
    /\ UNCHANGED <<upstream, row, files, watermark, lock, replay, faulted>>

\* The process dies: the advisory lock goes with its session.
SyncCrash(w) ==
    /\ run[w].pc # "idle" /\ faults < MaxFaults
    /\ faults' = faults + 1
    /\ faulted' = IF run[w].pc \in {"land", "route", "mark"}
                  THEN faulted \union {run[w].pos} ELSE faulted
    /\ run' = [run EXCEPT ![w] = NoRun]
    /\ lock' = Nobody
    /\ UNCHANGED <<upstream, row, files, watermark, replay>>

-----------------------------------------------------------------------------
(* replay_unrouted, a record at a time, without the lock *)

Replayable == {"OPEN"}

ReplayRoute(p, i) ==
    /\ replay[p] = NoReplay
    /\ row[i] \in Replayable /\ published[i].file \in store
    /\ \E o \in Outcomes(published[i].file) :
         /\ replay' = [replay EXCEPT ![p] = [at |-> i, outcome |-> o]]
         /\ imported' = ImportedAfter(published[i].file, o)
    /\ UNCHANGED <<upstream, row, storedPath, store, watermark, lock, run, faulted, faults>>

ReplayMark(p) ==
    /\ replay[p] # NoReplay
    /\ row' = [row EXCEPT ![replay[p].at] = replay[p].outcome]
    /\ replay' = [replay EXCEPT ![p] = NoReplay]
    /\ UNCHANGED <<upstream, files, watermark, lock, run, faulted, faults>>

SyncNext ==
    \/ (\E file \in Content \union {NoFile} : Publish(file)) \/ Tick
    \/ \E w \in Worker : \/ TakeLock(w) \/ Sync(w)
                         \/ RequestFails(w) \/ BadCursor(w) \/ SyncCrash(w)
    \/ \E p \in Replayer : (\E i \in Id : ReplayRoute(p, i)) \/ ReplayMark(p)

\* The scheduler comes back every interval, and a run that started goes on.
SyncFairness ==
    /\ WF_syncVars(\E w \in Worker : TakeLock(w))
    /\ \A w \in Worker : WF_syncVars(Sync(w))

SyncSpec == SyncInit /\ [][SyncNext]_syncVars /\ SyncFairness

-----------------------------------------------------------------------------
Landing(i) == \E w \in Worker : run[w].pc \in {"land", "route", "mark"} /\ run[w].pos = i
Processed(i) == row[i] \in Statuses

SyncTypeOK ==
    /\ clock \in 1..MaxTime
    /\ published \in Seq([at : 1..MaxTime, file : Content \union {NoFile}])
    /\ Len(published) <= MaxRecords
    /\ row \in [Id -> Statuses \union {"absent", "NULL"}]
    /\ storedPath \subseteq Id /\ store \subseteq Content /\ imported \subseteq Content
    /\ watermark \in 0..MaxTime /\ lock \in Worker \union {Nobody}
    /\ run \in [Worker -> [pc : {"idle", "start", "walk", "land", "route", "mark", "finish"},
                           since : 0..MaxTime, pos : 0..MaxRecords, max : 0..MaxTime,
                           restarted : BOOLEAN, outcome : Statuses \union {"NULL"}]]
    /\ replay \in [Replayer -> [at : 0..MaxRecords, outcome : Statuses \union {"NULL"}]]
    /\ faulted \subseteq Id /\ faults \in 0..MaxFaults

\* "resuming exactly at the watermark silently skips tied records": no record
\* from before the watermark is missing, whatever fails.
NoRecordSkipped == \A i \in DOMAIN published :
    published[i].at < watermark => row[i] # "absent"

\* A row without a status is being landed, or its landing was cut off by a fault.
StuckRecordNeedsAFault == \A i \in Id :
    row[i] = "NULL" => Landing(i) \/ i \in faulted

\* A record is skipped as a duplicate only when its bytes are in the raw store.
SkippedBytesAreStored == \A i \in DOMAIN published :
    row[i] = "SKIPPED_DUPLICATE" => published[i].file \in store

\* The watermark never moves back, though a manual sync overlaps a scheduled one.
WatermarkNeverMovesBack == [][watermark' >= watermark]_syncVars

\* What the replay or the sync has brought home stays so.
DoneStaysDone ==
    [][\A i \in Id : row[i] \in {"SUCCESS", "SKIPPED_DUPLICATE"} => row'[i] = row[i]]_syncVars

\* Every published record is processed in the end, or its landing was cut off.
PublishedIsProcessed == \A i \in Id :
    (Len(published) >= i) ~> (Processed(i) \/ i \in faulted)
=============================================================================
