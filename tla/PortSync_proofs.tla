-------------------------- MODULE PortSync_proofs ---------------------------
(***************************************************************************)
(* Proofs about PortSync for every set of workers, replayers and contents  *)
(* and every bound: what the watermark, the raw store and the record table *)
(* promise, however workers, replays, failures and crashes interleave.     *)
(***************************************************************************)
EXTENDS PortSync, SequenceTheorems, TLAPS

(* The upstream lists records in the order of their publication.             *)
ListingInOrder ==
  /\ \A i \in DOMAIN published : published[i].at <= clock
  /\ \A i, j \in DOMAIN published : i < j => published[i].at <= published[j].at

(* Only a published record has a row, and what points at a record points at  *)
(* a published one.                                                          *)
RowsArePublished ==
  /\ \A i \in Id : i \notin DOMAIN published => row[i] = "absent"
  /\ \A w \in Worker : run[w].pos <= Len(published)
  /\ \A w \in Worker : run[w].pc \in {"land", "route", "mark"} => run[w].pos >= 1
  /\ storedPath \subseteq DOMAIN published

(* The advisory lock keeps all but one worker out.                           *)
OneRunAtATime == \A w \in Worker : run[w].pc # "idle" => lock = w

(* A run resumes one second before the watermark it found, has a row for all *)
(* it has walked over, and counts up to a second it has walked to.           *)
WalkIsComplete ==
  /\ watermark <= clock
  /\ \A w \in Worker : run[w].pc = "start" => run[w].pos = 0
  /\ \A w \in Worker : run[w].pc \notin {"idle", "start"} =>
       /\ run[w].since = Since(watermark)
       /\ watermark <= run[w].max /\ run[w].max <= clock
       /\ \A i \in DOMAIN published :
            i <= run[w].pos \/ published[i].at < run[w].max => row[i] # "absent"

(* Whatever is known to the dedup probe is in the raw store.                 *)
KnownIsStored ==
  /\ imported \subseteq store
  /\ \A i \in storedPath : published[i].file \in store
  /\ \A w \in Worker : run[w].pc \in {"route", "mark"} => published[run[w].pos].file \in store
  /\ \A w \in Worker : run[w].pc = "mark" => run[w].outcome \in Statuses
  /\ \A p \in Replayer : replay[p] # NoReplay =>
       /\ replay[p].at \in DOMAIN published /\ replay[p].outcome \in Statuses
       /\ published[replay[p].at].file \in store

-----------------------------------------------------------------------------
(* Types.                                                                    *)
Run == [pc : {"idle", "start", "walk", "land", "route", "mark", "finish"},
        since : 0..MaxTime, pos : 0..MaxRecords, max : 0..MaxTime,
        restarted : BOOLEAN, outcome : Statuses \union {"NULL"}]

LEMMA BoundFacts ==
  /\ MaxRecords \in Nat /\ MaxTime \in Nat /\ MaxTime >= 1 /\ MaxFaults \in Nat
  /\ Nobody \notin Worker /\ NoFile \notin Content
  BY SyncBoundsAssumption, NobodyAssumption, NoFileAssumption

LEMMA PublishedFacts ==
  ASSUME SyncTypeOK
  PROVE  /\ Len(published) \in Nat /\ Len(published) <= MaxRecords
         /\ DOMAIN published = 1..Len(published) /\ DOMAIN published \subseteq Id
         /\ \A i \in DOMAIN published : /\ published[i].at \in 1..MaxTime
                                        /\ published[i].file \in Content \union {NoFile}
<1>1. /\ published \in Seq([at : 1..MaxTime, file : Content \union {NoFile}])
      /\ Len(published) <= MaxRecords
  BY DEF SyncTypeOK
<1>2. Len(published) \in Nat /\ DOMAIN published = 1..Len(published)
  BY <1>1
<1>3. DOMAIN published \subseteq Id
  BY <1>1, <1>2, BoundFacts DEF Id
<1>4. ASSUME NEW i \in DOMAIN published
      PROVE  published[i] \in [at : 1..MaxTime, file : Content \union {NoFile}]
  BY <1>1, <1>2, <1>4, ElementOfSeq
<1>5. QED
  BY <1>1, <1>2, <1>3, <1>4

LEMMA RunFacts ==
  /\ NoRun \in Run
  /\ \A r \in Run : /\ [r EXCEPT !.pc = "start"] \in Run
                    /\ r.pos \in 0..MaxRecords /\ r.max \in 0..MaxTime /\ r.since \in 0..MaxTime
<1>1. 0 \in 0..MaxTime /\ 0 \in 0..MaxRecords
  BY BoundFacts
<1>2. NoRun \in Run
  BY <1>1 DEF NoRun, Run
<1>3. QED
  BY <1>2 DEF Run

LEMMA CountedType ==
  ASSUME SyncTypeOK, NEW w \in Worker, NEW i \in DOMAIN published
  PROVE  /\ Counted(w, i) \in Run /\ [Counted(w, i) EXCEPT !.pos = i] \in Run
         /\ Counted(w, i).pc = "walk" /\ Counted(w, i).pos = run[w].pos
         /\ Counted(w, i).max = Later(run[w].max, published[i].at)
         /\ Counted(w, i).since = run[w].since
<1>1. published[i].at \in 0..MaxTime /\ i \in 0..MaxRecords
  BY PublishedFacts, BoundFacts
<1>2. Later(run[w].max, published[i].at) \in 0..MaxTime
  BY <1>1 DEF SyncTypeOK, Later
<1>3. run[w] \in Run
  BY DEF SyncTypeOK, Run
<1>4. QED
  BY <1>1, <1>2, <1>3 DEF Run, Counted

LEMMA InitTypes ==
  ASSUME SyncInit
  PROVE  SyncTypeOK /\ RowsArePublished
<1> USE BoundFacts
<1>1. published \in Seq([at : 1..MaxTime, file : Content \union {NoFile}]) /\ Len(published) = 0
  BY DEF SyncInit
<1>2. run \in [Worker -> Run]
  BY RunFacts DEF SyncInit
<1>3. replay \in [Replayer -> [at : 0..MaxRecords, outcome : Statuses \union {"NULL"}]]
  BY DEF SyncInit, NoReplay
<1>4. QED
  BY <1>1, <1>2, <1>3 DEF SyncInit, SyncTypeOK, RowsArePublished, NoRun, Run, Id

(* What a step of worker w does to its run keeps the runs well typed.        *)
LEMMA RunStep ==
  ASSUME SyncTypeOK, RowsArePublished, NEW w \in Worker, NEW r \in Run,
         run' = [run EXCEPT ![w] = r], published' = published,
         r.pos <= Len(published), r.pc \in {"land", "route", "mark"} => r.pos >= 1
  PROVE  /\ run' \in [Worker -> Run]
         /\ \A v \in Worker : run'[v].pos <= Len(published')
         /\ \A v \in Worker : run'[v].pc \in {"land", "route", "mark"} => run'[v].pos >= 1
<1>1. run \in [Worker -> Run]
  BY DEF SyncTypeOK, Run
<1>2. \A v \in Worker : run'[v] = IF v = w THEN r ELSE run[v]
  BY <1>1
<1>3. QED
  BY <1>1, <1>2 DEF RowsArePublished

(* ... and so does the rest of its step, column by column.                   *)
LEMMA TablesStep ==
  ASSUME SyncTypeOK, RowsArePublished,
         UNCHANGED <<clock, published>>,
         replay' \in [Replayer -> [at : 0..MaxRecords, outcome : Statuses \union {"NULL"}]],
         row' \in [Id -> Statuses \union {"absent", "NULL"}],
         \A i \in Id : i \notin DOMAIN published => row'[i] = row[i],
         storedPath' \subseteq DOMAIN published, store' \subseteq Content,
         imported' \subseteq Content, watermark' \in 0..MaxTime,
         lock' \in Worker \union {Nobody}, 
         faulted' \subseteq Id, faults' \in 0..MaxFaults, run' \in [Worker -> Run],
         \A v \in Worker : run'[v].pos <= Len(published'),
         \A v \in Worker : run'[v].pc \in {"land", "route", "mark"} => run'[v].pos >= 1
  PROVE  SyncTypeOK' /\ RowsArePublished'
  BY PublishedFacts DEF SyncTypeOK, RowsArePublished, Run

LEMMA RowStep ==
  ASSUME SyncTypeOK, NEW i \in DOMAIN published, i \in Id,
         NEW s \in Statuses \union {"NULL"}, row' = [row EXCEPT ![i] = s]
  PROVE  /\ row' \in [Id -> Statuses \union {"absent", "NULL"}]
         /\ \A j \in Id : j \notin DOMAIN published => row'[j] = row[j]
  BY DEF SyncTypeOK

LEMMA LandingPos ==
  ASSUME SyncTypeOK, RowsArePublished, NEW w \in Worker,
         run[w].pc \in {"land", "route", "mark"}
  PROVE  run[w].pos \in DOMAIN published /\ run[w].pos \in Id
<1>1. run[w].pos \in 0..MaxRecords
  BY DEF SyncTypeOK
<1>2. run[w].pos \in 1..Len(published)
  BY <1>1, PublishedFacts DEF RowsArePublished
<1>3. QED
  BY <1>2, PublishedFacts

LEMMA WalkTypes ==
  ASSUME SyncTypeOK, RowsArePublished, NEW w \in Worker,
         TakeLock(w) \/ Start(w) \/ InsertRow(w) \/ WalkDone(w) \/ Finish(w)
  PROVE  SyncTypeOK' /\ RowsArePublished'
<1> DEFINE Keeps == /\ UNCHANGED <<clock, published, storedPath, store, imported,
                                   replay, faulted, faults>>
                    /\ watermark' \in 0..MaxTime /\ lock' \in Worker \union {Nobody}
           Goes(r) == /\ run' = [run EXCEPT ![w] = r]
                      /\ r \in Run /\ r.pos <= Len(published)
                      /\ r.pc \in {"land", "route", "mark"} => r.pos >= 1
<1>1. run[w] \in Run /\ run[w].pos <= Len(published) /\ Len(published) \in Nat
  BY PublishedFacts DEF SyncTypeOK, RowsArePublished, Run
<1>2. ASSUME Keeps, row' = row, NEW r, Goes(r)
      PROVE  SyncTypeOK' /\ RowsArePublished'
  BY <1>2, RunStep, TablesStep DEF SyncTypeOK, RowsArePublished
<1>3. CASE TakeLock(w)
  <2>1. Goes([NoRun EXCEPT !.pc = "start"])
    BY <1>1, <1>3, RunFacts DEF TakeLock, NoRun
  <2>2. QED
    BY <1>2, <1>3, <2>1 DEF TakeLock, upstream, files, SyncTypeOK
<1>4. CASE Start(w)
  <2>1. Since(watermark) \in 0..MaxTime /\ watermark \in 0..MaxTime
    BY BoundFacts DEF Since, SyncTypeOK
  <2>2. Goes([run[w] EXCEPT !.pc = "walk", !.since = Since(watermark), !.max = watermark])
    BY <1>1, <1>4, <2>1 DEF Start, Run
  <2>3. QED
    BY <1>2, <1>4, <2>2 DEF Start, upstream, files, SyncTypeOK
<1>5. CASE InsertRow(w)
  <2>1. PICK i \in Listed(w) :
          IF row[i] = "absent"
          THEN /\ row' = [row EXCEPT ![i] = "NULL"]
               /\ run' = [run EXCEPT ![w].pc = "land", ![w].pos = i]
          ELSE /\ run' = [run EXCEPT ![w] = [Counted(w, i) EXCEPT !.pos = i]]
               /\ UNCHANGED row
    BY <1>5 DEF InsertRow
  <2>2. i \in DOMAIN published /\ i \in 0..MaxRecords /\ i >= 1 /\ i <= Len(published) /\ i \in Id
    BY PublishedFacts, BoundFacts DEF Listed, Id
  <2>3. Keeps
    BY <1>5 DEF InsertRow, upstream, files, SyncTypeOK
  <2>4. CASE row[i] = "absent"
    <3>1. Goes([run[w] EXCEPT !.pc = "land", !.pos = i])
      BY <1>1, <2>1, <2>2, <2>4 DEF Run
    <3>2. row' = [row EXCEPT ![i] = "NULL"]
      BY <2>1, <2>4
    <3>3. /\ row' \in [Id -> Statuses \union {"absent", "NULL"}]
          /\ \A j \in Id : j \notin DOMAIN published => row'[j] = row[j]
      BY <2>2, <3>2, RowStep
    <3>4. QED
      BY <2>3, <3>1, <3>3, RunStep, TablesStep DEF SyncTypeOK, RowsArePublished
  <2>5. CASE row[i] # "absent"
    <3>1. Goes([Counted(w, i) EXCEPT !.pos = i])
      BY <1>1, <2>1, <2>2, <2>5, CountedType DEF Run
    <3>2. QED
      BY <1>2, <2>1, <2>3, <2>5, <3>1
  <2>6. QED
    BY <2>4, <2>5
<1>6. CASE WalkDone(w)
  <2>1. Goes([run[w] EXCEPT !.pc = "finish"])
    BY <1>1, <1>6 DEF WalkDone, Run
  <2>2. QED
    BY <1>2, <1>6, <2>1 DEF WalkDone, upstream, files, SyncTypeOK
<1>7. CASE Finish(w)
  <2>1. Goes(NoRun)
    BY <1>1, <1>7, RunFacts DEF Finish, NoRun
  <2>2. QED
    BY <1>2, <1>7, <2>1 DEF Finish, upstream, files, SyncTypeOK
<1>8. QED
  BY <1>3, <1>4, <1>5, <1>6, <1>7

LEMMA LandTypes ==
  ASSUME SyncTypeOK, RowsArePublished, NEW w \in Worker,
         LandWithout(w) \/ Fetch(w) \/ Route(w) \/ Mark(w), KnownIsStored
  PROVE  SyncTypeOK' /\ RowsArePublished'
<1> DEFINE i == run[w].pos
           c == published[i].file
           Keeps == UNCHANGED <<clock, published, watermark, lock, replay, faulted, faults>>
           Goes(r) == /\ run' = [run EXCEPT ![w] = r]
                      /\ r \in Run /\ r.pos <= Len(published)
                      /\ r.pc \in {"land", "route", "mark"} => r.pos >= 1
<1>1. run[w] \in Run /\ i <= Len(published) /\ Len(published) \in Nat
  BY PublishedFacts DEF SyncTypeOK, RowsArePublished, Run
<1>2. i \in DOMAIN published /\ i \in Id /\ c \in Content \union {NoFile} /\ i >= 1
  <2>1. run[w].pc \in {"land", "route", "mark"}
    BY DEF LandWithout, Fetch, Route, Mark
  <2>2. i \in DOMAIN published /\ i \in Id
    BY <2>1, LandingPos
  <2>3. QED
    BY <2>2, PublishedFacts, BoundFacts DEF Id
<1>3. Counted(w, i) \in Run /\ Counted(w, i).pc = "walk" /\ Counted(w, i).pos = i
  BY <1>2, CountedType
<1> HIDE DEF i, c
<1>4. Keeps
  BY DEF LandWithout, Fetch, Route, Mark, upstream, files
<1>5. CASE LandWithout(w)
  <2>1. Goes(Counted(w, i))
    BY <1>1, <1>3, <1>5 DEF LandWithout, i
  <2>2. \E s \in Statuses \union {"NULL"} : row' = [row EXCEPT ![i] = s]
    BY <1>5 DEF LandWithout, Statuses, i
  <2>3. UNCHANGED <<storedPath, store, imported>>
    BY <1>5 DEF LandWithout, files
  <2>4. /\ row' \in [Id -> Statuses \union {"absent", "NULL"}]
        /\ \A j \in Id : j \notin DOMAIN published => row'[j] = row[j]
    BY <1>2, <2>2, RowStep
  <2>5. QED
    BY <1>2, <1>4, <2>1, <2>3, <2>4, RunStep, TablesStep DEF SyncTypeOK, RowsArePublished
<1>6. CASE Fetch(w)
  <2>1. Goes([run[w] EXCEPT !.pc = "route"])
    BY <1>1, <1>2, <1>6 DEF Fetch, Run, i
  <2>2. c \in Content /\ store' = store \union {c} /\ UNCHANGED <<row, storedPath, imported>>
    BY <1>2, <1>6 DEF Fetch, i, c
  <2>3. QED
    BY <1>4, <2>1, <2>2, RunStep, TablesStep DEF SyncTypeOK, RowsArePublished
<1>7. CASE Route(w)
  <2>1. PICK o \in Outcomes(c) :
          /\ run' = [run EXCEPT ![w].pc = "mark", ![w].outcome = o]
          /\ imported' = ImportedAfter(c, o)
    BY <1>7 DEF Route, i, c
  <2>2. o \in Statuses
    BY DEF Outcomes, Statuses
  <2>3. Goes([run[w] EXCEPT !.pc = "mark", !.outcome = o])
    BY <1>1, <1>2, <2>1, <2>2 DEF Run, i
  <2>4. imported' \subseteq Content /\ UNCHANGED <<row, storedPath, store>>
    BY <1>7, <2>1 DEF Route, ImportedAfter, SyncTypeOK, KnownIsStored, i, c
  <2>5. QED
    BY <1>4, <2>3, <2>4, RunStep, TablesStep DEF SyncTypeOK, RowsArePublished
<1>8. CASE Mark(w)
  <2>1. Goes(Counted(w, i))
    BY <1>1, <1>3, <1>8 DEF Mark, i
  <2>2. \E s \in Statuses \union {"NULL"} : row' = [row EXCEPT ![i] = s]
    BY <1>1, <1>8 DEF Mark, Run, i
  <2>3. storedPath' = storedPath \union {i} /\ UNCHANGED <<store, imported>>
    BY <1>8 DEF Mark, i
  <2>4. /\ row' \in [Id -> Statuses \union {"absent", "NULL"}]
        /\ \A j \in Id : j \notin DOMAIN published => row'[j] = row[j]
    BY <1>2, <2>2, RowStep
  <2>5. QED
    BY <1>2, <1>4, <2>1, <2>3, <2>4, RunStep, TablesStep DEF SyncTypeOK, RowsArePublished
<1>9. QED
  BY <1>5, <1>6, <1>7, <1>8

LEMMA UpstreamTypes ==
  ASSUME SyncTypeOK, RowsArePublished,
         Tick \/ \E file \in Content \union {NoFile} : Publish(file)
  PROVE  /\ SyncTypeOK' /\ RowsArePublished' /\ DOMAIN published \subseteq DOMAIN published'
         /\ \A i \in DOMAIN published : published'[i] = published[i]
         /\ \A i \in DOMAIN published' \ DOMAIN published : published'[i].at = clock
         /\ Len(published) <= Len(published')
<1>1. CASE Tick
  BY <1>1, BoundFacts DEF Tick, SyncTypeOK, RowsArePublished, files
<1>2. ASSUME NEW file \in Content \union {NoFile}, Publish(file)
      PROVE  /\ SyncTypeOK' /\ RowsArePublished' /\ DOMAIN published \subseteq DOMAIN published'
             /\ \A i \in DOMAIN published : published'[i] = published[i]
             /\ \A i \in DOMAIN published' \ DOMAIN published : published'[i].at = clock
             /\ Len(published) <= Len(published')
  <2> DEFINE Record == [at : 1..MaxTime, file : Content \union {NoFile}]
             new == [at |-> clock, file |-> file]
  <2>1. new \in Record /\ new.at = clock
    BY DEF SyncTypeOK
  <2>2. published \in Seq(Record) /\ published' = Append(published, new)
        /\ Len(published) < MaxRecords
    BY <1>2 DEF SyncTypeOK, Publish
  <2> HIDE DEF Record, new
  <2>3. /\ published' \in Seq(Record) /\ Len(published') = Len(published) + 1
        /\ \A i \in 1..Len(published) : published'[i] = published[i]
        /\ published'[Len(published) + 1] = new
    BY <2>1, <2>2, AppendProperties
  <2>4. /\ Len(published) \in Nat /\ DOMAIN published = 1..Len(published)
        /\ DOMAIN published' = 1..(Len(published) + 1)
    BY <2>2, <2>3, LenProperties
  <2>5. Len(published') <= MaxRecords
    BY <2>2, <2>3, <2>4, BoundFacts
  <2>6. SyncTypeOK'
    BY <1>2, <2>3, <2>5 DEF Publish, SyncTypeOK, files, Record
  <2>7. RowsArePublished'
    <3>1. \A i \in Id : i \notin DOMAIN published' => row'[i] = "absent"
      BY <1>2, <2>4 DEF RowsArePublished, Publish
    <3>2. \A w \in Worker : run'[w].pos <= Len(published')
      BY <1>2, <2>3, <2>4 DEF RowsArePublished, Publish, SyncTypeOK
    <3>3. QED
      BY <1>2, <2>4, <3>1, <3>2 DEF RowsArePublished, Publish, files
  <2>8. \A i \in DOMAIN published' \ DOMAIN published : published'[i].at = clock
    BY <2>1, <2>3, <2>4
  <2>9. QED
    BY <2>3, <2>4, <2>6, <2>7, <2>8
<1>3. QED
  BY <1>1, <1>2 

LEMMA FaultTypes ==
  ASSUME SyncTypeOK, RowsArePublished, NEW w \in Worker,
         RequestFails(w) \/ BadCursor(w) \/ SyncCrash(w)
  PROVE  SyncTypeOK' /\ RowsArePublished'
<1> DEFINE Goes(r) == /\ run' = [run EXCEPT ![w] = r]
                      /\ r \in Run /\ r.pos <= Len(published)
                      /\ r.pc \in {"land", "route", "mark"} => r.pos >= 1
<1>1. run[w] \in Run /\ run[w].pos <= Len(published) /\ Len(published) \in Nat
  BY PublishedFacts DEF SyncTypeOK, RowsArePublished, Run
<1>2. UNCHANGED <<clock, published, row, storedPath, store, imported, watermark, replay>>
  BY DEF RequestFails, BadCursor, SyncCrash, upstream, files
<1>3. faults' \in 0..MaxFaults
  BY BoundFacts DEF RequestFails, BadCursor, SyncCrash, SyncTypeOK
<1>4. faulted' \subseteq Id
  <2>1. run[w].pc \in {"land", "route", "mark"} => run[w].pos \in Id
    BY LandingPos
  <2>2. QED
    BY <2>1 DEF RequestFails, BadCursor, SyncCrash, SyncTypeOK
<1>5. lock' \in Worker \union {Nobody}
  BY DEF RequestFails, BadCursor, SyncCrash, SyncTypeOK
<1>6. ASSUME NEW r, Goes(r) PROVE SyncTypeOK' /\ RowsArePublished'
  BY <1>2, <1>3, <1>4, <1>5, <1>6, RunStep, TablesStep DEF SyncTypeOK, RowsArePublished
<1>7. CASE RequestFails(w)
  <2>1. Goes([run[w] EXCEPT !.pc = "finish"])
    BY <1>1, <1>7 DEF RequestFails, Run
  <2>2. QED
    BY <1>6, <2>1
<1>8. CASE BadCursor(w)
  <2>1. 0 \in 0..MaxRecords /\ 0 <= Len(published)
    BY <1>1, BoundFacts
  <2>2. [run[w] EXCEPT !.pos = 0, !.restarted = TRUE] \in Run
    BY <1>1, <2>1 DEF Run
  <2>3. run' = [run EXCEPT ![w] = [run[w] EXCEPT !.pos = 0, !.restarted = TRUE]]
    BY <1>8 DEF BadCursor
  <2>4. [run[w] EXCEPT !.pos = 0, !.restarted = TRUE].pos = 0
    BY <1>1 DEF Run
  <2>5. [run[w] EXCEPT !.pos = 0, !.restarted = TRUE].pc = "walk"
    BY <1>1, <1>8 DEF Run, BadCursor
  <2>6. Goes([run[w] EXCEPT !.pos = 0, !.restarted = TRUE])
    BY <2>1, <2>2, <2>3, <2>4, <2>5
  <2>7. QED
    BY <1>6, <2>6
<1>9. CASE SyncCrash(w)
  <2>1. Goes(NoRun)
    BY <1>1, <1>9, RunFacts DEF SyncCrash, NoRun
  <2>2. QED
    BY <1>6, <2>1
<1>10. QED
  BY <1>7, <1>8, <1>9

LEMMA ReplayTypes ==
  ASSUME SyncTypeOK, RowsArePublished, KnownIsStored, NEW p \in Replayer,
         ReplayMark(p) \/ \E i \in Id : ReplayRoute(p, i)
  PROVE  SyncTypeOK' /\ RowsArePublished'
<1> DEFINE Replay == [at : 0..MaxRecords, outcome : Statuses \union {"NULL"}]
<1>1. replay \in [Replayer -> Replay] /\ 0 \in 0..MaxRecords
  BY BoundFacts DEF SyncTypeOK
<1>2. CASE ReplayMark(p)
  <2>1. NoReplay \in Replay
    BY <1>1 DEF NoReplay
  <2>2. replay' \in [Replayer -> Replay]
    BY <1>1, <1>2, <2>1 DEF ReplayMark
  <2>3. replay[p].at \in DOMAIN published /\ replay[p].at \in Id /\ replay[p].outcome \in Statuses
    BY <1>2, PublishedFacts DEF ReplayMark, KnownIsStored
  <2>4. /\ row' \in [Id -> Statuses \union {"absent", "NULL"}]
        /\ \A j \in Id : j \notin DOMAIN published => row'[j] = row[j]
    BY <1>2, <2>3, RowStep DEF ReplayMark
  <2>5. UNCHANGED <<upstream, files, watermark, lock, run, faulted, faults>>
    BY <1>2 DEF ReplayMark
  <2>6. QED
    BY <2>2, <2>4, <2>5, TablesStep
    DEF SyncTypeOK, RowsArePublished, Run, upstream, files
<1>3. ASSUME NEW i \in Id, ReplayRoute(p, i) PROVE SyncTypeOK' /\ RowsArePublished'
  <2>1. PICK o \in Outcomes(published[i].file) :
          /\ replay' = [replay EXCEPT ![p] = [at |-> i, outcome |-> o]]
          /\ imported' = ImportedAfter(published[i].file, o)
    BY <1>3 DEF ReplayRoute
  <2>2. o \in Statuses /\ i \in 0..MaxRecords
    BY BoundFacts DEF Outcomes, Statuses, Id
  <2>3. replay' \in [Replayer -> Replay]
    BY <1>1, <2>1, <2>2
  <2>4. imported' \subseteq Content
    BY <1>3, <2>1 DEF ReplayRoute, ImportedAfter, SyncTypeOK
  <2>5. QED
    BY <1>3, <2>3, <2>4, TablesStep
    DEF ReplayRoute, SyncTypeOK, RowsArePublished, Run, upstream
<1>4. QED
  BY <1>2, <1>3

-----------------------------------------------------------------------------
(* The walk: one worker at a time, in the order of the listing.              *)
IInv ==
  /\ SyncTypeOK /\ ListingInOrder /\ RowsArePublished /\ OneRunAtATime
  /\ WalkIsComplete /\ NoRecordSkipped /\ KnownIsStored
  /\ SkippedBytesAreStored /\ StuckRecordNeedsAFault

WorkerStep(w) ==
  TakeLock(w) \/ Sync(w) \/ RequestFails(w) \/ BadCursor(w) \/ SyncCrash(w)
ReplayStep(p) == ReplayMark(p) \/ \E i \in Id : ReplayRoute(p, i)
UpstreamStep == Tick \/ \E file \in Content \union {NoFile} : Publish(file)

LEMMA NextSplit ==
  ASSUME SyncNext
  PROVE  UpstreamStep \/ (\E w \in Worker : WorkerStep(w)) \/ \E p \in Replayer : ReplayStep(p)
  BY DEF SyncNext, UpstreamStep, WorkerStep, ReplayStep

LEMMA StepTypes ==
  ASSUME IInv, SyncNext
  PROVE  SyncTypeOK' /\ RowsArePublished'
<1>1. CASE UpstreamStep
  BY <1>1, UpstreamTypes DEF UpstreamStep, IInv
<1>2. ASSUME NEW w \in Worker, WorkerStep(w) PROVE SyncTypeOK' /\ RowsArePublished'
  <2>1. CASE TakeLock(w) \/ Start(w) \/ InsertRow(w) \/ WalkDone(w) \/ Finish(w)
    BY <2>1, WalkTypes DEF IInv
  <2>2. CASE LandWithout(w) \/ Fetch(w) \/ Route(w) \/ Mark(w)
    BY <2>2, LandTypes DEF IInv
  <2>3. CASE RequestFails(w) \/ BadCursor(w) \/ SyncCrash(w)
    BY <2>3, FaultTypes DEF IInv
  <2>4. QED
    BY <1>2, <2>1, <2>2, <2>3 DEF WorkerStep, Sync
<1>3. ASSUME NEW p \in Replayer, ReplayStep(p) PROVE SyncTypeOK' /\ RowsArePublished'
  BY <1>3, ReplayTypes DEF ReplayStep, IInv
<1>4. QED
  BY <1>1, <1>2, <1>3, NextSplit

(* A worker's step leaves the other workers where they are, which is out of  *)
(* the walk, and no row is ever taken away.                                  *)
LEMMA AloneInTheWalk ==
  ASSUME IInv, NEW w \in Worker, WorkerStep(w)
  PROVE  /\ \A v \in Worker \ {w} : run'[v] = run[v] /\ run[v].pc = "idle"
         /\ OneRunAtATime'
         /\ UNCHANGED <<clock, published, replay>>
         /\ \A i \in Id : row[i] # "absent" => row'[i] # "absent"
<1>1. run \in [Worker -> Run] /\ lock \in Worker \union {Nobody} /\ w # Nobody
  BY BoundFacts DEF IInv, SyncTypeOK, Run
<1>2. IF run[w].pc = "idle" THEN TakeLock(w) ELSE ~TakeLock(w)
  BY DEF WorkerStep, TakeLock, Sync, Start, InsertRow, LandWithout, Fetch, Route, Mark,
         WalkDone, Finish, RequestFails, BadCursor, SyncCrash
<1>3. lock = IF run[w].pc = "idle" THEN Nobody ELSE w
  BY <1>2 DEF TakeLock, LockFree, IInv, OneRunAtATime
<1>4. \A v \in Worker \ {w} : run[v].pc = "idle"
  BY <1>1, <1>3, BoundFacts DEF IInv, OneRunAtATime
<1>5. \A v \in Worker \ {w} : run'[v] = run[v]
  <2>1. (\E r : run' = [run EXCEPT ![w] = r]) => \A v \in Worker \ {w} : run'[v] = run[v]
    BY <1>1
  <2>2. \/ TakeLock(w) \/ Start(w) \/ LandWithout(w) \/ Fetch(w) \/ Mark(w) \/ WalkDone(w)
        \/ Finish(w) \/ RequestFails(w) \/ BadCursor(w) \/ SyncCrash(w)
        => \E r : run' = [run EXCEPT ![w] = r]
    BY DEF TakeLock, Start, LandWithout, Fetch, Mark, WalkDone, Finish, RequestFails,
           BadCursor, SyncCrash
  <2>3. InsertRow(w) => \E r : run' = [run EXCEPT ![w] = r]
    BY DEF InsertRow
  <2>4. Route(w) => \E r : run' = [run EXCEPT ![w] = r]
    BY DEF Route
  <2>5. QED
    BY <2>1, <2>2, <2>3, <2>4 DEF WorkerStep, Sync
<1>6. run'[w].pc = "idle" \/ lock' = w
  <2>1. CASE lock' = lock
    <3>1. run[w].pc # "idle"
      BY <1>3, <2>1, <1>1, <1>2 DEF TakeLock
    <3>2. QED
      BY <1>3, <2>1, <3>1
  <2>2. CASE Finish(w) \/ SyncCrash(w)
    BY <1>1, <2>2 DEF Finish, SyncCrash, NoRun
  <2>3. CASE TakeLock(w)
    BY <2>3 DEF TakeLock
  <2>4. QED
    BY <2>1, <2>2, <2>3
    DEF WorkerStep, Sync, Start, InsertRow, LandWithout, Fetch, Route, Mark,
        WalkDone, RequestFails, BadCursor
<1>7. OneRunAtATime'
  BY <1>4, <1>5, <1>6 DEF OneRunAtATime
<1>8. UNCHANGED <<clock, published, replay>>
  BY DEF WorkerStep, TakeLock, Sync, Start, InsertRow, LandWithout, Fetch, Route, Mark,
         WalkDone, Finish, RequestFails, BadCursor, SyncCrash, upstream
<1>9. \A i \in Id : row[i] # "absent" => row'[i] # "absent"
  <2>1. row \in [Id -> Statuses \union {"absent", "NULL"}]
    BY DEF IInv, SyncTypeOK
  <2>2. CASE UNCHANGED row
    BY <2>2
  <2>3. CASE \E i \in Id : row' = [row EXCEPT ![i] = "NULL"]
    BY <2>1, <2>3
  <2>4. CASE LandWithout(w)
    BY <2>1, <2>4 DEF LandWithout
  <2>5. CASE Mark(w)
    <3>1. run[w].outcome # "absent"
      BY <2>5 DEF Mark, IInv, KnownIsStored, Statuses
    <3>2. QED
      BY <2>1, <2>5, <3>1 DEF Mark
  <2>6. CASE InsertRow(w)
    <3>1. \A i \in Listed(w) : i \in Id
      BY PublishedFacts DEF Listed, IInv
    <3>2. QED
      BY <2>2, <2>3, <2>6, <3>1 DEF InsertRow
  <2>7. QED
    BY <2>2, <2>4, <2>5, <2>6
    DEF WorkerStep, TakeLock, Sync, Start, Fetch, Route, WalkDone, Finish,
        RequestFails, BadCursor, SyncCrash, files
<1>10. QED
  BY <1>4, <1>5, <1>7, <1>8, <1>9

(* What a worker's step must bring about for the walk to stay complete.      *)
WalkOK(r, mark) ==
  /\ r.pc = "start" => r.pos = 0
  /\ r.pc \notin {"idle", "start"} =>
       /\ r.since = Since(mark) /\ mark <= r.max /\ r.max <= clock
       /\ \A i \in DOMAIN published :
            i <= r.pos \/ published[i].at < r.max => row[i] # "absent"

LEMMA WalkedRow ==
  ASSUME IInv, NEW w \in Worker, NEW i \in DOMAIN published,
         run[w].pc \notin {"idle", "start"}, i <= run[w].pos
  PROVE  /\ \A j \in DOMAIN published : published[j].at < published[i].at => row[j] # "absent"
         /\ \A j \in DOMAIN published :
              published[j].at < Later(run[w].max, published[i].at) => row[j] # "absent"
<1>1. DOMAIN published \subseteq Nat /\ \A j \in DOMAIN published : published[j].at \in Nat
  BY PublishedFacts DEF IInv
<1>2. run[w].pos \in Nat /\ run[w].max \in Nat
  BY BoundFacts DEF IInv, SyncTypeOK
<1>3. ASSUME NEW j \in DOMAIN published, published[j].at < published[i].at
      PROVE  row[j] # "absent"
  <2>1. j < i
    BY <1>1, <1>3 DEF IInv, ListingInOrder
  <2>2. j <= run[w].pos
    BY <1>1, <1>2, <2>1
  <2>3. QED
    BY <2>2 DEF IInv, WalkIsComplete
<1>4. QED
  BY <1>1, <1>2, <1>3 DEF IInv, WalkIsComplete, Later

(* The record at hand is the first of the rest of the listing: every earlier *)
(* one has been walked over, or lies before the second the walk began with.  *)
LEMMA RestOfListing ==
  ASSUME IInv, NEW w \in Worker, run[w].pc = "walk", NEW i \in Listed(w),
         \A j \in Listed(w) : i <= j
  PROVE  \A j \in DOMAIN published : j < i => row[j] # "absent"
<1>1. /\ DOMAIN published \subseteq Nat /\ i \in DOMAIN published
      /\ \A j \in DOMAIN published : published[j].at \in Nat /\ published[j].at >= 1
  BY PublishedFacts, BoundFacts DEF IInv, Listed
<1>2. run[w].pos \in Nat /\ watermark \in Nat /\ run[w].since = Since(watermark)
  BY BoundFacts DEF IInv, SyncTypeOK, WalkIsComplete
<1>3. SUFFICES ASSUME NEW j \in DOMAIN published, j < i PROVE row[j] # "absent"
  OBVIOUS
<1>4. CASE j <= run[w].pos
  BY <1>4 DEF IInv, WalkIsComplete
<1>5. CASE published[j].at <= run[w].since
  <2>1. published[j].at < watermark
    BY <1>1, <1>2, <1>5 DEF Since
  <2>2. QED
    BY <2>1 DEF IInv, NoRecordSkipped
<1>6. CASE j > run[w].pos /\ published[j].at > run[w].since
  BY <1>1, <1>3, <1>6 DEF Listed
<1>7. QED
  BY <1>1, <1>2, <1>4, <1>5, <1>6 DEF Since

LEMMA WalkStep ==
  ASSUME IInv, NEW w \in Worker, WorkerStep(w)
  PROVE  /\ WalkOK(run[w], watermark)'
         /\ watermark' >= watermark /\ watermark' <= clock
         /\ watermark' # watermark => run'[w].pc = "idle"
         /\ NoRecordSkipped'
<1>1. /\ \A v \in Worker \ {w} : run'[v] = run[v] /\ run[v].pc = "idle"
      /\ UNCHANGED <<clock, published, replay>>
      /\ \A i \in Id : row[i] # "absent" => row'[i] # "absent"
  BY AloneInTheWalk
<1>2. /\ DOMAIN published \subseteq Id /\ DOMAIN published \subseteq Nat
      /\ \A i \in DOMAIN published : published[i].at \in Nat /\ published[i].at <= clock
  BY PublishedFacts DEF IInv, ListingInOrder
<1>3. /\ run \in [Worker -> Run] /\ row \in [Id -> Statuses \union {"absent", "NULL"}]
      /\ run[w].pos \in Nat /\ run[w].max \in Nat /\ watermark \in Nat /\ clock \in Nat
      /\ watermark <= clock
  BY BoundFacts DEF IInv, SyncTypeOK, Run, WalkIsComplete
<1>4. WalkOK(run[w], watermark)
  BY DEF IInv, WalkIsComplete, WalkOK
<1>5. ASSUME watermark' = watermark PROVE NoRecordSkipped'
  BY <1>1, <1>2, <1>5 DEF IInv, NoRecordSkipped
<1>6. ASSUME watermark' = watermark, NEW r, run' = [run EXCEPT ![w] = r],
             r.pc = "idle" \/ (r.pc = "start" /\ r.pos = 0)
      PROVE  /\ WalkOK(run[w], watermark)'
             /\ watermark' >= watermark /\ watermark' <= clock
             /\ watermark' # watermark => run'[w].pc = "idle"
             /\ NoRecordSkipped'
  <2>1. run'[w] = r
    BY <1>3, <1>6
  <2>2. QED
    BY <1>3, <1>5, <1>6, <2>1 DEF WalkOK
<1>6a. ASSUME watermark' = watermark, NEW r, run' = [run EXCEPT ![w] = r],
              r.pc \notin {"idle", "start"}, run[w].pc \notin {"idle", "start"},
              r.since = run[w].since, r.max \in Nat,
              run[w].max <= r.max, r.max <= clock,
              \A i \in DOMAIN published :
                i <= r.pos \/ published[i].at < r.max => row'[i] # "absent"
      PROVE  /\ WalkOK(run[w], watermark)'
             /\ watermark' >= watermark /\ watermark' <= clock
             /\ watermark' # watermark => run'[w].pc = "idle"
             /\ NoRecordSkipped'
  <2>1. run'[w] = r
    BY <1>3, <1>6a
  <2>2. watermark <= run[w].max /\ run[w].since = Since(watermark)
    BY <1>4, <1>6a DEF WalkOK
  <2>3. watermark <= r.max
    BY <1>3, <1>6a, <2>2
  <2>4. r.since = Since(watermark')
    BY <1>6a, <2>2
  <2>5. WalkOK(run[w], watermark)'
    BY <1>1, <1>6a, <2>1, <2>3, <2>4 DEF WalkOK
  <2>6. QED
    BY <1>3, <1>5, <1>6a, <2>5
<1>7. CASE TakeLock(w)
  <2>1. /\ run' = [run EXCEPT ![w] = [NoRun EXCEPT !.pc = "start"]] /\ watermark' = watermark
        /\ [NoRun EXCEPT !.pc = "start"].pc = "start" /\ [NoRun EXCEPT !.pc = "start"].pos = 0
    BY <1>7 DEF TakeLock, NoRun
  <2>2. QED
    BY <1>6, <2>1
<1>8. CASE Start(w)
  <2> DEFINE r == [run[w] EXCEPT !.pc = "walk", !.since = Since(watermark), !.max = watermark]
  <2>1. /\ run' = [run EXCEPT ![w] = r] /\ watermark' = watermark /\ row' = row
        /\ run[w].pos = 0
    BY <1>4, <1>8 DEF Start, files, WalkOK
  <2>2. /\ run'[w].pc = "walk" /\ run'[w].since = Since(watermark)
        /\ run'[w].max = watermark /\ run'[w].pos = 0
    BY <1>3, <2>1 DEF Run
  <2>3. \A i \in DOMAIN published : published[i].at < watermark => row[i] # "absent"
    BY DEF IInv, NoRecordSkipped
  <2>4. \A i \in DOMAIN published : ~(i <= 0)
    BY PublishedFacts DEF IInv
  <2>5. QED
    BY <1>1, <1>3, <1>5, <2>1, <2>2, <2>3, <2>4 DEF WalkOK, Since
<1>9. CASE InsertRow(w)
  <2>1. PICK i \in Listed(w) :
          /\ \A j \in Listed(w) : i <= j
          /\ IF row[i] = "absent"
             THEN /\ row' = [row EXCEPT ![i] = "NULL"]
                  /\ run' = [run EXCEPT ![w].pc = "land", ![w].pos = i]
             ELSE /\ run' = [run EXCEPT ![w] = [Counted(w, i) EXCEPT !.pos = i]]
                  /\ UNCHANGED row
    BY <1>9 DEF InsertRow
  <2>2. i \in DOMAIN published /\ i \in Nat /\ i \in Id /\ run[w].pc = "walk"
        /\ watermark' = watermark
    BY <1>2, <1>9 DEF Listed, InsertRow
  <2>3. row'[i] # "absent"
    BY <1>3, <2>1, <2>2
  <2>4. \A j \in DOMAIN published : j <= i => row'[j] # "absent"
    <3>1. \A j \in DOMAIN published : j < i => row[j] # "absent"
      BY <2>1, <2>2, RestOfListing
    <3>2. QED
      BY <1>1, <1>2, <2>2, <2>3, <3>1
  <2>5. \A j \in DOMAIN published : published[j].at < run[w].max => row'[j] # "absent"
    BY <1>1, <1>2, <1>4, <2>2 DEF WalkOK
  <2>6. run[w].max <= clock
    BY <1>4, <2>2 DEF WalkOK
  <2>7. CASE row[i] = "absent"
    <3> DEFINE r == [run[w] EXCEPT !.pc = "land", !.pos = i]
    <3>1. run' = [run EXCEPT ![w] = r]
      BY <2>1, <2>7
    <3>2. r.pc = "land" /\ r.pos = i /\ r.since = run[w].since /\ r.max = run[w].max
      BY <1>3 DEF Run
    <3> HIDE DEF r
    <3>3. /\ r.max \in Nat /\ run[w].max <= r.max /\ r.max <= clock
          /\ \A j \in DOMAIN published : j <= r.pos \/ published[j].at < r.max => row'[j] # "absent"
      BY <1>3, <2>4, <2>5, <2>6, <3>2
    <3>4. QED
      BY <1>6a, <2>2, <3>1, <3>2, <3>3
  <2>8. CASE row[i] # "absent"
    <3> DEFINE r == [Counted(w, i) EXCEPT !.pos = i]
    <3>1. run' = [run EXCEPT ![w] = r]
      BY <2>1, <2>8
    <3>a. /\ Counted(w, i) \in Run /\ Counted(w, i).pc = "walk"
          /\ Counted(w, i).since = run[w].since
          /\ Counted(w, i).max = Later(run[w].max, published[i].at)
      BY <2>2, CountedType DEF IInv
    <3>2. /\ r.pc = "walk" /\ r.pos = i /\ r.since = run[w].since
          /\ r.max = Later(run[w].max, published[i].at)
      BY <3>a DEF Run
    <3> HIDE DEF r
    <3>3. \A j \in DOMAIN published : published[j].at < published[i].at => row'[j] # "absent"
      BY <1>2, <2>2, <2>4 DEF IInv, ListingInOrder
    <3>4. /\ r.max \in Nat /\ run[w].max <= r.max /\ r.max <= clock
          /\ \A j \in DOMAIN published : published[j].at < r.max => row'[j] # "absent"
      BY <1>2, <1>3, <2>2, <2>5, <2>6, <3>2, <3>3 DEF Later
    <3>5. QED
      BY <1>6a, <2>2, <2>4, <3>1, <3>2, <3>4
  <2>9. QED
    BY <2>7, <2>8
<1>10. ASSUME run[w].pc \in {"land", "mark"}, watermark' = watermark,
              run' = [run EXCEPT ![w] = Counted(w, run[w].pos)]
       PROVE  /\ WalkOK(run[w], watermark)'
              /\ watermark' >= watermark /\ watermark' <= clock
              /\ watermark' # watermark => run'[w].pc = "idle"
              /\ NoRecordSkipped'
  <2> DEFINE i == run[w].pos
             r == Counted(w, i)
  <2>1. i \in DOMAIN published
    BY <1>10, LandingPos DEF IInv
  <2>2. /\ r.pc = "walk" /\ r.pos = i /\ r.since = run[w].since
        /\ r.max = Later(run[w].max, published[i].at)
    BY <2>1, CountedType DEF IInv
  <2>3. run' = [run EXCEPT ![w] = r]
    BY <1>10
  <2> HIDE DEF r
  <2>4. run[w].max <= clock
    BY <1>4, <1>10 DEF WalkOK
  <2>5. \A j \in DOMAIN published : published[j].at < r.max => row[j] # "absent"
    <3>1. i <= run[w].pos
      BY <1>3
    <3>2. QED
      BY <1>10, <2>1, <2>2, <3>1, WalkedRow
  <2>6. /\ r.max \in Nat /\ run[w].max <= r.max /\ r.max <= clock
    BY <1>2, <1>3, <2>1, <2>2, <2>4 DEF Later
  <2>7. \A j \in DOMAIN published : j <= r.pos \/ published[j].at < r.max => row'[j] # "absent"
    BY <1>1, <1>2, <1>4, <1>10, <2>2, <2>5 DEF WalkOK
  <2>8. QED
    BY <1>6a, <1>10, <2>2, <2>3, <2>6, <2>7
<1>11. ASSUME run[w].pc \notin {"idle", "start"}, watermark' = watermark,
              NEW r, run' = [run EXCEPT ![w] = r], r.pc \notin {"idle", "start"},
              r.since = run[w].since, r.max = run[w].max,
              r.pos = run[w].pos \/ r.pos = 0
       PROVE  /\ WalkOK(run[w], watermark)'
              /\ watermark' >= watermark /\ watermark' <= clock
              /\ watermark' # watermark => run'[w].pc = "idle"
              /\ NoRecordSkipped'
  <2>1. run[w].max <= clock
    BY <1>4, <1>11 DEF WalkOK
  <2>2. \A i \in DOMAIN published : i <= r.pos => i <= run[w].pos
    BY <1>2, <1>3, <1>11
  <2>3. \A i \in DOMAIN published : i <= r.pos \/ published[i].at < r.max => row'[i] # "absent"
    BY <1>1, <1>2, <1>4, <1>11, <2>2 DEF WalkOK
  <2>4. r.max \in Nat /\ run[w].max <= r.max /\ r.max <= clock
    BY <1>3, <1>11, <2>1
  <2>5. QED
    BY <1>6a, <1>11, <2>3, <2>4
<1>12. CASE LandWithout(w)
  BY <1>10, <1>12 DEF LandWithout
<1>13. CASE Mark(w)
  BY <1>10, <1>13 DEF Mark
<1>14. CASE Fetch(w)
  <2>1. run' = [run EXCEPT ![w] = [run[w] EXCEPT !.pc = "route"]]
    BY <1>14 DEF Fetch
  <2>2. [run[w] EXCEPT !.pc = "route"].pc = "route"
    BY <1>3 DEF Run
  <2>3. QED
    BY <1>3, <1>11, <1>14, <2>1, <2>2 DEF Fetch, Run
<1>15. CASE Route(w)
  <2>1. PICK o : run' = [run EXCEPT ![w] = [run[w] EXCEPT !.pc = "mark", !.outcome = o]]
    BY <1>15 DEF Route
  <2> DEFINE r == [run[w] EXCEPT !.pc = "mark", !.outcome = o]
  <2>2. /\ r.pc = "mark" /\ r.since = run[w].since /\ r.max = run[w].max
        /\ r.pos = run[w].pos
    BY <1>3 DEF Run
  <2>3. run[w].pc = "route" /\ watermark' = watermark
    BY <1>15 DEF Route
  <2> HIDE DEF r
  <2>4. QED
    BY <1>11, <2>1, <2>2, <2>3 DEF r
<1>16. CASE WalkDone(w) \/ RequestFails(w)
  <2>1. run' = [run EXCEPT ![w] = [run[w] EXCEPT !.pc = "finish"]]
        /\ watermark' = watermark /\ run[w].pc \notin {"idle", "start"}
    BY <1>16 DEF WalkDone, RequestFails
  <2>2. [run[w] EXCEPT !.pc = "finish"].pc = "finish"
    BY <1>3 DEF Run
  <2>3. QED
    BY <1>3, <1>11, <2>1, <2>2 DEF Run
<1>17. CASE BadCursor(w)
  <2>1. run' = [run EXCEPT ![w] = [run[w] EXCEPT !.pos = 0, !.restarted = TRUE]]
        /\ watermark' = watermark /\ run[w].pc = "walk"
    BY <1>17 DEF BadCursor
  <2>2. /\ [run[w] EXCEPT !.pos = 0, !.restarted = TRUE].pc = "walk"
        /\ [run[w] EXCEPT !.pos = 0, !.restarted = TRUE].pos = 0
    BY <1>3, <2>1 DEF Run
  <2>3. QED
    BY <1>3, <1>11, <2>1, <2>2 DEF Run
<1>18. CASE SyncCrash(w)
  BY <1>6, <1>18 DEF SyncCrash, NoRun
<1>19. CASE Finish(w)
  <2>1. /\ run'[w].pc = "idle" /\ run[w].pc = "finish" /\ UNCHANGED <<row, published, clock>>
        /\ watermark' = IF run[w].max = 0 THEN watermark ELSE run[w].max
    BY <1>3, <1>19 DEF Finish, NoRun, files, upstream
  <2>2. /\ watermark <= run[w].max /\ run[w].max <= clock
        /\ \A i \in DOMAIN published : published[i].at < run[w].max => row[i] # "absent"
    BY <1>4, <2>1 DEF WalkOK
  <2>3. QED
    BY <1>3, <1>5, <2>1, <2>2 DEF WalkOK, NoRecordSkipped
<1>20. QED
  BY <1>7, <1>8, <1>9, <1>12, <1>13, <1>14, <1>15, <1>16, <1>17, <1>18, <1>19
  DEF WorkerStep, Sync

-----------------------------------------------------------------------------
(* The raw store: what a worker's step must bring about for it.              *)
StoredOK(r) ==
  /\ r.pc \in {"route", "mark"} => published[r.pos].file \in store
  /\ r.pc = "mark" => r.outcome \in Statuses

LEMMA StoredStep ==
  ASSUME IInv, NEW w \in Worker, WorkerStep(w)
  PROVE  KnownIsStored' /\ SkippedBytesAreStored'
<1>1. /\ \A v \in Worker \ {w} : run'[v] = run[v] /\ run[v].pc = "idle"
      /\ UNCHANGED <<clock, published, replay>>
  BY AloneInTheWalk
<1>2. /\ run \in [Worker -> Run] /\ row \in [Id -> Statuses \union {"absent", "NULL"}]
      /\ DOMAIN published \subseteq Id
  BY PublishedFacts DEF IInv, SyncTypeOK, Run
<1>3. /\ imported \subseteq store /\ storedPath \subseteq DOMAIN published
      /\ \A i \in storedPath : published[i].file \in store
  BY DEF IInv, KnownIsStored, RowsArePublished
<1>4. ASSUME store \subseteq store', imported' \subseteq store',
             storedPath' \subseteq DOMAIN published,
             \A i \in storedPath' : published[i].file \in store',
             StoredOK(run[w])',
             \A i \in DOMAIN published :
               row'[i] = "SKIPPED_DUPLICATE" =>
                 row[i] = "SKIPPED_DUPLICATE" \/ published[i].file \in store'
      PROVE  KnownIsStored' /\ SkippedBytesAreStored'
  <2>1. SkippedBytesAreStored'
    BY <1>1, <1>4 DEF IInv, SkippedBytesAreStored
  <2>2. \A v \in Worker : StoredOK(run[v])'
    BY <1>1, <1>4 DEF StoredOK
  <2>3. \A p \in Replayer : replay'[p] # NoReplay =>
          /\ replay'[p].at \in DOMAIN published' /\ replay'[p].outcome \in Statuses
          /\ published'[replay'[p].at].file \in store'
    BY <1>1, <1>4 DEF IInv, KnownIsStored
  <2>4. QED
    BY <1>1, <1>4, <2>1, <2>2, <2>3 DEF KnownIsStored, StoredOK
<1>5. ASSUME UNCHANGED <<store, imported, storedPath, row>>,
             NEW r, run' = [run EXCEPT ![w] = r], r.pc \notin {"route", "mark"}
      PROVE  KnownIsStored' /\ SkippedBytesAreStored'
  <2>1. StoredOK(run[w])'
    BY <1>2, <1>5 DEF StoredOK
  <2>2. QED
    BY <1>3, <1>4, <1>5, <2>1
<1>6. run[w].pc \in {"land", "route", "mark"} =>
        run[w].pos \in DOMAIN published /\ run[w].pos \in Id
  BY LandingPos DEF IInv
<1>7. run[w].pos \in DOMAIN published => Counted(w, run[w].pos).pc = "walk"
  BY CountedType DEF IInv
<1>8. CASE TakeLock(w)
  BY <1>5, <1>8 DEF TakeLock, NoRun, files
<1>9. CASE Start(w)
  <2>1. [run[w] EXCEPT !.pc = "walk", !.since = Since(watermark), !.max = watermark].pc = "walk"
    BY <1>2 DEF Run
  <2>2. QED
    BY <1>5, <1>9, <2>1 DEF Start, files
<1>10. CASE InsertRow(w)
  <2>1. PICK i \in Listed(w) :
          IF row[i] = "absent"
          THEN /\ row' = [row EXCEPT ![i] = "NULL"]
               /\ run' = [run EXCEPT ![w].pc = "land", ![w].pos = i]
          ELSE /\ run' = [run EXCEPT ![w] = [Counted(w, i) EXCEPT !.pos = i]]
               /\ UNCHANGED row
    BY <1>10 DEF InsertRow
  <2>2. i \in DOMAIN published /\ i \in Id
    BY <1>2 DEF Listed
  <2>3. Counted(w, i).pc = "walk" /\ Counted(w, i) \in Run
    BY <2>2, CountedType DEF IInv
  <2>4. run'[w].pc \in {"land", "walk"}
    BY <1>2, <2>1, <2>3 DEF Run
  <2>5. \A j \in DOMAIN published :
          row'[j] = "SKIPPED_DUPLICATE" => row[j] = "SKIPPED_DUPLICATE"
    BY <1>2, <2>1, <2>2
  <2>6. UNCHANGED <<store, imported, storedPath>>
    BY <1>10 DEF InsertRow, files
  <2>7. StoredOK(run[w])'
    BY <2>4 DEF StoredOK
  <2>8. QED
    BY <1>3, <1>4, <2>5, <2>6, <2>7
<1>11. CASE LandWithout(w)
  <2>1. UNCHANGED <<store, imported, storedPath>> /\ run'[w].pc = "walk"
    BY <1>2, <1>6, <1>7, <1>11 DEF LandWithout, files
  <2>2. KnownSha(published[run[w].pos].file) => published[run[w].pos].file \in store
    BY <1>3 DEF KnownSha
  <2>3. \A j \in DOMAIN published : row'[j] = "SKIPPED_DUPLICATE" =>
          row[j] = "SKIPPED_DUPLICATE" \/ published[j].file \in store
    BY <1>2, <1>6, <1>11, <2>2 DEF LandWithout
  <2>4. StoredOK(run[w])'
    BY <2>1 DEF StoredOK
  <2>5. QED
    BY <1>3, <1>4, <2>1, <2>3, <2>4
<1>12. CASE Fetch(w)
  <2>1. /\ store' = store \union {published[run[w].pos].file}
        /\ UNCHANGED <<imported, storedPath, row, published>>
        /\ run'[w].pc = "route" /\ run'[w].pos = run[w].pos
    BY <1>2, <1>12 DEF Fetch, Run, upstream
  <2>2. StoredOK(run[w])'
    BY <2>1 DEF StoredOK
  <2>3. QED
    BY <1>3, <1>4, <2>1, <2>2
<1>13. CASE Route(w)
  <2>1. PICK o \in Outcomes(published[run[w].pos].file) :
          /\ run' = [run EXCEPT ![w].pc = "mark", ![w].outcome = o]
          /\ imported' = ImportedAfter(published[run[w].pos].file, o)
    BY <1>13 DEF Route
  <2>2. o \in Statuses /\ run'[w].pc = "mark" /\ run'[w].pos = run[w].pos /\ run'[w].outcome = o
    BY <1>2, <2>1 DEF Outcomes, Statuses, Run
  <2>3. /\ published[run[w].pos].file \in store
        /\ UNCHANGED <<store, storedPath, row, published>>
    BY <1>13 DEF Route, IInv, KnownIsStored, upstream
  <2>4. imported' \subseteq store'
    BY <1>3, <2>1, <2>3 DEF ImportedAfter
  <2>5. StoredOK(run[w])'
    BY <2>2, <2>3 DEF StoredOK
  <2>6. QED
    BY <1>3, <1>4, <2>3, <2>4, <2>5
<1>14. CASE Mark(w)
  <2>1. /\ published[run[w].pos].file \in store
        /\ UNCHANGED <<store, imported>> /\ storedPath' = storedPath \union {run[w].pos}
        /\ row' = [row EXCEPT ![run[w].pos] = run[w].outcome] /\ run'[w].pc = "walk"
    BY <1>2, <1>6, <1>7, <1>14 DEF Mark, IInv, KnownIsStored
  <2>2. run[w].pos \in DOMAIN published
    BY <1>6, <1>14 DEF Mark
  <2>3. \A j \in DOMAIN published : row'[j] = "SKIPPED_DUPLICATE" =>
          row[j] = "SKIPPED_DUPLICATE" \/ published[j].file \in store
    BY <1>2, <2>1
  <2>4. StoredOK(run[w])'
    BY <2>1 DEF StoredOK
  <2>5. QED
    BY <1>3, <1>4, <2>1, <2>2, <2>3, <2>4
<1>15. CASE WalkDone(w) \/ RequestFails(w)
  <2>1. [run[w] EXCEPT !.pc = "finish"].pc = "finish"
    BY <1>2 DEF Run
  <2>2. QED
    BY <1>5, <1>15, <2>1 DEF WalkDone, RequestFails, files
<1>16. CASE BadCursor(w)
  <2>1. [run[w] EXCEPT !.pos = 0, !.restarted = TRUE].pc = "walk"
    BY <1>2, <1>16 DEF Run, BadCursor
  <2>2. QED
    BY <1>5, <1>16, <2>1 DEF BadCursor, files
<1>17. CASE Finish(w) \/ SyncCrash(w)
  BY <1>5, <1>17 DEF Finish, SyncCrash, NoRun, files
<1>18. QED
  BY <1>8, <1>9, <1>10, <1>11, <1>12, <1>13, <1>14, <1>15, <1>16, <1>17
  DEF WorkerStep, Sync

(* A landing ends with a status, or with a fault.                            *)
LEMMA StuckStep ==
  ASSUME IInv, NEW w \in Worker, WorkerStep(w)
  PROVE  StuckRecordNeedsAFault'
<1>1. \A v \in Worker \ {w} : run'[v] = run[v] /\ run[v].pc = "idle"
  BY AloneInTheWalk
<1>2. /\ run \in [Worker -> Run] /\ row \in [Id -> Statuses \union {"absent", "NULL"}]
      /\ DOMAIN published \subseteq Id
  BY PublishedFacts DEF IInv, SyncTypeOK, Run
<1>3. \A i \in Id : row[i] = "NULL" =>
        i \in faulted \/ (run[w].pc \in {"land", "route", "mark"} /\ run[w].pos = i)
  BY <1>1 DEF IInv, StuckRecordNeedsAFault, Landing
<1>4. faulted \subseteq faulted'
  BY DEF WorkerStep, Sync, TakeLock, Start, InsertRow, LandWithout, Fetch, Route, Mark,
         WalkDone, Finish, RequestFails, BadCursor, SyncCrash
<1>5. ASSUME \A i \in Id : row'[i] = "NULL" =>
               i \in faulted' \/ (run'[w].pc \in {"land", "route", "mark"} /\ run'[w].pos = i)
      PROVE  StuckRecordNeedsAFault'
  BY <1>5 DEF StuckRecordNeedsAFault, Landing
<1>6. CASE TakeLock(w) \/ Start(w) \/ WalkDone(w) \/ Finish(w) \/ BadCursor(w)
  <2>1. row' = row /\ run[w].pc \notin {"land", "route", "mark"}
    BY <1>6 DEF TakeLock, Start, WalkDone, Finish, BadCursor
  <2>2. QED
    BY <1>3, <1>4, <1>5, <2>1
<1>7. CASE InsertRow(w)
  <2>1. PICK i \in Listed(w) :
          IF row[i] = "absent"
          THEN /\ row' = [row EXCEPT ![i] = "NULL"]
               /\ run' = [run EXCEPT ![w].pc = "land", ![w].pos = i]
          ELSE /\ run' = [run EXCEPT ![w] = [Counted(w, i) EXCEPT !.pos = i]]
               /\ UNCHANGED row
    BY <1>7 DEF InsertRow
  <2>2. run[w].pc = "walk" /\ i \in Id
    BY <1>2, <1>7 DEF InsertRow, Listed
  <2>3. CASE row[i] = "absent"
    <3>1. run'[w].pc = "land" /\ run'[w].pos = i
      BY <1>2, <2>1, <2>3 DEF Run
    <3>2. QED
      BY <1>2, <1>3, <1>4, <1>5, <2>1, <2>2, <2>3, <3>1
  <2>4. CASE row[i] # "absent"
    BY <1>3, <1>4, <1>5, <2>1, <2>2, <2>4
  <2>5. QED
    BY <2>3, <2>4
<1>8. CASE Fetch(w)
  <2>1. row' = row /\ run'[w].pc = "route" /\ run'[w].pos = run[w].pos /\ run[w].pc = "land"
    BY <1>2, <1>8 DEF Fetch, Run
  <2>2. QED
    BY <1>3, <1>4, <1>5, <2>1
<1>9. CASE Route(w)
  <2>1. PICK o : run' = [run EXCEPT ![w].pc = "mark", ![w].outcome = o]
    BY <1>9 DEF Route
  <2>2. row' = row /\ run'[w].pc = "mark" /\ run'[w].pos = run[w].pos
    BY <1>2, <1>9, <2>1 DEF Route, Run
  <2>3. QED
    BY <1>3, <1>4, <1>5, <2>2
<1>10. CASE LandWithout(w)
  <2>1. \E s \in Statuses : row' = [row EXCEPT ![run[w].pos] = s]
    BY <1>10 DEF LandWithout, Statuses
  <2>2. QED
    BY <1>2, <1>3, <1>4, <1>5, <2>1 DEF Statuses
<1>11. CASE Mark(w)
  <2>1. \E s \in Statuses : row' = [row EXCEPT ![run[w].pos] = s]
    BY <1>11 DEF Mark, IInv, KnownIsStored
  <2>2. QED
    BY <1>2, <1>3, <1>4, <1>5, <2>1 DEF Statuses
<1>12. CASE RequestFails(w) \/ SyncCrash(w)
  <2>1. row' = row /\ (run[w].pc \in {"land", "route", "mark"} => run[w].pos \in faulted')
    BY <1>12 DEF RequestFails, SyncCrash
  <2>2. QED
    BY <1>3, <1>4, <1>5, <2>1
<1>13. QED
  BY <1>6, <1>7, <1>8, <1>9, <1>10, <1>11, <1>12 DEF WorkerStep, Sync

-----------------------------------------------------------------------------
(* The upstream and the replay.                                              *)
LEMMA UpstreamKeeps ==
  ASSUME IInv, UpstreamStep
  PROVE  IInv'
<1>1. /\ SyncTypeOK' /\ RowsArePublished' /\ DOMAIN published \subseteq DOMAIN published'
      /\ \A i \in DOMAIN published : published'[i] = published[i]
      /\ \A i \in DOMAIN published' \ DOMAIN published : published'[i].at = clock
      /\ Len(published) <= Len(published')
  BY UpstreamTypes DEF IInv, UpstreamStep
<1>2. /\ UNCHANGED <<row, storedPath, store, imported, watermark, lock, run, replay, faulted>>
      /\ clock <= clock' /\ clock \in Nat /\ clock' \in Nat /\ watermark \in Nat
  <2>1. clock \in Nat /\ watermark \in Nat
    BY BoundFacts DEF IInv, SyncTypeOK
  <2>2. CASE Tick
    BY <2>1, <2>2 DEF Tick, files
  <2>3. ASSUME NEW file \in Content \union {NoFile}, Publish(file)
        PROVE  /\ UNCHANGED <<row, storedPath, store, imported, watermark, lock, run,
                              replay, faulted>>
               /\ clock' = clock
    BY <2>3 DEF Publish, files
  <2>4. QED
    BY <2>1, <2>2, <2>3 DEF UpstreamStep
<1>3. /\ DOMAIN published = 1..Len(published) /\ DOMAIN published' = 1..Len(published')
      /\ Len(published) \in Nat /\ Len(published') \in Nat
      /\ \A i \in DOMAIN published : published[i].at \in Nat
      /\ DOMAIN published \subseteq Id
  <2>1. published' \in Seq([at : 1..MaxTime, file : Content \union {NoFile}])
    BY <1>1 DEF SyncTypeOK
  <2>2. DOMAIN published' = 1..Len(published') /\ Len(published') \in Nat
    BY <2>1, LenProperties
  <2>3. QED
    BY <2>2, PublishedFacts, BoundFacts DEF IInv
<1>4. ListingInOrder'
  <2>1. \A i \in DOMAIN published' : published'[i].at <= clock /\ published'[i].at \in Nat
    BY <1>1, <1>2, <1>3 DEF IInv, ListingInOrder
  <2>2. ASSUME NEW i \in DOMAIN published', NEW j \in DOMAIN published', i < j
        PROVE  published'[i].at <= published'[j].at
    <3>1. CASE j \in DOMAIN published
      <4>1. i \in DOMAIN published
        BY <1>3, <2>2, <3>1
      <4>2. QED
        BY <1>1, <2>2, <3>1, <4>1 DEF IInv, ListingInOrder
    <3>2. CASE j \notin DOMAIN published
      BY <1>1, <2>1, <3>2
    <3>3. QED
      BY <3>1, <3>2
  <2>3. QED
    BY <1>2, <2>1, <2>2 DEF ListingInOrder
<1>5. OneRunAtATime'
  BY <1>2 DEF IInv, OneRunAtATime
<1>6. WalkIsComplete' /\ NoRecordSkipped'
  <2>1. watermark <= clock
    BY DEF IInv, WalkIsComplete
  <2>2. NoRecordSkipped'
    BY <1>1, <1>2, <2>1 DEF IInv, NoRecordSkipped
  <2>3. ASSUME NEW w \in Worker, run[w].pc \notin {"idle", "start"}
        PROVE  /\ run[w].max <= clock'
               /\ \A i \in DOMAIN published' :
                    i <= run[w].pos \/ published'[i].at < run[w].max => row[i] # "absent"
    <3>1. /\ run[w].max <= clock /\ run[w].max \in Nat /\ run[w].pos \in Nat
          /\ run[w].pos <= Len(published)
      BY <2>3, BoundFacts DEF IInv, WalkIsComplete, SyncTypeOK, RowsArePublished
    <3>2. ASSUME NEW i \in DOMAIN published' \ DOMAIN published
          PROVE  ~(i <= run[w].pos) /\ ~(published'[i].at < run[w].max)
      BY <1>1, <1>2, <1>3, <3>1
    <3>3. QED
      BY <1>1, <1>2, <2>3, <3>1, <3>2 DEF IInv, WalkIsComplete
  <2>4. QED
    BY <1>2, <2>1, <2>2, <2>3 DEF IInv, WalkIsComplete, Since
<1>7. KnownIsStored'
  <2>1. \A w \in Worker : run[w].pc \in {"route", "mark"} => run[w].pos \in DOMAIN published
    BY LandingPos DEF IInv
  <2>2. QED
    BY <1>1, <1>2, <2>1 DEF IInv, KnownIsStored, RowsArePublished
<1>8. SkippedBytesAreStored'
  <2>1. ASSUME NEW i \in DOMAIN published', row[i] = "SKIPPED_DUPLICATE"
        PROVE  i \in DOMAIN published
    <3>1. DOMAIN published' \subseteq Id
      BY <1>1, <1>3, BoundFacts DEF SyncTypeOK, Id
    <3>2. QED
      BY <2>1, <3>1 DEF IInv, RowsArePublished
  <2>2. QED
    BY <1>1, <1>2, <2>1 DEF IInv, SkippedBytesAreStored
<1>9. StuckRecordNeedsAFault'
  BY <1>2 DEF IInv, StuckRecordNeedsAFault, Landing
<1>10. QED
  BY <1>1, <1>4, <1>5, <1>6, <1>7, <1>8, <1>9 DEF IInv

LEMMA ReplayKeeps ==
  ASSUME IInv, NEW p \in Replayer, ReplayStep(p)
  PROVE  IInv'
<1>1. SyncTypeOK' /\ RowsArePublished'
  BY ReplayTypes DEF IInv, ReplayStep
<1>2. UNCHANGED <<clock, published, storedPath, store, watermark, lock, run, faulted>>
  BY DEF ReplayStep, ReplayRoute, ReplayMark, upstream, files
<1>3. /\ row \in [Id -> Statuses \union {"absent", "NULL"}] /\ DOMAIN published \subseteq Id
      /\ replay \in [Replayer -> [at : 0..MaxRecords, outcome : Statuses \union {"NULL"}]]
  BY PublishedFacts DEF IInv, SyncTypeOK
<1>4. \/ row' = row
      \/ \E i \in DOMAIN published, s \in Statuses :
           row' = [row EXCEPT ![i] = s] /\ published[i].file \in store
  BY DEF ReplayStep, ReplayRoute, ReplayMark, IInv, KnownIsStored
<1>5. /\ \A i \in Id : row[i] # "absent" => row'[i] # "absent"
      /\ \A i \in Id : row'[i] = "NULL" => row[i] = "NULL"
      /\ \A i \in DOMAIN published :
           row'[i] = "SKIPPED_DUPLICATE" => row[i] = "SKIPPED_DUPLICATE" \/ published[i].file \in store
  BY <1>3, <1>4 DEF Statuses
<1>6. ListingInOrder' /\ OneRunAtATime'
  BY <1>2 DEF IInv, ListingInOrder, OneRunAtATime
<1>7. WalkIsComplete' /\ NoRecordSkipped'
  BY <1>2, <1>3, <1>5 DEF IInv, WalkIsComplete, NoRecordSkipped, Since
<1>8. SkippedBytesAreStored' /\ StuckRecordNeedsAFault'
  BY <1>2, <1>5 DEF IInv, SkippedBytesAreStored, StuckRecordNeedsAFault, Landing
<1>9. KnownIsStored'
  <2>1. imported' \subseteq store
    BY DEF ReplayStep, ReplayRoute, ReplayMark, ImportedAfter, files, IInv, KnownIsStored
  <2>2. ASSUME NEW q \in Replayer, replay'[q] # NoReplay
        PROVE  /\ replay'[q].at \in DOMAIN published /\ replay'[q].outcome \in Statuses
               /\ published[replay'[q].at].file \in store
    <3>1. CASE q = p
      <4>1. CASE ReplayMark(p)
        BY <1>3, <2>2, <3>1, <4>1 DEF ReplayMark
      <4>2. ASSUME NEW i \in Id, ReplayRoute(p, i)
            PROVE  /\ replay'[q].at \in DOMAIN published /\ replay'[q].outcome \in Statuses
                   /\ published[replay'[q].at].file \in store
        <5>1. PICK o \in Outcomes(published[i].file) :
                replay' = [replay EXCEPT ![p] = [at |-> i, outcome |-> o]]
          BY <4>2 DEF ReplayRoute
        <5>2. replay'[q].at = i /\ replay'[q].outcome = o
          BY <1>3, <3>1, <5>1
        <5>3. o \in Statuses /\ published[i].file \in store
          BY <4>2 DEF Outcomes, Statuses, ReplayRoute
        <5>4. i \in DOMAIN published
          BY <4>2 DEF ReplayRoute, Replayable, IInv, RowsArePublished
        <5>5. QED
          BY <5>2, <5>3, <5>4
      <4>3. QED
        BY <4>1, <4>2 DEF ReplayStep
    <3>2. CASE q # p
      <4>1. replay'[q] = replay[q]
        BY <1>3, <3>2 DEF ReplayStep, ReplayRoute, ReplayMark
      <4>2. QED
        BY <2>2, <4>1 DEF IInv, KnownIsStored
    <3>3. QED
      BY <3>1, <3>2
  <2>3. QED
    BY <1>2, <2>1, <2>2 DEF IInv, KnownIsStored
<1>10. QED
  BY <1>1, <1>6, <1>7, <1>8, <1>9 DEF IInv

-----------------------------------------------------------------------------
LEMMA IInvInit == SyncInit => IInv
<1> SUFFICES ASSUME SyncInit PROVE IInv
  OBVIOUS
<1>2. SyncTypeOK /\ RowsArePublished
  BY InitTypes
<1>3. published = <<>> /\ DOMAIN published = {}
  BY DEF SyncInit
<1>4. \A w \in Worker : run[w].pc = "idle"
  BY DEF SyncInit, NoRun
<1>5. ListingInOrder /\ OneRunAtATime /\ NoRecordSkipped /\ SkippedBytesAreStored
  BY <1>3, <1>4 DEF ListingInOrder, OneRunAtATime, NoRecordSkipped, SkippedBytesAreStored
<1>6. WalkIsComplete
  BY <1>3, <1>4 DEF WalkIsComplete, SyncInit
<1>7. KnownIsStored
  BY <1>4 DEF KnownIsStored, SyncInit
<1>8. StuckRecordNeedsAFault
  BY DEF StuckRecordNeedsAFault, SyncInit
<1>9. QED
  BY <1>2, <1>5, <1>6, <1>7, <1>8 DEF IInv

LEMMA IInvStep == IInv /\ [SyncNext]_syncVars => IInv'
<1>1. SUFFICES ASSUME IInv, [SyncNext]_syncVars PROVE IInv'
  OBVIOUS
<1>2. CASE UNCHANGED syncVars
  BY <1>1, <1>2
  DEF syncVars, IInv, SyncTypeOK, ListingInOrder, RowsArePublished, OneRunAtATime,
      WalkIsComplete, NoRecordSkipped, KnownIsStored, SkippedBytesAreStored,
      StuckRecordNeedsAFault, Landing, Since
<1>3. ASSUME NEW w \in Worker, WorkerStep(w), SyncNext PROVE IInv'
  <2>1. SyncTypeOK' /\ RowsArePublished'
    BY <1>1, <1>3, StepTypes
  <2>2. /\ \A v \in Worker \ {w} : run'[v] = run[v] /\ run[v].pc = "idle"
        /\ OneRunAtATime' /\ UNCHANGED <<clock, published>>
    BY <1>1, <1>3, AloneInTheWalk
  <2>3. ListingInOrder'
    BY <1>1, <2>2 DEF IInv, ListingInOrder
  <2>4. /\ WalkOK(run[w], watermark)' /\ watermark' <= clock /\ NoRecordSkipped'
    BY <1>1, <1>3, WalkStep
  <2>5. WalkIsComplete'
    BY <2>2, <2>4 DEF WalkIsComplete, WalkOK
  <2>6. KnownIsStored' /\ SkippedBytesAreStored' /\ StuckRecordNeedsAFault'
    BY <1>1, <1>3, StoredStep, StuckStep
  <2>7. QED
    BY <2>1, <2>2, <2>3, <2>4, <2>5, <2>6 DEF IInv
<1>4. QED
  BY <1>1, <1>2, <1>3, NextSplit, UpstreamKeeps, ReplayKeeps

LEMMA IInvAlways == SyncSpec => []IInv
  BY IInvInit, IInvStep, PTL DEF SyncSpec

(* Every reachable state of the synchronisation is well typed.               *)
THEOREM SyncTypeCorrect == SyncSpec => []SyncTypeOK
<1>1. IInv => SyncTypeOK
  BY DEF IInv
<1>2. QED
  BY <1>1, IInvAlways, PTL

(* No record from before the watermark is ever without a row: the rewind of  *)
(* one second, the order of the listing and the lock are enough, whatever    *)
(* fails and for any number of overlapping sync_group calls.                 *)
THEOREM NothingSkipped == SyncSpec => []NoRecordSkipped
<1>1. IInv => NoRecordSkipped
  BY DEF IInv
<1>2. QED
  BY <1>1, IInvAlways, PTL

(* A record that has a row and no status is being landed, or a fault cut its *)
(* landing off.                                                              *)
THEOREM StuckNeedsAFault == SyncSpec => []StuckRecordNeedsAFault
<1>1. IInv => StuckRecordNeedsAFault
  BY DEF IInv
<1>2. QED
  BY <1>1, IInvAlways, PTL

(* Bytes skipped as a duplicate are in the raw store.                        *)
THEOREM SkippedIsStored == SyncSpec => []SkippedBytesAreStored
<1>1. IInv => SkippedBytesAreStored
  BY DEF IInv
<1>2. QED
  BY <1>1, IInvAlways, PTL

(* The stored watermark never moves back, in no overlap of sync_group calls. *)
THEOREM WatermarkMonotone == SyncSpec => WatermarkNeverMovesBack
<1>1. IInv /\ [SyncNext]_syncVars => [watermark' >= watermark]_syncVars
  <2>1. SUFFICES ASSUME IInv, SyncNext PROVE watermark' >= watermark
    OBVIOUS
  <2>2. watermark \in Nat
    BY <2>1, BoundFacts DEF IInv, SyncTypeOK
  <2>3. CASE UpstreamStep
    <3>1. watermark' = watermark
      BY <2>3 DEF UpstreamStep, Tick, Publish
    <3>2. QED
      BY <2>2, <3>1
  <2>4. ASSUME NEW p \in Replayer, ReplayStep(p) PROVE watermark' >= watermark
    BY <2>2, <2>4 DEF ReplayStep, ReplayRoute, ReplayMark
  <2>5. ASSUME NEW w \in Worker, WorkerStep(w) PROVE watermark' >= watermark
    BY <2>1, <2>5, WalkStep
  <2>6. QED
    BY <2>1, <2>3, <2>4, <2>5, NextSplit
<1>2. QED
  BY <1>1, IInvAlways, PTL DEF SyncSpec, WatermarkNeverMovesBack

-----------------------------------------------------------------------------
(* With one replay at a time, the rows that a worker or the replay is about  *)
(* to mark are open, and so no mark ever covers a final status.              *)
MarksAreDue ==
  /\ \A w \in Worker : run[w].pc \in {"land", "route", "mark"} => row[run[w].pos] = "NULL"
  /\ \A p \in Replayer : replay[p] # NoReplay => row[replay[p].at] = "OPEN"

DoneKept ==
  \A i \in Id : row[i] \in {"SUCCESS", "SKIPPED_DUPLICATE"} => row'[i] = row[i]

LEMMA MarksWorker ==
  ASSUME IInv, MarksAreDue, NEW w \in Worker, WorkerStep(w)
  PROVE  MarksAreDue' /\ DoneKept
<1>1. /\ \A v \in Worker \ {w} : run'[v] = run[v] /\ run[v].pc = "idle"
      /\ UNCHANGED <<published, replay>>
  BY AloneInTheWalk
<1>2. /\ run \in [Worker -> Run] /\ row \in [Id -> Statuses \union {"absent", "NULL"}]
      /\ DOMAIN published \subseteq Id
      /\ \A p \in Replayer : replay[p] # NoReplay => replay[p].at \in Id
  BY PublishedFacts DEF IInv, SyncTypeOK, Run, KnownIsStored
<1>3. run[w].pc \in {"land", "route", "mark"} => run[w].pos \in DOMAIN published
  BY LandingPos DEF IInv
<1>4. ASSUME row' = row, run'[w].pc \in {"land", "route", "mark"} =>
               run[w].pc \in {"land", "route", "mark"} /\ run'[w].pos = run[w].pos
      PROVE  MarksAreDue' /\ DoneKept
  BY <1>1, <1>4 DEF MarksAreDue, DoneKept
<1>5. ASSUME NEW i \in Id, NEW s \in Statuses \union {"NULL"}, row' = [row EXCEPT ![i] = s],
             row[i] \in {"NULL", "absent"},
             run'[w].pc \in {"land", "route", "mark"} => run'[w].pos = i /\ s = "NULL"
      PROVE  MarksAreDue' /\ DoneKept
  <2>1. \A j \in Id : row'[j] = IF j = i THEN s ELSE row[j]
    BY <1>2, <1>5
  <2>2. QED
    BY <1>1, <1>2, <1>5, <2>1 DEF MarksAreDue, DoneKept
<1>6. CASE InsertRow(w)
  <2>1. PICK i \in Listed(w) :
          IF row[i] = "absent"
          THEN /\ row' = [row EXCEPT ![i] = "NULL"]
               /\ run' = [run EXCEPT ![w].pc = "land", ![w].pos = i]
          ELSE /\ run' = [run EXCEPT ![w] = [Counted(w, i) EXCEPT !.pos = i]]
               /\ UNCHANGED row
    BY <1>6 DEF InsertRow
  <2>2. i \in DOMAIN published /\ i \in Id
    BY <1>2 DEF Listed
  <2>3. CASE row[i] = "absent"
    <3>1. run'[w].pos = i
      BY <1>2, <2>1, <2>3 DEF Run
    <3>2. QED
      BY <1>5, <2>1, <2>2, <2>3, <3>1
  <2>4. CASE row[i] # "absent"
    <3>1. Counted(w, i) \in Run /\ Counted(w, i).pc = "walk"
      BY <2>2, CountedType DEF IInv
    <3>2. run'[w].pc = "walk"
      BY <1>2, <2>1, <2>4, <3>1 DEF Run
    <3>3. QED
      BY <1>4, <2>1, <2>4, <3>2
  <2>5. QED
    BY <2>3, <2>4
<1>7. CASE LandWithout(w) \/ Mark(w)
  <2>1. \E s \in Statuses : row' = [row EXCEPT ![run[w].pos] = s]
    BY <1>7 DEF LandWithout, Mark, IInv, KnownIsStored, Statuses
  <2>2. run[w].pos \in Id /\ row[run[w].pos] = "NULL"
    BY <1>2, <1>3, <1>7 DEF LandWithout, Mark, MarksAreDue
  <2>3. run'[w].pc = "walk"
    <3>1. run' = [run EXCEPT ![w] = Counted(w, run[w].pos)] /\ run[w].pos \in DOMAIN published
      BY <1>3, <1>7 DEF LandWithout, Mark
    <3>2. QED
      BY <1>2, <3>1, CountedType DEF IInv
  <2>4. QED
    BY <1>5, <2>1, <2>2, <2>3
<1>8. CASE Fetch(w)
  BY <1>2, <1>4, <1>8 DEF Fetch, Run
<1>9. CASE Route(w)
  <2>1. PICK o : run' = [run EXCEPT ![w].pc = "mark", ![w].outcome = o]
    BY <1>9 DEF Route
  <2>2. row' = row /\ run'[w].pos = run[w].pos /\ run[w].pc = "route"
    BY <1>2, <1>9, <2>1 DEF Route, Run
  <2>3. QED
    BY <1>4, <2>2
<1>10. CASE TakeLock(w) \/ Start(w) \/ WalkDone(w) \/ Finish(w) \/ RequestFails(w)
            \/ BadCursor(w) \/ SyncCrash(w)
  <2>1. run'[w].pc \notin {"land", "route", "mark"}
    BY <1>2, <1>10
    DEF TakeLock, Start, WalkDone, Finish, RequestFails, BadCursor, SyncCrash, NoRun, Run
  <2>2. row' = row
    BY <1>10 DEF TakeLock, Start, WalkDone, Finish, RequestFails, BadCursor, SyncCrash
  <2>3. QED
    BY <1>4, <2>1, <2>2
<1>11. QED
  BY <1>6, <1>7, <1>8, <1>9, <1>10 DEF WorkerStep, Sync

LEMMA MarksReplay ==
  ASSUME \A p, q \in Replayer : p = q, IInv, MarksAreDue,
         NEW p \in Replayer, ReplayStep(p)
  PROVE  MarksAreDue' /\ DoneKept
<1>1. UNCHANGED run
  BY DEF ReplayStep, ReplayRoute, ReplayMark
<1>2. /\ row \in [Id -> Statuses \union {"absent", "NULL"}] /\ DOMAIN published \subseteq Id
      /\ replay \in [Replayer -> [at : 0..MaxRecords, outcome : Statuses \union {"NULL"}]]
  BY PublishedFacts DEF IInv, SyncTypeOK
<1>3. CASE ReplayMark(p)
  <2>1. /\ replay[p].at \in Id /\ row[replay[p].at] = "OPEN"
        /\ row' = [row EXCEPT ![replay[p].at] = replay[p].outcome]
    BY <1>2, <1>3 DEF ReplayMark, IInv, KnownIsStored, MarksAreDue
  <2>2. replay'[p] = NoReplay
    BY <1>2, <1>3 DEF ReplayMark
  <2>3. QED
    BY <1>1, <1>2, <2>1, <2>2 DEF MarksAreDue, DoneKept
<1>4. ASSUME NEW i \in Id, ReplayRoute(p, i) PROVE MarksAreDue' /\ DoneKept
  <2>1. row' = row /\ row[i] = "OPEN"
    BY <1>4 DEF ReplayRoute, Replayable
  <2>2. PICK o : replay' = [replay EXCEPT ![p] = [at |-> i, outcome |-> o]]
    BY <1>4 DEF ReplayRoute
  <2>3. replay'[p].at = i
    BY <1>2, <2>2
  <2>4. QED
    BY <1>1, <2>1, <2>3 DEF MarksAreDue, DoneKept
<1>5. QED
  BY <1>3, <1>4 DEF ReplayStep

(* What has been brought home stays so, through every retry and every        *)
(* overlap, as long as no two replays run together.                          *)
THEOREM DoneStays ==
  ASSUME \A p, q \in Replayer : p = q
  PROVE  SyncSpec => DoneStaysDone
<1>1. SyncInit => MarksAreDue
  BY DEF SyncInit, MarksAreDue, NoRun
<1>2. IInv /\ MarksAreDue /\ [SyncNext]_syncVars => MarksAreDue' /\ [DoneKept]_syncVars
  <2>1. SUFFICES ASSUME IInv, MarksAreDue, [SyncNext]_syncVars
                 PROVE  MarksAreDue' /\ [DoneKept]_syncVars
    OBVIOUS
  <2>2. CASE UNCHANGED syncVars
    BY <2>1, <2>2 DEF syncVars, MarksAreDue
  <2>3. CASE UpstreamStep
    <3>1. UNCHANGED <<row, run, replay>>
      BY <2>3 DEF UpstreamStep, Tick, Publish
    <3>2. QED
      BY <2>1, <3>1 DEF MarksAreDue, DoneKept
  <2>4. ASSUME NEW w \in Worker, WorkerStep(w) PROVE MarksAreDue' /\ DoneKept
    BY <2>1, <2>4, MarksWorker
  <2>5. ASSUME NEW p \in Replayer, ReplayStep(p) PROVE MarksAreDue' /\ DoneKept
    BY <2>1, <2>5, MarksReplay
  <2>6. QED
    BY <2>1, <2>2, <2>3, <2>4, <2>5, NextSplit
<1>3. QED
  BY <1>1, <1>2, IInvAlways, PTL DEF SyncSpec, DoneStaysDone, DoneKept
=============================================================================
