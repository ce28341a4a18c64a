---------------------------- MODULE RdsMigration ----------------------------
(***************************************************************************)
(* The copy of the database to RDS (tools/migrate_to_rds/migrate.py): one  *)
(* run after another over the tables of the plan, each run complete or cut *)
(* short anywhere, while the source is written to until the freeze.  A     *)
(* keyed table is upserted; a hypertable has no key and is appended from   *)
(* the target's latest time.  Column types, indexes and dry runs are left  *)
(* out.                                                                    *)
(***************************************************************************)
EXTENDS Naturals, Sequences, FiniteSets

CONSTANTS
  Plan,        \* the tables in load order
  Hyper,       \* those that are hypertables
  Tuple,       \* the rows a database may hold
  TableOf,
  Place,       \* where ORDER BY puts a row: its time in a hypertable, else its key
  Value, Fresh,   \* the contents of a row, and those it comes with
  Absent,
  BatchSize

Table == {Plan[i] : i \in DOMAIN Plan}
KeyedRow == {r \in Tuple : TableOf[r] \notin Hyper}
HyperRow == {r \in Tuple : TableOf[r] \in Hyper}

ASSUME PlanAssumption ==
  /\ Plan # <<>> /\ Plan \in Seq(Table)
  /\ \A i, j \in DOMAIN Plan : Plan[i] = Plan[j] => i = j
ASSUME RowAssumption ==
  /\ IsFiniteSet(Tuple)
  /\ TableOf \in [Tuple -> Table] /\ Place \in [Tuple -> Nat \ {0}]
ASSUME ValueAssumption == Fresh \in Value /\ Absent \notin Value

VARIABLES
  source,      \* what the source holds of each row
  target,      \* the copies of each row on the target
  complete,    \* the state file: the tables it calls complete
  sequence,    \* the last key the target's sequences have given out
  job,         \* the run
  verdict,     \* what the last run has printed
  quiet,       \* history: the source is as it was when the run began
  late         \* history: rows of a hypertable that came after younger ones

rdsVars == <<source, target, complete, sequence, job, verdict, quiet, late>>

Stopped(resume) == [pc |-> "idle", at |-> 1, resume |-> resume, already |-> FALSE,
                    from |-> 0, todo |-> {}]

RdsInit ==
  /\ source = [r \in Tuple |-> Absent] /\ target = [r \in Tuple |-> <<>>]
  /\ complete = {} /\ sequence = [t \in Table |-> 0]
  /\ job = Stopped(FALSE) /\ verdict = "none"
  /\ quiet = FALSE /\ late = {}

-----------------------------------------------------------------------------
(* The source is in use: rows come, and those of a keyed table change and go. *)
Held(t) == {r \in Tuple : TableOf[r] = t /\ source[r] # Absent}
Copied(t) == {r \in Tuple : TableOf[r] = t /\ target[r] # <<>>}

SourceInsert(r) ==
  /\ source[r] = Absent
  /\ source' = [source EXCEPT ![r] = Fresh]
  /\ late' = IF r \in HyperRow /\ \E q \in Held(TableOf[r]) : Place[q] > Place[r]
               THEN late \union {r} ELSE late
  /\ quiet' = FALSE
  /\ UNCHANGED <<target, complete, sequence, job, verdict>>

SourceChange(r, v) ==
  /\ r \in KeyedRow /\ source[r] \notin {Absent, v}
  /\ source' = [source EXCEPT ![r] = v]
  /\ quiet' = FALSE
  /\ UNCHANGED <<target, complete, sequence, job, verdict, late>>

-----------------------------------------------------------------------------
(* A run *)

This == Plan[job.at]

\* A table the state file calls complete is only verified by a resumed run.
Entering(i, resume) ==
  IF resume /\ Plan[i] \in complete
    THEN [Stopped(resume) EXCEPT !.pc = "verify", !.at = i, !.already = TRUE]
    ELSE [Stopped(resume) EXCEPT !.pc = "reconcile", !.at = i]

BeginRun(resume) ==
  /\ job.pc = "idle"
  /\ job' = Entering(1, resume)
  /\ verdict' = "none" /\ quiet' = TRUE
  /\ UNCHANGED <<source, target, complete, sequence, late>>

Places == {0} \union {Place[r] : r \in Tuple}

\* max(col), or 0 for an empty table.
IsWatermark(t, p) ==
  IF Copied(t) = {} THEN p = 0
  ELSE /\ \E r \in Copied(t) : Place[r] = p
       /\ \A r \in Copied(t) : Place[r] <= p

\* "Rows exactly at the boundary ts may have been only partially committed".
Boundary(t, p) == {r \in Copied(t) : Place[r] = p}

\* What the target has at its latest time is deleted, and committed.
Reconcile ==
  /\ job.pc = "reconcile"
  /\ \E p \in Places :
       /\ IF This \in Hyper THEN IsWatermark(This, p) ELSE p = 0
       /\ target' = [r \in Tuple |-> IF This \in Hyper /\ r \in Boundary(This, p)
                                     THEN <<>> ELSE target[r]]
       /\ job' = [job EXCEPT !.pc = "read", !.from = p]
  /\ UNCHANGED <<source, complete, sequence, verdict, quiet, late>>

ReadFrom(p) == {r \in Held(This) : Place[r] >= p}

\* The named cursor: the rows it will give are those of this moment.
OpenCursor ==
  /\ job.pc = "read"
  /\ job' = [job EXCEPT !.pc = "write", !.from = 0,
                        !.todo = {<<r, source[r]>> : r \in ReadFrom(job.from)}]
  /\ UNCHANGED <<source, target, complete, sequence, verdict, quiet, late>>

\* Faulty variant: rows come in no order.
InTableOrderAny(batch) == TRUE

InTableOrder(batch) == \A b \in batch, d \in job.todo \ batch : Place[b[1]] <= Place[d[1]]

IsBatch(batch) ==
  /\ batch # {} /\ InTableOrder(batch)
  /\ \/ Cardinality(batch) = BatchSize
     \/ Cardinality(batch) < BatchSize /\ batch = job.todo

\* ON CONFLICT (pk) DO UPDATE, or a plain append.
Inserted(r, v) == IF r \in KeyedRow THEN <<v>> ELSE Append(target[r], v)

WithBatch(batch) ==
  [r \in Tuple |-> IF \E v \in Value : <<r, v>> \in batch
                   THEN Inserted(r, CHOOSE v \in Value : <<r, v>> \in batch)
                   ELSE target[r]]

\* A batch is committed and the state file says in_progress.
WriteBatch ==
  /\ job.pc = "write"
  /\ \E batch \in SUBSET job.todo :
       /\ IsBatch(batch)
       /\ target' = WithBatch(batch)
       /\ job' = [job EXCEPT !.todo = @ \ batch]
  /\ complete' = complete \ {This}
  /\ UNCHANGED <<source, sequence, verdict, quiet, late>>

FinishTable ==
  /\ job.pc = "write" /\ job.todo = {}
  /\ complete' = complete \union {This}
  /\ job' = [job EXCEPT !.pc = "verify"]
  /\ UNCHANGED <<source, target, sequence, verdict, quiet, late>>

\* Every copy counts, as COUNT(*) does.
CopiesOf(t) == UNION {{r} \X DOMAIN target[r] : r \in Copied(t)}

\* Faulty variant: at least as many rows as the source is good enough.
EnoughCounted(t) == Cardinality(CopiesOf(t)) >= Cardinality(Held(t))

CountsMatch(t) == Cardinality(CopiesOf(t)) = Cardinality(Held(t))

\* "A resumed table that fails verification is re-copied once."
Recopied == job.already

Verify ==
  /\ job.pc = "verify"
  /\ \/ /\ CountsMatch(This)
        /\ job' = [job EXCEPT !.pc = "align"] /\ UNCHANGED verdict
     \/ /\ ~CountsMatch(This) /\ Recopied
        /\ job' = [job EXCEPT !.pc = "reconcile", !.already = FALSE] /\ UNCHANGED verdict
     \/ /\ ~CountsMatch(This) /\ ~Recopied
        /\ job' = Stopped(job.resume) /\ verdict' = "FAILED"
  /\ UNCHANGED <<source, target, complete, sequence, quiet, late>>

\* Faulty variant: a table that was only verified keeps its sequence.
AlignedIfCopied(p) == [sequence EXCEPT ![This] = IF job.already THEN @ ELSE p]

\* setval to max(col); an empty table leaves the first key to be given.
Aligned(p) == [sequence EXCEPT ![This] = p]

\* The next table, the verdict after the last one, or an interrupt, which is
\* looked at between tables only.
EndTable ==
  /\ job.pc = "align"
  /\ \E p \in Places : IsWatermark(This, p) /\ sequence' = Aligned(p)
  /\ \/ /\ job.at < Len(Plan)
        /\ job' = Entering(job.at + 1, job.resume) /\ UNCHANGED verdict
     \/ /\ job.at = Len(Plan)
        /\ job' = Stopped(job.resume) /\ verdict' = "SUCCESS"
     \/ job' = Stopped(job.resume) /\ UNCHANGED verdict
  /\ UNCHANGED <<source, target, complete, quiet, late>>

-----------------------------------------------------------------------------
\* The run is killed, or a statement fails: no retry helps, since the failed
\* transaction or the closed connection is used again.  What such a run prints
\* is left out.
RunDies ==
  /\ job.pc # "idle"
  /\ job' = Stopped(job.resume)
  /\ UNCHANGED <<source, target, complete, sequence, verdict, quiet, late>>

\* The batch was committed, but the state file was not written.
RunDiesCommitted ==
  /\ job.pc = "write"
  /\ \E batch \in SUBSET job.todo : IsBatch(batch) /\ target' = WithBatch(batch)
  /\ job' = Stopped(job.resume)
  /\ UNCHANGED <<source, complete, sequence, verdict, quiet, late>>

RdsNext ==
  \/ \E r \in Tuple : SourceInsert(r)
  \/ \E r \in Tuple, v \in Value \union {Absent} : SourceChange(r, v)
  \/ \E resume \in BOOLEAN : BeginRun(resume)
  \/ Reconcile \/ OpenCursor \/ WriteBatch \/ FinishTable \/ Verify \/ EndTable
  \/ RunDies \/ RunDiesCommitted

RdsSpec == RdsInit /\ [][RdsNext]_rdsVars

-----------------------------------------------------------------------------
RdsTypeOK ==
  /\ source \in [Tuple -> Value \union {Absent}]
  /\ target \in [Tuple -> Seq(Value)]
  /\ complete \subseteq Table /\ sequence \in [Table -> Nat]
  /\ job \in [pc : {"idle", "reconcile", "read", "write", "verify", "align"},
              at : DOMAIN Plan, resume : BOOLEAN, already : BOOLEAN,
              from : Nat, todo : SUBSET (Tuple \X Value)]
  /\ verdict \in {"none", "SUCCESS", "FAILED"}
  /\ quiet \in BOOLEAN /\ late \subseteq HyperRow

\* "re-running never duplicates rows", wherever a run was cut short.
NoRowTwice == \A r \in Tuple : Len(target[r]) <= 1

\* "the target always holds a contiguous prefix": no row of a hypertable is
\* missing below one that is there, unless it came to the source out of order.
PrefixIsWhole ==
  \A q \in HyperRow : target[q] # <<>> =>
    \A r \in Held(TableOf[q]) \ late : Place[r] < Place[q] => target[r] # <<>>

\* Runs that are cut short and repeated leave a prefix of the source, once.
TargetIsAPrefix == NoRowTwice /\ PrefixIsWhole

AsSource(r) == IF source[r] = Absent THEN <<>> ELSE <<source[r]>>

\* MIGRATION SUCCESS on a frozen source: every row is there as it is now, though
\* only counts are compared; in a resumed run this is true of hypertables.
SuccessMeansCopied ==
  verdict = "SUCCESS" /\ quiet =>
    \A r \in Tuple : r \in HyperRow \/ ~job.resume => target[r] = AsSource(r)

\* Whatever earlier runs left behind, a run on a frozen source fails only over
\* a row that came out of order or that the source no longer has.
FailureIsExplained ==
  verdict = "FAILED" /\ quiet =>
    \/ \E r \in late : target[r] = <<>>
    \/ \E r \in KeyedRow : source[r] = Absent /\ target[r] # <<>>

\* The word a run on a frozen source ends with is true.
VerdictIsTrue == SuccessMeansCopied /\ FailureIsExplained

\* "post-migration inserts don't collide with migrated IDs", also when the run
\* that copied the table died before it came to the sequences.
MigratedKeysAreReserved ==
  verdict = "SUCCESS" =>
    \A r \in KeyedRow : target[r] # <<>> => Place[r] <= sequence[TableOf[r]]

\* "run migrate --resume to sweep the final rows (idempotent)": after it the
\* target has what the frozen source has.
SweepBringsEverything ==
  verdict = "SUCCESS" /\ quiet => \A r \in Tuple : target[r] = AsSource(r)
=============================================================================
