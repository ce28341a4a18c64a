-------------------------- MODULE Records_proofs ---------------------------
(***************************************************************************)
(* Proofs about two components that turn records into rows.  RdsMigration, *)
(* for every plan, every set of rows and values, every batch size, and     *)
(* runs cut short anywhere any number of times: what is on the target is   *)
(* never doubled, a hypertable is a prefix of the source, and what SUCCESS *)
(* and FAILED mean on a frozen source.  Correlator, for every set of       *)
(* plates and tags, every window and any number of reads: the greedy pass  *)
(* is a matching, no pair is confirmed twice, and no partners wait.        *)
(***************************************************************************)
EXTENDS RdsMigration, Correlator, FiniteSetTheorems, TLAPS

JobRow ==
  [pc : {"idle", "reconcile", "read", "write", "verify", "align"},
   at : DOMAIN Plan, resume : BOOLEAN, already : BOOLEAN,
   from : Nat, todo : SUBSET (Tuple \X Value)]

(* What the cursor still has to give.                                        *)
TodoFits ==
  /\ job.todo # {} => job.pc = "write"
  /\ \A b \in job.todo :
       /\ TableOf[b[1]] = This
       /\ b[1] \in HyperRow => source[b[1]] = b[2] /\ target[b[1]] = <<>>

(* A row of a hypertable never changes, so its copy is the row.              *)
HyperFits == \A r \in HyperRow : target[r] # <<>> => target[r] = <<source[r]>>

(* The watermark a run has found: all below it is there, and it is a row.    *)
ReadFits ==
  job.pc = "read" =>
    /\ This \notin Hyper => job.from = 0
    /\ This \in Hyper =>
         /\ \A r \in Copied(This) : Place[r] < job.from
         /\ \A r \in Held(This) \ late : Place[r] < job.from => target[r] # <<>>
         /\ job.from > 0 => \E q \in Held(This) : Place[q] = job.from

Opened(q) == \E b \in job.todo : b[1] = q

(* What the cursor does not give came after everything it gives.             *)
WriteFits ==
  job.pc = "write" /\ This \in Hyper =>
    /\ \A q \in Copied(This), b \in job.todo : Place[q] <= Place[b[1]]
    /\ \A r \in Held(This) \ late : target[r] = <<>> /\ ~Opened(r) =>
         \A q \in Tuple : TableOf[q] = This /\ (target[q] # <<>> \/ Opened(q)) =>
           Place[q] <= Place[r]

RunFits ==
  /\ job.pc # "idle" => verdict = "none"
  /\ job.already => job.resume

Reserved(r) == r \in KeyedRow /\ target[r] # <<>> => Place[r] <= sequence[TableOf[r]]

Past(r) == \E i \in DOMAIN Plan : i < job.at /\ TableOf[r] = Plan[i]

KeysFit ==
  /\ job.pc # "idle" => \A r \in Tuple : Past(r) => Reserved(r)
  /\ verdict = "SUCCESS" => \A r \in Tuple : Reserved(r)

Settled(r) == r \in HyperRow \/ ~job.resume => target[r] = AsSource(r)

(* What a run has achieved while nobody wrote to the source.                 *)
QuietFits ==
  quiet =>
    /\ job.pc = "write" => /\ \A b \in job.todo : source[b[1]] = b[2]
                           /\ \A r \in Held(This) \ late :
                                \/ <<r, source[r]>> \in job.todo
                                \/ target[r] = <<source[r]>>
    /\ job.pc = "verify" /\ ~job.already =>
         \A r \in Held(This) \ late : target[r] = <<source[r]>>
    /\ job.pc = "align" => \A r \in Tuple : TableOf[r] = This => Settled(r)
    /\ job.pc # "idle" => \A r \in Tuple : Past(r) => Settled(r)
    /\ verdict = "SUCCESS" => \A r \in Tuple : Settled(r)
    /\ verdict = "FAILED" => \/ \E r \in late : target[r] = <<>>
                             \/ \E r \in KeyedRow : source[r] = Absent /\ target[r] # <<>>

RdsInv ==
  /\ RdsTypeOK /\ TodoFits /\ HyperFits /\ NoRowTwice /\ PrefixIsWhole
  /\ ReadFits /\ WriteFits /\ RunFits /\ KeysFit /\ QuietFits

LEMMA JobFields ==
  ASSUME NEW j \in JobRow
  PROVE  /\ j.pc \in {"idle", "reconcile", "read", "write", "verify", "align"}
         /\ j.at \in DOMAIN Plan /\ j.resume \in BOOLEAN /\ j.already \in BOOLEAN
         /\ j.from \in Nat /\ j.todo \in SUBSET (Tuple \X Value)
BY DEF JobRow

LEMMA TypeForm == RdsTypeOK =>
  /\ source \in [Tuple -> Value \union {Absent}] /\ target \in [Tuple -> Seq(Value)]
  /\ complete \subseteq Table /\ sequence \in [Table -> Nat] /\ job \in JobRow
  /\ verdict \in {"none", "SUCCESS", "FAILED"} /\ quiet \in BOOLEAN
  /\ late \subseteq HyperRow
BY DEF RdsTypeOK, JobRow

LEMMA Rows ==
  ASSUME NEW r \in Tuple
  PROVE  TableOf[r] \in Table /\ Place[r] \in Nat /\ Place[r] > 0
BY RowAssumption

LEMMA PlanIsFirst == 1 \in DOMAIN Plan /\ Plan[1] \in Table /\ DOMAIN Plan \subseteq Nat
BY PlanAssumption DEF Table

LEMMA StoppedShape ==
  ASSUME NEW resume \in BOOLEAN
  PROVE  /\ Stopped(resume) \in JobRow /\ Stopped(resume).pc = "idle"
         /\ Stopped(resume).todo = {} /\ Stopped(resume).resume = resume
         /\ ~Stopped(resume).already /\ Stopped(resume).from = 0
BY PlanIsFirst DEF Stopped, JobRow

LEMMA EnteringShape ==
  ASSUME NEW i \in DOMAIN Plan, NEW resume \in BOOLEAN
  PROVE  LET j == Entering(i, resume)
         IN /\ j \in JobRow /\ j.pc \in {"verify", "reconcile"} /\ j.at = i
            /\ j.todo = {} /\ j.resume = resume
            /\ j.already => j.resume
<1> DEFINE j == Entering(i, resume)
<1>1. CASE resume /\ Plan[i] \in complete
  <2>1. j = [pc |-> "verify", at |-> i, resume |-> resume,
             already |-> TRUE, from |-> 0, todo |-> {}]
    BY <1>1 DEF Entering, Stopped
  <2>2. j \in JobRow
    BY <2>1 DEF JobRow
  <2>3. /\ j.pc = "verify" /\ j.at = i /\ j.todo = {} /\ j.resume = resume
    BY <2>1
  <2>4. j.already => j.resume
    BY <1>1, <2>3
  <2>5. QED
    BY <2>2, <2>3, <2>4
<1>2. CASE ~(resume /\ Plan[i] \in complete)
  <2>1. j = [pc |-> "reconcile", at |-> i, resume |-> resume,
             already |-> FALSE, from |-> 0, todo |-> {}]
    BY <1>2 DEF Entering, Stopped
  <2>2. j \in JobRow
    BY <2>1 DEF JobRow
  <2>3. QED
    BY <2>1, <2>2
<1>3. QED
  BY <1>1, <1>2

LEMMA CopiesAreHeld ==
  ASSUME RdsTypeOK, HyperFits, NEW r \in HyperRow, target[r] # <<>>
  PROVE  source[r] \in Value /\ source[r] # Absent
<1>1. target[r] \in Seq(Value) /\ target[r] = <<source[r]>>
  BY TypeForm DEF HyperFits, HyperRow
<1>2. Len(target[r]) = 1 /\ target[r][1] = source[r]
  BY <1>1
<1>3. QED
  BY <1>1, <1>2, ValueAssumption

LEMMA TodoPairs ==
  ASSUME RdsTypeOK, NEW b \in job.todo
  PROVE  b[1] \in Tuple /\ b[2] \in Value /\ b = <<b[1], b[2]>>
BY TypeForm, JobFields

(* A copy that has not begun: the state file and the target are empty.       *)
THEOREM RdsInit_Inv == RdsInit => RdsInv
<1> SUFFICES ASSUME RdsInit PROVE RdsInv
  OBVIOUS
<1> USE DEF RdsInit
<1>1. job \in JobRow /\ job.pc = "idle" /\ job.todo = {} /\ ~job.already
  BY StoppedShape
<1>2. RdsTypeOK
  <2>1. /\ source \in [Tuple -> Value \union {Absent}] /\ target \in [Tuple -> Seq(Value)]
        /\ sequence \in [Table -> Nat]
    OBVIOUS
  <2>2. complete \subseteq Table /\ late \subseteq HyperRow /\ quiet \in BOOLEAN
    OBVIOUS
  <2>3. QED
    BY <1>1, <2>1, <2>2 DEF RdsTypeOK, JobRow
<1>3. /\ TodoFits /\ ReadFits /\ WriteFits /\ RunFits
      /\ HyperFits /\ KeysFit /\ QuietFits
  <2>1. TodoFits
    BY <1>1 DEF TodoFits
  <2>2. ReadFits /\ WriteFits /\ RunFits /\ QuietFits
    BY <1>1 DEF ReadFits, WriteFits, RunFits, QuietFits
  <2>3. HyperFits
    BY DEF HyperFits, HyperRow
  <2>4. KeysFit
    BY <1>1 DEF KeysFit
  <2>5. QED
    BY <2>1, <2>2, <2>3, <2>4
<1>4. NoRowTwice /\ PrefixIsWhole
  BY DEF NoRowTwice, PrefixIsWhole, HyperRow
<1>5. QED
  BY <1>2, <1>3, <1>4 DEF RdsInv

-----------------------------------------------------------------------------
(* The source *)

LEMMA SourceInsertKeeps ==
  ASSUME RdsInv, NEW r0 \in Tuple, SourceInsert(r0)
  PROVE  RdsInv'
<1> USE DEF RdsInv
<1>1. /\ source[r0] = Absent /\ source' = [source EXCEPT ![r0] = Fresh]
      /\ target' = target /\ complete' = complete /\ sequence' = sequence
      /\ job' = job /\ verdict' = verdict /\ quiet' = FALSE
  BY DEF SourceInsert
<1>2. late \subseteq late' /\ late' \subseteq late \union {r0} /\ late' \subseteq HyperRow
  BY TypeForm DEF SourceInsert
<1>3. ASSUME r0 \in HyperRow, r0 \notin late', NEW q \in Tuple,
             TableOf[q] = TableOf[r0], source[q] # Absent
      PROVE  Place[q] <= Place[r0]
  BY <1>3, Rows DEF SourceInsert, Held
<1>4. \A r \in Tuple : r # r0 => source'[r] = source[r]
  BY <1>1, TypeForm
<1>5. RdsTypeOK'
  BY <1>1, <1>2, TypeForm, ValueAssumption DEF RdsTypeOK
<1>6. TodoFits'
  <2>1. ASSUME NEW b \in job.todo, b[1] \in HyperRow PROVE source'[b[1]] = b[2]
    BY <2>1, <1>1, <1>4, TodoPairs, ValueAssumption DEF TodoFits
  <2>2. QED
    BY <2>1, <1>1 DEF TodoFits, This
<1>7. HyperFits'
  <2>1. ASSUME NEW r \in HyperRow, target[r] # <<>> PROVE source'[r] = source[r]
    BY <2>1, <1>1, <1>4, CopiesAreHeld DEF HyperRow
  <2>2. QED
    BY <2>1, <1>1 DEF HyperFits
<1>8. NoRowTwice'
  BY <1>1 DEF NoRowTwice
<1>9. PrefixIsWhole'
  <2>1. SUFFICES ASSUME NEW q \in HyperRow, target[q] # <<>>,
                        NEW r \in Held(TableOf[q])', r \notin late', Place[r] < Place[q]
                 PROVE  target[r] # <<>>
    BY <1>1 DEF PrefixIsWhole
  <2>2. r \in Tuple /\ q \in Tuple /\ TableOf[r] = TableOf[q] /\ source[q] # Absent
    BY <2>1, CopiesAreHeld DEF Held, HyperRow
  <2>3. r # r0
    BY <2>1, <2>2, <1>3, Rows DEF HyperRow
  <2>4. r \in Held(TableOf[q]) \ late
    BY <2>1, <2>3, <1>2, <1>4 DEF Held
  <2>5. QED
    BY <2>1, <2>4 DEF PrefixIsWhole
<1>10. ReadFits'
  <2>1. SUFFICES ASSUME job.pc = "read" PROVE ReadFits'
    BY <1>1 DEF ReadFits
  <2>2. SUFFICES ASSUME This \in Hyper
                 PROVE  /\ \A r \in Copied(This) : Place[r] < job.from
                        /\ \A r \in Held(This)' \ late' : Place[r] < job.from => target[r] # <<>>
                        /\ job.from > 0 => \E q \in Held(This)' : Place[q] = job.from
    BY <1>1, <2>1 DEF ReadFits, This, Copied
  <2>3. /\ \A r \in Copied(This) : Place[r] < job.from
        /\ \A r \in Held(This) \ late : Place[r] < job.from => target[r] # <<>>
        /\ job.from > 0 => \E q \in Held(This) : Place[q] = job.from
    BY <2>1, <2>2 DEF ReadFits
  <2>4. Held(This) \subseteq Held(This)'
    BY <1>1, <1>4, ValueAssumption, TypeForm DEF Held, This
  <2>5. ASSUME r0 \in Held(This)' \ late', Place[r0] < job.from PROVE FALSE
    <3>1. TableOf[r0] = This /\ r0 \in HyperRow /\ job.from > 0
      BY <2>5, <2>2, <1>1, Rows, TypeForm, JobFields DEF Held, This, HyperRow
    <3>2. PICK q \in Held(This) : Place[q] = job.from
      BY <3>1, <2>3
    <3>3. Place[q] <= Place[r0]
      BY <3>1, <3>2, <2>5, <1>3 DEF Held
    <3>4. QED
      BY <3>2, <3>3, <2>5, Rows, TypeForm, JobFields
  <2>6. ASSUME NEW r \in Held(This)' \ late', r # r0 PROVE r \in Held(This) \ late
    BY <2>6, <1>1, <1>2, <1>4 DEF Held, This
  <2>7. QED
    BY <2>3, <2>4, <2>5, <2>6
<1>11. WriteFits'
  <2>1. SUFFICES ASSUME job.pc = "write", This \in Hyper PROVE WriteFits'
    BY <1>1 DEF WriteFits, This
  <2>2. SUFFICES ASSUME NEW r \in Held(This)' \ late', target[r] = <<>>, ~Opened(r),
                        NEW q \in Tuple, TableOf[q] = This, target[q] # <<>> \/ Opened(q)
                 PROVE  Place[q] <= Place[r]
    BY <1>1, <2>1 DEF WriteFits, This, Opened, Copied
  <2>3. CASE r = r0
    <3>1. r0 \in HyperRow /\ TableOf[r0] = This
      BY <2>1, <2>2, <2>3, <1>1 DEF Held, This, HyperRow
    <3>2. q \in HyperRow
      BY <2>1, <2>2 DEF HyperRow
    <3>3. source[q] # Absent
      <4>1. CASE target[q] # <<>>
        BY <3>2, <4>1, CopiesAreHeld
      <4>2. CASE Opened(q)
        BY <3>2, <4>2, TodoPairs, ValueAssumption DEF Opened, TodoFits
      <4>3. QED
        BY <4>1, <4>2, <2>2
    <3>4. QED
      BY <1>3, <2>2, <2>3, <3>1, <3>3
  <2>4. CASE r # r0
    <3>1. r \in Held(This) \ late
      BY <2>2, <2>4, <1>1, <1>2, <1>4 DEF Held, This
    <3>2. QED
      BY <2>1, <2>2, <3>1 DEF WriteFits
  <2>5. QED
    BY <2>3, <2>4
<1>12. RunFits' /\ KeysFit' /\ QuietFits'
  BY <1>1 DEF RunFits, KeysFit, QuietFits, Past, Reserved
<1>13. QED
  BY <1>5, <1>6, <1>7, <1>8, <1>9, <1>10, <1>11, <1>12

LEMMA SourceChangeKeeps ==
  ASSUME RdsInv, NEW r0 \in Tuple, NEW v0 \in Value \union {Absent}, SourceChange(r0, v0)
  PROVE  RdsInv'
<1> USE DEF RdsInv
<1>1. /\ r0 \in KeyedRow /\ source' = [source EXCEPT ![r0] = v0]
      /\ target' = target /\ complete' = complete /\ sequence' = sequence
      /\ job' = job /\ verdict' = verdict /\ quiet' = FALSE /\ late' = late
  BY DEF SourceChange
<1>2. \A r \in HyperRow : source'[r] = source[r]
  BY <1>1, TypeForm DEF HyperRow, KeyedRow
<1>3. RdsTypeOK'
  BY <1>1, TypeForm DEF RdsTypeOK
<1>4. TodoFits'
  BY <1>1, <1>2 DEF TodoFits, This
<1>5. HyperFits' /\ NoRowTwice'
  BY <1>1, <1>2 DEF HyperFits, NoRowTwice
<1>6. ASSUME NEW t \in Hyper PROVE Held(t)' = Held(t)
  BY <1>6, <1>2 DEF Held, HyperRow
<1>7. PrefixIsWhole'
  <2>1. \A q \in HyperRow : TableOf[q] \in Hyper
    BY DEF HyperRow
  <2>2. QED
    BY <1>1, <1>6, <2>1 DEF PrefixIsWhole
<1>8. ReadFits' /\ WriteFits'
  <2>1. CASE This \in Hyper
    <3>1. Held(This)' = Held(This) /\ Copied(This)' = Copied(This)
      BY <2>1, <1>6, <1>1 DEF This, Held, Copied
    <3>2. QED
      BY <3>1, <1>1 DEF ReadFits, WriteFits, This, Opened
  <2>2. CASE This \notin Hyper
    BY <2>2, <1>1 DEF ReadFits, WriteFits, This
  <2>3. QED
    BY <2>1, <2>2
<1>9. RunFits' /\ KeysFit' /\ QuietFits'
  BY <1>1 DEF RunFits, KeysFit, QuietFits, Past, Reserved
<1>10. QED
  BY <1>3, <1>4, <1>5, <1>7, <1>8, <1>9

-----------------------------------------------------------------------------
(* Steps that begin or end a run, or begin its next table.                   *)

LEMMA StartKeeps ==
  ASSUME RdsInv, NEW resume \in BOOLEAN, BeginRun(resume)
  PROVE  RdsInv'
<1> USE DEF RdsInv
<1>1. /\ job' = Entering(1, resume) /\ verdict' = "none"
      /\ source' = source /\ target' = target /\ complete' = complete
      /\ sequence' = sequence /\ late' = late /\ quiet' = TRUE
  BY DEF BeginRun
<1>2. /\ job' \in JobRow /\ job'.pc \in {"verify", "reconcile"} /\ job'.at = 1
      /\ job'.todo = {} /\ (job'.already => job'.resume)
  BY <1>1, PlanIsFirst, EnteringShape
<1>3. job'.pc = "verify" => job'.already
  BY <1>1 DEF Entering, Stopped
<1>4. \A r \in Tuple : ~Past(r)'
  BY <1>2, PlanIsFirst, PlanAssumption DEF Past
<1>5. RdsTypeOK'
  BY <1>1, <1>2, TypeForm DEF RdsTypeOK, JobRow
<1>6. TodoFits' /\ RunFits' /\ ReadFits' /\ WriteFits'
  BY <1>1, <1>2 DEF TodoFits, RunFits, ReadFits, WriteFits
<1>7. HyperFits' /\ NoRowTwice' /\ PrefixIsWhole'
  BY <1>1 DEF HyperFits, NoRowTwice, PrefixIsWhole, Held
<1>8. KeysFit' /\ QuietFits'
  BY <1>1, <1>2, <1>3, <1>4 DEF KeysFit, QuietFits
<1>9. QED
  BY <1>5, <1>6, <1>7, <1>8

(* A run that stops before its verdict leaves all that is proved of the data. *)
LEMMA StoppingKeeps ==
  ASSUME RdsInv, job' = Stopped(job.resume), verdict' = "none", quiet' \in BOOLEAN,
         source' = source, late' = late, RdsTypeOK', HyperFits', NoRowTwice', PrefixIsWhole'
  PROVE  RdsInv'
<1> USE DEF RdsInv
<1>1. job'.pc = "idle" /\ job'.todo = {} /\ ~job'.already
  BY StoppedShape, TypeForm, JobFields
<1>2. TodoFits' /\ RunFits' /\ ReadFits' /\ WriteFits'
  BY <1>1 DEF TodoFits, RunFits, ReadFits, WriteFits
<1>3. KeysFit' /\ QuietFits'
  BY <1>1 DEF KeysFit, QuietFits
<1>4. QED
  BY <1>2, <1>3

LEMMA RunDiesKeeps == RdsInv /\ RunDies => RdsInv'
<1> SUFFICES ASSUME RdsInv, RunDies PROVE RdsInv'
  OBVIOUS
<1> USE DEF RdsInv
<1>1. /\ job.pc # "idle" /\ job' = Stopped(job.resume)
      /\ source' = source /\ target' = target /\ complete' = complete
      /\ sequence' = sequence /\ verdict' = verdict /\ quiet' = quiet /\ late' = late
  BY DEF RunDies
<1>2. verdict' = "none"
  BY <1>1 DEF RunFits
<1>3. job' \in JobRow
  BY <1>1, StoppedShape, TypeForm, JobFields
<1>4. RdsTypeOK'
  BY <1>1, <1>3, TypeForm DEF RdsTypeOK, JobRow
<1>5. HyperFits' /\ NoRowTwice' /\ PrefixIsWhole'
  BY <1>1 DEF HyperFits, NoRowTwice, PrefixIsWhole, Held
<1>6. QED
  BY <1>1, <1>2, <1>4, <1>5, StoppingKeeps, TypeForm

-----------------------------------------------------------------------------
(* The steps of a copy                                                       *)

LEMMA PastIsElsewhere ==
  ASSUME job \in JobRow, NEW r \in Tuple, Past(r)
  PROVE  TableOf[r] # This
BY JobFields, PlanAssumption, PlanIsFirst DEF Past, This

LEMMA ReconcileKeeps == RdsInv /\ Reconcile => RdsInv'
<1> SUFFICES ASSUME RdsInv, Reconcile PROVE RdsInv'
  OBVIOUS
<1> USE DEF RdsInv
<1>1. /\ job.pc = "reconcile" /\ job.todo = {}
      /\ source' = source /\ complete' = complete /\ sequence' = sequence
      /\ verdict' = verdict /\ quiet' = quiet /\ late' = late
  BY DEF Reconcile, TodoFits
<1>2. PICK p \in Places :
        /\ IF This \in Hyper THEN IsWatermark(This, p) ELSE p = 0
        /\ target' = [r \in Tuple |-> IF This \in Hyper /\ r \in Boundary(This, p)
                                      THEN <<>> ELSE target[r]]
        /\ job' = [job EXCEPT !.pc = "read", !.from = p]
  BY DEF Reconcile
<1>3. p \in Nat
  BY <1>2, Rows DEF Places
<1>4. /\ job' \in JobRow /\ job'.pc = "read" /\ job'.from = p /\ job'.at = job.at
      /\ job'.todo = {} /\ job'.already = job.already /\ job'.resume = job.resume
  BY <1>1, <1>2, <1>3, TypeForm DEF JobRow
<1>5. ASSUME NEW r \in Tuple
      PROVE  \/ target'[r] = target[r]
             \/ /\ target'[r] = <<>> /\ This \in Hyper /\ TableOf[r] = This
                /\ Place[r] = p /\ target[r] # <<>>
  BY <1>2 DEF Boundary, Copied
<1>6. ASSUME NEW r \in Tuple, This \in Hyper, TableOf[r] = This, target'[r] # <<>>
      PROVE  target[r] # <<>> /\ Place[r] < p
  <2>1. target[r] # <<>> /\ target'[r] = target[r]
    BY <1>5, <1>6
  <2>2. Place[r] <= p
    BY <1>2, <1>6, <2>1 DEF IsWatermark, Copied
  <2>3. Place[r] # p
    BY <1>2, <1>6, <2>1 DEF Boundary, Copied
  <2>4. QED
    BY <2>1, <2>2, <2>3, <1>3, Rows
<1>7. RdsTypeOK'
  <2>1. target' \in [Tuple -> Seq(Value)]
    BY <1>2, TypeForm
  <2>2. QED
    BY <1>1, <1>4, <2>1, TypeForm DEF RdsTypeOK, JobRow
<1>8. TodoFits' /\ RunFits' /\ WriteFits'
  BY <1>1, <1>4 DEF TodoFits, RunFits, WriteFits
<1>9. HyperFits'
  BY <1>1, <1>5 DEF HyperFits, HyperRow
<1>10. NoRowTwice'
  BY <1>5 DEF NoRowTwice
<1>11. PrefixIsWhole'
  <2>1. SUFFICES ASSUME NEW q \in HyperRow, target'[q] # <<>>,
                        NEW r \in Held(TableOf[q]) \ late, Place[r] < Place[q]
                 PROVE  target'[r] # <<>>
    BY <1>1 DEF PrefixIsWhole, Held
  <2>2. q \in Tuple /\ r \in Tuple /\ TableOf[r] = TableOf[q]
    BY <2>1 DEF Held, HyperRow
  <2>3. target[q] # <<>> /\ (TableOf[q] = This /\ This \in Hyper => Place[q] < p)
    BY <2>1, <2>2, <1>5, <1>6
  <2>4. target[r] # <<>>
    BY <2>1, <2>3 DEF PrefixIsWhole
  <2>5. QED
    BY <2>1, <2>2, <2>3, <2>4, <1>3, <1>5, Rows
<1>12. ReadFits'
  <2>1. SUFFICES ASSUME This \in Hyper
                 PROVE  /\ \A r \in Copied(This)' : Place[r] < p
                        /\ \A r \in Held(This) \ late : Place[r] < p => target'[r] # <<>>
                        /\ p > 0 => \E q \in Held(This) : Place[q] = p
    BY <1>1, <1>2, <1>4 DEF ReadFits, This, Held
  <2>2. \A r \in Copied(This)' : Place[r] < p
    BY <2>1, <1>4, <1>6 DEF Copied, This
  <2>3. CASE Copied(This) = {}
    BY <2>1, <2>2, <2>3, <1>2, Rows DEF IsWatermark, Held
  <2>4. CASE Copied(This) # {}
    <3>1. PICK q \in Copied(This) : Place[q] = p
      BY <2>1, <2>4, <1>2 DEF IsWatermark
    <3>2. q \in HyperRow /\ q \in Held(This) /\ TableOf[q] = This /\ target[q] # <<>>
      BY <2>1, <3>1, CopiesAreHeld DEF Copied, HyperRow, Held
    <3>3. ASSUME NEW r \in Held(This) \ late, Place[r] < p PROVE target'[r] # <<>>
      <4>1. r \in Tuple /\ target[r] # <<>>
        BY <3>1, <3>2, <3>3 DEF PrefixIsWhole, Held
      <4>2. QED
        BY <4>1, <3>3, <1>5, <1>3, Rows
    <3>4. QED
      BY <2>2, <3>1, <3>2, <3>3
  <2>5. QED
    BY <2>3, <2>4
<1>13. ASSUME NEW r \in Tuple, Past(r)' PROVE Past(r) /\ target'[r] = target[r]
  <2>1. Past(r)
    BY <1>13, <1>4 DEF Past
  <2>2. QED
    BY <2>1, <1>5, PastIsElsewhere, TypeForm
<1>14. KeysFit'
  BY <1>1, <1>4, <1>13 DEF KeysFit, RunFits, Reserved
<1>15. QuietFits'
  <2>1. ASSUME quiet, NEW r \in Tuple, Past(r)' PROVE Settled(r)'
    BY <2>1, <1>1, <1>4, <1>13 DEF QuietFits, Settled, AsSource
  <2>2. QED
    BY <2>1, <1>1, <1>4 DEF QuietFits, RunFits
<1>16. QED
  BY <1>7, <1>8, <1>9, <1>10, <1>11, <1>12, <1>14, <1>15

LEMMA OpenCursorKeeps == RdsInv /\ OpenCursor => RdsInv'
<1> SUFFICES ASSUME RdsInv, OpenCursor PROVE RdsInv'
  OBVIOUS
<1> USE DEF RdsInv
<1> DEFINE opened == {<<r, source[r]>> : r \in ReadFrom(job.from)}
<1>1. /\ job.pc = "read"
      /\ job' = [job EXCEPT !.pc = "write", !.from = 0, !.todo = opened]
      /\ source' = source /\ target' = target /\ complete' = complete
      /\ sequence' = sequence /\ verdict' = verdict /\ quiet' = quiet /\ late' = late
  BY DEF OpenCursor
<1>2. ReadFrom(job.from) \subseteq Held(This) /\ Held(This) \subseteq Tuple
  BY DEF ReadFrom, Held
<1>3. \A r \in Held(This) : source[r] \in Value /\ TableOf[r] = This
  BY TypeForm DEF Held
<1>4. opened \in SUBSET (Tuple \X Value)
  BY <1>2, <1>3
<1>5. \A b \in opened : b[1] \in ReadFrom(job.from) /\ b[2] = source[b[1]]
  OBVIOUS
<1>6. \A r \in ReadFrom(job.from) : <<r, source[r]>> \in opened
  OBVIOUS
<1> HIDE DEF opened
<1>7. /\ job' \in JobRow /\ job'.pc = "write" /\ job'.at = job.at /\ job'.todo = opened
      /\ job'.resume = job.resume /\ job'.already = job.already
  BY <1>1, <1>4, TypeForm DEF JobRow
<1>8. This' = This
  BY <1>7 DEF This
<1>9. ASSUME This \in Hyper
      PROVE  /\ \A r \in Copied(This) : Place[r] < job.from
             /\ \A r \in Held(This) \ late : Place[r] < job.from => target[r] # <<>>
  BY <1>1, <1>9 DEF ReadFits
<1>10. ASSUME This \in Hyper, NEW r \in ReadFrom(job.from)
       PROVE  target[r] = <<>> /\ Place[r] >= job.from
  BY <1>9, <1>10, <1>2, <1>3, Rows, TypeForm, JobFields DEF Copied, ReadFrom
<1>11. RdsTypeOK'
  BY <1>1, <1>7, TypeForm DEF RdsTypeOK, JobRow
<1>12. TodoFits'
  <2>1. ASSUME NEW b \in opened
        PROVE  /\ TableOf[b[1]] = This
               /\ b[1] \in HyperRow => source[b[1]] = b[2] /\ target[b[1]] = <<>>
    BY <1>2, <1>3, <1>5, <1>10 DEF HyperRow
  <2>2. QED
    BY <2>1, <1>1, <1>7, <1>8 DEF TodoFits
<1>13. HyperFits' /\ NoRowTwice' /\ PrefixIsWhole'
  BY <1>1 DEF HyperFits, NoRowTwice, PrefixIsWhole, Held
<1>14. ReadFits' /\ RunFits'
  BY <1>1, <1>7 DEF ReadFits, RunFits
<1>15. WriteFits'
  <2>1. SUFFICES ASSUME This \in Hyper PROVE WriteFits'
    BY <1>8 DEF WriteFits
  <2>2. \A q \in Copied(This), b \in opened : Place[q] <= Place[b[1]]
    <3>1. SUFFICES ASSUME NEW q \in Copied(This), NEW b \in opened
                   PROVE  Place[q] <= Place[b[1]]
      OBVIOUS
    <3>2. Place[q] < job.from /\ Place[b[1]] >= job.from /\ q \in Tuple /\ b[1] \in Tuple
      BY <2>1, <3>1, <1>2, <1>5, <1>9, <1>10 DEF Copied
    <3>3. QED
      BY <3>2, Rows, TypeForm, JobFields
  <2>3. ASSUME NEW r \in Held(This) \ late, target[r] = <<>>
        PROVE  <<r, source[r]>> \in opened
    <3>1. ~(Place[r] < job.from)
      BY <2>1, <2>3, <1>9
    <3>2. r \in ReadFrom(job.from)
      BY <2>3, <3>1, <1>2, Rows, TypeForm, JobFields DEF ReadFrom
    <3>3. QED
      BY <3>2, <1>6
  <2>4. Held(This)' = Held(This) /\ Copied(This)' = Copied(This)
    BY <1>1, <1>8 DEF Held, Copied
  <2>5. \A r \in Held(This) \ late : target[r] = <<>> => Opened(r)'
    BY <2>3, <1>7 DEF Opened
  <2>6. QED
    BY <2>2, <2>4, <2>5, <1>1, <1>7, <1>8 DEF WriteFits
<1>16. \A r \in Tuple : Past(r)' => Past(r)
  BY <1>7 DEF Past
<1>17. KeysFit'
  BY <1>1, <1>7, <1>16 DEF KeysFit, RunFits, Reserved
<1>18. QuietFits'
  <2>1. ASSUME quiet, NEW r \in Tuple, Past(r)' PROVE Settled(r)'
    BY <2>1, <1>1, <1>7, <1>16 DEF QuietFits, Settled, AsSource
  <2>2. ASSUME NEW r \in Held(This) \ late
        PROVE  <<r, source[r]>> \in opened \/ target[r] = <<source[r]>>
    <3>1. CASE This \in Hyper
      <4>1. CASE target[r] = <<>>
        <5>1. r \in ReadFrom(job.from)
          BY <2>2, <3>1, <4>1, <1>2, <1>9, Rows, TypeForm, JobFields DEF ReadFrom
        <5>2. QED
          BY <5>1, <1>6
      <4>2. CASE target[r] # <<>>
        BY <4>2, <3>1, <2>2, <1>2, <1>3 DEF HyperFits, HyperRow
      <4>3. QED
        BY <4>1, <4>2
    <3>2. CASE This \notin Hyper
      <4>1. job.from = 0
        BY <3>2, <1>1 DEF ReadFits
      <4>2. r \in ReadFrom(job.from)
        BY <4>1, <2>2, <1>2, Rows DEF ReadFrom
      <4>3. QED
        BY <4>2, <1>6
    <3>3. QED
      BY <3>1, <3>2
  <2>3. Held(This)' = Held(This)
    BY <1>1, <1>8 DEF Held
  <2>4. \A b \in opened : source[b[1]] = b[2]
    BY <1>5
  <2>5. verdict = "none"
    BY <1>1 DEF RunFits
  <2>6. QED
    BY <2>1, <2>2, <2>3, <2>4, <2>5, <1>1, <1>7 DEF QuietFits
<1>19. QED
  BY <1>11, <1>12, <1>13, <1>14, <1>15, <1>17, <1>18

LEMMA OneCopy == \A v \in Value : <<v>> \in Seq(Value) /\ <<v>> # <<>> /\ Len(<<v>>) = 1
<1>1. ASSUME NEW v \in Value PROVE <<v>> \in Seq(Value) /\ Len(<<v>>) = 1
  OBVIOUS
<1>2. QED
  BY <1>1

(* What a batch makes of a row: nothing, or one copy of what was read.       *)
LEMMA WrittenRow ==
  ASSUME RdsTypeOK, TodoFits, NEW batch \in SUBSET job.todo, NEW r \in Tuple
  PROVE  \/ /\ \A v \in Value : <<r, v>> \notin batch
            /\ WithBatch(batch)[r] = target[r]
         \/ \E v \in Value : <<r, v>> \in batch /\ WithBatch(batch)[r] = <<v>>
<1>1. CASE ~\E v \in Value : <<r, v>> \in batch
  BY <1>1 DEF WithBatch
<1>2. CASE \E v \in Value : <<r, v>> \in batch
  <2> DEFINE w == CHOOSE v \in Value : <<r, v>> \in batch
  <2>1. w \in Value /\ <<r, w>> \in batch
    BY <1>2
  <2>2. WithBatch(batch)[r] = Inserted(r, w)
    BY <1>2 DEF WithBatch
  <2> HIDE DEF w
  <2>3. CASE r \in KeyedRow
    BY <2>1, <2>2, <2>3 DEF Inserted
  <2>4. CASE r \notin KeyedRow
    <3>1. r \in HyperRow
      BY <2>4 DEF KeyedRow, HyperRow
    <3>2. target[r] = <<>>
      BY <2>1, <3>1 DEF TodoFits
    <3>3. Inserted(r, w) = <<w>>
      BY <2>4, <3>2 DEF Inserted
    <3>4. QED
      BY <2>1, <2>2, <3>3
  <2>5. QED
    BY <2>3, <2>4
<1>3. QED
  BY <1>1, <1>2

LEMMA BatchKeepsData ==
  ASSUME RdsInv, job.pc = "write", NEW batch \in SUBSET job.todo, IsBatch(batch),
         target' = WithBatch(batch), source' = source, late' = late
  PROVE  /\ target' \in [Tuple -> Seq(Value)]
         /\ HyperFits' /\ NoRowTwice' /\ PrefixIsWhole'
<1> USE DEF RdsInv
<1>1. \A r \in Tuple : \/ /\ \A v \in Value : <<r, v>> \notin batch
                          /\ target'[r] = target[r]
                       \/ \E v \in Value : <<r, v>> \in batch /\ target'[r] = <<v>>
  BY WrittenRow
<1>2. target' \in [Tuple -> Seq(Value)]
  <2>1. target' = [r \in Tuple |-> target'[r]]
    BY DEF WithBatch
  <2>2. \A r \in Tuple : target'[r] \in Seq(Value)
    BY <1>1, OneCopy, TypeForm
  <2>3. QED
    BY <2>1, <2>2
<1>3. HyperFits'
  <2>1. SUFFICES ASSUME NEW r \in HyperRow, target'[r] # <<>>
                 PROVE  target'[r] = <<source[r]>>
    BY DEF HyperFits
  <2>2. ASSUME NEW v \in Value, <<r, v>> \in batch PROVE v = source[r]
    BY <2>1, <2>2 DEF TodoFits
  <2>3. QED
    BY <2>1, <2>2, <1>1 DEF HyperFits, HyperRow
<1>4. NoRowTwice'
  <2>1. ASSUME NEW r \in Tuple PROVE Len(target'[r]) <= 1
    <3>1. CASE target'[r] = target[r]
      BY <3>1 DEF NoRowTwice
    <3>2. CASE \E v \in Value : target'[r] = <<v>>
      BY <3>2, OneCopy
    <3>3. QED
      BY <3>1, <3>2, <1>1
  <2>2. QED
    BY <2>1 DEF NoRowTwice
<1>5. PrefixIsWhole'
  <2>1. SUFFICES ASSUME NEW q \in HyperRow, target'[q] # <<>>,
                        NEW r \in Held(TableOf[q]) \ late, Place[r] < Place[q],
                        target'[r] = <<>>
                 PROVE  FALSE
    BY DEF PrefixIsWhole, Held
  <2>2. q \in Tuple /\ r \in Tuple /\ TableOf[r] = TableOf[q] /\ TableOf[q] \in Hyper
    BY <2>1 DEF Held, HyperRow
  <2>3. target[r] = <<>> /\ \A v \in Value : <<r, v>> \notin batch
    BY <2>1, <2>2, <1>1, OneCopy
  <2>4. target[q] = <<>>
    BY <2>1, <2>3 DEF PrefixIsWhole
  <2>5. PICK w \in Value : <<q, w>> \in batch
    BY <2>1, <2>2, <2>4, <1>1
  <2>6. TableOf[q] = This /\ This \in Hyper
    BY <2>2, <2>5 DEF TodoFits
  <2>7. CASE Opened(r)
    <3>1. PICK b \in job.todo : b[1] = r
      BY <2>7 DEF Opened
    <3>2. b \notin batch
      BY <3>1, <2>3, TodoPairs
    <3>3. Place[q] <= Place[r]
      BY <3>1, <3>2, <2>5 DEF IsBatch, InTableOrder
    <3>4. QED
      BY <3>3, <2>1, <2>2, Rows
  <2>8. CASE ~Opened(r)
    <3>1. Opened(q)
      BY <2>5 DEF Opened
    <3>2. Place[q] <= Place[r]
      BY <2>1, <2>2, <2>3, <2>6, <2>8, <3>1 DEF WriteFits
    <3>3. QED
      BY <3>2, <2>1, <2>2, Rows
  <2>9. QED
    BY <2>7, <2>8
<1>6. QED
  BY <1>2, <1>3, <1>4, <1>5

LEMMA WriteBatchKeeps == RdsInv /\ WriteBatch => RdsInv'
<1> SUFFICES ASSUME RdsInv, WriteBatch PROVE RdsInv'
  OBVIOUS
<1> USE DEF RdsInv
<1>1. PICK batch \in SUBSET job.todo :
        /\ IsBatch(batch) /\ target' = WithBatch(batch)
        /\ job' = [job EXCEPT !.todo = job.todo \ batch]
  BY DEF WriteBatch
<1>2. /\ job.pc = "write" /\ complete' = complete \ {This}
      /\ source' = source /\ sequence' = sequence /\ verdict' = verdict
      /\ quiet' = quiet /\ late' = late
  BY DEF WriteBatch
<1>3. /\ job' \in JobRow /\ job'.pc = "write" /\ job'.at = job.at
      /\ job'.todo = job.todo \ batch
      /\ job'.resume = job.resume /\ job'.already = job.already
  BY <1>1, <1>2, TypeForm DEF JobRow
<1>4. This' = This /\ Held(This)' = Held(This)
  BY <1>2, <1>3 DEF This, Held
<1>5. \A r \in Tuple : \/ /\ \A v \in Value : <<r, v>> \notin batch
                          /\ target'[r] = target[r]
                       \/ \E v \in Value : <<r, v>> \in batch /\ target'[r] = <<v>>
  BY <1>1, WrittenRow
<1>6. /\ target' \in [Tuple -> Seq(Value)]
      /\ HyperFits' /\ NoRowTwice' /\ PrefixIsWhole'
  BY <1>1, <1>2, BatchKeepsData
<1>7. RdsTypeOK'
  BY <1>2, <1>3, <1>6, TypeForm DEF RdsTypeOK, JobRow
<1>8. ASSUME NEW r \in Tuple, NEW v \in Value, <<r, v>> \in batch
      PROVE  TableOf[r] = This
  BY <1>8 DEF TodoFits
<1>9. TodoFits'
  <2>1. SUFFICES ASSUME NEW b \in job.todo \ batch, b[1] \in HyperRow
                 PROVE  target'[b[1]] = <<>>
    BY <1>2, <1>3, <1>4 DEF TodoFits
  <2>2. b \in job.todo /\ b[1] \in Tuple /\ b = <<b[1], b[2]>>
    BY <2>1, TodoPairs
  <2>3. ASSUME NEW v \in Value, <<b[1], v>> \in batch PROVE FALSE
    <3>1. source[b[1]] = v /\ source[b[1]] = b[2]
      BY <2>1, <2>2, <2>3 DEF TodoFits
    <3>2. QED
      BY <2>1, <2>2, <2>3, <3>1
  <2>4. QED
    BY <2>1, <2>2, <2>3, <1>5 DEF TodoFits
<1>10. ReadFits' /\ RunFits'
  BY <1>2, <1>3 DEF ReadFits, RunFits
<1>11. ASSUME NEW q \in Tuple
       PROVE  /\ target'[q] # <<>> => target[q] # <<>> \/ Opened(q)
              /\ Opened(q)' => Opened(q)
              /\ Opened(q) => target'[q] # <<>> \/ Opened(q)'
              /\ target[q] # <<>> => target'[q] # <<>>
  <2>1. target'[q] # <<>> => target[q] # <<>> \/ Opened(q)
    BY <1>5, <1>11 DEF Opened
  <2>2. Opened(q)' => Opened(q)
    BY <1>3 DEF Opened
  <2>3. Opened(q) => target'[q] # <<>> \/ Opened(q)'
    <3>1. SUFFICES ASSUME NEW b \in job.todo, b[1] = q, b \in batch
                   PROVE  target'[q] # <<>>
      BY <1>3 DEF Opened
    <3>2. b[2] \in Value /\ <<q, b[2]>> \in batch
      BY <3>1, TodoPairs
    <3>3. QED
      BY <3>2, <1>5, OneCopy
  <2>4. target[q] # <<>> => target'[q] # <<>>
    BY <1>5, OneCopy
  <2>5. QED
    BY <2>1, <2>2, <2>3, <2>4
<1>12. WriteFits'
  <2>1. SUFFICES ASSUME This \in Hyper PROVE WriteFits'
    BY <1>4 DEF WriteFits
  <2>2. ASSUME NEW q \in Copied(This)', NEW b \in job.todo \ batch
        PROVE  Place[q] <= Place[b[1]]
    <3>1. q \in Tuple /\ TableOf[q] = This /\ target'[q] # <<>>
      BY <2>2, <1>4 DEF Copied
    <3>2. CASE target[q] # <<>>
      BY <3>1, <3>2, <2>1, <2>2, <1>2 DEF WriteFits, Copied
    <3>3. CASE target[q] = <<>>
      <4>1. PICK v \in Value : <<q, v>> \in batch
        BY <3>1, <3>3, <1>5
      <4>2. QED
        BY <4>1, <2>2, <1>1 DEF IsBatch, InTableOrder
    <3>4. QED
      BY <3>2, <3>3
  <2>3. ASSUME NEW r \in Held(This) \ late, target'[r] = <<>>, ~Opened(r)',
               NEW q \in Tuple, TableOf[q] = This, target'[q] # <<>> \/ Opened(q)'
        PROVE  Place[q] <= Place[r]
    <3>1. r \in Tuple
      BY <2>3 DEF Held
    <3>2. target[r] = <<>> /\ ~Opened(r) /\ (target[q] # <<>> \/ Opened(q))
      BY <2>3, <3>1, <1>11
    <3>3. QED
      BY <2>1, <2>3, <3>2, <1>2 DEF WriteFits
  <2>4. QED
    BY <2>2, <2>3, <1>2, <1>3, <1>4 DEF WriteFits
<1>13. ASSUME NEW r \in Tuple, Past(r)' PROVE Past(r) /\ target'[r] = target[r]
  <2>1. Past(r)
    BY <1>13, <1>3 DEF Past
  <2>2. QED
    BY <2>1, <1>5, <1>8, PastIsElsewhere, TypeForm
<1>14. KeysFit'
  BY <1>2, <1>3, <1>13 DEF KeysFit, RunFits, Reserved
<1>15. QuietFits'
  <2>1. ASSUME quiet, NEW r \in Tuple, Past(r)' PROVE Settled(r)'
    BY <2>1, <1>2, <1>3, <1>13 DEF QuietFits, Settled, AsSource
  <2>2. ASSUME quiet, NEW r \in Held(This) \ late
        PROVE  \/ <<r, source[r]>> \in job.todo \ batch
               \/ target'[r] = <<source[r]>>
    <3>1. r \in Tuple /\ source[r] \in Value
      BY <2>2, TypeForm DEF Held
    <3>2. <<r, source[r]>> \in job.todo \/ target[r] = <<source[r]>>
      BY <2>2, <1>2 DEF QuietFits
    <3>3. ASSUME NEW v \in Value, <<r, v>> \in batch PROVE v = source[r]
      BY <2>2, <3>3, <1>2 DEF QuietFits
    <3>4. QED
      BY <3>1, <3>2, <3>3, <1>5
  <2>3. quiet => \A b \in job.todo \ batch : source[b[1]] = b[2]
    BY <1>2 DEF QuietFits
  <2>4. QED
    BY <2>1, <2>2, <2>3, <1>2, <1>3, <1>4 DEF QuietFits, RunFits
<1>16. QED
  BY <1>6, <1>7, <1>9, <1>10, <1>12, <1>14, <1>15

LEMMA RunDiesCommittedKeeps == RdsInv /\ RunDiesCommitted => RdsInv'
<1> SUFFICES ASSUME RdsInv, RunDiesCommitted PROVE RdsInv'
  OBVIOUS
<1> USE DEF RdsInv
<1>1. PICK batch \in SUBSET job.todo : IsBatch(batch) /\ target' = WithBatch(batch)
  BY DEF RunDiesCommitted
<1>2. /\ job.pc = "write" /\ job' = Stopped(job.resume)
      /\ source' = source /\ complete' = complete /\ sequence' = sequence
      /\ verdict' = verdict /\ quiet' = quiet /\ late' = late
  BY DEF RunDiesCommitted
<1>3. /\ target' \in [Tuple -> Seq(Value)]
      /\ HyperFits' /\ NoRowTwice' /\ PrefixIsWhole'
  BY <1>1, <1>2, BatchKeepsData
<1>4. job' \in JobRow
  BY <1>2, StoppedShape, TypeForm, JobFields
<1>5. RdsTypeOK'
  BY <1>2, <1>3, <1>4, TypeForm DEF RdsTypeOK, JobRow
<1>6. verdict' = "none"
  BY <1>2 DEF RunFits
<1>7. QED
  BY <1>2, <1>3, <1>5, <1>6, StoppingKeeps, TypeForm

LEMMA FinishTableKeeps == RdsInv /\ FinishTable => RdsInv'
<1> SUFFICES ASSUME RdsInv, FinishTable PROVE RdsInv'
  OBVIOUS
<1> USE DEF RdsInv
<1>1. /\ job.pc = "write" /\ job.todo = {} /\ job' = [job EXCEPT !.pc = "verify"]
      /\ source' = source /\ target' = target /\ complete' = complete \union {This}
      /\ sequence' = sequence /\ verdict' = verdict /\ quiet' = quiet /\ late' = late
  BY DEF FinishTable
<1>2. /\ job' \in JobRow /\ job'.pc = "verify" /\ job'.at = job.at /\ job'.todo = {}
      /\ job'.resume = job.resume /\ job'.already = job.already
  BY <1>1, TypeForm DEF JobRow
<1>3. This' = This /\ This \in Table /\ Held(This)' = Held(This)
  BY <1>1, <1>2, TypeForm, JobFields DEF This, Table, Held
<1>4. RdsTypeOK'
  BY <1>1, <1>2, <1>3, TypeForm DEF RdsTypeOK, JobRow
<1>5. TodoFits' /\ ReadFits' /\ WriteFits' /\ RunFits'
  BY <1>1, <1>2 DEF TodoFits, ReadFits, WriteFits, RunFits
<1>6. HyperFits' /\ NoRowTwice' /\ PrefixIsWhole'
  BY <1>1 DEF HyperFits, NoRowTwice, PrefixIsWhole, Held
<1>7. \A r \in Tuple : Past(r)' => Past(r)
  BY <1>2 DEF Past
<1>8. KeysFit'
  BY <1>1, <1>2, <1>7 DEF KeysFit, RunFits, Reserved
<1>9. QuietFits'
  <2>1. ASSUME quiet, NEW r \in Tuple, Past(r)' PROVE Settled(r)'
    BY <2>1, <1>1, <1>2, <1>7 DEF QuietFits, Settled, AsSource
  <2>2. quiet => \A r \in Held(This) \ late : target[r] = <<source[r]>>
    BY <1>1 DEF QuietFits
  <2>3. QED
    BY <2>1, <2>2, <1>1, <1>2, <1>3 DEF QuietFits, RunFits
<1>10. QED
  BY <1>4, <1>5, <1>6, <1>8, <1>9

-----------------------------------------------------------------------------
(* The counts                                                                *)

(* With no row twice, COUNT of the target counts the rows that are there.    *)
LEMMA CopiesCounted ==
  ASSUME RdsTypeOK, NoRowTwice, NEW t
  PROVE  IsFiniteSet(Copied(t)) /\ Cardinality(CopiesOf(t)) = Cardinality(Copied(t))
<1>1. IsFiniteSet(Copied(t))
  BY RowAssumption, FS_Subset DEF Copied
<1>2. ASSUME NEW r \in Copied(t) PROVE DOMAIN target[r] = {1}
  <2>1. r \in Tuple /\ target[r] # <<>>
    BY <1>2 DEF Copied
  <2>2. target[r] \in Seq(Value) /\ Len(target[r]) \in Nat /\ Len(target[r]) <= 1
    BY <2>1, TypeForm DEF NoRowTwice
  <2>3. Len(target[r]) # 0
    BY <2>1, <2>2
  <2>4. QED
    BY <2>2, <2>3
<1>3. CopiesOf(t) = {<<r, 1>> : r \in Copied(t)}
  BY <1>2 DEF CopiesOf
<1> DEFINE f == [r \in Copied(t) |-> <<r, 1>>]
<1>4. f \in Bijection(Copied(t), CopiesOf(t))
  BY <1>3 DEF Bijection, Injection, Surjection, IsInjective
<1>5. ExistsBijection(Copied(t), CopiesOf(t))
  BY <1>4 DEF ExistsBijection
<1>6. QED
  BY <1>1, <1>5, FS_Bijection

LEMMA CountsCompare ==
  ASSUME RdsTypeOK, NoRowTwice, NEW t
  PROVE  /\ Copied(t) = Held(t) => CountsMatch(t)
         /\ CountsMatch(t) /\ (Copied(t) \subseteq Held(t) \/ Held(t) \subseteq Copied(t))
              => Copied(t) = Held(t)
<1>1. IsFiniteSet(Copied(t)) /\ IsFiniteSet(Held(t))
  BY RowAssumption, FS_Subset DEF Copied, Held
<1>2. Cardinality(CopiesOf(t)) = Cardinality(Copied(t))
  BY CopiesCounted
<1>3. ASSUME CountsMatch(t), Copied(t) \subseteq Held(t) PROVE Copied(t) = Held(t)
  BY <1>1, <1>2, <1>3, FS_Subset DEF CountsMatch
<1>4. ASSUME CountsMatch(t), Held(t) \subseteq Copied(t) PROVE Copied(t) = Held(t)
  BY <1>1, <1>2, <1>4, FS_Subset DEF CountsMatch
<1>5. QED
  BY <1>2, <1>3, <1>4 DEF CountsMatch

LEMMA HyperCopiesAreHeld ==
  ASSUME RdsInv, This \in Hyper
  PROVE  Copied(This) \subseteq Held(This)
BY CopiesAreHeld DEF RdsInv, Copied, Held, HyperRow

LEMMA KeyedRowsAreCopied ==
  ASSUME RdsInv, quiet, job.pc = "verify", ~job.already, This \notin Hyper
  PROVE  /\ Held(This) \subseteq Copied(This)
         /\ \A r \in Held(This) : target[r] = <<source[r]>>
<1> USE DEF RdsInv
<1>1. ASSUME NEW r \in Held(This) PROVE target[r] = <<source[r]>> /\ source[r] \in Value
  <2>1. r \notin late /\ source[r] \in Value
    BY <1>1, TypeForm DEF Held, HyperRow
  <2>2. QED
    BY <1>1, <2>1 DEF QuietFits
<1>2. QED
  BY <1>1, OneCopy DEF Held, Copied

(* Equal counts: the table is as the source has it, unless a resumed run has *)
(* not copied it.                                                            *)
LEMMA MatchSettles ==
  ASSUME RdsInv, quiet, job.pc = "verify", CountsMatch(This),
         NEW r \in Tuple, TableOf[r] = This
  PROVE  Settled(r)
<1> USE DEF RdsInv
<1>1. SUFFICES ASSUME r \in HyperRow \/ ~job.resume
               PROVE  target[r] = AsSource(r)
  BY DEF Settled
<1>2. CASE This \in Hyper
  <2>1. Copied(This) = Held(This) /\ r \in HyperRow
    BY <1>2, HyperCopiesAreHeld, CountsCompare DEF HyperRow
  <2>2. QED
    BY <2>1 DEF AsSource, Copied, Held, HyperFits
<1>3. CASE This \notin Hyper
  <2>1. ~job.already
    BY <1>1, <1>3 DEF RunFits, HyperRow
  <2>2. /\ Held(This) \subseteq Copied(This)
        /\ \A q \in Held(This) : target[q] = <<source[q]>>
    BY <1>3, <2>1, KeyedRowsAreCopied
  <2>3. Copied(This) = Held(This)
    BY <2>2, CountsCompare
  <2>4. QED
    BY <2>2, <2>3 DEF AsSource, Copied, Held
<1>4. QED
  BY <1>2, <1>3

LEMMA MismatchExplained ==
  ASSUME RdsInv, quiet, job.pc = "verify", ~job.already, ~CountsMatch(This)
  PROVE  \/ \E r \in late : target[r] = <<>>
         \/ \E r \in KeyedRow : source[r] = Absent /\ target[r] # <<>>
<1> USE DEF RdsInv
<1>1. Copied(This) # Held(This)
  BY CountsCompare
<1>2. CASE This \in Hyper
  <2>1. PICK r \in Held(This) : r \notin Copied(This)
    BY <1>1, <1>2, HyperCopiesAreHeld
  <2>2. target[r] = <<>> /\ r \in Tuple /\ source[r] \in Value
    BY <2>1, TypeForm DEF Held, Copied
  <2>3. r \in late
    BY <2>1, <2>2, OneCopy DEF QuietFits
  <2>4. QED
    BY <2>2, <2>3
<1>3. CASE This \notin Hyper
  <2>1. PICK r \in Copied(This) : r \notin Held(This)
    BY <1>1, <1>3, KeyedRowsAreCopied
  <2>2. QED
    BY <1>3, <2>1 DEF Copied, Held, KeyedRow
<1>4. QED
  BY <1>2, <1>3

LEMMA VerifyKeeps == RdsInv /\ Verify => RdsInv'
<1> SUFFICES ASSUME RdsInv, Verify PROVE RdsInv'
  OBVIOUS
<1> USE DEF RdsInv
<1>1. /\ job.pc = "verify" /\ job.todo = {}
      /\ source' = source /\ target' = target /\ complete' = complete
      /\ sequence' = sequence /\ quiet' = quiet /\ late' = late
  BY DEF Verify, TodoFits
<1>2. HyperFits' /\ NoRowTwice' /\ PrefixIsWhole'
  BY <1>1 DEF HyperFits, NoRowTwice, PrefixIsWhole, Held
<1>3. verdict = "none"
  BY <1>1 DEF RunFits
(* The run goes on: with the sequences, or with a second copy.               *)
<1>4. ASSUME job'.pc \in {"align", "reconcile"}, job' \in JobRow, job'.at = job.at,
             job'.todo = {}, job'.resume = job.resume, job'.already => job'.resume,
             verdict' = verdict, job'.pc = "align" => CountsMatch(This)
      PROVE  RdsInv'
  <2>1. RdsTypeOK'
    BY <1>1, <1>4, TypeForm DEF RdsTypeOK, JobRow
  <2>2. TodoFits' /\ ReadFits' /\ WriteFits' /\ RunFits'
    BY <1>3, <1>4 DEF TodoFits, ReadFits, WriteFits, RunFits
  <2>3. \A r \in Tuple : Past(r)' => Past(r)
    BY <1>4 DEF Past
  <2>4. KeysFit'
    BY <1>1, <1>3, <1>4, <2>3 DEF KeysFit, Reserved
  <2>5. QuietFits'
    <3>1. ASSUME quiet, NEW r \in Tuple, Past(r)' PROVE Settled(r)'
      BY <3>1, <1>1, <1>4, <2>3 DEF QuietFits, Settled, AsSource
    <3>2. ASSUME quiet, job'.pc = "align", NEW r \in Tuple, TableOf[r] = This'
          PROVE  Settled(r)'
      BY <3>2, <1>1, <1>4, MatchSettles DEF Settled, AsSource, This
    <3>3. QED
      BY <3>1, <3>2, <1>1, <1>3, <1>4 DEF QuietFits
  <2>6. QED
    BY <1>2, <2>1, <2>2, <2>4, <2>5
<1>5. CASE CountsMatch(This) /\ job' = [job EXCEPT !.pc = "align"] /\ verdict' = verdict
  <2>1. /\ job' \in JobRow /\ job'.pc = "align" /\ job'.at = job.at /\ job'.todo = {}
        /\ job'.resume = job.resume /\ job'.already = job.already
    BY <1>1, <1>5, TypeForm DEF JobRow
  <2>2. job'.already => job'.resume
    BY <2>1 DEF RunFits
  <2>3. QED
    BY <1>4, <1>5, <2>1, <2>2
<1>6. CASE job' = [job EXCEPT !.pc = "reconcile", !.already = FALSE] /\ verdict' = verdict
  <2>1. /\ job' \in JobRow /\ job'.pc = "reconcile" /\ job'.at = job.at /\ job'.todo = {}
        /\ job'.resume = job.resume /\ job'.already = FALSE
    BY <1>1, <1>6, TypeForm DEF JobRow
  <2>2. QED
    BY <1>4, <1>6, <2>1
<1>7. CASE /\ ~CountsMatch(This) /\ ~Recopied
           /\ job' = Stopped(job.resume) /\ verdict' = "FAILED"
  <2>1. /\ job' \in JobRow /\ job'.pc = "idle" /\ job'.todo = {} /\ ~job'.already
    BY <1>7, StoppedShape, TypeForm, JobFields
  <2>2. RdsTypeOK'
    BY <1>1, <1>7, <2>1, TypeForm DEF RdsTypeOK, JobRow
  <2>3. TodoFits' /\ ReadFits' /\ WriteFits' /\ RunFits'
    BY <2>1 DEF TodoFits, ReadFits, WriteFits, RunFits
  <2>4. KeysFit'
    BY <1>7, <2>1 DEF KeysFit
  <2>5. QuietFits'
    <3>1. ASSUME quiet
          PROVE  \/ \E r \in late : target[r] = <<>>
                 \/ \E r \in KeyedRow : source[r] = Absent /\ target[r] # <<>>
      BY <3>1, <1>1, <1>7, MismatchExplained DEF Recopied
    <3>2. QED
      BY <3>1, <1>1, <1>7, <2>1 DEF QuietFits
  <2>6. QED
    BY <1>2, <2>2, <2>3, <2>4, <2>5
<1>8. QED
  BY <1>5, <1>6, <1>7 DEF Verify

LEMMA EndTableKeeps == RdsInv /\ EndTable => RdsInv'
<1> SUFFICES ASSUME RdsInv, EndTable PROVE RdsInv'
  OBVIOUS
<1> USE DEF RdsInv
<1>1. /\ job.pc = "align" /\ source' = source /\ target' = target
      /\ complete' = complete /\ quiet' = quiet /\ late' = late
  BY DEF EndTable
<1>2. PICK p \in Places : IsWatermark(This, p) /\ sequence' = Aligned(p)
  BY DEF EndTable
<1>3. p \in Nat /\ This \in Table
  BY <1>2, Rows, TypeForm, JobFields DEF Places, This, Table
<1>4. /\ sequence' \in [Table -> Nat] /\ sequence'[This] = p
      /\ \A t \in Table : t # This => sequence'[t] = sequence[t]
  BY <1>2, <1>3, TypeForm DEF Aligned
<1>5. HyperFits' /\ NoRowTwice' /\ PrefixIsWhole'
  BY <1>1 DEF HyperFits, NoRowTwice, PrefixIsWhole, Held
<1>6. verdict = "none"
  BY <1>1 DEF RunFits
<1>7. ASSUME NEW r \in Tuple, Past(r) \/ TableOf[r] = This PROVE Reserved(r)'
  <2>1. CASE TableOf[r] = This
    <3>1. ASSUME target[r] # <<>> PROVE Place[r] <= p
      BY <2>1, <3>1, <1>2 DEF IsWatermark, Copied
    <3>2. QED
      BY <2>1, <3>1, <1>1, <1>4 DEF Reserved
  <2>2. CASE TableOf[r] # This
    <3>1. Reserved(r)
      BY <2>2, <1>1, <1>7 DEF KeysFit
    <3>2. QED
      BY <2>2, <3>1, <1>1, <1>4, Rows DEF Reserved
  <2>3. QED
    BY <2>1, <2>2
<1>8. ASSUME quiet, NEW r \in Tuple, Past(r) \/ TableOf[r] = This, job'.resume = job.resume
      PROVE  Settled(r)'
  BY <1>8, <1>1 DEF QuietFits, Settled, AsSource
<1>9. CASE job.at < Len(Plan) /\ job' = Entering(job.at + 1, job.resume) /\ verdict' = verdict
  <2>1. job.at + 1 \in DOMAIN Plan /\ job.at \in Nat /\ job.resume \in BOOLEAN
    BY <1>9, TypeForm, JobFields, PlanAssumption
  <2>2. /\ job' \in JobRow /\ job'.pc \in {"verify", "reconcile"} /\ job'.at = job.at + 1
        /\ job'.todo = {} /\ job'.resume = job.resume /\ (job'.already => job'.resume)
    BY <2>1, <1>9, EnteringShape
  <2>3. job'.pc = "verify" => job'.already
    BY <1>9 DEF Entering, Stopped
  <2>4. \A r \in Tuple : Past(r)' => Past(r) \/ TableOf[r] = This
    BY <2>1, <2>2, PlanIsFirst DEF Past, This
  <2>5. RdsTypeOK'
    BY <1>1, <1>4, <1>9, <2>2, TypeForm DEF RdsTypeOK, JobRow
  <2>6. TodoFits' /\ ReadFits' /\ WriteFits' /\ RunFits'
    BY <1>6, <1>9, <2>2 DEF TodoFits, ReadFits, WriteFits, RunFits
  <2>7. KeysFit'
    BY <1>6, <1>7, <1>9, <2>2, <2>4 DEF KeysFit
  <2>8. QuietFits'
    BY <1>1, <1>6, <1>8, <1>9, <2>2, <2>3, <2>4 DEF QuietFits
  <2>9. QED
    BY <1>5, <2>5, <2>6, <2>7, <2>8
<1>10. CASE job.at = Len(Plan) /\ job' = Stopped(job.resume) /\ verdict' = "SUCCESS"
  <2>1. /\ job' \in JobRow /\ job'.pc = "idle" /\ job'.todo = {} /\ ~job'.already
        /\ job'.resume = job.resume
    BY <1>10, StoppedShape, TypeForm, JobFields
  <2>2. ASSUME NEW r \in Tuple PROVE Past(r) \/ TableOf[r] = This
    <3>1. PICK i \in DOMAIN Plan : TableOf[r] = Plan[i]
      BY Rows DEF Table
    <3>2. i \in Nat /\ (i < job.at \/ i = job.at)
      BY <1>10, PlanAssumption
    <3>3. QED
      BY <3>1, <3>2 DEF Past, This
  <2>3. RdsTypeOK'
    BY <1>1, <1>4, <1>10, <2>1, TypeForm DEF RdsTypeOK, JobRow
  <2>4. TodoFits' /\ ReadFits' /\ WriteFits' /\ RunFits'
    BY <2>1 DEF TodoFits, ReadFits, WriteFits, RunFits
  <2>5. KeysFit'
    BY <1>7, <1>10, <2>1, <2>2 DEF KeysFit
  <2>6. QuietFits'
    BY <1>1, <1>8, <1>10, <2>1, <2>2 DEF QuietFits
  <2>7. QED
    BY <1>5, <2>3, <2>4, <2>5, <2>6
<1>11. CASE job' = Stopped(job.resume) /\ verdict' = verdict
  <2>1. job' \in JobRow
    BY <1>11, StoppedShape, TypeForm, JobFields
  <2>2. RdsTypeOK'
    BY <1>1, <1>4, <1>11, <2>1, TypeForm DEF RdsTypeOK, JobRow
  <2>3. QED
    BY <1>1, <1>5, <1>6, <1>11, <2>2, StoppingKeeps, TypeForm
<1>12. QED
  BY <1>9, <1>10, <1>11 DEF EndTable

-----------------------------------------------------------------------------
(* The theorems                                                              *)

(* Every step of a run, of its death and of the source in use keeps RdsInv.  *)
THEOREM RdsStep_Inv == RdsInv /\ [RdsNext]_rdsVars => RdsInv'
<1> SUFFICES ASSUME RdsInv, [RdsNext]_rdsVars PROVE RdsInv'
  OBVIOUS
<1>1. ASSUME NEW r \in Tuple, SourceInsert(r) PROVE RdsInv'
  BY <1>1, SourceInsertKeeps
<1>2. ASSUME NEW r \in Tuple, NEW v \in Value \union {Absent}, SourceChange(r, v)
      PROVE  RdsInv'
  BY <1>2, SourceChangeKeeps
<1>3. ASSUME NEW resume \in BOOLEAN, BeginRun(resume) PROVE RdsInv'
  BY <1>3, StartKeeps
<1>4. CASE UNCHANGED rdsVars
  BY <1>4 DEF rdsVars, RdsInv, RdsTypeOK, TodoFits, HyperFits, NoRowTwice, PrefixIsWhole,
              ReadFits, WriteFits, RunFits, KeysFit, QuietFits, This, Held, Copied, Opened,
              Past, Reserved, Settled, AsSource
<1>5. QED
  BY <1>1, <1>2, <1>3, <1>4, ReconcileKeeps, OpenCursorKeeps, WriteBatchKeeps,
     FinishTableKeeps, VerifyKeeps, EndTableKeeps, RunDiesKeeps, RunDiesCommittedKeeps
     DEF RdsNext

(* RdsInv holds in every state of a copy, however its runs are cut short.    *)
THEOREM RdsInvariance == RdsSpec => []RdsInv
<1>1. QED
  BY RdsInit_Inv, RdsStep_Inv, PTL DEF RdsSpec

(* Every variable of a run and of the two databases keeps its type.          *)
THEOREM RdsTypeCorrect == RdsSpec => []RdsTypeOK
<1>1. RdsInv => RdsTypeOK
  BY DEF RdsInv
<1>2. QED
  BY <1>1, RdsInvariance, PTL

(* No row is on the target twice, wherever runs are cut short and however    *)
(* often they are repeated.                                                  *)
THEOREM RowsAreNotDoubled == RdsSpec => []NoRowTwice
<1>1. RdsInv => NoRowTwice
  BY DEF RdsInv
<1>2. QED
  BY <1>1, RdsInvariance, PTL

(* The target's part of a hypertable is a prefix of the source, but for rows *)
(* that came out of order.                                                   *)
THEOREM TargetHoldsAPrefix == RdsSpec => []PrefixIsWhole
<1>1. RdsInv => PrefixIsWhole
  BY DEF RdsInv
<1>2. QED
  BY <1>1, RdsInvariance, PTL

(* SUCCESS on a frozen source, though it compares counts only: the target is *)
(* the source, but for the keyed tables of a resumed run.                    *)
THEOREM SuccessIsACopy == RdsSpec => []SuccessMeansCopied
<1>1. RdsInv => SuccessMeansCopied
  BY DEF RdsInv, QuietFits, SuccessMeansCopied, Settled
<1>2. QED
  BY <1>1, RdsInvariance, PTL

(* FAILED on a frozen source: over a row that came out of order, or one the  *)
(* source no longer has.                                                     *)
THEOREM FailuresHaveACause == RdsSpec => []FailureIsExplained
<1>1. RdsInv => FailureIsExplained
  BY DEF RdsInv, QuietFits, FailureIsExplained
<1>2. QED
  BY <1>1, RdsInvariance, PTL

(* After SUCCESS no sequence gives out a key that was copied, also when the  *)
(* run that copied it died before it came to the sequences.                  *)
THEOREM KeysStayReserved == RdsSpec => []MigratedKeysAreReserved
<1>1. RdsInv => MigratedKeysAreReserved
  BY DEF RdsInv, KeysFit, Reserved, MigratedKeysAreReserved, KeyedRow
<1>2. QED
  BY <1>1, RdsInvariance, PTL

(* Whatever was cut short, the target is a prefix of the source, each row in *)
(* it once.                                                                  *)
THEOREM TargetStaysAPrefix == RdsSpec => []TargetIsAPrefix
  BY RowsAreNotDoubled, TargetHoldsAPrefix, PTL DEF TargetIsAPrefix

(* On a frozen source SUCCESS is a copy, and FAILED has a cause in the rows. *)
THEOREM VerdictsAreTrue == RdsSpec => []VerdictIsTrue
  BY SuccessIsACopy, FailuresHaveACause, PTL DEF VerdictIsTrue


-----------------------------------------------------------------------------
(* The reads of a gate *)

(* Induction on finite sets, without an operator: a set of finite sets has a *)
(* smallest member, so a claim that fails somewhere fails first somewhere.   *)
LEMMA SmallestMember ==
  ASSUME NEW S, IsFiniteSet(S), NEW Q \in SUBSET (SUBSET S), Q # {}
  PROVE  \E T \in Q : \A V \in Q : V \subseteq T => V = T
<1>1. SUBSET S = FiniteSubsetsOf(S)
  BY FS_FiniteSubsetsOfFinite
<1>2. IsWellFoundedOn(StrictSubsetOrdering(S), FiniteSubsetsOf(S))
  BY FS_StrictSubsetOrderingWellFounded
<1>3. Q \subseteq FiniteSubsetsOf(S)
  BY <1>1
<1>4. \E T \in Q : \A V \in Q : ~(<<V, T>> \in StrictSubsetOrdering(S))
  BY <1>2, <1>3, WFMin
<1>5. PICK T \in Q : \A V \in Q : ~(<<V, T>> \in StrictSubsetOrdering(S))
  BY <1>4
<1>6. ASSUME NEW V \in Q, V \subseteq T PROVE V = T
  <2>1. V \in SUBSET S /\ T \in SUBSET S
    OBVIOUS
  <2>2. CASE V # T
    <3>1. <<V, T>> \in StrictSubsetOrdering(S)
      BY <1>6, <2>1, <2>2 DEF StrictSubsetOrdering
    <3>2. QED
      BY <1>5, <3>1
  <2>3. QED
    BY <2>2
<1>7. QED
  BY <1>6

(* Reads that can be ordered: their fields are numbers, their ids differ.    *)
Ordered(reads) ==
  /\ IsFiniteSet(reads)
  /\ \A r \in reads : r.id \in Nat /\ r.ts \in Int
  /\ \A r, q \in reads : r.id = q.id => r = q

(* Nearer is a strict total order on the candidates of such buffers.         *)
LEMMA NearerIsAnOrder ==
  ASSUME NEW ps, NEW ts, Ordered(ps), Ordered(ts)
  PROVE  /\ \A c \in ps \X ts : ~Nearer(c, c)
         /\ \A c, d \in ps \X ts : c = d \/ Nearer(c, d) \/ Nearer(d, c)
         /\ \A c, d \in ps \X ts : Nearer(c, d) => ~Nearer(d, c)
         /\ \A c, d, e \in ps \X ts : Nearer(c, d) /\ Nearer(d, e) => Nearer(c, e)
<1>1. ASSUME NEW c \in ps \X ts
      PROVE  /\ c[1] \in ps /\ c[2] \in ts /\ c = <<c[1], c[2]>>
             /\ c[1].id \in Nat /\ c[2].id \in Nat /\ Apart(c[1], c[2]) \in Int
  BY DEF Ordered, Apart
<1>2. \A c, d \in ps \X ts : c[1].id = d[1].id /\ c[2].id = d[2].id => c = d
  BY <1>1 DEF Ordered
<1>3. \A c \in ps \X ts : ~Nearer(c, c)
  BY <1>1 DEF Nearer
<1>4. \A c, d \in ps \X ts : c = d \/ Nearer(c, d) \/ Nearer(d, c)
  BY <1>1, <1>2 DEF Nearer
<1>5. \A c, d \in ps \X ts : Nearer(c, d) => ~Nearer(d, c)
  BY <1>1 DEF Nearer
<1>6. \A c, d, e \in ps \X ts : Nearer(c, d) /\ Nearer(d, e) => Nearer(c, e)
  BY <1>1 DEF Nearer
<1>7. QED
  BY <1>3, <1>4, <1>5, <1>6

(* A finite set has a last member in a total order.                          *)
LEMMA LastMember ==
  ASSUME NEW S, IsFiniteSet(S), S # {}, NEW R,
         \A c, d \in S : c = d \/ <<c, d>> \in R \/ <<d, c>> \in R,
         \A c, d, e \in S : <<c, d>> \in R /\ <<d, e>> \in R => <<c, e>> \in R
  PROVE  \E m \in S : \A d \in S \ {m} : <<d, m>> \in R
<1> DEFINE HasLast(T) == \E m \in T : \A d \in T \ {m} : <<d, m>> \in R
<1>1. SUFFICES ASSUME ~HasLast(S) PROVE FALSE
  OBVIOUS
<1>2. PICK Q : Q = {T \in SUBSET S : T # {} /\ ~HasLast(T)}
  OBVIOUS
<1>3. PICK T \in Q : \A V \in Q : V \subseteq T => V = T
  <2>1. S \in Q /\ Q \in SUBSET (SUBSET S)
    BY <1>1, <1>2
  <2>2. QED
    BY <2>1, SmallestMember
<1>4. T # {} /\ ~HasLast(T) /\ T \subseteq S
  BY <1>2
<1>5. PICK x \in T : TRUE
  BY <1>4
<1>6. T \ {x} \notin Q
  BY <1>3, <1>5
<1>7. T \ {x} = {} \/ HasLast(T \ {x})
  BY <1>2, <1>6
<1>8. CASE T \ {x} = {}
  BY <1>4, <1>5, <1>8
<1>9. CASE HasLast(T \ {x})
  <2>1. PICK m \in T \ {x} : \A d \in (T \ {x}) \ {m} : <<d, m>> \in R
    BY <1>9
  <2>2. m \in S /\ x \in S /\ m # x
    BY <1>4, <1>5, <2>1
  <2>3. <<x, m>> \in R \/ <<m, x>> \in R
    BY <2>2
  <2>4. CASE <<x, m>> \in R
    <3>1. \A d \in T \ {m} : <<d, m>> \in R
      BY <2>1, <2>4
    <3>2. QED
      BY <1>4, <2>1, <3>1
  <2>5. CASE <<m, x>> \in R
    <3>1. \A d \in T \ {x} : <<d, x>> \in R
      <4>1. TAKE d \in T \ {x}
      <4>2. CASE d = m
        BY <2>5, <4>2
      <4>3. CASE d # m
        <5>1. <<d, m>> \in R /\ d \in S
          BY <1>4, <2>1, <4>3
        <5>2. QED
          BY <2>2, <2>5, <5>1
      <4>4. QED
        BY <4>2, <4>3
    <3>2. QED
      BY <1>4, <1>5, <3>1
  <2>6. QED
    BY <2>3, <2>4, <2>5
<1>10. QED
  BY <1>7, <1>8, <1>9

LEMMA ExtremesExist ==
  ASSUME NEW ps, NEW ts, Ordered(ps), Ordered(ts),
         NEW S \in SUBSET (ps \X ts), IsFiniteSet(S), S # {}
  PROVE  /\ \E m \in S : \A d \in S \ {m} : Nearer(d, m)
         /\ \E m \in S : \A d \in S \ {m} : Nearer(m, d)
<1>1. PICK R : R = {e \in S \X S : Nearer(e[1], e[2])}
  OBVIOUS
<1>2. PICK Q : Q = {e \in S \X S : Nearer(e[2], e[1])}
  OBVIOUS
<1>3. \A c, d \in S : (<<c, d>> \in R <=> Nearer(c, d)) /\ (<<c, d>> \in Q <=> Nearer(d, c))
  BY <1>1, <1>2
<1>4. /\ \A c, d \in S : c = d \/ Nearer(c, d) \/ Nearer(d, c)
      /\ \A c, d, e \in S : Nearer(c, d) /\ Nearer(d, e) => Nearer(c, e)
  BY NearerIsAnOrder
<1>5. \E m \in S : \A d \in S \ {m} : <<d, m>> \in R
  <2>1. \A c, d \in S : c = d \/ <<c, d>> \in R \/ <<d, c>> \in R
    BY <1>3, <1>4
  <2>2. \A c, d, e \in S : <<c, d>> \in R /\ <<d, e>> \in R => <<c, e>> \in R
    BY <1>3, <1>4
  <2>3. QED
    BY <2>1, <2>2, LastMember
<1>6. \E m \in S : \A d \in S \ {m} : <<d, m>> \in Q
  <2>1. \A c, d \in S : c = d \/ <<c, d>> \in Q \/ <<d, c>> \in Q
    BY <1>3, <1>4
  <2>2. \A c, d, e \in S : <<c, d>> \in Q /\ <<d, e>> \in Q => <<c, e>> \in Q
    BY <1>3, <1>4
  <2>3. QED
    BY <2>1, <2>2, LastMember
<1>7. QED
  BY <1>3, <1>5, <1>6

(* The greedy pass has an outcome: there are candidates that no nearer one   *)
(* among them shares a read with, and that every other one shares a read     *)
(* with.  They come into being one by one, the farthest last.                *)
GreedyOf(close, used) ==
  \A c \in close : c \in used <=> ~\E d \in used : Nearer(d, c) /\ Share(d, c)

LEMMA GreedyPassExists ==
  ASSUME NEW ps, NEW ts, Ordered(ps), Ordered(ts),
         NEW close \in SUBSET (ps \X ts), IsFiniteSet(close)
  PROVE  \E used \in SUBSET close : GreedyOf(close, used)
<1> DEFINE Passes(T) == \E used \in SUBSET T : GreedyOf(T, used)
<1>1. SUFFICES ASSUME ~Passes(close) PROVE FALSE
  OBVIOUS
<1>2. PICK Q : Q = {T \in SUBSET close : ~Passes(T)}
  OBVIOUS
<1>3. PICK T \in Q : \A V \in Q : V \subseteq T => V = T
  <2>1. close \in Q /\ Q \in SUBSET (SUBSET close)
    BY <1>1, <1>2
  <2>2. QED
    BY <2>1, SmallestMember
<1>4. ~Passes(T) /\ T \subseteq ps \X ts /\ IsFiniteSet(T)
  BY <1>2, FS_Subset
<1>5. T # {}
  <2>1. GreedyOf({}, {})
    BY DEF GreedyOf
  <2>2. QED
    BY <1>4, <2>1
<1>6. PICK m \in T : \A d \in T \ {m} : Nearer(d, m)
  BY <1>4, <1>5, ExtremesExist
<1>7. T \ {m} \notin Q /\ T \ {m} \in SUBSET close
  BY <1>2, <1>3, <1>6
<1>8. PICK used \in SUBSET (T \ {m}) : GreedyOf(T \ {m}, used)
  BY <1>2, <1>7
<1>9. \A c \in T : ~Nearer(m, c)
  <2>1. TAKE c \in T
  <2>2. c \in ps \X ts /\ m \in ps \X ts
    BY <1>4, <1>6
  <2>3. c = m \/ Nearer(c, m)
    BY <1>6
  <2>4. QED
    BY <2>2, <2>3, NearerIsAnOrder
<1>10. CASE \E d \in used : Nearer(d, m) /\ Share(d, m)
  <2>1. GreedyOf(T, used)
    BY <1>8, <1>10 DEF GreedyOf
  <2>2. QED
    BY <1>4, <1>8, <2>1
<1>11. CASE ~\E d \in used : Nearer(d, m) /\ Share(d, m)
  <2>1. GreedyOf(T, used \union {m})
    BY <1>6, <1>8, <1>9, <1>11 DEF GreedyOf
  <2>2. used \union {m} \in SUBSET T
    BY <1>6, <1>8
  <2>3. QED
    BY <1>4, <2>1, <2>2
<1>12. QED
  BY <1>10, <1>11

LEMMA CandidatesAreFinite ==
  ASSUME NEW ps, NEW ts, IsFiniteSet(ps), IsFiniteSet(ts)
  PROVE  Candidates(ps, ts) \in SUBSET (ps \X ts) /\ IsFiniteSet(Candidates(ps, ts))
<1>1. IsFiniteSet(ps \X ts)
  BY FS_Product
<1>2. Candidates(ps, ts) \in SUBSET (ps \X ts)
  BY DEF Candidates
<1>3. QED
  BY <1>1, <1>2, FS_Subset

(* One pass of _match over any buffers uses each read at most once, and      *)
(* leaves no candidate of which neither read is used: 'pair each plate with  *)
(* the single nearest-in-time tag within the window and consume both'.       *)
THEOREM GreedyPassIsAMatching ==
  ASSUME NEW ps, NEW ts, Ordered(ps), Ordered(ts)
  PROVE  LET close == Candidates(ps, ts)
             used == Consumed(close)
         IN  /\ used \subseteq close
             /\ \A c, d \in used : Share(c, d) => c = d
             /\ \A c \in close : \E d \in used : Share(d, c)
<1> DEFINE close == Candidates(ps, ts)
           used == Consumed(close)
<1>1. close \in SUBSET (ps \X ts) /\ IsFiniteSet(close)
  BY CandidatesAreFinite DEF Ordered
<1>2. \E u \in SUBSET close : GreedyOf(close, u)
  BY <1>1, GreedyPassExists
<1>3. used \in SUBSET close /\ GreedyOf(close, used)
  BY <1>2, Zenon DEF Consumed, GreedyOf
<1> HIDE DEF close, used
<1>4. ASSUME NEW c \in used, NEW d \in used, Share(c, d) PROVE c = d
  <2>1. c \in close /\ d \in close /\ c \in ps \X ts /\ d \in ps \X ts
    BY <1>1, <1>3
  <2>2. ~Nearer(c, d) /\ ~Nearer(d, c)
    BY <1>3, <1>4, <2>1 DEF GreedyOf, Share
  <2>3. QED
    BY <2>1, <2>2, NearerIsAnOrder
<1>5. ASSUME NEW c \in close PROVE \E d \in used : Share(d, c)
  <2>1. CASE c \in used
    BY <2>1 DEF Share
  <2>2. CASE c \notin used
    BY <1>3, <2>2 DEF GreedyOf
  <2>3. QED
    BY <2>1, <2>2
<1>6. QED
  BY <1>3, <1>4, <1>5 DEF close, used

(* What stands beside the properties: the buffers are in the order of their  *)
(* ids, which are never given again; a confirmation is later than the plate  *)
(* read it used; and as long as a confirmation is in the memory of emitted   *)
(* the memory is not older, and one that is not in it is four windows old.   *)
EventKey(e) == <<e.plate.value, e.tag.value>>

IdsAreGivenOnce(ps, ts) ==
  /\ Ordered(ps) /\ Ordered(ts)
  /\ \A e \in events : /\ \A p \in ps : p.id = e.plate.id => p = e.plate
                      /\ \A t \in ts : t.id = e.tag.id => t = e.tag

EventsAreRemembered ==
  /\ \A e \in events :
       /\ e.plate.mono < e.at
       /\ emitted[EventKey(e)] # Never => e.at <= emitted[EventKey(e)]
       /\ emitted[EventKey(e)] = Never => Moment - e.at > 8 * Window
  /\ \A k \in Plate \X Tag : emitted[k] # Never => \E e \in events : EventKey(e) = k

ReadsInv ==
  /\ CorrelatorTypeOK /\ IdsAreGivenOnce(plates, tags) /\ EventsAreRemembered
  /\ SamePairOnce /\ NoReadsLeftOver

(* The confirmations of one step share neither read.                         *)
OneReadOneConfirmation ==
  \A e, f \in events' \ events : e.plate.id = f.plate.id \/ e.tag.id = f.tag.id => e = f

LEMMA MomentFacts ==
  ASSUME now \in 0 .. MaxNow
  PROVE  /\ now \in Nat /\ Moment \in Nat /\ Buffered \in Nat /\ Buffered < Moment
         /\ Window \in Nat /\ Window > 0 /\ 2 * Window < 8 * Window
  BY CorrelatorBoundsAssumption DEF Moment, Buffered

(* What one call of _match does to the gate, given its buffers with the read *)
(* that arrived in one of them and the pairs it confirms.                    *)
MatchedBy(confirmed, ps, ts) ==
  /\ confirmed \in SUBSET (plates' \X tags')
  /\ plates' \subseteq ps /\ tags' \subseteq ts
  /\ Ordered(plates') /\ Ordered(tags')
  /\ \A p \in plates' : Moment - p.mono <= 2 * Window
  /\ events' = events \union {[plate |-> c[1], tag |-> c[2], at |-> Moment] : c \in confirmed}
  /\ \A c \in confirmed : ~Suppressed(emitted[Key(c)])
  /\ \A c, d \in confirmed : Share(c, d) => c = d
  /\ emitted' = [k \in Plate \X Tag |->
                  IF \E c \in confirmed : Key(c) = k THEN Moment ELSE emitted[k]]
  /\ \A p \in plates', t \in tags' : Apart(p, t) <= Window =>
       \E c \in plates' \X tags' : (c[1] = p \/ c[2] = t) /\ emitted'[Key(c)] # Never

LEMMA MatchOutcome ==
  ASSUME CorrelatorTypeOK, NEW ps, NEW ts, IdsAreGivenOnce(ps, ts),
         ps \in SUBSET [id : Nat, value : Plate, mono : 0 .. Buffered, ts : Int],
         ts \in SUBSET [id : Nat, value : Tag, mono : 0 .. Buffered, ts : Int],
         Match(ps, ts)
  PROVE  \E confirmed : MatchedBy(confirmed, ps, ts)
<1>1. PICK P, T : P = Expired(ps) /\ T = Expired(ts)
  OBVIOUS
<1>2. PICK close : close = Candidates(P, T)
  OBVIOUS
<1>3. PICK used : used = Consumed(close)
  OBVIOUS
<1>4. PICK confirmed : confirmed = Confirmed(used)
  OBVIOUS
<1>5. /\ plates' = P /\ tags' = T
      /\ emitted' = [k \in Plate \X Tag |->
                      IF \E c \in confirmed : Key(c) = k THEN Moment ELSE emitted[k]]
      /\ events' = events \union {[plate |-> c[1], tag |-> c[2], at |-> Moment] : c \in confirmed}
  BY <1>1, <1>2, <1>3, <1>4 DEF Match
<1>6. P \subseteq ps /\ T \subseteq ts /\ \A p \in P : Moment - p.mono <= 2 * Window
  BY <1>1 DEF Expired, Alive
<1>7. Ordered(P) /\ Ordered(T)
  BY <1>6, FS_Subset DEF IdsAreGivenOnce, Ordered
<1>8. /\ used \subseteq close
      /\ \A c, d \in used : Share(c, d) => c = d
      /\ \A c \in close : \E d \in used : Share(d, c)
  BY <1>2, <1>3, <1>7, GreedyPassIsAMatching
<1>9. close \in SUBSET (P \X T) /\ IsFiniteSet(close)
  BY <1>2, <1>7, CandidatesAreFinite DEF Ordered
<1>10. /\ confirmed \subseteq used
       /\ \A c \in confirmed : ~Suppressed(emitted[Key(c)])
  BY <1>4 DEF Confirmed
<1>11. \A c \in P \X T : Key(c) \in Plate \X Tag
  BY <1>6 DEF Key
<1>12. ASSUME NEW c \in used PROVE emitted'[Key(c)] # Never
  <2>1. Key(c) \in Plate \X Tag
    BY <1>8, <1>9, <1>11
  <2>2. Moment # Never
    BY MomentFacts DEF Never, CorrelatorTypeOK
  <2>3. CASE Suppressed(emitted[Key(c)])
    BY <1>5, <2>1, <2>2, <2>3 DEF Suppressed
  <2>4. CASE ~Suppressed(emitted[Key(c)])
    <3>1. PICK same : same = {d \in used : Key(d) = Key(c)}
      OBVIOUS
    <3>2. same \in SUBSET (P \X T) /\ IsFiniteSet(same) /\ same # {}
      BY <1>8, <1>9, <3>1, FS_Subset
    <3>3. PICK m \in same : \A d \in same \ {m} : Nearer(m, d)
      BY <1>7, <3>2, ExtremesExist
    <3>4. \A d \in same : ~Nearer(d, m)
      BY <1>7, <3>2, <3>3, NearerIsAnOrder
    <3>5. m \in confirmed /\ Key(m) = Key(c)
      BY <1>4, <2>4, <3>1, <3>3, <3>4 DEF Confirmed
    <3>6. QED
      BY <1>5, <2>1, <2>2, <3>5
  <2>5. QED
    BY <2>3, <2>4
<1>13. ASSUME NEW p \in P, NEW t \in T, Apart(p, t) <= Window
       PROVE  \E c \in P \X T : (c[1] = p \/ c[2] = t) /\ emitted'[Key(c)] # Never
  <2>1. <<p, t>> \in close
    BY <1>2, <1>13 DEF Candidates, Close
  <2>2. PICK d \in used : Share(d, <<p, t>>)
    BY <1>8, <2>1
  <2>3. QED
    BY <1>8, <1>9, <1>12, <2>2 DEF Share
<1>14. \A c, d \in confirmed : Share(c, d) => c = d
  BY <1>8, <1>10
<1>15. confirmed \in SUBSET (P \X T)
  BY <1>8, <1>9, <1>10
<1>16. MatchedBy(confirmed, ps, ts)
  <2>0. plates' = P /\ tags' = T
    BY <1>5
  <2>1. confirmed \in SUBSET (plates' \X tags') /\ plates' \subseteq ps /\ tags' \subseteq ts
    BY <1>5, <1>6, <1>15
  <2>2. Ordered(plates') /\ Ordered(tags')
    BY <1>5, <1>7
  <2>3. \A p \in plates' : Moment - p.mono <= 2 * Window
    BY <1>5, <1>6
  <2>4. \A p \in plates', t \in tags' : Apart(p, t) <= Window =>
         \E c \in plates' \X tags' : (c[1] = p \/ c[2] = t) /\ emitted'[Key(c)] # Never
    BY <2>0, <1>13
  <2>5. QED
    BY <1>5, <1>10, <1>14, <2>1, <2>2, <2>3, <2>4, Zenon DEF MatchedBy
<1>17. QED
  BY <1>16

LEMMA IntervalGrows ==
  ASSUME NEW l \in Int, NEW a \in Int, NEW b \in Int, a <= b
  PROVE  l .. a \subseteq l .. b
  OBVIOUS

LEMMA DoubleGrows ==
  ASSUME NEW a \in Nat, NEW b \in Nat, b >= a
  PROVE  /\ 2 * a <= 2 * b /\ 2 * a \in Int /\ 2 * b \in Int
         /\ 2 * a + 1 <= 2 * b + 1 /\ 2 * a + 1 \in Int /\ 2 * b + 1 \in Int
  OBVIOUS

(* Reads that were in a buffer still are reads of the gate.                  *)
LEMMA ReadsStay ==
  ASSUME CorrelatorTypeOK, NEW values,
         now' \in Nat, now' >= now,
         arrived' \in [{"plate", "tag"} -> 0 .. MaxReads],
         \A kind \in {"plate", "tag"} : arrived'[kind] >= arrived[kind]
  PROVE  \A kind \in {"plate", "tag"} : Read(kind, values) \subseteq Read(kind, values)'
<1>1. TAKE kind \in {"plate", "tag"}
<1>2. arrived[kind] \in Nat /\ arrived'[kind] \in Nat /\ arrived'[kind] >= arrived[kind]
      /\ now \in Nat /\ now' \in Nat /\ now' >= now /\ MaxDelay \in Nat
  BY CorrelatorBoundsAssumption DEF CorrelatorTypeOK
<1>3. /\ 1 .. arrived[kind] \subseteq 1 .. arrived'[kind]
      /\ 0 .. Buffered \subseteq 0 .. Buffered'
      /\ -MaxDelay .. now \subseteq -MaxDelay .. now'
  <2>1. 2 * now <= 2 * now' /\ 2 * now \in Int /\ 2 * now' \in Int
    BY <1>2, DoubleGrows
  <2>2. 1 .. arrived[kind] \subseteq 1 .. arrived'[kind]
    BY <1>2, IntervalGrows
  <2>3. 0 .. 2 * now \subseteq 0 .. 2 * now'
    <3>1. PICK a, b \in Int : a = 2 * now /\ b = 2 * now' /\ a <= b
      BY <2>1
    <3>2. 0 .. a \subseteq 0 .. b
      BY <3>1, IntervalGrows
    <3>3. QED
      BY <3>1, <3>2, Zenon
  <2>4. -MaxDelay .. now \subseteq -MaxDelay .. now'
    <3>1. -MaxDelay \in Int
      BY <1>2
    <3>2. QED
      BY <1>2, <3>1, IntervalGrows
  <2>5. QED
    BY <2>2, <2>3, <2>4 DEF Buffered
<1>4. QED
  BY <1>3 DEF Read

LEMMA EventsStay ==
  ASSUME CorrelatorTypeOK, now' \in Nat, now' >= now,
         arrived' \in [{"plate", "tag"} -> 0 .. MaxReads],
         \A kind \in {"plate", "tag"} : arrived'[kind] >= arrived[kind]
  PROVE  /\ \A e \in events : e \in [plate : Read("plate", Plate), tag : Read("tag", Tag),
                                    at : 0 .. Moment]'
         /\ {Never} \union 0 .. Moment \subseteq ({Never} \union 0 .. Moment)'
         /\ 0 .. Moment \subseteq (0 .. Moment)'
<1>1. Read("plate", Plate) \subseteq Read("plate", Plate)'
      /\ Read("tag", Tag) \subseteq Read("tag", Tag)'
  BY ReadsStay
<1>2. now \in Nat
  BY CorrelatorBoundsAssumption DEF CorrelatorTypeOK
<1>3. 0 .. Moment \subseteq (0 .. Moment)'
  <2>1. 2 * now + 1 <= 2 * now' + 1 /\ 2 * now + 1 \in Int /\ 2 * now' + 1 \in Int
    BY <1>2, DoubleGrows
  <2>2. PICK a, b \in Int : a = 2 * now + 1 /\ b = 2 * now' + 1 /\ a <= b
    BY <2>1
  <2>3. 0 .. a \subseteq 0 .. b
    BY <2>2, IntervalGrows
  <2>4. QED
    BY <2>2, <2>3, Zenon DEF Moment
<1>4. \A e \in events : e \in [plate : Read("plate", Plate)', tag : Read("tag", Tag)',
                              at : (0 .. Moment)']
  BY <1>1, <1>3 DEF CorrelatorTypeOK
<1>5. QED
  BY <1>3, <1>4

LEMMA MatchKeepsReadsInv ==
  ASSUME ReadsInv, NEW ps, NEW ts, IdsAreGivenOnce(ps, ts), Match(ps, ts),
         UNCHANGED now, arrived' \in [{"plate", "tag"} -> 0 .. MaxReads],
         \A kind \in {"plate", "tag"} : arrived'[kind] >= arrived[kind],
         ps \in SUBSET Read("plate", Plate)', ts \in SUBSET Read("tag", Tag)'
  PROVE  ReadsInv' /\ OneReadOneConfirmation
<1>0. /\ CorrelatorTypeOK /\ EventsAreRemembered /\ SamePairOnce
      /\ now \in Nat /\ Moment' = Moment /\ Moment \in Nat
      /\ Buffered \in Nat /\ Buffered' = Buffered /\ Buffered < Moment
  BY CorrelatorBoundsAssumption DEF ReadsInv, CorrelatorTypeOK, Moment, Buffered
<1>1. /\ ps \in SUBSET [id : Nat, value : Plate, mono : 0 .. Buffered, ts : Int]
      /\ ts \in SUBSET [id : Nat, value : Tag, mono : 0 .. Buffered, ts : Int]
  <2>1. 1 .. arrived'["plate"] \subseteq Nat /\ 1 .. arrived'["tag"] \subseteq Nat
        /\ -MaxDelay .. now' \subseteq Int
    OBVIOUS
  <2>2. Read("plate", Plate)' \subseteq [id : Nat, value : Plate, mono : 0 .. Buffered, ts : Int]
        /\ Read("tag", Tag)' \subseteq [id : Nat, value : Tag, mono : 0 .. Buffered, ts : Int]
    BY <1>0, <2>1 DEF Read
  <2>3. QED
    BY <2>2
<1>2. PICK confirmed : MatchedBy(confirmed, ps, ts)
  BY <1>0, <1>1, MatchOutcome
<1>3. PICK new : new = {[plate |-> c[1], tag |-> c[2], at |-> Moment] : c \in confirmed}
  OBVIOUS
<1>4. events' = events \union new
  BY <1>2, <1>3, Zenon DEF MatchedBy
<1>5. /\ confirmed \in SUBSET (plates' \X tags') /\ plates' \subseteq ps /\ tags' \subseteq ts
      /\ Ordered(plates') /\ Ordered(tags')
  BY <1>2, Zenon DEF MatchedBy
<1>6. \A p \in plates' : /\ Moment - p.mono <= 2 * Window /\ p.mono < Moment
                        /\ p.mono \in Nat /\ p.value \in Plate
  <2>1. \A p \in plates' : Moment - p.mono <= 2 * Window
    BY <1>2, Zenon DEF MatchedBy
  <2>2. \A p \in plates' : p.mono \in 0 .. Buffered /\ p.value \in Plate
    BY <1>1, <1>5
  <2>3. QED
    BY <1>0, <2>1, <2>2
<1>7. \A t \in tags' : t.value \in Tag
  BY <1>1, <1>5
<1>8. ASSUME NEW e \in new
      PROVE  /\ <<e.plate, e.tag>> \in confirmed /\ e.at = Moment
             /\ e.plate \in plates' /\ e.tag \in tags'
             /\ EventKey(e) = Key(<<e.plate, e.tag>>) /\ EventKey(e) \in Plate \X Tag
             /\ e \in [plate : Read("plate", Plate)', tag : Read("tag", Tag)', at : (0 .. Moment)']
             /\ e = [plate |-> e.plate, tag |-> e.tag, at |-> Moment]
  <2>1. PICK c \in confirmed : e = [plate |-> c[1], tag |-> c[2], at |-> Moment]
    BY <1>3
  <2>2. c \in plates' \X tags' /\ c = <<c[1], c[2]>>
    BY <1>5
  <2>3. e.plate = c[1] /\ e.tag = c[2] /\ e.at = Moment
    BY <2>1
  <2>4. e.plate \in plates' /\ e.tag \in tags' /\ <<e.plate, e.tag>> \in confirmed
    BY <2>2, <2>3
  <2>5. EventKey(e) = Key(<<e.plate, e.tag>>) /\ EventKey(e) \in Plate \X Tag
    BY <1>6, <1>7, <2>4 DEF EventKey, Key
  <2>6. Moment \in (0 .. Moment)'
    BY <1>0
  <2>7. e.plate \in Read("plate", Plate)' /\ e.tag \in Read("tag", Tag)'
    BY <1>5, <2>4
  <2>8. QED
    BY <2>1, <2>3, <2>4, <2>5, <2>6, <2>7
<1>10. \A k \in Plate \X Tag :
         /\ (\E c \in confirmed : Key(c) = k) => emitted'[k] = Moment
         /\ ~(\E c \in confirmed : Key(c) = k) => emitted'[k] = emitted[k]
  <2>1. emitted' = [k \in Plate \X Tag |->
                     IF \E c \in confirmed : Key(c) = k THEN Moment ELSE emitted[k]]
    BY <1>2, Zenon DEF MatchedBy
  <2>2. QED
    BY <2>1
<1>11. emitted' \in [Plate \X Tag -> {Never} \union 0 .. Moment]
  <2>1. emitted' = [k \in Plate \X Tag |->
                     IF \E c \in confirmed : Key(c) = k THEN Moment ELSE emitted[k]]
    BY <1>2, Zenon DEF MatchedBy
  <2>2. \A k \in Plate \X Tag : emitted[k] \in {Never} \union 0 .. Moment
    BY <1>0 DEF CorrelatorTypeOK
  <2>3. Moment \in 0 .. Moment
    BY <1>0
  <2>4. QED
    BY <2>1, <2>2, <2>3
<1>12. \A e \in events : /\ EventKey(e) \in Plate \X Tag /\ e.at \in 0 .. Moment
                        /\ e.plate.mono \in Nat
  <2>1. ASSUME NEW e \in events
        PROVE  EventKey(e) \in Plate \X Tag /\ e.at \in 0 .. Moment /\ e.plate.mono \in Nat
    <3>1. e.plate \in Read("plate", Plate) /\ e.tag \in Read("tag", Tag) /\ e.at \in 0 .. Moment
      BY <1>0 DEF CorrelatorTypeOK
    <3>2. e.plate.value \in Plate /\ e.tag.value \in Tag /\ e.plate.mono \in 0 .. Buffered
      BY <3>1 DEF Read
    <3>3. QED
      BY <3>1, <3>2, <1>0 DEF EventKey
  <2>2. QED
    BY <2>1
<1>13. CorrelatorTypeOK'
  <2>1. \A e \in events : e \in [plate : Read("plate", Plate)', tag : Read("tag", Tag)',
                                at : (0 .. Moment)']
    BY <1>0, EventsStay
  <2>2. events' \in SUBSET [plate : Read("plate", Plate)', tag : Read("tag", Tag)',
                           at : (0 .. Moment)']
    BY <1>4, <1>8, <2>1
  <2>3. plates' \in SUBSET Read("plate", Plate)' /\ tags' \in SUBSET Read("tag", Tag)'
    BY <1>5
  <2>4. emitted' \in [Plate \X Tag -> {Never} \union 0 .. Moment']
    BY <1>0, <1>11
  <2>5. now' \in 0 .. MaxNow
    BY <1>0 DEF CorrelatorTypeOK
  <2>6. QED
    BY <2>2, <2>3, <2>4, <2>5 DEF CorrelatorTypeOK
<1>14. IdsAreGivenOnce(plates, tags)'
  <2>1. ASSUME NEW e \in events'
        PROVE  /\ \A p \in plates' : p.id = e.plate.id => p = e.plate
               /\ \A t \in tags' : t.id = e.tag.id => t = e.tag
    <3>1. CASE e \in events
      BY <1>5, <3>1 DEF IdsAreGivenOnce
    <3>2. CASE e \in new
      BY <1>5, <1>8, <3>2 DEF Ordered
    <3>3. QED
      BY <1>4, <3>1, <3>2
  <2>2. QED
    BY <1>5, <2>1 DEF IdsAreGivenOnce, Ordered
<1>15. EventsAreRemembered'
  <2>1. ASSUME NEW e \in events'
        PROVE  /\ e.plate.mono < e.at
               /\ emitted'[EventKey(e)] # Never => e.at <= emitted'[EventKey(e)]
               /\ emitted'[EventKey(e)] = Never => Moment' - e.at > 8 * Window
    <3>1. CASE e \in events
      <4>1. /\ e.plate.mono < e.at
            /\ emitted[EventKey(e)] # Never => e.at <= emitted[EventKey(e)]
            /\ emitted[EventKey(e)] = Never => Moment - e.at > 8 * Window
        BY <1>0, <3>1 DEF EventsAreRemembered
      <4>2. EventKey(e) \in Plate \X Tag /\ e.at <= Moment
        BY <1>0, <1>12, <3>1
      <4>3. Moment # Never
        BY <1>0 DEF Never
      <4>4. QED
        BY <1>0, <1>10, <4>1, <4>2, <4>3
    <3>2. CASE e \in new
      <4>1. e.plate.mono < e.at /\ e.at = Moment
        BY <1>6, <1>8, <3>2
      <4>2. emitted'[EventKey(e)] = Moment
        BY <1>8, <1>10, <3>2
      <4>3. QED
        BY <1>0, <4>1, <4>2 DEF Never
    <3>3. QED
      BY <1>4, <3>1, <3>2
  <2>2. ASSUME NEW k \in Plate \X Tag, emitted'[k] # Never
        PROVE  \E e \in events' : EventKey(e) = k
    <3>1. CASE \E c \in confirmed : Key(c) = k
      <4>1. PICK c \in confirmed : Key(c) = k
        BY <3>1
      <4>2. PICK e : e = [plate |-> c[1], tag |-> c[2], at |-> Moment]
        OBVIOUS
      <4>3. e \in new /\ EventKey(e) = k
        BY <1>3, <4>1, <4>2 DEF EventKey, Key
      <4>4. QED
        BY <1>4, <4>3
    <3>2. CASE ~\E c \in confirmed : Key(c) = k
      BY <1>0, <1>4, <1>10, <2>2, <3>2 DEF EventsAreRemembered
    <3>3. QED
      BY <3>1, <3>2
  <2>3. QED
    BY <2>1, <2>2 DEF EventsAreRemembered, EventKey
<1>16. ASSUME NEW e \in new, NEW f \in events
       PROVE  ~(e.plate.id = f.plate.id /\ e.tag.id = f.tag.id)
  <2>1. SUFFICES ASSUME e.plate.id = f.plate.id, e.tag.id = f.tag.id PROVE FALSE
    OBVIOUS
  <2>2. e.plate = f.plate /\ e.tag = f.tag
    BY <1>5, <1>8, <2>1 DEF IdsAreGivenOnce
  <2>3. EventKey(f) = Key(<<e.plate, e.tag>>) /\ ~Suppressed(emitted[EventKey(f)])
    <3>1. \A c \in confirmed : ~Suppressed(emitted[Key(c)])
      BY <1>2, Zenon DEF MatchedBy
    <3>2. QED
      BY <1>8, <2>2, <3>1 DEF EventKey
  <2>4. Moment - f.plate.mono <= 2 * Window /\ f.plate.mono < f.at /\ f.at \in 0 .. Moment
        /\ f.plate.mono \in Nat
    BY <1>0, <1>6, <1>8, <1>12, <2>2 DEF EventsAreRemembered
  <2>5. Window \in Nat
    BY CorrelatorBoundsAssumption
  <2>6. CASE emitted[EventKey(f)] = Never
    <3>1. Moment - f.at > 8 * Window
      BY <1>0, <2>6 DEF EventsAreRemembered
    <3>2. QED
      BY <1>0, <2>4, <2>5, <3>1
  <2>7. CASE emitted[EventKey(f)] # Never
    <3>1. f.at <= emitted[EventKey(f)]
      BY <1>0, <2>7 DEF EventsAreRemembered
    <3>2. emitted[EventKey(f)] \in 0 .. Moment
      BY <1>0, <1>12, <2>7 DEF CorrelatorTypeOK
    <3>3. Moment - emitted[EventKey(f)] < 2 * Window
      BY <1>0, <2>4, <2>5, <3>1, <3>2
    <3>4. QED
      BY <2>3, <2>7, <3>3 DEF Suppressed
  <2>8. QED
    BY <2>6, <2>7
<1>17. ASSUME NEW e \in new, NEW f \in new,
              e.plate.id = f.plate.id \/ e.tag.id = f.tag.id
       PROVE  e = f
  <2>1. e.plate = f.plate \/ e.tag = f.tag
    BY <1>5, <1>8, <1>17 DEF Ordered
  <2>2. \A c, d \in confirmed : c[1] = d[1] \/ c[2] = d[2] => c = d
    BY <1>2 DEF MatchedBy, Share
  <2>3. <<e.plate, e.tag>> = <<f.plate, f.tag>>
    BY <1>8, <2>1, <2>2
  <2>4. e.plate = f.plate /\ e.tag = f.tag
    BY <2>3
  <2>5. e = [plate |-> e.plate, tag |-> e.tag, at |-> Moment]
         /\ f = [plate |-> f.plate, tag |-> f.tag, at |-> Moment]
    BY <1>8
  <2>6. QED
    BY <2>4, <2>5
<1>18. SamePairOnce'
  BY <1>0, <1>4, <1>16, <1>17 DEF SamePairOnce
<1>19. NoReadsLeftOver'
  <2>1. ASSUME NEW p \in plates', NEW t \in tags', Apart(p, t) <= Window
        PROVE  \E e \in events' : e.plate.value = p.value \/ e.tag.value = t.value
    <3>1. PICK c \in plates' \X tags' : (c[1] = p \/ c[2] = t) /\ emitted'[Key(c)] # Never
      BY <1>2, <2>1 DEF MatchedBy
    <3>2. Key(c) \in Plate \X Tag
      BY <1>6, <1>7 DEF Key
    <3>3. PICK e \in events' : EventKey(e) = Key(c)
      BY <1>15, <3>1, <3>2 DEF EventsAreRemembered, EventKey
    <3>4. e.plate.value = c[1].value /\ e.tag.value = c[2].value
      BY <3>3 DEF EventKey, Key
    <3>5. QED
      BY <3>1, <3>4
  <2>2. QED
    BY <2>1 DEF NoReadsLeftOver, Apart
<1>20. OneReadOneConfirmation
  BY <1>4, <1>17 DEF OneReadOneConfirmation
<1>21. QED
  BY <1>13, <1>14, <1>15, <1>18, <1>19, <1>20 DEF ReadsInv

LEMMA ReadIsFresh ==
  ASSUME CorrelatorTypeOK, NEW r, NEW kind \in {"plate", "tag"},
         r.id = arrived[kind] + 1, r.id \in Nat, r.ts \in Int,
         NEW buffer, Ordered(buffer), \A q \in buffer : q.id \in 1 .. arrived[kind]
  PROVE  Ordered(buffer \union {r})
<1>1. arrived[kind] \in Nat
  BY DEF CorrelatorTypeOK
<1>2. \A q \in buffer : q.id # r.id
  BY <1>1
<1>3. IsFiniteSet(buffer \union {r})
  BY FS_AddElement DEF Ordered
<1>4. QED
  BY <1>2, <1>3 DEF Ordered

(* The invariant of the gate in one step of any kind.                        *)
LEMMA ArrivalKeepsReadsInv ==
  ASSUME ReadsInv, NEW delay \in 0 .. MaxDelay,
         \/ \E v \in Plate : OnAnpr(v, delay)
         \/ \E v \in Tag : OnRfid(v, delay)
  PROVE  ReadsInv' /\ OneReadOneConfirmation
<1>1. CorrelatorTypeOK /\ IdsAreGivenOnce(plates, tags)
  BY DEF ReadsInv
<1>2. now \in Nat /\ MaxDelay \in Nat /\ delay \in Nat /\ delay <= MaxDelay
       /\ arrived["plate"] \in Nat /\ arrived["tag"] \in Nat
  BY <1>1, CorrelatorBoundsAssumption DEF CorrelatorTypeOK
<1>3. ASSUME NEW kind \in {"plate", "tag"}, Arrives(kind)
      PROVE  /\ UNCHANGED now /\ arrived' \in [{"plate", "tag"} -> 0 .. MaxReads]
             /\ \A k \in {"plate", "tag"} : arrived'[k] >= arrived[k]
             /\ \A values : \A v \in values : ReadOf(kind, v, delay) \in Read(kind, values)'
  <2>1. UNCHANGED now /\ arrived' = [arrived EXCEPT ![kind] = @ + 1] /\ arrived[kind] < MaxReads
    BY <1>3 DEF Arrives
  <2>2. arrived' \in [{"plate", "tag"} -> 0 .. MaxReads]
    BY <1>1, <2>1, CorrelatorBoundsAssumption DEF CorrelatorTypeOK
  <2>3. \A k \in {"plate", "tag"} : arrived'[k] >= arrived[k]
    BY <1>1, <1>2, <2>1 DEF CorrelatorTypeOK
  <2>4. arrived[kind] + 1 \in 1 .. arrived'[kind] /\ Buffered \in 0 .. Buffered'
         /\ now - delay \in -MaxDelay .. now'
    BY <1>1, <1>2, <2>1 DEF CorrelatorTypeOK, Buffered
  <2>5. ASSUME NEW values, NEW v \in values PROVE ReadOf(kind, v, delay) \in Read(kind, values)'
    BY <2>4 DEF ReadOf, Read
  <2>6. QED
    BY <2>1, <2>2, <2>3, <2>5
<1>4. /\ \A e \in events : e.plate.id \in 1 .. arrived["plate"] /\ e.tag.id \in 1 .. arrived["tag"]
      /\ \A p \in plates : p.id \in 1 .. arrived["plate"]
      /\ \A t \in tags : t.id \in 1 .. arrived["tag"]
  BY <1>1 DEF CorrelatorTypeOK, Read
<1>5. CASE \E v \in Plate : OnAnpr(v, delay)
  <2>1. PICK v \in Plate : Arrives("plate")
                            /\ Match(plates \union {ReadOf("plate", v, delay)}, tags)
    BY <1>5 DEF OnAnpr
  <2>2. PICK r : r = ReadOf("plate", v, delay)
    OBVIOUS
  <2>3. r.id = arrived["plate"] + 1 /\ r.ts \in Int
    BY <1>2, <2>2 DEF ReadOf
  <2>4. Ordered(plates \union {r})
    BY <1>1, <1>2, <1>4, <2>3, ReadIsFresh DEF IdsAreGivenOnce
  <2>5. IdsAreGivenOnce(plates \union {r}, tags)
    BY <1>1, <1>2, <1>4, <2>3, <2>4 DEF IdsAreGivenOnce
  <2>6. plates \union {r} \in SUBSET Read("plate", Plate)' /\ tags \in SUBSET Read("tag", Tag)'
    <3>1. r \in Read("plate", Plate)'
      BY <1>3, <2>1, <2>2
    <3>2. now' \in Nat /\ now' >= now
      BY <1>2, <1>3, <2>1
    <3>3. Read("plate", Plate) \subseteq Read("plate", Plate)'
           /\ Read("tag", Tag) \subseteq Read("tag", Tag)'
      BY <1>1, <1>3, <2>1, <3>2, ReadsStay
    <3>4. QED
      BY <1>1, <3>1, <3>3 DEF CorrelatorTypeOK
  <2>7. QED
    BY <1>3, <2>1, <2>2, <2>5, <2>6, MatchKeepsReadsInv
<1>6. CASE \E v \in Tag : OnRfid(v, delay)
  <2>1. PICK v \in Tag : Arrives("tag")
                          /\ Match(plates, tags \union {ReadOf("tag", v, delay)})
    BY <1>6 DEF OnRfid
  <2>2. PICK r : r = ReadOf("tag", v, delay)
    OBVIOUS
  <2>3. r.id = arrived["tag"] + 1 /\ r.ts \in Int
    BY <1>2, <2>2 DEF ReadOf
  <2>4. Ordered(tags \union {r})
    BY <1>1, <1>2, <1>4, <2>3, ReadIsFresh DEF IdsAreGivenOnce
  <2>5. IdsAreGivenOnce(plates, tags \union {r})
    BY <1>1, <1>2, <1>4, <2>3, <2>4 DEF IdsAreGivenOnce
  <2>6. plates \in SUBSET Read("plate", Plate)' /\ tags \union {r} \in SUBSET Read("tag", Tag)'
    <3>1. r \in Read("tag", Tag)'
      BY <1>3, <2>1, <2>2
    <3>2. now' \in Nat /\ now' >= now
      BY <1>2, <1>3, <2>1
    <3>3. Read("plate", Plate) \subseteq Read("plate", Plate)'
           /\ Read("tag", Tag) \subseteq Read("tag", Tag)'
      BY <1>1, <1>3, <2>1, <3>2, ReadsStay
    <3>4. QED
      BY <1>1, <3>1, <3>3 DEF CorrelatorTypeOK
  <2>7. QED
    BY <1>3, <2>1, <2>2, <2>5, <2>6, MatchKeepsReadsInv
<1>7. QED
  BY <1>5, <1>6

LEMMA ClockKeepsReadsInv ==
  ASSUME ReadsInv, Tick \/ GcEmitted
  PROVE  ReadsInv'
<1>1. /\ CorrelatorTypeOK /\ IdsAreGivenOnce(plates, tags) /\ EventsAreRemembered
      /\ SamePairOnce /\ NoReadsLeftOver
  BY DEF ReadsInv
<1>2. /\ now \in Nat /\ now' \in Nat /\ now' >= now /\ now' \in 0 .. MaxNow
      /\ UNCHANGED <<plates, tags, arrived, events>>
      /\ Moment \in Nat /\ Moment' \in Nat /\ Moment' >= Moment
  BY <1>1, CorrelatorBoundsAssumption DEF CorrelatorTypeOK, Tick, GcEmitted, Moment
<1>3. /\ \A e \in events : e \in [plate : Read("plate", Plate), tag : Read("tag", Tag),
                                 at : 0 .. Moment]'
      /\ {Never} \union 0 .. Moment \subseteq ({Never} \union 0 .. Moment)'
  BY <1>1, <1>2, EventsStay DEF CorrelatorTypeOK
<1>4. Read("plate", Plate) \subseteq Read("plate", Plate)'
       /\ Read("tag", Tag) \subseteq Read("tag", Tag)'
  BY <1>1, <1>2, ReadsStay DEF CorrelatorTypeOK
<1>5. \A k \in Plate \X Tag :
        \/ emitted'[k] = emitted[k]
        \/ emitted'[k] = Never /\ emitted[k] # Never /\ Moment - emitted[k] > 8 * Window
  BY <1>1 DEF Tick, GcEmitted, Stale, CorrelatorTypeOK
<1>6. emitted' \in [Plate \X Tag -> ({Never} \union 0 .. Moment)']
  <2>1. emitted' \in [Plate \X Tag -> {Never} \union 0 .. Moment]
    BY <1>1 DEF Tick, GcEmitted, CorrelatorTypeOK
  <2>2. QED
    BY <1>3, <2>1
<1>7. CorrelatorTypeOK'
  BY <1>1, <1>2, <1>3, <1>4, <1>6 DEF CorrelatorTypeOK
<1>8. \A e \in events : EventKey(e) \in Plate \X Tag /\ e.at \in 0 .. Moment
  <2>1. ASSUME NEW e \in events PROVE EventKey(e) \in Plate \X Tag /\ e.at \in 0 .. Moment
    <3>1. e.plate \in Read("plate", Plate) /\ e.tag \in Read("tag", Tag) /\ e.at \in 0 .. Moment
      BY <1>1 DEF CorrelatorTypeOK
    <3>2. QED
      BY <3>1 DEF EventKey, Read
  <2>2. QED
    BY <2>1
<1>9. EventsAreRemembered'
  <2>1. ASSUME NEW e \in events
        PROVE  /\ e.plate.mono < e.at
               /\ emitted'[EventKey(e)] # Never => e.at <= emitted'[EventKey(e)]
               /\ emitted'[EventKey(e)] = Never => Moment' - e.at > 8 * Window
    <3>1. /\ e.plate.mono < e.at /\ e.at \in Nat /\ EventKey(e) \in Plate \X Tag
          /\ emitted[EventKey(e)] # Never => e.at <= emitted[EventKey(e)]
          /\ emitted[EventKey(e)] = Never => Moment - e.at > 8 * Window
      BY <1>1, <1>8 DEF EventsAreRemembered
    <3>2. emitted[EventKey(e)] \in {Never} \union 0 .. Moment
      BY <1>1, <3>1 DEF CorrelatorTypeOK
    <3>3. Window \in Nat
      BY CorrelatorBoundsAssumption
    <3>4. CASE emitted'[EventKey(e)] = emitted[EventKey(e)]
      BY <1>2, <3>1, <3>3, <3>4
    <3>5. CASE /\ emitted'[EventKey(e)] = Never /\ emitted[EventKey(e)] # Never
               /\ Moment - emitted[EventKey(e)] > 8 * Window
      BY <1>2, <3>1, <3>2, <3>3, <3>5
    <3>6. QED
      BY <1>5, <3>1, <3>4, <3>5
  <2>2. ASSUME NEW k \in Plate \X Tag, emitted'[k] # Never
        PROVE  \E e \in events : EventKey(e) = k
    BY <1>1, <1>5, <2>2 DEF EventsAreRemembered
  <2>3. QED
    BY <1>2, <2>1, <2>2 DEF EventsAreRemembered, EventKey
<1>10. IdsAreGivenOnce(plates, tags)' /\ SamePairOnce' /\ NoReadsLeftOver'
  BY <1>1, <1>2 DEF IdsAreGivenOnce, Ordered, SamePairOnce, NoReadsLeftOver, Apart
<1>11. QED
  BY <1>7, <1>9, <1>10 DEF ReadsInv

LEMMA ReadsInvariant == CorrelatorSpec => []ReadsInv
<1>1. CorrelatorInit => ReadsInv
  <2>1. SUFFICES ASSUME CorrelatorInit PROVE ReadsInv
    OBVIOUS
  <2>2. Ordered({})
    BY FS_EmptySet DEF Ordered
  <2>3. IdsAreGivenOnce(plates, tags) /\ EventsAreRemembered /\ SamePairOnce /\ NoReadsLeftOver
    BY <2>1, <2>2 DEF CorrelatorInit, IdsAreGivenOnce, EventsAreRemembered, SamePairOnce,
                      NoReadsLeftOver
  <2>4. CorrelatorTypeOK
    BY <2>1, CorrelatorBoundsAssumption DEF CorrelatorInit, CorrelatorTypeOK
  <2>5. QED
    BY <2>3, <2>4 DEF ReadsInv
<1>2. ReadsInv /\ CorrelatorNext => ReadsInv'
  BY ArrivalKeepsReadsInv, ClockKeepsReadsInv DEF CorrelatorNext
<1>3. ReadsInv /\ UNCHANGED correlatorVars => ReadsInv'
  BY DEF ReadsInv, correlatorVars, CorrelatorTypeOK, Read, Buffered, Moment, IdsAreGivenOnce,
         Ordered, EventsAreRemembered, EventKey, SamePairOnce, NoReadsLeftOver, Apart
<1>4. QED
  BY <1>1, <1>2, <1>3, PTL DEF CorrelatorSpec

(* The buffers, the memory of confirmations and the confirmations are well   *)
(* typed in every state of a gate.                                           *)
THEOREM CorrelatorTypeCorrect == CorrelatorSpec => []CorrelatorTypeOK
  BY ReadsInvariant, PTL DEF ReadsInv

(* However reads arrive, are delayed and expire, no two reads are confirmed  *)
(* with each other twice: what _match pairs again at every arrival is still  *)
(* in emitted while its plate read is in the buffer.                         *)
THEOREM SamePairConfirmedOnce == CorrelatorSpec => []SamePairOnce
  BY ReadsInvariant, PTL DEF ReadsInv

(* A plate and a tag of one window never wait side by side: the greedy pass  *)
(* has used one of the two, and the pair that used it was confirmed by this  *)
(* pass or by one that emitted still remembers.                              *)
THEOREM NoPartnersWait == CorrelatorSpec => []NoReadsLeftOver
  BY ReadsInvariant, PTL DEF ReadsInv

(* 'A given read confirms at most once' holds of one call of _match: two     *)
(* confirmations of one step share neither read.  Across calls it does not   *)
(* hold, and ReadConfirmsOnce says so of the whole run.                      *)
THEOREM OnePassConfirmsAReadOnce ==
  CorrelatorSpec => [][OneReadOneConfirmation]_correlatorVars
<1>1. ReadsInv /\ CorrelatorNext => OneReadOneConfirmation
  <2>1. ASSUME Tick \/ GcEmitted PROVE OneReadOneConfirmation
    BY <2>1 DEF Tick, GcEmitted, OneReadOneConfirmation
  <2>2. QED
    BY <2>1, ArrivalKeepsReadsInv DEF CorrelatorNext
<1>2. QED
  BY <1>1, ReadsInvariant, PTL DEF CorrelatorSpec

=============================================================================
