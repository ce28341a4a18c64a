------------------------ MODULE EmailIngest_proofs -------------------------
(***************************************************************************)
(* Proofs about EmailIngest for every mailbox, every set of operators and  *)
(* attachments and any number of moves and deaths: what PROCESSED and      *)
(* PROCESSING mean, and that every failure has its error row.              *)
(***************************************************************************)
EXTENDS EmailIngest, TLAPS

RequestRow ==
  [pc : {"idle", "fetch", "clear", "part", "import", "note", "errors", "result"},
   commit : BOOLEAN, override : BOOLEAN, uid : 0..MaxMoves + 1, at : Nat,
   outcome : PartOutcomes \union {"none"}, known : {"absent", "reused", "duplicate"},
   review : BOOLEAN, tables : BOOLEAN, written : BOOLEAN, failed : BOOLEAN, errors : SUBSET Part]

Looping == {"part", "import", "note"}
Passing == Looping \union {"errors", "result"}

\* An attachment that landed, or that an import passed over in silence.
SomeSettled == \E j \in 1 .. Len(parts) : parts[j] \in landed \union silent
AllConfident == \A j \in 1 .. Len(parts) : parts[j] \in Confident

(* The attachment a request is at.                                           *)
AtFits(q) ==
  /\ q.pc \in Looping => q.at \in 1 .. Len(parts)
  /\ q.pc \in {"import", "note"} => parts[q.at] \in Confident
  /\ q.pc = "note" /\ q.commit /\ q.outcome = "written" => parts[q.at] \in landed
  /\ q.pc = "note" /\ q.commit /\ q.outcome # "raised" /\ ~Counts(parts[q.at], q.outcome)
       => parts[q.at] \in landed \union silent
  /\ q.pc \in {"fetch", "clear"} => ~q.written
  /\ q.pc \in {"errors", "result"} /\ ~q.review => Len(parts) >= 1 /\ q.at = Len(parts) + 1

(* What the counters of a request say of the attachments behind it.          *)
CountsFit(q) ==
  q.pc \in Passing =>
    /\ ~q.review => \A i \in 1 .. Len(parts) : i < q.at => parts[i] \in Confident
    /\ q.commit /\ q.written => SomeSettled
    /\ q.commit /\ ~q.failed /\ ~q.review /\ q.at > 1 => SomeSettled

ProcessedStands == mailStatus = "PROCESSED" => SomeSettled /\ AllConfident

MailInv ==
  /\ MailTypeOK
  /\ \A o \in Operator : AtFits(reader[o]) /\ CountsFit(reader[o])
  /\ ProcessedStands

LEMMA RowFields ==
  ASSUME NEW q \in RequestRow
  PROVE  /\ q.pc \in {"idle", "fetch", "clear", "part", "import", "note", "errors", "result"}
         /\ q.commit \in BOOLEAN /\ q.override \in BOOLEAN /\ q.uid \in 0..MaxMoves + 1
         /\ q.at \in Nat /\ q.outcome \in PartOutcomes \union {"none"}
         /\ q.known \in {"absent", "reused", "duplicate"}
         /\ q.review \in BOOLEAN /\ q.tables \in BOOLEAN
         /\ q.written \in BOOLEAN /\ q.failed \in BOOLEAN /\ q.errors \in SUBSET Part
BY DEF RequestRow

LEMMA TypeForm == MailTypeOK =>
  /\ parts \in Seq(Part) /\ reader \in [Operator -> RequestRow]
  /\ \A j \in 1 .. Len(parts) : parts[j] \in Part
BY DEF MailTypeOK, RequestRow

LEMMA EmptyRequest ==
  NoRequest \in RequestRow /\ NoRequest.pc = "idle"
<1>1. 0 \in 0 .. MaxMoves + 1
  BY MailBoundsAssumption
<1>2. QED
  BY <1>1 DEF NoRequest, RequestRow

(* A request that gets past an attachment: only its place, and the counters  *)
(* its caller has set.                                                       *)
LEMMA PassedShape ==
  ASSUME NEW o \in Operator, NEW q \in RequestRow, q.at \in 1 .. Len(parts)
  PROVE  LET d == Passed(o, q)
         IN /\ d \in RequestRow /\ d.at = q.at + 1
            /\ d.pc = IF q.at = Len(parts) THEN "errors" ELSE "part"
            /\ d.commit = q.commit /\ d.review = q.review /\ d.written = q.written
            /\ d.failed = q.failed /\ d.errors = q.errors
<1> DEFINE next == IF q.at = Len(parts) THEN "errors" ELSE "part"
           d == [q EXCEPT !.at = q.at + 1, !.outcome = "none", !.pc = next]
<1>1. next \in {"errors", "part"} /\ q.at + 1 \in Nat
  BY RowFields
<1> HIDE DEF next
<1>2. d \in RequestRow
  BY <1>1 DEF RequestRow
<1>3. /\ d.at = q.at + 1 /\ d.pc = next /\ d.commit = q.commit /\ d.review = q.review
      /\ d.written = q.written /\ d.failed = q.failed /\ d.errors = q.errors
  BY DEF RequestRow
<1>4. Passed(o, q) = d
  BY DEF Passed, next
<1> HIDE DEF d
<1>5. QED
  BY <1>2, <1>3, <1>4 DEF next

-----------------------------------------------------------------------------
(* What each step does to its own request                                   *)

LEMMA OthersFit ==
  ASSUME NEW q \in RequestRow, AtFits(q), CountsFit(q), parts' = parts,
         landed \subseteq landed', silent \subseteq silent'
  PROVE  /\ AtFits(q)' /\ CountsFit(q)'
         /\ SomeSettled => SomeSettled'
         /\ AllConfident => AllConfident'
BY DEF AtFits, CountsFit, SomeSettled, AllConfident

LEMMA ReadShape ==
  ASSUME MailTypeOK, NEW o \in Operator, NEW ask, ReadMessage(o, ask)
  PROVE  /\ reader'[o] \in RequestRow /\ reader'[o].pc = "fetch" /\ reader'[o].written = FALSE
         /\ reader' = [reader EXCEPT ![o] = reader'[o]]
<1> DEFINE d == [NoRequest EXCEPT !.pc = "fetch", !.commit = (ask # "preview"),
                                  !.override = (ask = "override"), !.uid = listed]
<1>1. listed \in 0 .. MaxMoves + 1
  BY MailBoundsAssumption DEF MailTypeOK
<1>2. d \in RequestRow
  BY <1>1, EmptyRequest DEF RequestRow
<1>3. d.pc = "fetch" /\ d.written = FALSE
  BY DEF NoRequest
<1>4. reader' = [reader EXCEPT ![o] = d]
  BY DEF ReadMessage
<1>5. reader'[o] = d
  BY <1>4, TypeForm
<1> HIDE DEF d
<1>6. QED
  BY <1>2, <1>3, <1>4, <1>5

LEMMA FetchShape ==
  ASSUME MailTypeOK, NEW o \in Operator, FetchMessage(o)
  PROVE  /\ reader'[o] \in RequestRow /\ reader'[o].pc = "clear"
         /\ reader'[o].commit = reader[o].commit /\ reader'[o].written = reader[o].written
         /\ reader' = [reader EXCEPT ![o] = reader'[o]]
<1> DEFINE q == reader[o]
           d == [q EXCEPT !.pc = "clear", !.uid = 0]
<1>1. reader' = [reader EXCEPT ![o] = d]
  BY DEF FetchMessage
<1>2. q \in RequestRow /\ 0 \in 0 .. MaxMoves + 1
  BY TypeForm, MailBoundsAssumption
<1> HIDE DEF q
<1>3. d \in RequestRow /\ d.pc = "clear" /\ d.commit = q.commit /\ d.written = q.written
  BY <1>2 DEF RequestRow
<1>4. reader'[o] = d
  BY <1>1, TypeForm
<1> HIDE DEF d
<1>5. QED
  BY <1>1, <1>3, <1>4 DEF q

LEMMA ClearShape ==
  ASSUME MailTypeOK, NEW o \in Operator, ClearErrors(o)
  PROVE  /\ reader'[o] \in RequestRow
         /\ reader' = [reader EXCEPT ![o] = reader'[o]]
         /\ reader'[o].commit = reader[o].commit /\ reader'[o].written = reader[o].written
         /\ \/ Len(parts) = 0 /\ reader'[o].pc = "result" /\ reader'[o].review = TRUE
            \/ Len(parts) >= 1 /\ reader'[o].pc = "part" /\ reader'[o].at = 1
<1> DEFINE q == reader[o]
           next == IF parts = <<>> THEN "result" ELSE "part"
           first == IF parts = <<>> THEN 0 ELSE 1
           review == (parts = <<>>)
           d == [q EXCEPT !.pc = next, !.at = first, !.review = review]
<1>1. reader' = [reader EXCEPT ![o] = d]
  BY DEF ClearErrors
<1>2. q \in RequestRow /\ next \in {"result", "part"} /\ first \in Nat /\ review \in BOOLEAN
  BY TypeForm
<1>3. \/ Len(parts) = 0 /\ next = "result" /\ review = TRUE
      \/ Len(parts) >= 1 /\ next = "part" /\ first = 1
  BY TypeForm
<1> HIDE DEF q, next, first, review
<1>4. /\ d \in RequestRow /\ d.pc = next /\ d.at = first /\ d.review = review
      /\ d.commit = q.commit /\ d.written = q.written
  BY <1>2 DEF RequestRow
<1>5. reader'[o] = d
  BY <1>1, TypeForm
<1> HIDE DEF d
<1>6. QED
  BY <1>1, <1>3, <1>4, <1>5 DEF q

LEMMA ReviewShape ==
  ASSUME MailTypeOK, NEW o \in Operator, Review(o), AtFits(reader[o])
  PROVE  /\ reader'[o] \in RequestRow
         /\ reader' = [reader EXCEPT ![o] = reader'[o]]
         /\ reader'[o].at = reader[o].at + 1 /\ reader'[o].review = TRUE
         /\ reader'[o].pc = IF reader[o].at = Len(parts) THEN "errors" ELSE "part"
         /\ reader'[o].errors = reader[o].errors \union {Current(o)}
         /\ reader'[o].commit = reader[o].commit /\ reader'[o].written = reader[o].written
         /\ Current(o) \in Part
<1> DEFINE q == reader[o]
           p == Current(o)
           l == [q EXCEPT !.review = TRUE, !.errors = @ \union {p}]
<1>1. q \in RequestRow /\ q.at \in 1 .. Len(parts) /\ p \in Part
  BY TypeForm DEF Review, AtFits, Looping, Current
<1>2. reader' = [reader EXCEPT ![o] = Passed(o, l)]
  BY DEF Review
<1> HIDE DEF q, p
<1>3. /\ l \in RequestRow /\ l.at = q.at /\ l.review = TRUE /\ l.errors = q.errors \union {p}
      /\ l.commit = q.commit /\ l.written = q.written
  BY <1>1 DEF RequestRow
<1> HIDE DEF l
<1>4. reader'[o] = Passed(o, l)
  BY <1>2, TypeForm
<1>5. /\ Passed(o, l) \in RequestRow /\ Passed(o, l).at = q.at + 1
      /\ Passed(o, l).pc = IF q.at = Len(parts) THEN "errors" ELSE "part"
      /\ Passed(o, l).review = TRUE /\ Passed(o, l).errors = q.errors \union {p}
      /\ Passed(o, l).commit = q.commit /\ Passed(o, l).written = q.written
  BY <1>1, <1>3, PassedShape
<1>6. QED
  BY <1>1, <1>2, <1>4, <1>5 DEF q, p

LEMMA LookUpShape ==
  ASSUME MailTypeOK, NEW o \in Operator, LookUp(o)
  PROVE  /\ reader'[o] \in RequestRow
         /\ reader' = [reader EXCEPT ![o] = reader'[o]]
         /\ reader'[o].pc = "import"
         /\ reader'[o].known = Known(Current(o), reader[o].override)
         /\ reader'[o].at = reader[o].at /\ reader'[o].review = reader[o].review
         /\ reader'[o].written = reader[o].written /\ reader'[o].failed = reader[o].failed
         /\ reader'[o].commit = reader[o].commit /\ reader'[o].errors = reader[o].errors
<1> DEFINE q == reader[o]
           known == Known(Current(o), q.override)
           d == [q EXCEPT !.pc = "import", !.known = known]
<1>1. reader' = [reader EXCEPT ![o] = d]
  BY DEF LookUp
<1>2. q \in RequestRow /\ known \in {"absent", "reused", "duplicate"}
  BY TypeForm DEF Known
<1>5. known = Known(Current(o), reader[o].override)
  OBVIOUS
<1> HIDE DEF q, known
<1>3. /\ d \in RequestRow /\ d.pc = "import" /\ d.known = known /\ d.at = q.at
      /\ d.review = q.review /\ d.written = q.written /\ d.failed = q.failed
      /\ d.commit = q.commit /\ d.errors = q.errors
  BY <1>2 DEF RequestRow
<1>4. reader'[o] = d
  BY <1>1, TypeForm
<1> HIDE DEF d
<1>6. QED
  BY <1>1, <1>3, <1>4, <1>5 DEF q

LEMMA ImportShape ==
  ASSUME MailTypeOK, NEW o \in Operator, NEW outcome \in PartOutcomes, Import(o, outcome)
  PROVE  /\ reader'[o] \in RequestRow
         /\ reader' = [reader EXCEPT ![o] = reader'[o]]
         /\ reader'[o].pc = "note" /\ reader'[o].outcome = outcome
         /\ reader'[o].at = reader[o].at /\ reader'[o].review = reader[o].review
         /\ reader'[o].written = reader[o].written /\ reader'[o].failed = reader[o].failed
         /\ reader'[o].commit = reader[o].commit /\ reader'[o].errors = reader[o].errors
<1> DEFINE q == reader[o]
           d == [q EXCEPT !.pc = "note", !.outcome = outcome, !.known = "absent"]
<1>1. reader' = [reader EXCEPT ![o] = d]
  BY DEF Import
<1>2. q \in RequestRow
  BY TypeForm
<1> HIDE DEF q
<1>3. /\ d \in RequestRow /\ d.pc = "note" /\ d.outcome = outcome /\ d.at = q.at
      /\ d.review = q.review /\ d.written = q.written /\ d.failed = q.failed
      /\ d.commit = q.commit /\ d.errors = q.errors
  BY <1>2 DEF RequestRow
<1>4. reader'[o] = d
  BY <1>1, TypeForm
<1> HIDE DEF d
<1>5. QED
  BY <1>1, <1>3, <1>4 DEF q

LEMMA NoteShape ==
  ASSUME MailTypeOK, NEW o \in Operator, Note(o), AtFits(reader[o])
  PROVE  LET q == reader[o] IN
         /\ reader'[o] \in RequestRow
         /\ reader' = [reader EXCEPT ![o] = reader'[o]]
         /\ reader'[o].at = q.at + 1 /\ reader'[o].review = q.review
         /\ reader'[o].pc = IF q.at = Len(parts) THEN "errors" ELSE "part"
         /\ reader'[o].errors = IF Explains(q, Current(o))
                                THEN q.errors \union {Current(o)} ELSE q.errors
         /\ reader'[o].commit = q.commit
         /\ reader'[o].written = (q.written \/ (q.commit /\ q.outcome = "written"))
         /\ reader'[o].failed
               = (q.failed \/ q.outcome = "raised" \/ Counts(Current(o), q.outcome))
         /\ Current(o) \in Part
<1> DEFINE q == reader[o]
           p == Current(o)
           tables == q.tables \/ q.outcome # "raised"
           failed == q.failed \/ q.outcome = "raised" \/ Counts(p, q.outcome)
           written == q.written \/ (q.commit /\ q.outcome = "written")
           errors == IF Explains(q, p) THEN q.errors \union {p} ELSE q.errors
           l == [q EXCEPT !.tables = tables, !.failed = failed, !.written = written,
                          !.errors = errors]
<1>1. q \in RequestRow /\ q.at \in 1 .. Len(parts) /\ p \in Part
  BY TypeForm DEF Note, AtFits, Looping, Current
<1>2. reader' = [reader EXCEPT ![o] = Passed(o, l)]
  BY DEF Note
<1>3. tables \in BOOLEAN /\ failed \in BOOLEAN /\ written \in BOOLEAN
      /\ errors \in SUBSET Part
  BY <1>1, RowFields DEF Counts
<1> HIDE DEF q, p, tables, failed, written, errors
<1>4. /\ l \in RequestRow /\ l.at = q.at /\ l.review = q.review /\ l.errors = errors
      /\ l.commit = q.commit /\ l.written = written /\ l.failed = failed
  BY <1>1, <1>3 DEF RequestRow
<1> HIDE DEF l
<1>5. reader'[o] = Passed(o, l)
  BY <1>2, TypeForm
<1>6. /\ Passed(o, l) \in RequestRow /\ Passed(o, l).at = q.at + 1
      /\ Passed(o, l).pc = IF q.at = Len(parts) THEN "errors" ELSE "part"
      /\ Passed(o, l).review = q.review /\ Passed(o, l).errors = errors
      /\ Passed(o, l).commit = q.commit /\ Passed(o, l).written = written
      /\ Passed(o, l).failed = failed
  BY <1>1, <1>4, PassedShape
<1>7. QED
  BY <1>1, <1>2, <1>5, <1>6 DEF q, p, written, failed, errors

LEMMA ErrorsShape ==
  ASSUME MailTypeOK, NEW o \in Operator, AddErrors(o)
  PROVE  /\ reader'[o] \in RequestRow
         /\ reader' = [reader EXCEPT ![o] = reader'[o]]
         /\ reader'[o].pc = "result"
         /\ reader'[o].at = reader[o].at /\ reader'[o].review = reader[o].review
         /\ reader'[o].written = reader[o].written /\ reader'[o].failed = reader[o].failed
         /\ reader'[o].commit = reader[o].commit
<1> DEFINE q == reader[o]
           d == [q EXCEPT !.pc = "result", !.errors = {}]
<1>1. reader' = [reader EXCEPT ![o] = d]
  BY DEF AddErrors
<1>2. q \in RequestRow
  BY TypeForm
<1> HIDE DEF q
<1>3. /\ d \in RequestRow /\ d.pc = "result" /\ d.at = q.at
      /\ d.review = q.review /\ d.written = q.written /\ d.failed = q.failed
      /\ d.commit = q.commit
  BY <1>2 DEF RequestRow
<1>4. reader'[o] = d
  BY <1>1, TypeForm
<1> HIDE DEF d
<1>5. QED
  BY <1>1, <1>3, <1>4 DEF q
-----------------------------------------------------------------------------
(* The invariant                                                            *)

(* A step that changes one request, keeps the attachments and forgets none   *)
(* that landed or was passed over, keeps what the other requests know.       *)
LEMMA OneRequestMoves ==
  ASSUME MailInv, NEW o \in Operator, reader'[o] \in RequestRow,
         reader' = [reader EXCEPT ![o] = reader'[o]],
         parts' = parts, landed \subseteq landed', landed' \subseteq Part,
         silent \subseteq silent', silent' \subseteq Part, filed' \subseteq Part,
         AtFits(reader[o])' /\ CountsFit(reader[o])',
         uid' \in 1..MaxMoves + 1 /\ listed' \in 1..MaxMoves + 1,
         mailStatus' \in MailStatuses,
         partStatus' \in [Part -> MailStatuses \ {"PROCESSING"}],
         partErrors' \subseteq Part, deaths' \in 0..MaxDeaths,
         ProcessedStands'
  PROVE  MailInv'
<1>1. reader' \in [Operator -> RequestRow] /\ \A f \in Operator \ {o} : reader'[f] = reader[f]
  BY TypeForm DEF MailInv
<1>2. MailTypeOK'
  BY <1>1 DEF MailInv, MailTypeOK, RequestRow
<1>3. ASSUME NEW f \in Operator PROVE (AtFits(reader[f]) /\ CountsFit(reader[f]))'
  <2>1. CASE f = o
    BY <2>1
  <2>2. CASE f # o
    <3>1. reader[f] \in RequestRow /\ reader'[f] = reader[f]
      BY <1>1, <2>2, TypeForm DEF MailInv
    <3>2. AtFits(reader[f]) /\ CountsFit(reader[f])
      BY DEF MailInv
    <3>3. QED
      BY <3>1, <3>2 DEF AtFits, CountsFit, SomeSettled
  <2>3. QED
    BY <2>1, <2>2
<1>4. QED
  BY <1>2, <1>3 DEF MailInv

(* A request that passes an attachment, with the counters of the code.       *)
LEMMA PassingFits ==
  ASSUME NEW q \in RequestRow, NEW d \in RequestRow, AtFits(q), CountsFit(q),
         parts \in Seq(Part), q.at \in 1 .. Len(parts), q.pc \in Looping,
         d.at = q.at + 1, d.pc = IF q.at = Len(parts) THEN "errors" ELSE "part",
         d.commit = q.commit,
         d.review \/ (d.review = q.review /\ parts[q.at] \in Confident),
         d.commit /\ d.written => (q.written \/ SomeSettled),
         d.commit /\ ~d.failed /\ ~d.review => SomeSettled
  PROVE  AtFits(d) /\ CountsFit(d)
<1>0. Len(parts) \in Nat
  OBVIOUS
<1>1. d.pc \in {"errors", "part"} /\ q.pc \in Passing
  BY DEF Looping, Passing
<1>2. AtFits(d)
  BY <1>0, <1>1, RowFields DEF AtFits, Looping
<1>3. ~d.review => \A i \in 1 .. Len(parts) : i < d.at => parts[i] \in Confident
  BY <1>1, <1>0, RowFields DEF CountsFit
<1>4. QED
  BY <1>1, <1>2, <1>3, RowFields DEF CountsFit

LEMMA ReadKeeps ==
  ASSUME MailInv, NEW o \in Operator, NEW ask, ReadMessage(o, ask)
  PROVE  MailInv'
<1>1. UNCHANGED <<parts, uid, listed, mailStatus, partStatus, partErrors,
                  landed, filed, silent, deaths>>
  BY DEF ReadMessage, mailbox, importers
<1>2. MailTypeOK
  BY DEF MailInv
<1>3. AtFits(reader[o])' /\ CountsFit(reader[o])'
  BY <1>2, ReadShape DEF AtFits, CountsFit, Looping, Passing
<1>4. ProcessedStands'
  BY <1>1 DEF MailInv, ProcessedStands, SomeSettled, AllConfident
<1>5. QED
  BY <1>1, <1>2, <1>3, <1>4, ReadShape, OneRequestMoves DEF MailTypeOK

(* A request that ends, whatever it wrote last.                              *)
LEMMA EndKeeps ==
  ASSUME MailInv, NEW o \in Operator, reader' = [reader EXCEPT ![o] = NoRequest],
         UNCHANGED <<parts, uid, listed, partStatus, partErrors, landed, filed, silent>>,
         mailStatus' \in MailStatuses, deaths' \in 0..MaxDeaths, ProcessedStands'
  PROVE  MailInv'
<1>1. reader'[o] = NoRequest
  BY TypeForm DEF MailInv
<1>2. reader'[o] \in RequestRow /\ reader'[o].pc = "idle"
  BY <1>1, EmptyRequest
<1>3. AtFits(reader[o])' /\ CountsFit(reader[o])'
  BY <1>2 DEF AtFits, CountsFit, Looping, Passing
<1>4. QED
  BY <1>1, <1>2, <1>3, OneRequestMoves DEF MailInv, MailTypeOK

LEMMA FetchKeeps ==
  ASSUME MailInv, NEW o \in Operator, FetchMessage(o)
  PROVE  MailInv'
<1>1. /\ UNCHANGED <<parts, uid, listed, partStatus, partErrors, landed, filed, silent, deaths>>
      /\ mailStatus' \in {"PROCESSING", mailStatus} /\ reader[o].pc = "fetch"
  BY DEF FetchMessage, mailbox, importers
<1>2. MailTypeOK /\ AtFits(reader[o])
  BY DEF MailInv
<1>3. AtFits(reader[o])' /\ CountsFit(reader[o])'
  BY <1>1, <1>2, FetchShape DEF AtFits, CountsFit, Looping, Passing
<1>4. ProcessedStands'
  BY <1>1 DEF MailInv, ProcessedStands, SomeSettled, AllConfident
<1>5. QED
  BY <1>1, <1>2, <1>3, <1>4, FetchShape, OneRequestMoves DEF MailTypeOK, MailStatuses

LEMMA ClearKeeps ==
  ASSUME MailInv, NEW o \in Operator, ClearErrors(o)
  PROVE  MailInv'
<1>1. /\ UNCHANGED <<parts, uid, listed, mailStatus, partStatus, landed, filed, silent, deaths>>
      /\ partErrors' = {} /\ reader[o].pc = "clear"
  BY DEF ClearErrors, mailbox, importers
<1>2. MailTypeOK /\ AtFits(reader[o]) /\ parts \in Seq(Part)
  BY TypeForm DEF MailInv
<1>3. AtFits(reader[o])' /\ CountsFit(reader[o])'
  <2> DEFINE d == reader'[o]
  <2>1. d.written = FALSE
    BY <1>1, <1>2, ClearShape, TypeForm, RowFields DEF AtFits
  <2>2. \/ Len(parts) = 0 /\ d.pc = "result" /\ d.review = TRUE
        \/ Len(parts) >= 1 /\ d.pc = "part" /\ d.at = 1
    BY <1>2, ClearShape
  <2>3. Len(parts) \in Nat
    BY <1>2
  <2> HIDE DEF d
  <2>4. AtFits(d) /\ CountsFit(d)
    BY <2>1, <2>2, <2>3 DEF AtFits, CountsFit, Looping, Passing
  <2>5. QED
    BY <1>1, <2>4 DEF AtFits, CountsFit, SomeSettled, d
<1>4. ProcessedStands'
  BY <1>1 DEF MailInv, ProcessedStands, SomeSettled, AllConfident
<1>5. QED
  BY <1>1, <1>2, <1>3, <1>4, ClearShape, OneRequestMoves DEF MailTypeOK

LEMMA ReviewKeeps ==
  ASSUME MailInv, NEW o \in Operator, Review(o)
  PROVE  MailInv'
<1>1. /\ UNCHANGED <<parts, uid, listed, mailStatus, partErrors, landed, filed, silent, deaths>>
      /\ partStatus' = [partStatus EXCEPT ![Current(o)] = "NEEDS_REVIEW"]
      /\ reader[o].pc = "part"
  BY DEF Review, mailbox, importers
<1>2. /\ MailTypeOK /\ AtFits(reader[o]) /\ CountsFit(reader[o]) /\ parts \in Seq(Part)
      /\ reader[o] \in RequestRow /\ reader[o].at \in 1 .. Len(parts)
  BY <1>1, TypeForm DEF MailInv, AtFits, Looping
<1>3. AtFits(reader'[o]) /\ CountsFit(reader'[o])
  BY <1>1, <1>2, ReviewShape, PassingFits DEF Looping
<1>4. AtFits(reader[o])' /\ CountsFit(reader[o])'
  BY <1>1, <1>3 DEF AtFits, CountsFit, SomeSettled
<1>5. ProcessedStands'
  BY <1>1 DEF MailInv, ProcessedStands, SomeSettled, AllConfident
<1>6. partStatus' \in [Part -> MailStatuses \ {"PROCESSING"}]
  BY <1>1, <1>2 DEF MailTypeOK, MailStatuses
<1>7. QED
  BY <1>1, <1>2, <1>4, <1>5, <1>6, ReviewShape, OneRequestMoves DEF MailTypeOK

LEMMA LookUpKeeps ==
  ASSUME MailInv, NEW o \in Operator, LookUp(o)
  PROVE  MailInv'
<1>1. /\ UNCHANGED <<parts, uid, listed, mailStatus, partStatus, partErrors,
                     landed, filed, silent, deaths>>
      /\ reader[o].pc = "part" /\ Current(o) \in Confident
  BY DEF LookUp, mailbox, importers
<1>2. /\ MailTypeOK /\ AtFits(reader[o]) /\ CountsFit(reader[o])
      /\ reader[o].at \in 1 .. Len(parts)
  BY <1>1 DEF MailInv, AtFits, Looping
<1>3. AtFits(reader[o])' /\ CountsFit(reader[o])'
  <2>1. AtFits(reader'[o])
    BY <1>1, <1>2, LookUpShape DEF AtFits, Looping, Current
  <2>2. CountsFit(reader'[o])
    BY <1>1, <1>2, LookUpShape DEF CountsFit, Looping, Passing
  <2>3. QED
    BY <1>1, <2>1, <2>2 DEF AtFits, CountsFit, SomeSettled
<1>4. ProcessedStands'
  BY <1>1 DEF MailInv, ProcessedStands, SomeSettled, AllConfident
<1>5. QED
  BY <1>1, <1>2, <1>3, <1>4, LookUpShape, OneRequestMoves DEF MailTypeOK

LEMMA ImportKeeps ==
  ASSUME MailInv, NEW o \in Operator, NEW outcome \in PartOutcomes, Import(o, outcome)
  PROVE  MailInv'
<1> DEFINE q == reader[o]
           p == Current(o)
<1>1. /\ UNCHANGED <<parts, uid, listed, mailStatus, partStatus, partErrors, deaths>>
      /\ q.pc = "import"
  BY DEF Import, mailbox
<1>2. /\ MailTypeOK /\ AtFits(q) /\ CountsFit(q) /\ q.at \in 1 .. Len(parts)
      /\ parts[q.at] \in Confident /\ p = parts[q.at] /\ q \in RequestRow
  BY <1>1, TypeForm DEF MailInv, AtFits, Looping, Current
<1>3. PICK rows \in SUBSET {p}, entry \in SUBSET {p} :
         /\ (q.commit /\ outcome \in {"written", "repeated"}) => rows = {p}
         /\ landed' = landed \union rows /\ filed' = filed \union entry
  BY DEF Import
<1>4. silent' = IF q.commit /\ outcome # "raised" /\ ~Counts(p, outcome) /\ p \notin landed'
                THEN silent \union {p} ELSE silent
  BY DEF Import
<1>5. /\ landed \subseteq landed' /\ landed' \subseteq Part /\ filed' \subseteq Part
      /\ silent \subseteq silent' /\ silent' \subseteq Part
  BY <1>2, <1>3, <1>4, PartAssumption DEF MailTypeOK
<1>6. SomeSettled => SomeSettled'
  BY <1>1, <1>5 DEF SomeSettled
<1>7. AtFits(reader[o])'
  <2>1. reader'[o].pc = "note" /\ reader'[o].at = q.at
        /\ reader'[o].outcome = outcome /\ reader'[o].commit = q.commit
    BY <1>2, ImportShape
  <2>2. q.commit /\ outcome = "written" => p \in landed'
    BY <1>3
  <2>3. q.commit /\ outcome # "raised" /\ ~Counts(p, outcome) => p \in landed' \union silent'
    BY <1>4
  <2> HIDE DEF q, p
  <2>4. QED
    BY <1>1, <1>2, <2>1, <2>2, <2>3 DEF AtFits, Looping, Counts
<1>8. CountsFit(reader[o])'
  BY <1>1, <1>2, <1>6, ImportShape DEF CountsFit, Passing, Looping
<1>9. ProcessedStands'
  BY <1>1, <1>6 DEF MailInv, ProcessedStands, AllConfident
<1>10. QED
  BY <1>1, <1>2, <1>5, <1>7, <1>8, <1>9, ImportShape, OneRequestMoves DEF MailTypeOK

LEMMA NoteKeeps ==
  ASSUME MailInv, NEW o \in Operator, Note(o)
  PROVE  MailInv'
<1>1. /\ UNCHANGED <<parts, uid, listed, mailStatus, partErrors, landed, filed, silent, deaths>>
      /\ partStatus' = [partStatus EXCEPT ![Current(o)] = Noted(reader[o])]
      /\ reader[o].pc = "note"
  BY DEF Note, mailbox, importers
<1>2. /\ MailTypeOK /\ AtFits(reader[o]) /\ CountsFit(reader[o]) /\ parts \in Seq(Part)
      /\ reader[o] \in RequestRow /\ reader[o].at \in 1 .. Len(parts)
      /\ parts[reader[o].at] \in Confident
  BY <1>1, TypeForm DEF MailInv, AtFits, Looping
<1>3. AtFits(reader'[o]) /\ CountsFit(reader'[o])
  <2> DEFINE q == reader[o]
             d == reader'[o]
  <2>1. /\ d \in RequestRow /\ d.at = q.at + 1 /\ d.review = q.review /\ d.commit = q.commit
        /\ d.pc = IF q.at = Len(parts) THEN "errors" ELSE "part"
        /\ d.written = (q.written \/ (q.commit /\ q.outcome = "written"))
        /\ d.failed = (q.failed \/ q.outcome = "raised" \/ Counts(Current(o), q.outcome))
    BY <1>2, NoteShape
  <2>2. Current(o) = parts[q.at]
    BY DEF Current
  <2>3. q.commit /\ q.outcome = "written" => SomeSettled
    BY <1>1, <1>2 DEF AtFits, SomeSettled
  <2>4. q.commit /\ q.outcome # "raised" /\ ~Counts(Current(o), q.outcome) => SomeSettled
    BY <1>1, <1>2, <2>2 DEF AtFits, SomeSettled
  <2>5. q.commit /\ ~d.failed => SomeSettled
    BY <2>1, <2>4
  <2> HIDE DEF d
  <2>6. QED
    BY <1>1, <1>2, <2>1, <2>3, <2>5, PassingFits DEF Looping, d
<1>4. AtFits(reader[o])' /\ CountsFit(reader[o])'
  BY <1>1, <1>3 DEF AtFits, CountsFit, SomeSettled
<1>5. ProcessedStands'
  BY <1>1 DEF MailInv, ProcessedStands, SomeSettled, AllConfident
<1>6. partStatus' \in [Part -> MailStatuses \ {"PROCESSING"}]
  BY <1>1, <1>2 DEF MailTypeOK, MailStatuses, Noted
<1>7. QED
  BY <1>1, <1>2, <1>4, <1>5, <1>6, NoteShape, OneRequestMoves DEF MailTypeOK

LEMMA ErrorsKeeps ==
  ASSUME MailInv, NEW o \in Operator, AddErrors(o)
  PROVE  MailInv'
<1>1. /\ UNCHANGED <<parts, uid, listed, mailStatus, partStatus, landed, filed, silent, deaths>>
      /\ partErrors' = partErrors \union reader[o].errors /\ reader[o].pc = "errors"
  BY DEF AddErrors, mailbox, importers
<1>2. /\ MailTypeOK /\ AtFits(reader[o]) /\ CountsFit(reader[o]) /\ reader[o] \in RequestRow
      /\ partErrors' \subseteq Part
  BY <1>1, TypeForm, RowFields DEF MailInv, MailTypeOK
<1>3. AtFits(reader[o])' /\ CountsFit(reader[o])'
  BY <1>1, <1>2, ErrorsShape DEF AtFits, CountsFit, Looping, Passing, SomeSettled
<1>4. ProcessedStands'
  BY <1>1 DEF MailInv, ProcessedStands, SomeSettled, AllConfident
<1>5. QED
  BY <1>1, <1>2, <1>3, <1>4, ErrorsShape, OneRequestMoves DEF MailTypeOK

(* The one step that writes PROCESSED.                                       *)
LEMMA RecordKeeps ==
  ASSUME MailInv, NEW o \in Operator, RecordResult(o)
  PROVE  MailInv'
<1> DEFINE q == reader[o]
<1>1. /\ UNCHANGED <<parts, uid, listed, partStatus, partErrors, landed, filed, silent, deaths>>
      /\ mailStatus' = (IF Records(q) THEN FinalStatus(q) ELSE mailStatus)
      /\ reader' = [reader EXCEPT ![o] = NoRequest] /\ q.pc = "result"
  BY DEF RecordResult, mailbox, importers
<1>2. /\ MailTypeOK /\ AtFits(q) /\ CountsFit(q) /\ q \in RequestRow
      /\ parts \in Seq(Part) /\ ProcessedStands
  BY TypeForm DEF MailInv
<1>3. FinalStatus(q) \in MailStatuses
        /\ (FinalStatus(q) = "PROCESSED" => q.commit /\ ~q.review /\ (~q.failed \/ q.written))
  BY <1>2, RowFields DEF FinalStatus, MailStatuses
<1>4. q.commit /\ ~q.review /\ (~q.failed \/ q.written) => SomeSettled /\ AllConfident
  BY <1>1, <1>2, RowFields DEF AtFits, CountsFit, Passing, AllConfident
<1> HIDE DEF q
<1>5. mailStatus' \in MailStatuses /\ ProcessedStands'
  BY <1>1, <1>2, <1>3, <1>4 DEF ProcessedStands, SomeSettled, AllConfident, MailTypeOK
<1>6. QED
  BY <1>1, <1>2, <1>5, EndKeeps DEF MailTypeOK

LEMMA MailInitially == MailInit => MailInv
<1> SUFFICES ASSUME MailInit PROVE MailInv
  OBVIOUS
<1>1. \A o \in Operator : reader[o] = NoRequest
  BY DEF MailInit
<1>2. MailTypeOK
  <2>1. reader \in [Operator -> RequestRow]
    BY EmptyRequest DEF MailInit
  <2>2. QED
    BY <2>1, PartAssumption, MailBoundsAssumption
    DEF MailInit, MailTypeOK, MailStatuses, RequestRow
<1>3. \A o \in Operator : AtFits(reader[o]) /\ CountsFit(reader[o])
  BY <1>1, EmptyRequest DEF AtFits, CountsFit, Looping, Passing
<1>4. QED
  BY <1>2, <1>3 DEF MailInv, ProcessedStands, MailInit

LEMMA MailStep == MailInv /\ [MailNext]_mailVars => MailInv'
<1> SUFFICES ASSUME MailInv, [MailNext]_mailVars PROVE MailInv'
  OBVIOUS
<1>1. CASE UNCHANGED mailVars
  BY <1>1 DEF mailVars, MailInv, MailTypeOK, AtFits, CountsFit, SomeSettled,
              ProcessedStands, AllConfident
<1>2. CASE Move \/ Poll
  <2>1. /\ UNCHANGED <<parts, mailStatus, partStatus, partErrors, landed, filed, silent,
                       reader, deaths>>
        /\ uid' \in 1..MaxMoves + 1 /\ listed' \in 1..MaxMoves + 1
    BY <1>2, MailBoundsAssumption DEF Move, Poll, importers, MailInv, MailTypeOK
  <2>2. MailTypeOK'
    BY <2>1 DEF MailInv, MailTypeOK
  <2>3. QED
    BY <2>1, <2>2 DEF MailInv, AtFits, CountsFit, SomeSettled, ProcessedStands, AllConfident
<1>3. ASSUME NEW o \in Operator, NEW ask \in Asks[o], ReadMessage(o, ask) PROVE MailInv'
  BY <1>3, ReadKeeps
<1>4. ASSUME NEW o \in Operator, Proceed(o) PROVE MailInv'
  <2>1. CASE FetchNothing(o)
    BY <2>1, EndKeeps
    DEF FetchNothing, mailbox, importers, MailInv, MailTypeOK, MailStatuses, ProcessedStands
  <2>2. CASE FetchMessage(o)
    BY <2>2, FetchKeeps
  <2>3. CASE ClearErrors(o)
    BY <2>3, ClearKeeps
  <2>4. CASE Review(o)
    BY <2>4, ReviewKeeps
  <2>5. CASE LookUp(o)
    BY <2>5, LookUpKeeps
  <2>6. CASE \E outcome \in PartOutcomes : Import(o, outcome)
    BY <2>6, ImportKeeps
  <2>7. CASE Note(o)
    BY <2>7, NoteKeeps
  <2>8. CASE AddErrors(o)
    BY <2>8, ErrorsKeeps
  <2>9. CASE RecordResult(o)
    BY <2>9, RecordKeeps
  <2>10. QED
    BY <1>4, <2>1, <2>2, <2>3, <2>4, <2>5, <2>6, <2>7, <2>8, <2>9 DEF Proceed
<1>5. ASSUME NEW o \in Operator, MailboxDown(o) \/ RequestDies(o) PROVE MailInv'
  <2>1. /\ reader' = [reader EXCEPT ![o] = NoRequest]
        /\ UNCHANGED <<parts, uid, listed, mailStatus, partStatus, partErrors,
                       landed, filed, silent>>
        /\ deaths' \in 0..MaxDeaths
    BY <1>5, MailBoundsAssumption
    DEF MailboxDown, RequestDies, mailbox, importers, MailInv, MailTypeOK
  <2>2. QED
    BY <2>1, EndKeeps DEF MailInv, MailTypeOK, ProcessedStands, SomeSettled, AllConfident
<1>6. QED
  BY <1>1, <1>2, <1>3, <1>4, <1>5 DEF MailNext

(***************************************************************************)
(* The ledger row of an e-mail is well typed, for every mailbox and any    *)
(* number of overlapping requests (email_ingest/service.py, process).      *)
(***************************************************************************)
THEOREM MailTypeCorrect == MailSpec => []MailTypeOK
<1>1. MailInv => MailTypeOK
  BY DEF MailInv
<1>2. QED
  BY MailInitially, MailStep, <1>1, PTL DEF MailSpec

LEMMA MailInvHolds == MailSpec => []MailInv
BY MailInitially, MailStep, PTL DEF MailSpec

(***************************************************************************)
(* An e-mail that reads PROCESSED, and whose import the duplicate guard    *)
(* refuses from then on, leaves nothing to review, and something of it     *)
(* landed or was passed over by an importer that counted nothing           *)
(* (service.py, _counts and the final status of process).                  *)
(***************************************************************************)
THEOREM ProcessedMeansAccountedFor == MailSpec => []ProcessedIsAccountedFor
<1>1. MailInv => ProcessedIsAccountedFor
  <2> SUFFICES ASSUME MailInv, mailStatus = "PROCESSED"
               PROVE  /\ ToSet(parts) \subseteq Confident
                      /\ ToSet(parts) \intersect (landed \union silent) # {}
    BY DEF ProcessedIsAccountedFor
  <2>1. SomeSettled /\ AllConfident
    BY DEF MailInv, ProcessedStands
  <2>2. parts \in Seq(Part) /\ DOMAIN parts = 1 .. Len(parts)
    BY TypeForm DEF MailInv
  <2>3. QED
    BY <2>1, <2>2 DEF ToSet, SomeSettled, AllConfident
<1>2. QED
  BY MailInvHolds, <1>1, PTL

-----------------------------------------------------------------------------
(* What "already imported" needs of the importers: that they count every     *)
(* row they leave out.                                                       *)
CountedParts ==
  \A p \in Confident : /\ Parsed[p] \in {"sound", "flawed", "invalid"}
                       /\ Fate[p] \subseteq {"written", "repeated", "raised"}

\* Then no file has a ledger row without its rows, and none is passed over.
NothingSilent ==
  /\ filed = {} /\ silent = {}
  /\ \A o \in Operator : reader[o].pc = "import" /\ reader[o].known = "duplicate"
       => Current(o) \in landed

LEMMA ImportCounts ==
  ASSUME CountedParts, MailInv, NothingSilent, NEW o \in Operator,
         NEW outcome \in PartOutcomes, Import(o, outcome)
  PROVE  filed' = {} /\ silent' = {} /\ landed \subseteq landed'
<1> DEFINE q == reader[o]
           p == Current(o)
<1>1. p \in Confident
  BY DEF Import, MailInv, AtFits, Current
<1>2. PICK rows \in SUBSET {p}, entry \in SUBSET {p} :
         /\ (q.commit /\ outcome \in {"written", "repeated"}) => rows = {p}
         /\ entry = {p} => outcome \in {"unresolved", "nothing"}
         /\ landed' = landed \union rows /\ filed' = filed \union entry
  BY DEF Import
<1>3. /\ q.pc = "import" /\ outcome \in Answers(q, p)
      /\ silent' = IF q.commit /\ outcome # "raised" /\ ~Counts(p, outcome)
                         /\ p \notin landed'
                   THEN silent \union {p} ELSE silent
  BY DEF Import
<1>4. Parsed[p] \in {"sound", "flawed", "invalid"}
      /\ Fate[p] \subseteq {"written", "repeated", "raised"}
  BY <1>1 DEF CountedParts
<1>5. IsDuplicate(q, p) => p \in landed
  BY <1>3 DEF IsDuplicate, NothingSilent
<1> HIDE DEF q, p
<1>6. entry # {p}
  BY <1>2, <1>3, <1>4 DEF Answers
<1>7. q.commit /\ outcome # "raised" /\ ~Counts(p, outcome) => p \in landed'
  BY <1>2, <1>3, <1>4, <1>5 DEF Answers, Counts, Importable
<1>8. QED
  BY <1>2, <1>3, <1>6, <1>7 DEF NothingSilent

LEMMA SilenceStep ==
  ASSUME CountedParts
  PROVE  MailInv /\ NothingSilent /\ [MailNext]_mailVars => NothingSilent'
<1> SUFFICES ASSUME MailInv, NothingSilent, [MailNext]_mailVars PROVE NothingSilent'
  OBVIOUS
<1>0. MailTypeOK /\ reader \in [Operator -> RequestRow]
      /\ \A o \in Operator : AtFits(reader[o])
  BY TypeForm DEF MailInv
<1>1. ASSUME NEW o \in Operator, reader' = [reader EXCEPT ![o] = reader'[o]],
             parts' = parts, filed' = {}, silent' = {}, landed \subseteq landed',
             reader'[o].pc = "import" /\ reader'[o].known = "duplicate"
               => Current(o)' \in landed'
      PROVE  NothingSilent'
  <2>1. ASSUME NEW f \in Operator, reader'[f].pc = "import", reader'[f].known = "duplicate"
        PROVE  Current(f)' \in landed'
    <3>1. CASE f = o
      BY <1>1, <2>1, <3>1
    <3>2. CASE f # o
      <4>1. reader'[f] = reader[f]
        BY <1>0, <1>1, <3>2
      <4>2. Current(f) \in landed /\ Current(f)' = Current(f)
        BY <1>1, <2>1, <4>1 DEF NothingSilent, Current
      <4>3. QED
        BY <1>1, <4>2
    <3>3. QED
      BY <3>1, <3>2
  <2>2. QED
    BY <1>1, <2>1 DEF NothingSilent
<1>2. CASE UNCHANGED <<parts, landed, filed, silent, reader>>
  BY <1>2 DEF NothingSilent, Current
<1>3. ASSUME NEW o \in Operator, NEW ask \in Asks[o], ReadMessage(o, ask)
      PROVE  NothingSilent'
  <2>1. UNCHANGED <<parts, landed, filed, silent>>
    BY <1>3 DEF ReadMessage, mailbox, importers
  <2>2. QED
    BY <1>0, <1>1, <1>3, <2>1, ReadShape DEF NothingSilent
<1>4. ASSUME NEW o \in Operator,
             MailboxDown(o) \/ FetchNothing(o) \/ RecordResult(o) \/ RequestDies(o)
      PROVE  NothingSilent'
  <2>1. /\ UNCHANGED <<parts, landed, filed, silent>>
        /\ reader' = [reader EXCEPT ![o] = NoRequest]
    BY <1>4 DEF MailboxDown, FetchNothing, RecordResult, RequestDies, mailbox, importers
  <2>2. reader'[o] = NoRequest
    BY <1>0, <2>1
  <2>3. QED
    BY <1>1, <2>1, <2>2, EmptyRequest DEF NothingSilent
<1>5. ASSUME NEW o \in Operator,
             FetchMessage(o) \/ ClearErrors(o) \/ Review(o) \/ Note(o) \/ AddErrors(o)
      PROVE  NothingSilent'
  <2>1. UNCHANGED <<parts, landed, filed, silent>>
    BY <1>5 DEF FetchMessage, ClearErrors, Review, Note, AddErrors, mailbox, importers
  <2>2. /\ reader' = [reader EXCEPT ![o] = reader'[o]]
        /\ reader'[o].pc \in {"clear", "part", "errors", "result"}
    BY <1>0, <1>5, FetchShape, ClearShape, ReviewShape, NoteShape, ErrorsShape
  <2>3. QED
    BY <1>1, <2>1, <2>2 DEF NothingSilent
<1>6. ASSUME NEW o \in Operator, LookUp(o) PROVE NothingSilent'
  <2>1. UNCHANGED <<parts, landed, filed, silent>>
    BY <1>6 DEF LookUp, mailbox, importers
  <2>2. /\ reader' = [reader EXCEPT ![o] = reader'[o]] /\ reader'[o].at = reader[o].at
        /\ reader'[o].known = Known(Current(o), reader[o].override)
    BY <1>0, <1>6, LookUpShape
  <2>3. Current(o)' = Current(o)
    BY <2>1, <2>2 DEF Current
  <2>4. reader'[o].known = "duplicate" => Current(o) \in landed
    BY <2>2 DEF Known, NothingSilent
  <2>5. QED
    BY <1>1, <2>1, <2>2, <2>3, <2>4 DEF NothingSilent
<1>7. ASSUME NEW o \in Operator, NEW outcome \in PartOutcomes, Import(o, outcome)
      PROVE  NothingSilent'
  <2>1. parts' = parts
    BY <1>7 DEF Import, mailbox
  <2>2. reader' = [reader EXCEPT ![o] = reader'[o]] /\ reader'[o].pc = "note"
    BY <1>0, <1>7, ImportShape
  <2>3. QED
    BY <1>1, <1>7, <2>1, <2>2, ImportCounts
<1>8. QED
  BY <1>2, <1>3, <1>4, <1>5, <1>6, <1>7
  DEF MailNext, Proceed, Move, Poll, mailVars, importers

(***************************************************************************)
(* Where the importers count every row they leave out, an e-mail that      *)
(* reads PROCESSED has rows in their tables: the condition under which the *)
(* duplicate guard of process() is right to say "already imported".        *)
(***************************************************************************)
THEOREM CountedMailIsImported ==
  ASSUME CountedParts
  PROVE  MailSpec => []ProcessedIsImported
<1>1. MailInit => NothingSilent
  BY DEF MailInit, NothingSilent, NoRequest
<1>2. MailInv /\ NothingSilent => ProcessedIsImported
  <2> SUFFICES ASSUME MailInv, NothingSilent, mailStatus = "PROCESSED"
               PROVE  ToSet(parts) \intersect landed # {}
    BY DEF ProcessedIsImported
  <2>1. PICK j \in 1 .. Len(parts) : parts[j] \in landed
    BY DEF MailInv, ProcessedStands, SomeSettled, NothingSilent
  <2>2. parts \in Seq(Part) /\ DOMAIN parts = 1 .. Len(parts)
    BY TypeForm DEF MailInv
  <2>3. QED
    BY <2>1, <2>2 DEF ToSet
<1>3. QED
  BY MailInvHolds, SilenceStep, <1>1, <1>2, PTL DEF MailSpec

(***************************************************************************)
(* PROCESSING is left behind by no import that goes on to its end: the row *)
(* reads so while an import is on, or after one has died.                  *)
(***************************************************************************)
THEOREM ProcessingMeansImporting == MailSpec => []ProcessingNeedsAnImport
<1>1. MailInit => ProcessingNeedsAnImport
  BY DEF MailInit, ProcessingNeedsAnImport
<1>2. MailInv /\ ProcessingNeedsAnImport /\ [MailNext]_mailVars => ProcessingNeedsAnImport'
  <2> SUFFICES ASSUME MailInv, ProcessingNeedsAnImport, [MailNext]_mailVars,
                      mailStatus' = "PROCESSING", ~(deaths' > 0)
               PROVE  \E o \in Operator : Importing(o)'
    BY DEF ProcessingNeedsAnImport
  <2>0. reader \in [Operator -> RequestRow] /\ deaths \in Nat /\ MailTypeOK
    BY TypeForm DEF MailInv, MailTypeOK
  <2>1. CASE UNCHANGED <<mailStatus, reader, deaths>>
    BY <2>1 DEF ProcessingNeedsAnImport, Importing
  <2>2. ASSUME NEW o \in Operator, mailStatus' = mailStatus, deaths' = deaths,
               reader' = [reader EXCEPT ![o] = reader'[o]],
               Importing(o) => Importing(o)'
        PROVE  \E f \in Operator : Importing(f)'
    BY <2>0, <2>2 DEF ProcessingNeedsAnImport, Importing
  <2>3. ASSUME NEW o \in Operator, NEW ask \in Asks[o], ReadMessage(o, ask)
        PROVE  \E f \in Operator : Importing(f)'
    BY <2>0, <2>2, <2>3, ReadShape DEF ReadMessage, Importing
  <2>4. ASSUME NEW o \in Operator, MailboxDown(o)
        PROVE  \E f \in Operator : Importing(f)'
    <3>1. ~Importing(o) /\ mailStatus' = mailStatus /\ deaths' = deaths
          /\ reader' = [reader EXCEPT ![o] = NoRequest]
      BY <2>4 DEF MailboxDown, Importing
    <3>2. QED
      BY <2>0, <3>1, <2>2
  <2>5. ASSUME NEW o \in Operator, RequestDies(o) PROVE FALSE
    BY <2>0, <2>5 DEF RequestDies
  <2>6. ASSUME NEW o \in Operator, FetchNothing(o) PROVE FALSE
    BY <2>6 DEF FetchNothing
  <2>7. ASSUME NEW o \in Operator, FetchMessage(o)
        PROVE  \E f \in Operator : Importing(f)'
    <3>1. CASE reader[o].commit
      BY <2>0, <2>7, <3>1, FetchShape DEF Importing
    <3>2. CASE ~reader[o].commit
      BY <2>0, <2>2, <2>7, <3>2, FetchShape DEF FetchMessage, Importing
    <3>3. QED
      BY <3>1, <3>2
  <2>8. ASSUME NEW o \in Operator, RecordResult(o)
        PROVE  \E f \in Operator : Importing(f)'
    <3>1. FinalStatus(reader[o]) # "PROCESSING"
      BY DEF FinalStatus
    <3>2. ~Records(reader[o]) /\ mailStatus' = mailStatus /\ deaths' = deaths
          /\ reader' = [reader EXCEPT ![o] = NoRequest]
      BY <2>8, <3>1 DEF RecordResult
    <3>3. ~Importing(o)
      BY <3>2 DEF Records, Importing
    <3>4. QED
      BY <2>0, <2>2, <3>2, <3>3
  <2>9. ASSUME NEW o \in Operator,
               ClearErrors(o) \/ Review(o) \/ LookUp(o) \/ Note(o) \/ AddErrors(o)
                 \/ \E outcome \in PartOutcomes : Import(o, outcome)
        PROVE  \E f \in Operator : Importing(f)'
    <3>1. mailStatus' = mailStatus /\ deaths' = deaths
      BY <2>9 DEF ClearErrors, Review, LookUp, Note, AddErrors, Import
    <3>2. AtFits(reader[o])
      BY DEF MailInv
    <3>3. /\ reader' = [reader EXCEPT ![o] = reader'[o]]
          /\ reader'[o].commit = reader[o].commit
          /\ reader'[o].pc \in Passing
      BY <2>0, <2>9, <3>2, ClearShape, ReviewShape, LookUpShape, NoteShape, ErrorsShape,
         ImportShape DEF Passing, Looping
    <3>4. Importing(o) => Importing(o)'
      BY <3>3 DEF Importing, Passing, Looping
    <3>5. QED
      BY <2>2, <3>1, <3>3, <3>4
  <2>10. QED
    BY <2>1, <2>3, <2>4, <2>5, <2>6, <2>7, <2>8, <2>9
    DEF MailNext, Proceed, Move, Poll, mailVars
<1>3. QED
  BY MailInvHolds, <1>1, <1>2, PTL DEF MailSpec

-----------------------------------------------------------------------------
(* Every failure has its error row: a request that has set a status owes the *)
(* row until it writes its errors, and one that has cleared the rows owes    *)
(* them for the attachments still before it.                                 *)
Owed(q, p) ==
  \/ q.pc \in Looping \union {"errors"} /\ p \in q.errors
  \/ q.pc \in Looping /\ \E j \in 1 .. Len(parts) : j >= q.at /\ parts[j] = p

Failing(p) == p \in ToSet(parts) /\ partStatus[p] \in {"FAILED", "NEEDS_REVIEW"}

FailuresOwed ==
  deaths = 0 => \A p \in Part : Failing(p) =>
    p \in partErrors \/ \E o \in Operator : Owed(reader[o], p)

(* One request moves: for each attachment that then fails, the row is there, *)
(* this request owes it, or nothing changed that it was the one to answer.   *)
LEMMA OneRequestOwes ==
  ASSUME MailInv, FailuresOwed, deaths' = deaths, parts' = parts, NEW o \in Operator,
         reader' = [reader EXCEPT ![o] = reader'[o]],
         \A p \in Part : Failing(p)' =>
           \/ p \in partErrors' \/ Owed(reader'[o], p)
           \/ /\ Failing(p) /\ ~Owed(reader[o], p)
              /\ p \in partErrors => p \in partErrors'
  PROVE  FailuresOwed'
<1> SUFFICES ASSUME deaths = 0, NEW p \in Part, Failing(p)'
             PROVE  p \in partErrors' \/ \E f \in Operator : Owed(reader[f], p)'
  BY DEF FailuresOwed
<1>1. CASE p \in partErrors' \/ Owed(reader'[o], p)
  BY <1>1 DEF Owed
<1>2. CASE /\ Failing(p) /\ ~Owed(reader[o], p)
           /\ p \in partErrors => p \in partErrors'
  <2>1. CASE p \in partErrors
    BY <1>2, <2>1
  <2>2. CASE p \notin partErrors
    <3>1. PICK f \in Operator : Owed(reader[f], p)
      BY <1>2, <2>2 DEF FailuresOwed
    <3>2. f # o
      BY <1>2, <3>1
    <3>3. reader'[f] = reader[f]
      BY <3>2, TypeForm DEF MailInv
    <3>4. QED
      BY <3>1, <3>3 DEF Owed
  <2>3. QED
    BY <2>1, <2>2
<1>3. QED
  BY <1>1, <1>2

(* A request that passes an attachment still owes the others it owed.        *)
LEMMA PassingOwes ==
  ASSUME NEW q \in RequestRow, NEW d \in RequestRow, parts \in Seq(Part),
         q.pc \in Looping, q.at \in 1 .. Len(parts), d.at = q.at + 1,
         d.pc = IF q.at = Len(parts) THEN "errors" ELSE "part",
         q.errors \subseteq d.errors,
         NEW p, p # parts[q.at], Owed(q, p)
  PROVE  Owed(d, p)
<1>1. d.pc \in Looping \union {"errors"}
  BY DEF Looping
<1>2. CASE p \in q.errors
  BY <1>1, <1>2 DEF Owed
<1>3. CASE p \notin q.errors
  <2>1. PICK j \in 1 .. Len(parts) : j >= q.at /\ parts[j] = p
    BY <1>3 DEF Owed
  <2>2. j # q.at /\ Len(parts) \in Nat
    BY <2>1
  <2>3. j >= d.at /\ q.at # Len(parts)
    BY <2>1, <2>2
  <2>4. d.pc \in Looping
    BY <2>3 DEF Looping
  <2>5. QED
    BY <2>1, <2>3, <2>4 DEF Owed
<1>4. QED
  BY <1>2, <1>3

LEMMA OwedStep == MailInv /\ FailuresOwed /\ [MailNext]_mailVars => FailuresOwed'
<1> SUFFICES ASSUME MailInv, FailuresOwed, [MailNext]_mailVars, deaths' = 0
             PROVE  FailuresOwed'
  BY DEF FailuresOwed
<1>0. /\ reader \in [Operator -> RequestRow] /\ deaths \in Nat /\ MailTypeOK
      /\ parts \in Seq(Part) /\ DOMAIN parts = 1 .. Len(parts)
      /\ partStatus \in [Part -> MailStatuses \ {"PROCESSING"}]
  BY TypeForm DEF MailInv, MailTypeOK
<1>1. CASE UNCHANGED <<parts, partStatus, partErrors, reader, deaths>>
  BY <1>1 DEF FailuresOwed, Failing, Owed, ToSet
<1>2. ASSUME NEW o \in Operator, deaths' = deaths, parts' = parts, partStatus' = partStatus,
             partErrors' = partErrors, reader' = [reader EXCEPT ![o] = reader'[o]],
             reader[o].pc \in {"idle", "fetch", "result"}
      PROVE  FailuresOwed'
  <2>1. \A p \in Part : ~Owed(reader[o], p)
    BY <1>2 DEF Owed, Looping
  <2>2. \A p \in Part : Failing(p)' => Failing(p)
    BY <1>2 DEF Failing
  <2>3. QED
    BY <1>2, <2>1, <2>2, OneRequestOwes
<1>3. ASSUME NEW o \in Operator, NEW ask \in Asks[o], ReadMessage(o, ask)
      PROVE  FailuresOwed'
  BY <1>0, <1>2, <1>3, ReadShape DEF ReadMessage, mailbox, importers
<1>4. ASSUME NEW o \in Operator, MailboxDown(o) \/ FetchNothing(o) \/ RecordResult(o)
      PROVE  FailuresOwed'
  <2>1. /\ deaths' = deaths /\ parts' = parts /\ partStatus' = partStatus
        /\ partErrors' = partErrors /\ reader' = [reader EXCEPT ![o] = NoRequest]
        /\ reader[o].pc \in {"fetch", "result"}
    BY <1>4 DEF MailboxDown, FetchNothing, RecordResult, mailbox, importers
  <2>2. reader'[o] = NoRequest
    BY <1>0, <2>1
  <2>3. QED
    BY <1>2, <2>1, <2>2
<1>5. ASSUME NEW o \in Operator, FetchMessage(o) PROVE FailuresOwed'
  BY <1>0, <1>2, <1>5, FetchShape DEF FetchMessage, mailbox, importers
<1>6. ASSUME NEW o \in Operator, RequestDies(o) PROVE FALSE
  BY <1>0, <1>6 DEF RequestDies
<1>7. ASSUME NEW o \in Operator, ClearErrors(o) PROVE FailuresOwed'
  <2>1. /\ deaths' = deaths /\ parts' = parts /\ reader' = [reader EXCEPT ![o] = reader'[o]]
        /\ (Len(parts) = 0 \/ (reader'[o].pc = "part" /\ reader'[o].at = 1))
    BY <1>0, <1>7, ClearShape DEF ClearErrors, mailbox, importers
  <2>2. ASSUME NEW p \in Part, Failing(p)' PROVE Owed(reader'[o], p)
    <3>1. PICK j \in 1 .. Len(parts) : parts[j] = p
      BY <1>0, <2>1, <2>2 DEF Failing, ToSet
    <3>2. Len(parts) # 0 /\ j >= 1
      BY <1>0, <3>1
    <3>3. QED
      BY <2>1, <3>1, <3>2 DEF Owed, Looping
  <2>3. QED
    BY <2>1, <2>2, OneRequestOwes
<1>8. ASSUME NEW o \in Operator, Review(o) \/ Note(o) PROVE FailuresOwed'
  <2> DEFINE q == reader[o]
             d == reader'[o]
  <2>1. /\ deaths' = deaths /\ parts' = parts /\ partErrors' = partErrors
        /\ q \in RequestRow /\ AtFits(q) /\ q.pc \in {"part", "note"}
        /\ partStatus' = [partStatus EXCEPT ![Current(o)] =
                            IF Review(o) THEN "NEEDS_REVIEW" ELSE Noted(q)]
    BY <1>0, <1>8 DEF Review, Note, mailbox, importers, MailInv
  <2>2. q.at \in 1 .. Len(parts) /\ Current(o) = parts[q.at]
    BY <2>1 DEF AtFits, Looping, Current
  <2>3. /\ d \in RequestRow /\ reader' = [reader EXCEPT ![o] = d] /\ d.at = q.at + 1
        /\ d.pc = IF q.at = Len(parts) THEN "errors" ELSE "part"
        /\ q.errors \subseteq d.errors /\ Current(o) \in Part
        /\ \/ Current(o) \in d.errors
           \/ Note(o) /\ ~Review(o) /\ q.outcome # "raised"
    <3>1. CASE Review(o)
      BY <1>0, <2>1, <3>1, ReviewShape
    <3>2. CASE Note(o) /\ ~Review(o)
      BY <1>0, <2>1, <3>2, NoteShape DEF Explains
    <3>3. QED
      BY <1>8, <3>1, <3>2
  <2> HIDE DEF q, d
  <2>4. ASSUME NEW p \in Part, Failing(p)'
        PROVE  Owed(d, p) \/ (Failing(p) /\ ~Owed(q, p))
    <3>1. CASE p # Current(o)
      <4>1. Failing(p)
        BY <1>0, <2>1, <2>4, <3>1 DEF Failing
      <4>2. Owed(q, p) => Owed(d, p)
        BY <1>0, <2>1, <2>2, <2>3, <3>1, PassingOwes DEF Looping
      <4>3. QED
        BY <4>1, <4>2
    <3>2. CASE p = Current(o)
      <4>1. partStatus'[p] = IF Review(o) THEN "NEEDS_REVIEW" ELSE Noted(q)
        BY <1>0, <2>1, <2>3, <3>2
      <4>2. Current(o) \in d.errors
        BY <2>3, <2>4, <3>2, <4>1 DEF Failing, Noted
      <4>3. QED
        BY <2>3, <3>2, <4>2 DEF Owed, Looping
    <3>3. QED
      BY <3>1, <3>2
  <2>5. QED
    BY <2>1, <2>3, <2>4, OneRequestOwes DEF q, d
<1>9. ASSUME NEW o \in Operator,
             LookUp(o) \/ \E outcome \in PartOutcomes : Import(o, outcome)
      PROVE  FailuresOwed'
  <2>1. /\ deaths' = deaths /\ parts' = parts /\ partErrors' = partErrors
        /\ partStatus' = partStatus /\ reader[o].pc \in Looping
    BY <1>9 DEF LookUp, Import, mailbox, importers, Looping
  <2>2. /\ reader' = [reader EXCEPT ![o] = reader'[o]] /\ reader'[o].at = reader[o].at
        /\ reader'[o].errors = reader[o].errors /\ reader'[o].pc \in Looping
    BY <1>0, <1>9, LookUpShape, ImportShape DEF Looping
  <2>3. \A p \in Part : (Failing(p)' => Failing(p)) /\ (Owed(reader[o], p) => Owed(reader'[o], p))
    BY <2>1, <2>2 DEF Failing, Owed
  <2>4. QED
    BY <2>1, <2>2, <2>3, OneRequestOwes
<1>10. ASSUME NEW o \in Operator, AddErrors(o) PROVE FailuresOwed'
  <2>1. /\ deaths' = deaths /\ parts' = parts /\ partStatus' = partStatus
        /\ partErrors' = partErrors \union reader[o].errors /\ reader[o].pc = "errors"
    BY <1>10 DEF AddErrors, mailbox, importers
  <2>2. \A p \in Part : Owed(reader[o], p) => p \in partErrors'
    BY <2>1 DEF Owed, Looping
  <2>3. reader' = [reader EXCEPT ![o] = reader'[o]]
    BY <1>0, <1>10, ErrorsShape
  <2>4. QED
    BY <2>1, <2>2, <2>3, OneRequestOwes DEF Failing
<1>11. QED
  BY <1>1, <1>3, <1>4, <1>5, <1>6, <1>7, <1>8, <1>9, <1>10
  DEF MailNext, Proceed, Move, Poll, mailVars

(***************************************************************************)
(* When no request is on and none has died, every attachment that failed   *)
(* or waits for review has its error row, however previews and imports of  *)
(* the same e-mail overlapped (service.py, clear_errors and add_error).    *)
(***************************************************************************)
THEOREM FailuresAreExplained == MailSpec => []EveryFailureIsExplained
<1>1. MailInit => FailuresOwed
  BY DEF MailInit, FailuresOwed, Failing
<1>2. MailInv /\ FailuresOwed => EveryFailureIsExplained
  <2> SUFFICES ASSUME MailInv, FailuresOwed, Quiet, deaths = 0,
                      NEW p \in ToSet(parts), partStatus[p] \in {"FAILED", "NEEDS_REVIEW"}
               PROVE  p \in partErrors
    BY DEF EveryFailureIsExplained
  <2>1. p \in Part
    BY TypeForm DEF MailInv, ToSet
  <2>2. \A o \in Operator : ~Owed(reader[o], p)
    BY DEF Quiet, Owed, Looping
  <2>3. QED
    BY <2>1, <2>2 DEF FailuresOwed, Failing
<1>3. QED
  BY MailInvHolds, OwedStep, <1>1, <1>2, PTL DEF MailSpec
=============================================================================
