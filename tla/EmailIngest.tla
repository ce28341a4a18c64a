----------------------------- MODULE EmailIngest -----------------------------
(***************************************************************************)
(* One e-mail of the JNPA mailbox in the processing ledger                 *)
(* (services/email_ingest): operators preview and import it, each request  *)
(* a row of statements committed one by one, while the message is moved or *)
(* deleted in the mailbox and the poll refreshes its uid.                  *)
(*                                                                         *)
(* Of an attachment the model keeps whether the classifier is confident of *)
(* it, which of the two importers takes it, and what the parser makes of   *)
(* its content.  What the importer then makes of the rows is one of its    *)
(* outcomes.  process() sees of all this three numbers and a list: rows    *)
(* written, rows counted as rejected, and errors.                          *)
(***************************************************************************)
EXTENDS Naturals, Sequences, SequencesExt

CONSTANTS Operator,   \* requests that may overlap
          Asks,       \* what each of them may ask for
          Part,       \* attachments
          Confident,  \* the attachments with a confident route
          GateDocs,   \* those of the gate document importer, the others are marine
          Parsed,     \* what the parser makes of an attachment
          Fate,       \* what an importer may make of the rows of one
          Mails,      \* the sequences of attachments an e-mail may carry
          MaxMoves,   \* bound on moves within the mailbox
          MaxDeaths   \* bound on requests that die

ASSUME PartAssumption == GateDocs \subseteq Confident /\ Confident \subseteq Part
                         /\ Mails \subseteq Seq(Part)
ASSUME AsksAssumption == Asks \in [Operator -> SUBSET {"preview", "import", "override"}]

\* Rows that are all valid, or valid in part; none that is valid, each of them
\* counted; a file refused as a whole (a column is missing, it cannot be read),
\* for which nothing is counted; a header without rows.
Readings == {"sound", "flawed", "invalid", "refused", "empty"}
\* "written": rows of it are new or updated.  "repeated": all were there already.
\* "unresolved": marine events whose call is not known, counted as failed.
\* "nothing": the transaction failed, or no row could be inserted; not counted.
Fates == {"written", "repeated", "unresolved", "nothing", "raised"}

ASSUME ParsedAssumption == Parsed \in [Confident -> Readings]
ASSUME FateAssumption == /\ Fate \in [Confident -> SUBSET Fates]
                         /\ \A p \in GateDocs : "unresolved" \notin Fate[p]
ASSUME MailBoundsAssumption == MaxMoves \in Nat /\ MaxDeaths \in Nat

MailStatuses == {"UNPROCESSED", "PROCESSING", "PROCESSED", "NEEDS_REVIEW", "FAILED"}

VARIABLES
    parts,        \* the attachments of the e-mail
    uid, listed,  \* its uid in the mailbox, and in the ledger
    mailStatus,   \* email_message.processing_status
    partStatus,   \* email_attachment.process_status
    partErrors,   \* the attachments with an email_processing_error row
    landed,       \* the attachments whose rows are in the importer's tables
    filed,        \* those with a row in the importer's ledger although none landed
    silent,       \* history: those an import passed over, no row and none counted
    reader,       \* operator -> the request in flight
    deaths

mailVars == <<parts, uid, listed, mailStatus, partStatus, partErrors, landed, filed,
              silent, reader, deaths>>
mailbox == <<parts, uid, listed>>
importers == <<landed, filed, silent>>

NoRequest == [pc |-> "idle", commit |-> FALSE, override |-> FALSE, uid |-> 0, at |-> 0,
              outcome |-> "none", known |-> "absent", review |-> FALSE, tables |-> FALSE,
              written |-> FALSE, failed |-> FALSE, errors |-> {}]
\* "read" answers a preview, "rejected" a content without a valid row.
PartOutcomes == Fates \union {"read", "rejected", "duplicate"}

MailInit ==
    /\ parts \in Mails /\ uid = 1 /\ listed = 1
    /\ mailStatus = "UNPROCESSED" /\ partStatus = [p \in Part |-> "UNPROCESSED"]
    /\ partErrors = {} /\ landed = {} /\ filed = {} /\ silent = {}
    /\ reader = [o \in Operator |-> NoRequest] /\ deaths = 0

-----------------------------------------------------------------------------
(* The mailbox, and the poll that follows it *)

\* A message that is deleted is one that has moved and is never listed again.
Move ==
    /\ uid <= MaxMoves
    /\ uid' = uid + 1
    /\ UNCHANGED <<parts, listed, mailStatus, partStatus, partErrors, importers,
                   reader, deaths>>

\* upsert_message: headers and uid are refreshed, the status is kept.
Poll ==
    /\ listed # uid
    /\ listed' = uid
    /\ UNCHANGED <<parts, uid, mailStatus, partStatus, partErrors, importers,
                   reader, deaths>>

-----------------------------------------------------------------------------
(* process(): preview or import *)

\* The duplicate guard answers an import of a PROCESSED e-mail.
AlreadyImported(ask) == ask = "import" /\ mailStatus = "PROCESSED"

ReadMessage(o, ask) ==
    /\ reader[o].pc = "idle" /\ ~AlreadyImported(ask)
    /\ reader' = [reader EXCEPT ![o] = [NoRequest EXCEPT
           !.pc = "fetch", !.commit = (ask # "preview"), !.override = (ask = "override"),
           !.uid = listed]]
    /\ UNCHANGED <<mailbox, mailStatus, partStatus, partErrors, importers, deaths>>

\* MailboxError: nothing is written.
MailboxDown(o) ==
    /\ reader[o].pc = "fetch"
    /\ reader' = [reader EXCEPT ![o] = NoRequest]
    /\ UNCHANGED <<mailbox, mailStatus, partStatus, partErrors, importers, deaths>>

FetchNothing(o) ==
    /\ reader[o].pc = "fetch" /\ reader[o].uid # uid
    /\ mailStatus' = "FAILED"
    /\ reader' = [reader EXCEPT ![o] = NoRequest]
    /\ UNCHANGED <<mailbox, partStatus, partErrors, importers, deaths>>

FetchMessage(o) ==
    /\ reader[o].pc = "fetch" /\ reader[o].uid = uid
    /\ mailStatus' = IF reader[o].commit THEN "PROCESSING" ELSE mailStatus
    /\ reader' = [reader EXCEPT ![o].pc = "clear", ![o].uid = 0]
    /\ UNCHANGED <<mailbox, partStatus, partErrors, importers, deaths>>

ClearErrors(o) ==
    /\ reader[o].pc = "clear"
    /\ partErrors' = {}
    /\ reader' = [reader EXCEPT ![o].pc = IF parts = <<>> THEN "result" ELSE "part",
                                ![o].at = IF parts = <<>> THEN 0 ELSE 1,
                                ![o].review = (parts = <<>>)]
    /\ UNCHANGED <<mailbox, mailStatus, partStatus, importers, deaths>>

Current(o) == parts[reader[o].at]

\* Faulty variant: the loop comes back to the same attachment.
PassedInPlace(o, local) == [local EXCEPT !.pc = "part", !.outcome = "none"]

Passed(o, local) == [local EXCEPT !.at = @ + 1, !.outcome = "none",
                                  !.pc = IF local.at = Len(parts) THEN "errors" ELSE "part"]

Review(o) ==
    /\ reader[o].pc = "part" /\ Current(o) \notin Confident
    /\ partStatus' = [partStatus EXCEPT ![Current(o)] = "NEEDS_REVIEW"]
    /\ LET local == [reader[o] EXCEPT !.review = TRUE,
                                      !.errors = @ \union {Current(o)}]
       IN reader' = [reader EXCEPT ![o] = Passed(o, local)]
    /\ UNCHANGED <<mailbox, mailStatus, partErrors, importers, deaths>>

Importable(p) == Parsed[p] \in {"sound", "flawed"}

\* What the importer's ledger says of a file: the marine importer is stopped by
\* any row unless it overrides, that of gate documents by one that imported.
Known(p, override) ==
    IF p \notin landed \union filed THEN "absent"
    ELSE IF (IF p \in GateDocs THEN p \in landed ELSE ~override) THEN "duplicate"
    ELSE "reused"

\* The importer parses the file and looks it up in its ledger ...
LookUp(o) ==
    /\ reader[o].pc = "part" /\ Current(o) \in Confident
    /\ reader' = [reader EXCEPT ![o].pc = "import",
                                ![o].known = Known(Current(o), reader[o].override)]
    /\ UNCHANGED <<mailbox, mailStatus, partStatus, partErrors, importers, deaths>>

\* A file is a duplicate also when its ledger row has come since the look-up.
IsDuplicate(q, p) ==
    q.known = "duplicate" \/ (q.known = "absent" /\ p \in landed \union filed)

Answers(q, p) ==
    (Fate[p] \intersect {"raised"}) \union
    (IF ~Importable(p) THEN {"rejected"}
     ELSE IF ~q.commit THEN {"read"}
     ELSE IF IsDuplicate(q, p) THEN {"duplicate"}
     ELSE Fate[p] \ {"raised"})

\* Rows counted as rejected: those the parser refused, whatever became of the
\* others, and the events that were not resolved.
Counts(p, outcome) == Parsed[p] \in {"flawed", "invalid"} \/ outcome = "unresolved"

\* ... and answers in one transaction; a preview writes nothing.  After a failure
\* the ledger row may be there or not; the gate documents' may raise on the way
\* from its transaction.
Import(o, outcome) ==
    LET q == reader[o]
        p == Current(o)
        lands == q.commit /\ outcome \in {"written", "repeated"}
        mayLand == q.commit /\ outcome = "raised" /\ p \in GateDocs /\ Importable(p)
    IN /\ q.pc = "import" /\ outcome \in Answers(q, p)
       /\ \E rows, entry \in SUBSET {p} :
            /\ lands => rows = {p}
            /\ rows = {p} => lands \/ mayLand
            /\ outcome = "unresolved" => entry = {p}
            /\ entry = {p} => outcome \in {"unresolved", "nothing"}
            /\ landed' = landed \union rows
            /\ filed' = filed \union entry
       /\ silent' = IF q.commit /\ outcome # "raised" /\ ~Counts(p, outcome)
                         /\ p \notin landed'
                    THEN silent \union {p} ELSE silent
       /\ reader' = [reader EXCEPT ![o].pc = "note", ![o].outcome = outcome,
                                   ![o].known = "absent"]
       /\ UNCHANGED <<mailbox, mailStatus, partStatus, partErrors, deaths>>

\* Faulty variant: an attachment the importer raised on leaves no error row.
ExplainsNotRaised(q, p) ==
    \/ Parsed[p] \in {"invalid", "refused"}
    \/ Parsed[p] = "flawed" /\ ~q.commit

\* The answers that bring errors: a raise; a file without a valid row; and a
\* preview, while an import keeps the errors of its rows to itself.
Explains(q, p) ==
    \/ q.outcome = "raised"
    \/ Parsed[p] \in {"invalid", "refused"}
    \/ Parsed[p] = "flawed" /\ ~q.commit

Noted(q) == IF q.outcome = "raised" THEN "FAILED"
            ELSE IF q.commit THEN "PROCESSED" ELSE "UNPROCESSED"

\* record_attachment_result, and the request's own counters.
Note(o) ==
    /\ reader[o].pc = "note"
    /\ LET p == Current(o)
           q == reader[o]
           local == [q EXCEPT
               !.tables = @ \/ q.outcome # "raised",
               !.failed = @ \/ q.outcome = "raised" \/ Counts(p, q.outcome),
               !.written = @ \/ (q.commit /\ q.outcome = "written"),
               !.errors = IF Explains(q, p) THEN @ \union {p} ELSE @]
       IN /\ partStatus' = [partStatus EXCEPT ![p] = Noted(q)]
          /\ reader' = [reader EXCEPT ![o] = Passed(o, local)]
    /\ UNCHANGED <<mailbox, mailStatus, partErrors, importers, deaths>>

AddErrors(o) ==
    /\ reader[o].pc = "errors"
    /\ partErrors' = partErrors \union reader[o].errors
    /\ reader' = [reader EXCEPT ![o].pc = "result", ![o].errors = {}]
    /\ UNCHANGED <<mailbox, mailStatus, partStatus, importers, deaths>>

\* Faulty variant: a failure counts only when nothing else can be said.
FinalStatusLenient(q) ==
    IF q.review THEN "NEEDS_REVIEW"
    ELSE IF q.commit THEN "PROCESSED" ELSE "UNPROCESSED"

FinalStatus(q) ==
    IF q.review /\ ~q.tables THEN "NEEDS_REVIEW"
    ELSE IF q.failed /\ ~q.written /\ q.commit THEN "FAILED"
    ELSE IF q.review THEN "NEEDS_REVIEW"
    ELSE IF q.commit THEN "PROCESSED" ELSE "UNPROCESSED"

Records(q) == q.commit \/ FinalStatus(q) \in {"NEEDS_REVIEW", "FAILED"}

RecordResult(o) ==
    /\ reader[o].pc = "result"
    /\ mailStatus' = IF Records(reader[o]) THEN FinalStatus(reader[o]) ELSE mailStatus
    /\ reader' = [reader EXCEPT ![o] = NoRequest]
    /\ UNCHANGED <<mailbox, partStatus, partErrors, importers, deaths>>

\* A statement fails (HTTP 500) or the server stops: the rest is not done.
RequestDies(o) ==
    /\ deaths < MaxDeaths /\ reader[o].pc # "idle"
    /\ deaths' = deaths + 1
    /\ reader' = [reader EXCEPT ![o] = NoRequest]
    /\ UNCHANGED <<mailbox, mailStatus, partStatus, partErrors, importers>>

Proceed(o) ==
    \/ FetchNothing(o) \/ FetchMessage(o) \/ ClearErrors(o) \/ Review(o) \/ LookUp(o)
    \/ (\E outcome \in PartOutcomes : Import(o, outcome))
    \/ Note(o) \/ AddErrors(o) \/ RecordResult(o)

MailNext ==
    \/ Move \/ Poll
    \/ \E o \in Operator :
         \/ \E ask \in Asks[o] : ReadMessage(o, ask)
         \/ Proceed(o) \/ MailboxDown(o) \/ RequestDies(o)

\* The server carries on with a request it has taken.
MailFairness == \A o \in Operator : WF_mailVars(Proceed(o))

MailSpec == MailInit /\ [][MailNext]_mailVars /\ MailFairness

-----------------------------------------------------------------------------
Importing(o) == reader[o].commit /\ reader[o].pc \notin {"idle", "fetch"}
Quiet == \A o \in Operator : reader[o].pc = "idle"

MailTypeOK ==
    /\ parts \in Seq(Part) /\ uid \in 1..MaxMoves + 1 /\ listed \in 1..MaxMoves + 1
    /\ mailStatus \in MailStatuses
    /\ partStatus \in [Part -> MailStatuses \ {"PROCESSING"}]
    /\ partErrors \subseteq Part
    /\ landed \subseteq Part /\ filed \subseteq Part /\ silent \subseteq Part
    /\ reader \in [Operator ->
         [pc : {"idle", "fetch", "clear", "part", "import", "note", "errors", "result"},
          commit : BOOLEAN, override : BOOLEAN, uid : 0..MaxMoves + 1, at : Nat,
          outcome : PartOutcomes \union {"none"},
          known : {"absent", "reused", "duplicate"}, review : BOOLEAN,
          tables : BOOLEAN, written : BOOLEAN, failed : BOOLEAN, errors : SUBSET Part]]
    /\ deaths \in 0..MaxDeaths

\* An e-mail that reads PROCESSED waits for no review, and not everything in it
\* has failed or been counted as rejected: the rows of an attachment are in their
\* tables, or an importer passed one over without a row and without a count.
ProcessedIsAccountedFor == mailStatus = "PROCESSED" =>
    /\ ToSet(parts) \subseteq Confident
    /\ ToSet(parts) \intersect (landed \union silent) # {}

\* What the duplicate guard of process() says of a PROCESSED e-mail: it "has
\* already been imported".
ProcessedIsImported == mailStatus = "PROCESSED" => ToSet(parts) \intersect landed # {}

\* When no request is in flight and none has died, every attachment that failed
\* or waits for review has its error row, however the requests overlapped.
EveryFailureIsExplained == Quiet /\ deaths = 0 =>
    {p \in ToSet(parts) : partStatus[p] \in {"FAILED", "NEEDS_REVIEW"}} \subseteq partErrors

\* PROCESSING is not left behind: an import is on, or a request has died.
ProcessingNeedsAnImport ==
    mailStatus = "PROCESSING" => (\E o \in Operator : Importing(o)) \/ deaths > 0

\* An import that does not die brings the e-mail out of PROCESSING.
ImportsSettle == mailStatus = "PROCESSING" ~> (mailStatus # "PROCESSING" \/ deaths > 0)
=============================================================================
