-------------------------- MODULE EscalationLadder --------------------------
(***************************************************************************)
(* The N/2N/3N escalation ladder of one violation case                     *)
(* (services/enforcement_escalation): the ledger of fired rungs, the       *)
(* delivery log, the mails really sent, and the evaluators - the API's     *)
(* requests - that climb the ladder concurrently.  The ledger row and each *)
(* delivery row are transactions of their own, and a mail is handed to the *)
(* mailer before its row is written.                                       *)
(***************************************************************************)
EXTENDS Naturals, Sequences, FiniteSets

CONSTANTS Evaluator,        \* evaluate() calls that may be in flight
          MaxLadderCrashes, \* bound on evaluators that die half way
          MaxMailFaults     \* bound on mails a configured mailer does not send

ASSUME LadderCrashAssumption == MaxLadderCrashes \in Nat
ASSUME MailFaultAssumption == MaxMailFaults \in Nat

Rung == 1..3
Channels == <<"SMS", "EMAIL", "WHATSAPP">>

\* The notices of one rung in the order fire_rung sends them: transporter,
\* owner, then the police desk, which takes e-mail only.
Notices(rung) ==
    [i \in 1..6 |-> [role |-> IF i <= 3 THEN "TRANSPORTER" ELSE "OWNER",
                     channel |-> Channels[((i - 1) % 3) + 1]]]
    \o (IF rung = 3 THEN <<[role |-> "TRAFFIC_POLICE", channel |-> "EMAIL"]>> ELSE <<>>)

Outcomes == {"SENT", "FAILED", "UNAVAILABLE"}

VARIABLES
    ledger,      \* rungs with a row in core.violation_escalation
    log,         \* rows of core.notification_delivery, per rung, in order
    mails,       \* e-mails that really left, per rung, in order
    climb,       \* evaluator -> where it is: [pc, top, rung, pos, outcome]
    contact,     \* does the plate resolve to a transporter?
    mailer,      \* is a mailer configured?
    mailFaults,
    ladderCrashes

ladderVars == <<ledger, log, mails, climb, contact, mailer, mailFaults, ladderCrashes>>

LadderInit ==
    /\ ledger = {}
    /\ log = [g \in Rung |-> <<>>] /\ mails = [g \in Rung |-> <<>>]
    /\ climb = [e \in Evaluator |->
                  [pc |-> "idle", top |-> 0, rung |-> 1, pos |-> 1, outcome |-> "SENT"]]
    /\ contact \in BOOLEAN /\ mailer \in BOOLEAN
    /\ mailFaults = 0 /\ ladderCrashes = 0

\* due_rungs: the dwell time earns the rungs 1..top.
Evaluate(e, top) ==
    /\ climb[e].pc = "idle"
    /\ climb' = [climb EXCEPT ![e].pc = "fire", ![e].top = top]
    /\ UNCHANGED <<ledger, log, mails, contact, mailer, mailFaults, ladderCrashes>>

\* Faulty variant: ON CONFLICT DO UPDATE always returns the row.
IsFreshAlways(g) == g \in Rung

\* record_escalation: ON CONFLICT DO NOTHING; no row back, no notice.
IsFresh(g) == g \notin ledger

FireRung(e) ==
    LET c == climb[e] IN
    /\ c.pc = "fire" /\ c.rung <= c.top
    /\ ledger' = ledger \union {c.rung}
    /\ climb' = [climb EXCEPT ![e] =
                   IF IsFresh(c.rung) THEN [c EXCEPT !.pc = "send", !.pos = 1]
                                      ELSE [c EXCEPT !.rung = @ + 1]]
    /\ UNCHANGED <<log, mails, contact, mailer, mailFaults, ladderCrashes>>

EvaluateDone(e) ==
    /\ climb[e].pc = "fire" /\ climb[e].rung > climb[e].top
    /\ climb' = [climb EXCEPT ![e].pc = "done"]
    /\ UNCHANGED <<ledger, log, mails, contact, mailer, mailFaults, ladderCrashes>>

\* Only an e-mail to a known address is handed to a mailer, when there is one.
\* The police desk's address is configured, the others come from the registry.
Mailable(notice) ==
    /\ notice.channel = "EMAIL" /\ mailer
    /\ notice.role = "TRAFFIC_POLICE" \/ contact

\* Faulty variant: an exception of the mailer ends the evaluation.
SendRaising(e) ==
    LET c == climb[e]
        notice == Notices(c.rung)[c.pos]
    IN
    /\ c.pc = "send"
    /\ \E o \in IF Mailable(notice) THEN Outcomes ELSE {"UNAVAILABLE"} :
         /\ mailFaults' = mailFaults + (IF Mailable(notice) /\ o # "SENT" THEN 1 ELSE 0)
         /\ mailFaults' <= MaxMailFaults
         /\ climb' = [climb EXCEPT ![e].pc = IF o = "FAILED" THEN "done" ELSE "record",
                                  ![e].outcome = o]
         /\ mails' = IF o = "SENT" THEN [mails EXCEPT ![c.rung] = Append(@, notice.role)]
                     ELSE mails
    /\ UNCHANGED <<ledger, log, contact, mailer, ladderCrashes>>

\* _deliver, up to the log row: the mailer accepts, declines or raises, and its
\* exception is an outcome, not an error of the evaluation.
Send(e) ==
    LET c == climb[e]
        notice == Notices(c.rung)[c.pos]
    IN
    /\ c.pc = "send"
    /\ \E o \in IF Mailable(notice) THEN Outcomes ELSE {"UNAVAILABLE"} :
         /\ mailFaults' = mailFaults + (IF Mailable(notice) /\ o # "SENT" THEN 1 ELSE 0)
         /\ mailFaults' <= MaxMailFaults
         /\ climb' = [climb EXCEPT ![e].pc = "record", ![e].outcome = o]
         /\ mails' = IF o = "SENT" THEN [mails EXCEPT ![c.rung] = Append(@, notice.role)]
                     ELSE mails
    /\ UNCHANGED <<ledger, log, contact, mailer, ladderCrashes>>

\* record_delivery, and on to the next notice or the next rung.
Record(e) ==
    LET c == climb[e]
        notice == Notices(c.rung)[c.pos]
        last == c.pos = Len(Notices(c.rung))
    IN
    /\ c.pc = "record"
    /\ log' = [log EXCEPT ![c.rung] = Append(@, [to |-> notice, status |-> c.outcome])]
    /\ climb' = [climb EXCEPT ![e] =
                   IF last THEN [c EXCEPT !.pc = "fire", !.rung = @ + 1, !.pos = 1]
                           ELSE [c EXCEPT !.pc = "send", !.pos = @ + 1]]
    /\ UNCHANGED <<ledger, mails, contact, mailer, mailFaults, ladderCrashes>>

EvaluatorDies(e) ==
    /\ climb[e].pc \in {"fire", "send", "record"} /\ ladderCrashes < MaxLadderCrashes
    /\ climb' = [climb EXCEPT ![e].pc = "dead"]
    /\ ladderCrashes' = ladderCrashes + 1
    /\ UNCHANGED <<ledger, log, mails, contact, mailer, mailFaults>>

Climb(e) == FireRung(e) \/ EvaluateDone(e) \/ Send(e) \/ Record(e)

LadderNext == \E e \in Evaluator :
    \/ \E top \in 0..3 : Evaluate(e, top)
    \/ Climb(e)
    \/ EvaluatorDies(e)

LadderFairness == \A e \in Evaluator : WF_ladderVars(Climb(e))
LadderSpec == LadderInit /\ [][LadderNext]_ladderVars /\ LadderFairness

-----------------------------------------------------------------------------
LadderTypeOK ==
    /\ ledger \subseteq Rung
    /\ \A g \in Rung : /\ Len(log[g]) <= Len(Notices(g))
                       /\ \A i \in DOMAIN log[g] : log[g][i].status \in Outcomes
                       /\ \A i \in DOMAIN mails[g] : mails[g][i] \in
                            {"TRANSPORTER", "OWNER", "TRAFFIC_POLICE"}
    /\ climb \in [Evaluator -> [pc : {"idle", "fire", "send", "record", "done", "dead"},
                                top : 0..3, rung : 1..4, pos : 1..7, outcome : Outcomes]]
    /\ contact \in BOOLEAN /\ mailer \in BOOLEAN
    /\ mailFaults \in 0..MaxMailFaults /\ ladderCrashes \in 0..MaxLadderCrashes

\* A rung is only on the ledger when the rungs below it are, whatever evaluators
\* with different dwell times overlap or die.
LadderHasNoGaps ==
    \A g \in ledger : \A lower \in 1..g : lower \in ledger

\* "re-running the evaluator [...] cannot send a transporter the same notice
\* twice": no notice is logged twice, no role gets two mails of one rung, and no
\* row claims SENT for a mail that never left.
OneNoticePerChannel == \A g \in Rung :
    /\ \A i, j \in DOMAIN log[g] : i # j => log[g][i].to # log[g][j].to
    /\ \A i, j \in DOMAIN mails[g] : i # j => mails[g][i] # mails[g][j]
    /\ \A i \in DOMAIN log[g] :
         log[g][i].status = "SENT" => \E j \in DOMAIN mails[g] : mails[g][j] = log[g][i].to.role

Notified(g) == Len(log[g]) = Len(Notices(g))

\* "each delivery channel is recorded": a fired rung has in the end one row for
\* every channel of every recipient, unless the evaluator that fired it died on
\* that very rung.
FiredRungsAreNotified == \A g \in Rung :
    (g \in ledger) ~>
        (Notified(g) \/ \E e \in Evaluator : climb[e].pc = "dead" /\ climb[e].rung = g)
=============================================================================
