---------------------------- MODULE ViolationCase ----------------------------
(***************************************************************************)
(* One traffic-violation case: core.violation_case, its core.alert rows,   *)
(* its core.challan and its core.case_audit log, as gateway/enforcement.py *)
(* and gateway/routers/violations.py keep them.  Every statement of those  *)
(* functions commits on its own, so a request is a walk through labels and *)
(* other requests run between any two of them.  Cases share no row, hence  *)
(* one case; its audit log is the set of events logged so far: their order *)
(* is the order of the inserts and no rule reads it.                       *)
(***************************************************************************)
EXTENDS Naturals, FiniteSets

CONSTANTS Request,     \* HTTP requests that may be in flight
          Kind,        \* violation kinds
          Rate,        \* outcomes of the fine engine for a kind (day, night)
          Job,         \* what a request may ask for
          MaxCrashes   \* bound on requests that die between two statements

CaseStates == <<"DETECTED", "REVIEWED", "CONFIRMED", "CHALLAN_ISSUED", "PAID",
                "CLOSED">>
Stored == {CaseStates[i] : i \in 1..6}
Asked == Stored \union {"DISPUTED"}

CommitJob == [op : {"commit"}, kinds : SUBSET Kind \ {{}}, rate : Rate,
              issue : BOOLEAN]
TransitionJob == [op : {"transition"}, to : Asked]

ASSUME JobAssumption == Job \subseteq CommitJob \union TransitionJob
ASSUME RequestAssumption == IsFiniteSet(Request)
ASSUME CrashAssumption == MaxCrashes \in Nat
ASSUME RateAssumption == "none" \notin Rate

\* _ALLOWED: the legal transitions, as pairs.
Allowed ==
    {<<"DETECTED", "REVIEWED">>, <<"DETECTED", "CLOSED">>,
     <<"REVIEWED", "CONFIRMED">>, <<"REVIEWED", "DETECTED">>,
     <<"REVIEWED", "CLOSED">>, <<"CONFIRMED", "CHALLAN_ISSUED">>,
     <<"CONFIRMED", "CLOSED">>, <<"CHALLAN_ISSUED", "PAID">>,
     <<"CHALLAN_ISSUED", "DISPUTED">>, <<"CHALLAN_ISSUED", "CLOSED">>,
     <<"PAID", "CLOSED">>, <<"DISPUTED", "CHALLAN_ISSUED">>,
     <<"DISPUTED", "CLOSED">>}

VARIABLES
    status,      \* violation_case.status, "none" while there is no row
    total,       \* the <<kind, rate>> pairs summed in violation_case.total_fine
    alert,       \* the rate on the case's alert row of each kind, or "none"
    challan,     \* status of the challan ("none": no row) and the pairs it fines
    audit,       \* the events in core.case_audit
    pc, alive,   \* where each request is, and whether it still runs
    job,         \* what the request asked for
    seen,        \* the status it last read, or last wrote itself
    existing,    \* the alert rows it read before inserting its own
    pending,     \* the kinds it has still to insert
    target,      \* where advance_to is walking
    overlapped,  \* have two requests ever been in flight together?
    crashes

caseVars == <<status, total, alert, challan, audit, pc, alive, job, seen,
              existing, pending, target, overlapped, crashes>>

NoJob == [op |-> "none"]
Busy(r) == alive[r] /\ pc[r] \notin {"idle", "done", "refused"}
At(r, label) == alive[r] /\ pc[r] = label
Goto(r, label) == pc' = [pc EXCEPT ![r] = label]

\* The request answers, and its local variables are gone.
Answer(r, label) ==
    /\ Goto(r, label)
    /\ job' = [job EXCEPT ![r] = NoJob] /\ seen' = [seen EXCEPT ![r] = "none"]
    /\ existing' = [existing EXCEPT ![r] = {}] /\ pending' = [pending EXCEPT ![r] = {}]
    /\ target' = [target EXCEPT ![r] = "CONFIRMED"]

\* enforcement._CANON.index
Rank(s) == CHOOSE i \in 1..6 : CaseStates[i] = s

Event(name, from, to) == [event |-> name, from |-> from, to |-> to]
Opened == \E e \in audit : e.event = "CASE_OPENED"

CaseInit ==
    /\ status = "none" /\ total = {} /\ alert = [k \in Kind |-> "none"]
    /\ challan = [state |-> "none", fine |-> {}] /\ audit = {}
    /\ pc = [r \in Request |-> "idle"] /\ alive = [r \in Request |-> TRUE]
    /\ job = [r \in Request |-> NoJob] /\ seen = [r \in Request |-> "none"]
    /\ existing = [r \in Request |-> {}] /\ pending = [r \in Request |-> {}]
    /\ target = [r \in Request |-> "CONFIRMED"]
    /\ overlapped = FALSE /\ crashes = 0

row == <<status, total, alert, challan, audit>>
request == <<job, seen, existing, pending, target>>

\* POST /commit, /enforce or /transition arrives.
Begin(r, j) ==
    /\ At(r, "idle")
    /\ job' = [job EXCEPT ![r] = j]
    /\ Goto(r, IF j.op = "commit" THEN "open" ELSE "trRead")
    /\ overlapped' = (overlapped \/ \E o \in Request : Busy(o))
    /\ UNCHANGED <<row, alive, seen, existing, pending, target, crashes>>

-----------------------------------------------------------------------------
(* _commit_case *)

\* Faulty variant: the upsert resets the status.
OpenCaseReset(r) ==
    /\ At(r, "open")
    /\ status' = "DETECTED"
    /\ Goto(r, "openCheck")
    /\ UNCHANGED <<total, alert, challan, audit, request, alive, overlapped, crashes>>

\* INSERT ... ON CONFLICT (case_id) DO NOTHING
OpenCase(r) ==
    /\ At(r, "open")
    /\ status' = IF status = "none" THEN "DETECTED" ELSE status
    /\ Goto(r, "openCheck")
    /\ UNCHANGED <<total, alert, challan, audit, request, alive, overlapped, crashes>>

\* has the case a CASE_OPENED row?
CheckOpened(r) ==
    /\ At(r, "openCheck")
    /\ Goto(r, IF Opened THEN "existing" ELSE "openAudit")
    /\ UNCHANGED <<row, request, alive, overlapped, crashes>>

AuditOpened(r) ==
    /\ At(r, "openAudit")
    /\ audit' = audit \union {Event("CASE_OPENED", "none", "DETECTED")}
    /\ Goto(r, "existing")
    /\ UNCHANGED <<status, total, alert, challan, request, alive, overlapped, crashes>>

\* existing_violations
ReadAlerts(r) ==
    /\ At(r, "existing")
    /\ LET found == {k \in Kind : alert[k] # "none"} IN
       /\ existing' = [existing EXCEPT ![r] = {<<k, alert[k]>> : k \in found}]
       /\ pending' = [pending EXCEPT ![r] = job[r].kinds \ found]
    /\ Goto(r, "alerts")
    /\ UNCHANGED <<row, alive, job, seen, target, overlapped, crashes>>

\* Faulty variant: the loser of a race takes the winner's row for its own.
InsertAlertSkipping(r, k) ==
    /\ At(r, "alerts") /\ k \in pending[r]
    /\ alert' = IF alert[k] = "none" THEN [alert EXCEPT ![k] = job[r].rate] ELSE alert
    /\ pending' = [pending EXCEPT ![r] = @ \ {k}]
    /\ UNCHANGED <<status, total, challan, audit, pc, alive, job, seen, existing,
                   target, overlapped, crashes>>

\* insert_violation_alert: the unique index on (case_id, kind) is named
\* uq_alert_case_kind, the handler looks for "uq_alerts_case_kind", so a lost
\* race is raised and the commit answers 503.
InsertAlert(r, k) ==
    /\ At(r, "alerts") /\ k \in pending[r]
    /\ IF alert[k] = "none"
       THEN /\ alert' = [alert EXCEPT ![k] = job[r].rate]
            /\ pending' = [pending EXCEPT ![r] = @ \ {k}]
            /\ UNCHANGED alive
       ELSE /\ alive' = [alive EXCEPT ![r] = FALSE]
            /\ UNCHANGED <<alert, pending>>
    /\ UNCHANGED <<status, total, challan, audit, pc, job, seen, existing,
                   target, overlapped, crashes>>

AlertsDone(r) ==
    /\ At(r, "alerts") /\ pending[r] = {}
    /\ target' = [target EXCEPT ![r] = "CONFIRMED"]
    /\ Goto(r, "advRead")
    /\ UNCHANGED <<row, alive, job, seen, existing, pending, overlapped, crashes>>

\* advance_to reads the status once ...
AdvanceRead(r) ==
    /\ At(r, "advRead")
    /\ seen' = [seen EXCEPT ![r] = status]
    /\ Goto(r, "adv")
    /\ UNCHANGED <<row, alive, job, existing, pending, target, overlapped, crashes>>

\* ... and then writes each next status over whatever the row holds.
AdvanceWrite(r) ==
    /\ At(r, "adv") /\ Rank(seen[r]) < Rank(target[r])
    /\ status' = CaseStates[Rank(seen[r]) + 1]
    /\ Goto(r, "advAudit")
    /\ UNCHANGED <<total, alert, challan, audit, request, alive, overlapped, crashes>>

AdvanceAudit(r) ==
    /\ At(r, "advAudit")
    /\ LET next == CaseStates[Rank(seen[r]) + 1] IN
       /\ audit' = audit \union {Event("TRANSITION", seen[r], next)}
       /\ seen' = [seen EXCEPT ![r] = next]
    /\ Goto(r, "adv")
    /\ UNCHANGED <<status, total, alert, challan, alive, job, existing, pending,
                   target, overlapped, crashes>>

AdvanceDone(r) ==
    /\ At(r, "adv") /\ Rank(seen[r]) >= Rank(target[r])
    /\ IF target[r] = "CONFIRMED" THEN Goto(r, "totals") /\ UNCHANGED request
       ELSE Answer(r, "done")
    /\ UNCHANGED <<row, alive, overlapped, crashes>>

\* all_fines: what the case already had, and this commit's own kinds.
AllFines(r) ==
    existing[r] \union
    {<<k, job[r].rate>> : k \in {k \in job[r].kinds : \A f \in existing[r] : f[1] # k}}

SetTotals(r) ==
    /\ At(r, "totals")
    /\ total' = AllFines(r)
    /\ IF job[r].issue THEN Goto(r, "issueRead") /\ UNCHANGED request
       ELSE Answer(r, "done")
    /\ UNCHANGED <<status, alert, challan, audit, alive, overlapped, crashes>>

\* issue_challan: an existing challan is returned as it is.
IssueRead(r) ==
    /\ At(r, "issueRead")
    /\ target' = [target EXCEPT ![r] = "CHALLAN_ISSUED"]
    /\ Goto(r, IF challan.state = "none" THEN "issueInsert" ELSE "advRead")
    /\ UNCHANGED <<row, alive, job, seen, existing, pending, overlapped, crashes>>

\* INSERT ... ON CONFLICT (case_id) DO NOTHING
IssueInsert(r) ==
    /\ At(r, "issueInsert")
    /\ challan' = IF challan.state = "none"
                  THEN [state |-> "ISSUED", fine |-> AllFines(r)] ELSE challan
    /\ Goto(r, "issueAudit")
    /\ UNCHANGED <<status, total, alert, audit, request, alive, overlapped, crashes>>

IssueAudit(r) ==
    /\ At(r, "issueAudit")
    /\ audit' = audit \union {Event("CHALLAN_ISSUED", "none", "CHALLAN_ISSUED")}
    /\ Goto(r, "advRead")
    /\ UNCHANGED <<status, total, alert, challan, request, alive, overlapped, crashes>>

Commit(r) ==
    \/ OpenCase(r) \/ CheckOpened(r) \/ AuditOpened(r) \/ ReadAlerts(r)
    \/ (\E k \in Kind : InsertAlert(r, k)) \/ AlertsDone(r)
    \/ AdvanceRead(r) \/ AdvanceWrite(r) \/ AdvanceAudit(r) \/ AdvanceDone(r)
    \/ SetTotals(r) \/ IssueRead(r) \/ IssueInsert(r) \/ IssueAudit(r)

-----------------------------------------------------------------------------
(* transition_case *)

TransitionRead(r) ==
    /\ At(r, "trRead")
    /\ IF <<status, job[r].to>> \in Allowed
       THEN /\ seen' = [seen EXCEPT ![r] = status]
            /\ Goto(r, "trWrite")
            /\ UNCHANGED <<job, existing, pending, target>>
       ELSE Answer(r, "refused")
    /\ UNCHANGED <<row, alive, overlapped, crashes>>

\* The column's CHECK constraint has no DISPUTED: that write raises (503).
TransitionWrite(r) ==
    /\ At(r, "trWrite")
    /\ IF job[r].to \in Stored
       THEN /\ status' = job[r].to
            /\ Goto(r, IF job[r].to \in {"PAID", "CLOSED"} THEN "trMirror" ELSE "trAudit")
            /\ UNCHANGED alive
       ELSE /\ alive' = [alive EXCEPT ![r] = FALSE]
            /\ UNCHANGED <<status, pc>>
    /\ UNCHANGED <<total, alert, challan, audit, request, overlapped, crashes>>

\* Faulty variant: a mirrored transition answers without its audit row.
TransitionMirrorUnaudited(r) ==
    /\ At(r, "trMirror")
    /\ challan' = IF challan.state = "none" THEN challan
                  ELSE [challan EXCEPT !.state = job[r].to]
    /\ Answer(r, "done")
    /\ UNCHANGED <<status, total, alert, audit, alive, overlapped, crashes>>

\* The challan's status follows the case's, when there is a challan.
TransitionMirror(r) ==
    /\ At(r, "trMirror")
    /\ challan' = IF challan.state = "none" THEN challan
                  ELSE [challan EXCEPT !.state = job[r].to]
    /\ Goto(r, "trAudit")
    /\ UNCHANGED <<status, total, alert, audit, request, alive, overlapped, crashes>>

TransitionAudit(r) ==
    /\ At(r, "trAudit")
    /\ audit' = audit \union {Event("TRANSITION", seen[r], job[r].to)}
    /\ Answer(r, "done")
    /\ UNCHANGED <<status, total, alert, challan, alive, overlapped, crashes>>

Transition(r) == \/ TransitionRead(r) \/ TransitionWrite(r)
                 \/ TransitionMirror(r) \/ TransitionAudit(r)

-----------------------------------------------------------------------------
\* The process or its database connection goes away: what the request has not
\* written by now is never written.
Die(r) ==
    /\ Busy(r) /\ crashes < MaxCrashes
    /\ alive' = [alive EXCEPT ![r] = FALSE]
    /\ crashes' = crashes + 1
    /\ UNCHANGED <<row, request, pc, overlapped>>

CaseNext == \E r \in Request :
    \/ \E j \in Job : Begin(r, j)
    \/ Commit(r) \/ Transition(r) \/ Die(r)

CaseSpec == CaseInit /\ [][CaseNext]_caseVars

-----------------------------------------------------------------------------
CaseTypeOK ==
    /\ status \in Stored \union {"none"}
    /\ total \subseteq Kind \X Rate
    /\ alert \in [Kind -> Rate \union {"none"}]
    /\ challan \in [state : {"none", "ISSUED", "PAID", "CLOSED"},
                    fine : SUBSET (Kind \X Rate)]
    /\ pc \in [Request -> {"idle", "open", "openCheck", "openAudit", "existing",
                 "alerts", "advRead", "adv", "advAudit", "totals", "issueRead",
                 "issueInsert", "issueAudit", "trRead", "trWrite", "trMirror",
                 "trAudit", "done", "refused"}]
    /\ alive \in [Request -> BOOLEAN]
    /\ job \in [Request -> Job \union {NoJob}]
    /\ seen \in [Request -> Stored \union {"none"}]
    /\ existing \in [Request -> SUBSET (Kind \X Rate)]
    /\ pending \in [Request -> SUBSET Kind]
    /\ target \in [Request -> {"CONFIRMED", "CHALLAN_ISSUED"}]
    /\ overlapped \in BOOLEAN /\ crashes \in 0..MaxCrashes

\* The status a request has written and not yet entered in the log; a request
\* that died keeps its debt for ever.
Owes(r) ==
    CASE pc[r] \in {"openCheck", "openAudit"} -> {"DETECTED"}
      [] pc[r] = "advAudit" -> {CaseStates[Rank(seen[r]) + 1]}
      [] pc[r] \in {"trMirror", "trAudit"} -> {job[r].to}
      [] OTHER -> {}

\* The log explains the case: the status a case shows is the target of a logged
\* event, or of a write whose logging is still due or died with its request.
StatusIsAudited ==
    status = "none" \/ (\E e \in audit : e.to = status)
                    \/ (\E r \in Request : status \in Owes(r))

\* A challan fines only what the case's alert rows say, at the rate they say,
\* however many commits of different hours race on the case.
ChallanBackedByAlerts ==
    \A f \in challan.fine : alert[f[1]] = f[2]

\* One case has one challan and its fine is never rewritten.
ChallanIsImmutable ==
    [][challan.state # "none" =>
         challan'.state # "none" /\ challan'.fine = challan.fine]_caseVars

\* While requests come one at a time, also after some of them died half way,
\* the status moves only along _ALLOWED.
LoneHopsAreLegal ==
    [][status' # status /\ status # "none" /\ ~overlapped =>
         <<status, status'>> \in Allowed]_caseVars

\* "PAID only after a challan" (gateway/enforcement.py:44).
PaidOnlyAfterAChallan == status = "PAID" => challan.state # "none"
=============================================================================
