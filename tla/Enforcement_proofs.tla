------------------------ MODULE Enforcement_proofs -------------------------
(***************************************************************************)
(* Proofs about the scenes of enforcement and parking, one part for each.  *)
(*                                                                         *)
(* ViolationCase, for every set of requests, kinds, rates and jobs and any *)
(* number of crashes: the challan and its alerts, the audit log, and the   *)
(* hops of requests that come one at a time.                               *)
(*                                                                         *)
(* EscalationLadder, for every number of mail faults and crashes: the      *)
(* ladder is climbed rung by rung, and a notice is sent once a channel.    *)
(*                                                                         *)
(* ParkingSlots, for every number of vehicles, slots, requests and stays:  *)
(* who holds a slot while no stay has been closed twice, and that only a   *)
(* lost request leaves a slot occupied with nobody in it.                  *)
(***************************************************************************)
EXTENDS ViolationCase, EscalationLadder, ParkingSlots,
        SequenceTheorems, FiniteSetTheorems, TLAPS

-----------------------------------------------------------------------------
(* Violation cases                                                         *)

CommitLabels == {"open", "openCheck", "openAudit", "existing", "alerts", "advRead",
                 "adv", "advAudit", "totals", "issueRead", "issueInsert", "issueAudit"}
TransitionLabels == {"trRead", "trWrite", "trMirror", "trAudit"}

(* A request is where its job may take it.                                   *)
JobFits == \A r \in Request :
  /\ pc[r] \in CommitLabels => job[r] \in CommitJob
  /\ pc[r] \in TransitionLabels => job[r] \in TransitionJob
  /\ pc[r] = "trMirror" => job[r].to \in {"PAID", "CLOSED"}
  /\ pc[r] = "trAudit" => job[r].to \in Stored

(* Past its first statement a commit works on a case that exists, and an     *)
(* advance has a status of the ladder to go on from.                         *)
RowIsOpen == \A r \in Request : pc[r] \in CommitLabels \ {"open"} => status # "none"
SeenIsACase == \A r \in Request :
  /\ pc[r] \in {"adv", "advAudit"} => seen[r] \in Stored
  /\ pc[r] = "advAudit" => Rank(seen[r]) < Rank(target[r])

CaseInv == CaseTypeOK /\ JobFits /\ RowIsOpen /\ SeenIsACase

LEMMA RankFacts ==
  /\ \A s \in Stored : Rank(s) \in 1 .. 6 /\ CaseStates[Rank(s)] = s
  /\ \A i \in 1 .. 6 : CaseStates[i] \in Stored /\ Rank(CaseStates[i]) = i
  /\ Rank("CONFIRMED") = 3 /\ Rank("CHALLAN_ISSUED") = 4
  /\ "CONFIRMED" \in Stored /\ "CHALLAN_ISSUED" \in Stored
  /\ "none" \notin Stored
<1>1. \A s \in Stored : \E i \in 1 .. 6 : CaseStates[i] = s
  BY DEF Stored
<1>2. \A s \in Stored : Rank(s) \in 1 .. 6 /\ CaseStates[Rank(s)] = s
  BY <1>1 DEF Rank
<1>3. \A i \in 1 .. 6 : CaseStates[i] \in Stored
  BY DEF Stored
<1>4. \A i, j \in 1 .. 6 : CaseStates[i] = CaseStates[j] => i = j
  BY DEF CaseStates
<1>5. \A i \in 1 .. 6 : Rank(CaseStates[i]) = i
  BY <1>2, <1>3, <1>4
<1>6. CaseStates[3] = "CONFIRMED" /\ CaseStates[4] = "CHALLAN_ISSUED"
  BY DEF CaseStates
<1>7. "none" \notin Stored
  BY DEF Stored, CaseStates
<1>8. QED
  BY <1>2, <1>3, <1>5, <1>6, <1>7

LEMMA JobFacts ==
  /\ \A j \in CommitJob : j.op = "commit" /\ j.kinds \subseteq Kind /\ j.rate \in Rate
                          /\ j.issue \in BOOLEAN
  /\ \A j \in TransitionJob : j.op = "transition" /\ j.to \in Asked
  /\ \A j \in Job : j.op = "commit" => j \in CommitJob
  /\ \A j \in Job : j.op # "commit" => j \in TransitionJob
  BY JobAssumption DEF CommitJob, TransitionJob

LEMMA FinesAreFines ==
  ASSUME CaseInv, NEW r \in Request, pc[r] \in CommitLabels
  PROVE  AllFines(r) \in SUBSET (Kind \X Rate)
<1>1. job[r].kinds \subseteq Kind /\ job[r].rate \in Rate
  BY JobFacts DEF CaseInv, JobFits
<1>2. existing[r] \subseteq Kind \X Rate
  BY DEF CaseInv, CaseTypeOK
<1>3. QED
  BY <1>1, <1>2 DEF AllFines

-----------------------------------------------------------------------------
LEMMA TypeStep ==
  ASSUME CaseInv, [CaseNext]_caseVars
  PROVE  CaseTypeOK'
<1> USE DEF row, request, At, Goto, CaseInv
<1>1. ASSUME NEW r \in Request, NEW j \in Job, Begin(r, j) PROVE CaseTypeOK'
  BY <1>1 DEF Begin, CaseTypeOK
<1>2. ASSUME NEW r \in Request, OpenCase(r) PROVE CaseTypeOK'
  <2>1. "DETECTED" \in Stored
    BY RankFacts DEF CaseStates
  <2>2. QED
    BY <1>2, <2>1 DEF OpenCase, CaseTypeOK
<1>3. ASSUME NEW r \in Request, CheckOpened(r) PROVE CaseTypeOK'
  BY <1>3 DEF CheckOpened, CaseTypeOK
<1>4. ASSUME NEW r \in Request, AuditOpened(r) PROVE CaseTypeOK'
  BY <1>4 DEF AuditOpened, CaseTypeOK
<1>5. ASSUME NEW r \in Request, ReadAlerts(r) PROVE CaseTypeOK'
  <2> DEFINE found == {k \in Kind : alert[k] # "none"}
  <2>1. {<<k, alert[k]>> : k \in found} \in SUBSET (Kind \X Rate)
    BY DEF CaseTypeOK
  <2>2. job[r].kinds \ found \in SUBSET Kind
    BY <1>5, JobFacts DEF ReadAlerts, JobFits, CommitLabels
  <2>3. existing' = [existing EXCEPT ![r] = {<<k, alert[k]>> : k \in found}]
        /\ pending' = [pending EXCEPT ![r] = job[r].kinds \ found]
    BY <1>5 DEF ReadAlerts
  <2>4. existing' \in [Request -> SUBSET (Kind \X Rate)] /\ pending' \in [Request -> SUBSET Kind]
    BY <2>1, <2>2, <2>3 DEF CaseTypeOK
  <2>5. QED
    BY <1>5, <2>4 DEF ReadAlerts, CaseTypeOK
<1>6. ASSUME NEW r \in Request, NEW k \in Kind, InsertAlert(r, k) PROVE CaseTypeOK'
  <2>1. job[r].rate \in Rate
    BY <1>6, JobFacts DEF InsertAlert, JobFits, CommitLabels
  <2>2. pending[r] \ {k} \in SUBSET Kind
    BY DEF CaseTypeOK
  <2>3. pending' \in [Request -> SUBSET Kind]
    BY <1>6, <2>2 DEF InsertAlert, CaseTypeOK
  <2>4. alert' \in [Kind -> Rate \union {"none"}]
    BY <1>6, <2>1 DEF InsertAlert, CaseTypeOK
  <2>5. QED
    BY <1>6, <2>3, <2>4 DEF InsertAlert, CaseTypeOK
<1>7. ASSUME NEW r \in Request, AlertsDone(r) PROVE CaseTypeOK'
  BY <1>7 DEF AlertsDone, CaseTypeOK
<1>8. ASSUME NEW r \in Request, AdvanceRead(r) PROVE CaseTypeOK'
  BY <1>8 DEF AdvanceRead, CaseTypeOK
<1>9. ASSUME NEW r \in Request, AdvanceWrite(r) PROVE CaseTypeOK'
  <2>1. Rank(seen[r]) \in 1 .. 6 /\ Rank(target[r]) \in 1 .. 6
    BY <1>9, RankFacts DEF AdvanceWrite, SeenIsACase, CaseTypeOK
  <2>2. CaseStates[Rank(seen[r]) + 1] \in Stored
    BY <1>9, <2>1, RankFacts DEF AdvanceWrite
  <2>3. QED
    BY <1>9, <2>2 DEF AdvanceWrite, CaseTypeOK
<1>10. ASSUME NEW r \in Request, AdvanceAudit(r) PROVE CaseTypeOK'
  <2>1. Rank(seen[r]) \in 1 .. 6 /\ Rank(target[r]) \in 1 .. 6 /\ Rank(seen[r]) < Rank(target[r])
    BY <1>10, RankFacts DEF AdvanceAudit, SeenIsACase, CaseTypeOK
  <2>2. CaseStates[Rank(seen[r]) + 1] \in Stored
    BY <2>1, RankFacts
  <2>3. QED
    BY <1>10, <2>2 DEF AdvanceAudit, CaseTypeOK
<1>11. ASSUME NEW r \in Request, AdvanceDone(r) PROVE CaseTypeOK'
  BY <1>11 DEF AdvanceDone, Answer, CaseTypeOK
<1>12. ASSUME NEW r \in Request, SetTotals(r) PROVE CaseTypeOK'
  <2>1. AllFines(r) \in SUBSET (Kind \X Rate)
    BY <1>12, FinesAreFines DEF SetTotals, CommitLabels
  <2>2. QED
    BY <1>12, <2>1 DEF SetTotals, Answer, CaseTypeOK
<1>13. ASSUME NEW r \in Request, IssueRead(r) PROVE CaseTypeOK'
  BY <1>13 DEF IssueRead, CaseTypeOK
<1>14. ASSUME NEW r \in Request, IssueInsert(r) PROVE CaseTypeOK'
  <2>1. AllFines(r) \in SUBSET (Kind \X Rate)
    BY <1>14, FinesAreFines DEF IssueInsert, CommitLabels
  <2>2. challan' \in [state : {"none", "ISSUED", "PAID", "CLOSED"}, fine : SUBSET (Kind \X Rate)]
    BY <1>14, <2>1 DEF IssueInsert, CaseTypeOK
  <2>3. QED
    BY <1>14, <2>2 DEF IssueInsert, CaseTypeOK
<1>15. ASSUME NEW r \in Request, IssueAudit(r) PROVE CaseTypeOK'
  BY <1>15 DEF IssueAudit, CaseTypeOK
<1>16. ASSUME NEW r \in Request, TransitionRead(r) PROVE CaseTypeOK'
  BY <1>16 DEF TransitionRead, Answer, CaseTypeOK
<1>17. ASSUME NEW r \in Request, TransitionWrite(r) PROVE CaseTypeOK'
  BY <1>17 DEF TransitionWrite, CaseTypeOK
<1>18. ASSUME NEW r \in Request, TransitionMirror(r) PROVE CaseTypeOK'
  <2>1. job[r].to \in {"PAID", "CLOSED"}
    BY <1>18 DEF TransitionMirror, JobFits
  <2>2. challan' \in [state : {"none", "ISSUED", "PAID", "CLOSED"}, fine : SUBSET (Kind \X Rate)]
    BY <1>18, <2>1 DEF TransitionMirror, CaseTypeOK
  <2>3. QED
    BY <1>18, <2>2 DEF TransitionMirror, CaseTypeOK
<1>19. ASSUME NEW r \in Request, TransitionAudit(r) PROVE CaseTypeOK'
  BY <1>19 DEF TransitionAudit, Answer, CaseTypeOK
<1>20. ASSUME NEW r \in Request, Die(r) PROVE CaseTypeOK'
  BY <1>20, CrashAssumption DEF Die, CaseTypeOK
<1>21. ASSUME UNCHANGED caseVars PROVE CaseTypeOK'
  BY <1>21 DEF caseVars, CaseTypeOK
<1>22. QED
  BY <1>1, <1>2, <1>3, <1>4, <1>5, <1>6, <1>7, <1>8, <1>9, <1>10, <1>11, <1>12, <1>13,
     <1>14, <1>15, <1>16, <1>17, <1>18, <1>19, <1>20, <1>21
  DEF CaseNext, Commit, Transition

LEMMA ControlStep ==
  ASSUME CaseInv, [CaseNext]_caseVars
  PROVE  JobFits' /\ RowIsOpen' /\ SeenIsACase'
<1> USE DEF row, request, At, Goto, CaseInv
<1>t. /\ DOMAIN pc = Request /\ status \in Stored \union {"none"}
      /\ \A r \in Request : target[r] \in {"CONFIRMED", "CHALLAN_ISSUED"}
      /\ job \in [Request -> Job \union {NoJob}]
      /\ seen \in [Request -> Stored \union {"none"}]
      /\ target \in [Request -> {"CONFIRMED", "CHALLAN_ISSUED"}]
  BY DEF CaseTypeOK
<1> USE <1>t DEF CommitLabels, TransitionLabels
<1>1. ASSUME NEW r \in Request, NEW j \in Job, Begin(r, j)
      PROVE  JobFits' /\ RowIsOpen' /\ SeenIsACase'
  BY <1>1, JobFacts DEF Begin, JobFits, RowIsOpen, SeenIsACase
<1>2. ASSUME NEW r \in Request, OpenCase(r)
      PROVE  JobFits' /\ RowIsOpen' /\ SeenIsACase'
  BY <1>2 DEF OpenCase, JobFits, RowIsOpen, SeenIsACase
<1>3. ASSUME NEW r \in Request, CheckOpened(r) \/ AuditOpened(r)
      PROVE  JobFits' /\ RowIsOpen' /\ SeenIsACase'
  BY <1>3 DEF CheckOpened, AuditOpened, JobFits, RowIsOpen, SeenIsACase
<1>4. ASSUME NEW r \in Request, ReadAlerts(r) \/ AlertsDone(r)
      PROVE  JobFits' /\ RowIsOpen' /\ SeenIsACase'
  BY <1>4 DEF ReadAlerts, AlertsDone, JobFits, RowIsOpen, SeenIsACase
<1>5. ASSUME NEW r \in Request, NEW k \in Kind, InsertAlert(r, k)
      PROVE  JobFits' /\ RowIsOpen' /\ SeenIsACase'
  BY <1>5 DEF InsertAlert, JobFits, RowIsOpen, SeenIsACase
<1>6. ASSUME NEW r \in Request, AdvanceRead(r)
      PROVE  JobFits' /\ RowIsOpen' /\ SeenIsACase'
  BY <1>6 DEF AdvanceRead, JobFits, RowIsOpen, SeenIsACase
<1>7. ASSUME NEW r \in Request, AdvanceWrite(r)
      PROVE  JobFits' /\ RowIsOpen' /\ SeenIsACase'
  <2>1. Rank(seen[r]) \in 1 .. 6 /\ Rank(target[r]) \in 1 .. 6
    BY <1>7, RankFacts DEF AdvanceWrite, SeenIsACase
  <2>2. CaseStates[Rank(seen[r]) + 1] # "none"
    BY <1>7, <2>1, RankFacts DEF AdvanceWrite
  <2>3. QED
    BY <1>7, <2>2 DEF AdvanceWrite, JobFits, RowIsOpen, SeenIsACase
<1>8. ASSUME NEW r \in Request, AdvanceAudit(r)
      PROVE  JobFits' /\ RowIsOpen' /\ SeenIsACase'
  <2>1. Rank(seen[r]) \in 1 .. 6 /\ Rank(target[r]) \in 1 .. 6 /\ Rank(seen[r]) < Rank(target[r])
    BY <1>8, RankFacts DEF AdvanceAudit, SeenIsACase
  <2>2. CaseStates[Rank(seen[r]) + 1] \in Stored
    BY <2>1, RankFacts
  <2>3. QED
    BY <1>8, <2>2 DEF AdvanceAudit, JobFits, RowIsOpen, SeenIsACase
<1>9. ASSUME NEW r \in Request, AdvanceDone(r)
      PROVE  JobFits' /\ RowIsOpen' /\ SeenIsACase'
  BY <1>9 DEF AdvanceDone, Answer, JobFits, RowIsOpen, SeenIsACase
<1>10. ASSUME NEW r \in Request, SetTotals(r)
       PROVE  JobFits' /\ RowIsOpen' /\ SeenIsACase'
  BY <1>10 DEF SetTotals, Answer, JobFits, RowIsOpen, SeenIsACase
<1>11. ASSUME NEW r \in Request, IssueRead(r) \/ IssueInsert(r) \/ IssueAudit(r)
       PROVE  JobFits' /\ RowIsOpen' /\ SeenIsACase'
  BY <1>11 DEF IssueRead, IssueInsert, IssueAudit, JobFits, RowIsOpen, SeenIsACase
<1>12. ASSUME NEW r \in Request, TransitionRead(r)
       PROVE  JobFits' /\ RowIsOpen' /\ SeenIsACase'
  BY <1>12 DEF TransitionRead, Answer, JobFits, RowIsOpen, SeenIsACase
<1>13. ASSUME NEW r \in Request, TransitionWrite(r)
       PROVE  JobFits' /\ RowIsOpen' /\ SeenIsACase'
  BY <1>13, RankFacts DEF TransitionWrite, JobFits, RowIsOpen, SeenIsACase
<1>14. ASSUME NEW r \in Request, TransitionMirror(r)
       PROVE  JobFits' /\ RowIsOpen' /\ SeenIsACase'
  <2>1. job[r].to \in Stored
    BY <1>14, RankFacts DEF TransitionMirror, JobFits, CaseStates
  <2>2. QED
    BY <1>14, <2>1 DEF TransitionMirror, JobFits, RowIsOpen, SeenIsACase
<1>15. ASSUME NEW r \in Request, TransitionAudit(r)
       PROVE  JobFits' /\ RowIsOpen' /\ SeenIsACase'
  BY <1>15 DEF TransitionAudit, Answer, JobFits, RowIsOpen, SeenIsACase
<1>16. ASSUME NEW r \in Request, Die(r)
       PROVE  JobFits' /\ RowIsOpen' /\ SeenIsACase'
  BY <1>16 DEF Die, JobFits, RowIsOpen, SeenIsACase
<1>17. ASSUME UNCHANGED caseVars
       PROVE  JobFits' /\ RowIsOpen' /\ SeenIsACase'
  BY <1>17 DEF caseVars, JobFits, RowIsOpen, SeenIsACase
<1>18. QED
  BY <1>1, <1>2, <1>3, <1>4, <1>5, <1>6, <1>7, <1>8, <1>9, <1>10, <1>11, <1>12, <1>13,
     <1>14, <1>15, <1>16, <1>17
  DEF CaseNext, Commit, Transition

LEMMA CaseInvHolds == CaseSpec => []CaseInv
<1>1. CaseInit => CaseInv
  <2>1. CaseInit => CaseTypeOK
    <3> SUFFICES ASSUME CaseInit PROVE CaseTypeOK
      OBVIOUS
    <3>1. challan \in [state : {"none", "ISSUED", "PAID", "CLOSED"}, fine : SUBSET (Kind \X Rate)]
      BY DEF CaseInit
    <3>2. crashes \in 0 .. MaxCrashes
      BY CrashAssumption DEF CaseInit
    <3>3. QED
      BY <3>1, <3>2 DEF CaseInit, CaseTypeOK
  <2>2. CaseInit => JobFits /\ RowIsOpen /\ SeenIsACase
    BY DEF CaseInit, JobFits, RowIsOpen, SeenIsACase, CommitLabels, TransitionLabels
  <2>3. QED
    BY <2>1, <2>2 DEF CaseInv
<1>2. CaseInv /\ [CaseNext]_caseVars => CaseInv'
  BY TypeStep, ControlStep DEF CaseInv
<1>3. QED
  BY <1>1, <1>2, PTL DEF CaseSpec

(* Every state of a case and its requests is well typed: no write takes the  *)
(* status off the column's list, whatever was asked (CaseTypeOK).            *)
THEOREM CaseTypeCorrect == CaseSpec => []CaseTypeOK
BY CaseInvHolds, PTL DEF CaseInv

-----------------------------------------------------------------------------
(* One case has one challan and its fine is never rewritten: only the insert *)
(* that found none writes a fine, and a transition mirrors a status          *)
(* (ChallanIsImmutable).                                                     *)
THEOREM ChallanNeverRewritten == CaseSpec => ChallanIsImmutable
<1>1. ASSUME CaseInv, [CaseNext]_caseVars, challan.state # "none"
      PROVE  challan'.state # "none" /\ challan'.fine = challan.fine
  <2> USE DEF row
  <2>1. CASE \E r \in Request : TransitionMirror(r)
    <3>1. PICK r \in Request : TransitionMirror(r)
      BY <2>1
    <3>2. job[r].to \in {"PAID", "CLOSED"} /\ challan' = [challan EXCEPT !.state = job[r].to]
      BY <1>1, <3>1 DEF TransitionMirror, At, CaseInv, JobFits
    <3>3. challan \in [state : {"none", "ISSUED", "PAID", "CLOSED"}, fine : SUBSET (Kind \X Rate)]
      BY <1>1 DEF CaseInv, CaseTypeOK
    <3>4. QED
      BY <3>2, <3>3
  <2>2. CASE ~\E r \in Request : TransitionMirror(r)
    <3>1. challan' = challan
      BY <1>1, <2>2
      DEF CaseNext, caseVars, Commit, Transition, Begin, OpenCase, CheckOpened, AuditOpened,
          ReadAlerts, InsertAlert, AlertsDone, AdvanceRead, AdvanceWrite, AdvanceAudit,
          AdvanceDone, SetTotals, IssueRead, IssueInsert, IssueAudit, TransitionRead,
          TransitionWrite, TransitionAudit, Die
    <3>2. QED
      BY <1>1, <3>1
  <2>3. QED
    BY <2>1, <2>2
<1>2. CaseInv /\ [CaseNext]_caseVars
        => [challan.state # "none" =>
              challan'.state # "none" /\ challan'.fine = challan.fine]_caseVars
  BY <1>1
<1>3. QED
  BY <1>2, CaseInvHolds, PTL DEF CaseSpec, ChallanIsImmutable

-----------------------------------------------------------------------------
(* The fines a request carries stand on alert rows: those it found, those it *)
(* inserted itself, and, once it has inserted them all, everything it will   *)
(* write into the totals and the challan.                                    *)
FineLabels == {"advRead", "adv", "advAudit", "totals", "issueRead", "issueInsert", "issueAudit"}
Backed(r) ==
  /\ pc[r] \in {"alerts"} \union FineLabels => \A f \in existing[r] : alert[f[1]] = f[2]
  /\ pc[r] = "alerts" => \A k \in job[r].kinds \ pending[r] :
       alert[k] = job[r].rate \/ \E f \in existing[r] : f[1] = k
  /\ pc[r] \in FineLabels => \A f \in AllFines(r) : alert[f[1]] = f[2]
FinesAreBacked == \A r \in Request : Backed(r)

AlertsStand == \A k \in Kind : alert[k] # "none" => alert'[k] = alert[k]

LEMMA AlertsAlwaysStand ==
  ASSUME CaseInv, [CaseNext]_caseVars
  PROVE  AlertsStand
<1>1. ASSUME NEW r \in Request, NEW k \in Kind, InsertAlert(r, k) PROVE AlertsStand
  BY <1>1 DEF InsertAlert, AlertsStand, CaseInv, CaseTypeOK
<1>2. CASE alert' = alert
  BY <1>2 DEF AlertsStand
<1>3. QED
  BY <1>1, <1>2
  DEF CaseNext, caseVars, Commit, Transition, Begin, OpenCase, CheckOpened, AuditOpened,
      ReadAlerts, AlertsDone, AdvanceRead, AdvanceWrite, AdvanceAudit, AdvanceDone, SetTotals,
      IssueRead, IssueInsert, IssueAudit, TransitionRead, TransitionWrite, TransitionMirror,
      TransitionAudit, Die, row

(* A request that keeps its job and its fines stays backed, as long as it    *)
(* does not pass from inserting its alerts to using them.                    *)
LEMMA StaysBacked ==
  ASSUME CaseInv, AlertsStand, NEW r \in Request, Backed(r),
         job'[r] = job[r], existing'[r] = existing[r],
         \/ pc'[r] = pc[r] /\ pending'[r] = pending[r]
         \/ pc'[r] \notin {"alerts"} \union FineLabels
         \/ {pc[r], pc'[r]} \subseteq FineLabels
  PROVE  Backed(r)'
<1>1. \A f \in Kind \X Rate : alert[f[1]] = f[2] => alert'[f[1]] = f[2]
  BY RateAssumption DEF AlertsStand
<1>2. existing[r] \subseteq Kind \X Rate
  BY DEF CaseInv, CaseTypeOK
<1>3. AllFines(r)' = AllFines(r)
  BY DEF AllFines
<1>4. pc[r] \in {"alerts"} \union FineLabels => pc[r] \in CommitLabels
  BY DEF FineLabels, CommitLabels
<1>5. pc[r] \in {"alerts"} \union FineLabels =>
        AllFines(r) \subseteq Kind \X Rate /\ job[r].kinds \subseteq Kind /\ job[r].rate \in Rate
  BY <1>4, FinesAreFines, JobFacts DEF CaseInv, JobFits
<1>6. pc'[r] \in {"alerts"} \union FineLabels => \A f \in existing'[r] : alert'[f[1]] = f[2]
  BY <1>1, <1>2 DEF Backed
<1>7. pc'[r] = "alerts" => \A k \in job'[r].kinds \ pending'[r] :
        alert'[k] = job'[r].rate \/ \E f \in existing'[r] : f[1] = k
  BY <1>5, RateAssumption DEF Backed, AlertsStand, FineLabels
<1>8. pc'[r] \in FineLabels => \A f \in AllFines(r)' : alert'[f[1]] = f[2]
  BY <1>1, <1>3, <1>5 DEF Backed
<1>9. QED
  BY <1>6, <1>7, <1>8 DEF Backed

LEMMA BackedStep ==
  ASSUME CaseInv, FinesAreBacked, [CaseNext]_caseVars
  PROVE  FinesAreBacked'
<1> USE DEF row, request, At, Goto
<1>a. AlertsStand
  BY AlertsAlwaysStand
<1>t. /\ pc \in [Request -> {"idle", "open", "openCheck", "openAudit", "existing",
                 "alerts", "advRead", "adv", "advAudit", "totals", "issueRead",
                 "issueInsert", "issueAudit", "trRead", "trWrite", "trMirror",
                 "trAudit", "done", "refused"}]
      /\ DOMAIN job = Request /\ DOMAIN existing = Request /\ DOMAIN pending = Request
  BY DEF CaseInv, CaseTypeOK
<1>q. ASSUME NEW r \in Request, Backed(r)',
             \A o \in Request \ {r} : pc'[o] = pc[o] /\ job'[o] = job[o]
                  /\ existing'[o] = existing[o] /\ pending'[o] = pending[o]
      PROVE  FinesAreBacked'
  BY <1>a, <1>q, StaysBacked DEF FinesAreBacked
<1>1. ASSUME NEW r \in Request, NEW j \in Job, Begin(r, j) PROVE FinesAreBacked'
  <2>1. Backed(r)'
    BY <1>1, <1>t DEF Begin, Backed, FineLabels
  <2>2. QED
    BY <1>1, <1>q, <1>t, <2>1 DEF Begin
<1>2. ASSUME NEW r \in Request, ReadAlerts(r) PROVE FinesAreBacked'
  <2> DEFINE found == {k \in Kind : alert[k] # "none"}
  <2>1. /\ pc'[r] = "alerts" /\ job' = job /\ alert' = alert
        /\ existing'[r] = {<<k, alert[k]>> : k \in found}
        /\ pending'[r] = job[r].kinds \ found
    BY <1>2, <1>t DEF ReadAlerts
  <2> HIDE DEF found
  <2>2. \A k \in found : \E f \in existing'[r] : f[1] = k
    <3> SUFFICES ASSUME NEW k \in found PROVE \E f \in existing'[r] : f[1] = k
      OBVIOUS
    <3>1. <<k, alert[k]>> \in existing'[r] /\ <<k, alert[k]>>[1] = k
      BY <2>1
    <3>2. QED
      BY <3>1
  <2>3. \A f \in existing'[r] : alert[f[1]] = f[2]
    BY <2>1
  <2>4. \A k \in job[r].kinds \ pending'[r] : k \in found
    BY <2>1
  <2>5. Backed(r)'
    BY <2>1, <2>2, <2>3, <2>4 DEF Backed, FineLabels
  <2>6. QED
    BY <1>2, <1>q, <1>t, <2>5 DEF ReadAlerts
<1>3. ASSUME NEW r \in Request, NEW k \in Kind, InsertAlert(r, k) PROVE FinesAreBacked'
  <2>1. CASE alert[k] = "none"
    <3>1. /\ pc[r] = "alerts" /\ pc' = pc /\ job' = job /\ existing' = existing
          /\ alert' = [alert EXCEPT ![k] = job[r].rate]
          /\ pending' = [pending EXCEPT ![r] = @ \ {k}]
      BY <1>3, <2>1 DEF InsertAlert
    <3>2. alert \in [Kind -> Rate \union {"none"}] /\ existing[r] \subseteq Kind \X Rate
      BY DEF CaseInv, CaseTypeOK
    <3>3. \A f \in existing[r] : alert'[f[1]] = f[2]
      BY <1>a, <3>1, <3>2, RateAssumption DEF AlertsStand, FinesAreBacked, Backed
    <3>4. job[r].kinds \subseteq Kind /\ job[r].rate \in Rate
      BY <3>1, JobFacts DEF CaseInv, JobFits, CommitLabels
    <3>5. \A x \in job[r].kinds \ pending'[r] :
            alert'[x] = job[r].rate \/ \E f \in existing[r] : f[1] = x
      BY <1>a, <1>t, <3>1, <3>2, <3>4, RateAssumption DEF AlertsStand, FinesAreBacked, Backed
    <3>6. Backed(r)'
      BY <3>1, <3>3, <3>5 DEF Backed, FineLabels
    <3>7. QED
      BY <1>3, <1>q, <1>t, <3>1, <3>6
  <2>2. CASE alert[k] # "none"
    <3>1. pc' = pc /\ job' = job /\ existing' = existing /\ pending' = pending
      BY <1>3, <2>2 DEF InsertAlert
    <3>2. QED
      BY <1>a, <3>1, StaysBacked DEF FinesAreBacked
  <2>3. QED
    BY <2>1, <2>2
<1>4. ASSUME NEW r \in Request, AlertsDone(r) PROVE FinesAreBacked'
  <2>1. /\ pc[r] = "alerts" /\ pc'[r] = "advRead" /\ pending[r] = {} /\ job' = job
        /\ alert' = alert /\ existing' = existing
    BY <1>4, <1>t DEF AlertsDone
  <2>2. \A f \in AllFines(r) : alert[f[1]] = f[2]
    BY <2>1 DEF FinesAreBacked, Backed, AllFines
  <2>3. AllFines(r)' = AllFines(r)
    BY <2>1 DEF AllFines
  <2>4. Backed(r)'
    BY <2>1, <2>2, <2>3 DEF FinesAreBacked, Backed
  <2>5. QED
    BY <1>4, <1>q, <1>t, <2>4 DEF AlertsDone
<1>5. ASSUME NEW r \in Request,
             AdvanceRead(r) \/ AdvanceWrite(r) \/ AdvanceAudit(r) \/ IssueRead(r)
               \/ IssueInsert(r) \/ IssueAudit(r)
      PROVE  FinesAreBacked'
  <2>1. {pc[r], pc'[r]} \subseteq FineLabels
    BY <1>5, <1>t
    DEF AdvanceRead, AdvanceWrite, AdvanceAudit, IssueRead, IssueInsert, IssueAudit, FineLabels
  <2>2. /\ job' = job /\ existing' = existing /\ pending' = pending
        /\ \A o \in Request \ {r} : pc'[o] = pc[o]
    BY <1>5, <1>t
    DEF AdvanceRead, AdvanceWrite, AdvanceAudit, IssueRead, IssueInsert, IssueAudit
  <2>3. QED
    BY <1>a, <1>q, <2>1, <2>2, StaysBacked DEF FinesAreBacked
<1>6. ASSUME NEW r \in Request, AdvanceDone(r) \/ SetTotals(r) PROVE FinesAreBacked'
  <2>1. /\ \A o \in Request \ {r} : pc'[o] = pc[o] /\ job'[o] = job[o]
              /\ existing'[o] = existing[o] /\ pending'[o] = pending[o]
        /\ pc[r] \in FineLabels
    BY <1>6, <1>t DEF AdvanceDone, SetTotals, Answer, FineLabels
  <2>2. CASE pc'[r] = "done"
    BY <1>q, <2>1, <2>2 DEF Backed, FineLabels
  <2>3. CASE pc'[r] \in FineLabels /\ job' = job /\ existing' = existing
    BY <1>a, <1>q, <2>1, <2>3, StaysBacked DEF FinesAreBacked
  <2>4. QED
    BY <1>6, <1>t, <2>2, <2>3 DEF AdvanceDone, SetTotals, Answer, FineLabels
<1>7. ASSUME NEW r \in Request,
             OpenCase(r) \/ CheckOpened(r) \/ AuditOpened(r) \/ Transition(r)
      PROVE  FinesAreBacked'
  <2>1. /\ \A o \in Request \ {r} : pc'[o] = pc[o] /\ job'[o] = job[o]
              /\ existing'[o] = existing[o] /\ pending'[o] = pending[o]
        /\ pc'[r] \notin {"alerts"} \union FineLabels
    BY <1>7, <1>t
    DEF OpenCase, CheckOpened, AuditOpened, Transition, TransitionRead, TransitionWrite,
        TransitionMirror, TransitionAudit, Answer, FineLabels
  <2>2. QED
    BY <1>q, <2>1 DEF Backed, FineLabels
<1>8. ASSUME NEW r \in Request, Die(r) PROVE FinesAreBacked'
  <2>1. pc' = pc /\ job' = job /\ existing' = existing /\ pending' = pending
    BY <1>8 DEF Die
  <2>2. QED
    BY <1>a, <2>1, StaysBacked DEF FinesAreBacked
<1>9. ASSUME UNCHANGED caseVars PROVE FinesAreBacked'
  <2>1. pc' = pc /\ job' = job /\ existing' = existing /\ pending' = pending
    BY <1>9 DEF caseVars
  <2>2. QED
    BY <1>a, <2>1, StaysBacked DEF FinesAreBacked
<1>10. QED
  BY <1>1, <1>2, <1>3, <1>4, <1>5, <1>6, <1>7, <1>8, <1>9 DEF CaseNext, Commit

(* A challan fines what the case's alert rows say at the rate they say: the  *)
(* commit that mints it has every fine of its own inserted or read, and the  *)
(* loser of an insert race never gets that far (ChallanBackedByAlerts).      *)
THEOREM ChallansAreBacked == CaseSpec => []ChallanBackedByAlerts
<1>1. CaseInit => FinesAreBacked /\ ChallanBackedByAlerts
  BY DEF CaseInit, FinesAreBacked, Backed, FineLabels, ChallanBackedByAlerts
<1>2. ASSUME CaseInv, FinesAreBacked, ChallanBackedByAlerts, [CaseNext]_caseVars
      PROVE  ChallanBackedByAlerts'
  <2> USE DEF row, At
  <2>1. AlertsStand
    BY <1>2, AlertsAlwaysStand
  <2>2. challan.fine \subseteq Kind \X Rate
    BY <1>2 DEF CaseInv, CaseTypeOK
  <2>3. \A f \in challan.fine : alert'[f[1]] = f[2]
    BY <1>2, <2>1, <2>2, RateAssumption DEF AlertsStand, ChallanBackedByAlerts
  <2>4. CASE challan'.fine = challan.fine
    BY <2>3, <2>4 DEF ChallanBackedByAlerts
  <2>5. ASSUME NEW r \in Request, IssueInsert(r) PROVE ChallanBackedByAlerts'
    <3>1. alert' = alert /\ pc[r] = "issueInsert"
          /\ (challan' = challan \/ challan' = [state |-> "ISSUED", fine |-> AllFines(r)])
      BY <2>5 DEF IssueInsert
    <3>2. \A f \in AllFines(r) : alert[f[1]] = f[2]
      BY <1>2, <3>1 DEF FinesAreBacked, Backed, FineLabels
    <3>3. QED
      BY <1>2, <3>1, <3>2 DEF ChallanBackedByAlerts
  <2>6. ASSUME NEW r \in Request, TransitionMirror(r) PROVE challan'.fine = challan.fine
    <3>1. challan \in [state : {"none", "ISSUED", "PAID", "CLOSED"}, fine : SUBSET (Kind \X Rate)]
      BY <1>2 DEF CaseInv, CaseTypeOK
    <3>2. QED
      BY <2>6, <3>1 DEF TransitionMirror
  <2>7. QED
    BY <1>2, <2>4, <2>5, <2>6
    DEF CaseNext, caseVars, Commit, Transition, Begin, OpenCase, CheckOpened, AuditOpened,
        ReadAlerts, InsertAlert, AlertsDone, AdvanceRead, AdvanceWrite, AdvanceAudit,
        AdvanceDone, SetTotals, IssueRead, IssueAudit, TransitionRead, TransitionWrite,
        TransitionAudit, Die
<1>3. CaseInv /\ FinesAreBacked /\ ChallanBackedByAlerts /\ [CaseNext]_caseVars
        => (FinesAreBacked /\ ChallanBackedByAlerts)'
  BY <1>2, BackedStep
<1>4. QED
  BY <1>1, <1>3, CaseInvHolds, PTL DEF CaseSpec

-----------------------------------------------------------------------------
(* The log explains the case (StatusIsAudited): whoever writes a status owes *)
(* its event until it is logged, and a commit that skips CASE_OPENED found   *)
(* it in the log.                                                            *)
OpenedIsDetected == \A e \in audit : e.event = "CASE_OPENED" => e.to = "DETECTED"

LEMMA EventFacts ==
  ASSUME NEW name, NEW from, NEW to, NEW events
  PROVE  /\ Event(name, from, to).event = name /\ Event(name, from, to).to = to
         /\ \E e \in events \union {Event(name, from, to)} : e.to = to
<1>1. Event(name, from, to).event = name /\ Event(name, from, to).to = to
  BY DEF Event
<1>2. QED
  BY <1>1

LEMMA OwesNothing ==
  ASSUME NEW r \in Request,
         pc[r] \notin {"openCheck", "openAudit", "advAudit", "trMirror", "trAudit"}
  PROVE  Owes(r) = {}
BY DEF Owes

LEMMA AuditStep ==
  ASSUME CaseInv, OpenedIsDetected, StatusIsAudited, [CaseNext]_caseVars
  PROVE  OpenedIsDetected' /\ StatusIsAudited'
<1> USE DEF row, request, At, Goto
<1>t. /\ pc \in [Request -> {"idle", "open", "openCheck", "openAudit", "existing",
                 "alerts", "advRead", "adv", "advAudit", "totals", "issueRead",
                 "issueInsert", "issueAudit", "trRead", "trWrite", "trMirror",
                 "trAudit", "done", "refused"}]
      /\ DOMAIN job = Request /\ DOMAIN seen = Request
  BY DEF CaseInv, CaseTypeOK
<1>1. ASSUME audit' = audit PROVE OpenedIsDetected'
  BY <1>1 DEF OpenedIsDetected
<1>2. ASSUME NEW r \in Request, audit \subseteq audit', status' = status,
             \A o \in Request \ {r} : pc'[o] = pc[o] /\ job'[o] = job[o] /\ seen'[o] = seen[o],
             \/ Owes(r) \subseteq Owes(r)'
             \/ \A s \in Owes(r) : \E e \in audit' : e.to = s
      PROVE  StatusIsAudited'
  <2>1. \A o \in Request \ {r} : Owes(o)' = Owes(o)
    BY <1>2 DEF Owes
  <2>2. QED
    BY <1>2, <2>1 DEF StatusIsAudited
<1>3. ASSUME NEW r \in Request, status' \in Owes(r)' PROVE StatusIsAudited'
  BY <1>3 DEF StatusIsAudited
<1>4. ASSUME NEW r \in Request,
             \/ \E j \in Job : Begin(r, j)
             \/ ReadAlerts(r) \/ (\E k \in Kind : InsertAlert(r, k)) \/ AlertsDone(r)
             \/ AdvanceRead(r) \/ AdvanceDone(r) \/ SetTotals(r) \/ IssueRead(r)
             \/ IssueInsert(r) \/ IssueAudit(r) \/ TransitionRead(r)
      PROVE  OpenedIsDetected' /\ StatusIsAudited'
  <2>1. /\ status' = status
        /\ \A o \in Request \ {r} : pc'[o] = pc[o] /\ job'[o] = job[o] /\ seen'[o] = seen[o]
        /\ pc[r] \notin {"openCheck", "openAudit", "advAudit", "trMirror", "trAudit"}
    BY <1>4, <1>t
    DEF Begin, ReadAlerts, InsertAlert, AlertsDone, AdvanceRead, AdvanceDone, SetTotals,
        IssueRead, IssueInsert, IssueAudit, TransitionRead, Answer
  <2>2. \/ audit' = audit
        \/ audit' = audit \union {Event("CHALLAN_ISSUED", "none", "CHALLAN_ISSUED")}
    BY <1>4
    DEF Begin, ReadAlerts, InsertAlert, AlertsDone, AdvanceRead, AdvanceDone, SetTotals,
        IssueRead, IssueInsert, IssueAudit, TransitionRead
  <2>3. audit \subseteq audit' /\ OpenedIsDetected'
    BY <2>2 DEF OpenedIsDetected, Event
  <2>4. QED
    BY <1>2, <2>1, <2>3, OwesNothing
<1>5. ASSUME NEW r \in Request, OpenCase(r) PROVE OpenedIsDetected' /\ StatusIsAudited'
  <2>1. Owes(r) = {} /\ audit' = audit /\ pc'[r] = "openCheck"
        /\ \A o \in Request \ {r} : pc'[o] = pc[o] /\ job'[o] = job[o] /\ seen'[o] = seen[o]
    BY <1>5, <1>t, OwesNothing DEF OpenCase
  <2>2. Owes(r)' = {"DETECTED"}
    BY <2>1 DEF Owes
  <2>3. QED
    BY <1>1, <1>2, <1>3, <1>5, <2>1, <2>2 DEF OpenCase
<1>6. ASSUME NEW r \in Request, CheckOpened(r) PROVE OpenedIsDetected' /\ StatusIsAudited'
  <2>1. /\ audit' = audit /\ status' = status /\ pc[r] = "openCheck"
        /\ pc'[r] = (IF Opened THEN "existing" ELSE "openAudit")
        /\ \A o \in Request \ {r} : pc'[o] = pc[o] /\ job'[o] = job[o] /\ seen'[o] = seen[o]
    BY <1>6, <1>t DEF CheckOpened
  <2>2. Owes(r) = {"DETECTED"}
    BY <2>1 DEF Owes
  <2>3. CASE Opened
    <3>1. \E e \in audit' : e.to = "DETECTED"
      BY <2>1, <2>3 DEF Opened, OpenedIsDetected
    <3>2. QED
      BY <1>1, <1>2, <2>1, <2>2, <3>1
  <2>4. CASE ~Opened
    <3>1. Owes(r)' = {"DETECTED"}
      BY <2>1, <2>4 DEF Owes
    <3>2. QED
      BY <1>1, <1>2, <2>1, <2>2, <3>1
  <2>5. QED
    BY <2>3, <2>4
<1>7. ASSUME NEW r \in Request, AuditOpened(r) PROVE OpenedIsDetected' /\ StatusIsAudited'
  <2>1. /\ status' = status /\ pc[r] = "openAudit"
        /\ audit' = audit \union {Event("CASE_OPENED", "none", "DETECTED")}
        /\ \A o \in Request \ {r} : pc'[o] = pc[o] /\ job'[o] = job[o] /\ seen'[o] = seen[o]
    BY <1>7, <1>t DEF AuditOpened
  <2>2. Owes(r) = {"DETECTED"}
    BY <2>1 DEF Owes
  <2>3. \E e \in audit' : e.to = "DETECTED"
    BY <2>1, EventFacts
  <2>4. audit \subseteq audit' /\ OpenedIsDetected'
    BY <2>1 DEF OpenedIsDetected, Event
  <2>5. QED
    BY <1>2, <2>1, <2>2, <2>3, <2>4
<1>8. ASSUME NEW r \in Request, AdvanceWrite(r) PROVE OpenedIsDetected' /\ StatusIsAudited'
  <2>1. /\ audit' = audit /\ pc'[r] = "advAudit" /\ seen' = seen
        /\ status' = CaseStates[Rank(seen[r]) + 1]
    BY <1>8, <1>t DEF AdvanceWrite
  <2>2. Owes(r)' = {CaseStates[Rank(seen[r]) + 1]}
    BY <2>1 DEF Owes
  <2>3. QED
    BY <1>1, <1>3, <2>1, <2>2
<1>9. ASSUME NEW r \in Request, AdvanceAudit(r) PROVE OpenedIsDetected' /\ StatusIsAudited'
  <2> DEFINE next == CaseStates[Rank(seen[r]) + 1]
  <2>1. /\ status' = status /\ pc[r] = "advAudit"
        /\ audit' = audit \union {Event("TRANSITION", seen[r], next)}
        /\ \A o \in Request \ {r} : pc'[o] = pc[o] /\ job'[o] = job[o] /\ seen'[o] = seen[o]
    BY <1>9, <1>t DEF AdvanceAudit
  <2>2. Owes(r) = {next}
    BY <2>1 DEF Owes
  <2> HIDE DEF next
  <2>3. \E e \in audit' : e.to = next
    BY <2>1, EventFacts
  <2>4. audit \subseteq audit' /\ OpenedIsDetected'
    BY <2>1 DEF OpenedIsDetected, Event
  <2>5. QED
    BY <1>2, <2>1, <2>2, <2>3, <2>4
<1>10. ASSUME NEW r \in Request, TransitionWrite(r) PROVE OpenedIsDetected' /\ StatusIsAudited'
  <2>1. audit' = audit
    BY <1>10 DEF TransitionWrite
  <2>2. CASE job[r].to \in Stored
    <3>1. status' = job[r].to /\ pc'[r] \in {"trMirror", "trAudit"} /\ job' = job
      BY <1>10, <1>t, <2>2 DEF TransitionWrite
    <3>2. Owes(r)' = {job[r].to}
      BY <3>1 DEF Owes
    <3>3. QED
      BY <1>1, <1>3, <2>1, <3>1, <3>2
  <2>3. CASE job[r].to \notin Stored
    <3>1. status' = status /\ pc' = pc /\ job' = job /\ seen' = seen
      BY <1>10, <2>3 DEF TransitionWrite
    <3>2. Owes(r)' = Owes(r)
      BY <3>1 DEF Owes
    <3>3. QED
      BY <1>1, <1>2, <2>1, <3>1, <3>2
  <2>4. QED
    BY <2>2, <2>3
<1>11. ASSUME NEW r \in Request, TransitionMirror(r) PROVE OpenedIsDetected' /\ StatusIsAudited'
  <2>1. /\ audit' = audit /\ status' = status /\ pc[r] = "trMirror" /\ pc'[r] = "trAudit"
        /\ job' = job /\ seen' = seen /\ \A o \in Request \ {r} : pc'[o] = pc[o]
    BY <1>11, <1>t DEF TransitionMirror
  <2>2. Owes(r)' = Owes(r)
    BY <2>1 DEF Owes
  <2>3. QED
    BY <1>1, <1>2, <2>1, <2>2
<1>12. ASSUME NEW r \in Request, TransitionAudit(r) PROVE OpenedIsDetected' /\ StatusIsAudited'
  <2>1. /\ status' = status /\ pc[r] = "trAudit"
        /\ audit' = audit \union {Event("TRANSITION", seen[r], job[r].to)}
        /\ \A o \in Request \ {r} : pc'[o] = pc[o] /\ job'[o] = job[o] /\ seen'[o] = seen[o]
    BY <1>12, <1>t DEF TransitionAudit, Answer
  <2>2. Owes(r) = {job[r].to}
    BY <2>1 DEF Owes
  <2>3. \E e \in audit' : e.to = job[r].to
    BY <2>1, EventFacts
  <2>4. audit \subseteq audit' /\ OpenedIsDetected'
    BY <2>1 DEF OpenedIsDetected, Event
  <2>5. QED
    BY <1>2, <2>1, <2>2, <2>3, <2>4
<1>13. ASSUME audit' = audit /\ status' = status /\ pc' = pc /\ job' = job /\ seen' = seen
       PROVE  OpenedIsDetected' /\ StatusIsAudited'
  <2>1. \A r \in Request : Owes(r)' = Owes(r)
    BY <1>13 DEF Owes
  <2>2. QED
    BY <1>1, <1>13, <2>1 DEF StatusIsAudited
<1>14. ASSUME NEW r \in Request, Die(r) PROVE OpenedIsDetected' /\ StatusIsAudited'
  BY <1>13, <1>14 DEF Die
<1>15. ASSUME UNCHANGED caseVars PROVE OpenedIsDetected' /\ StatusIsAudited'
  BY <1>13, <1>15 DEF caseVars
<1>16. QED
  BY <1>4, <1>5, <1>6, <1>7, <1>8, <1>9, <1>10, <1>11, <1>12, <1>14, <1>15
  DEF CaseNext, Commit, Transition

(* Whatever status a case shows is the target of a logged event, or of a     *)
(* write whose event is still due or died with its request                   *)
(* (StatusIsAudited).                                                        *)
THEOREM StatusesAreAudited == CaseSpec => []StatusIsAudited
<1>1. CaseInit => OpenedIsDetected /\ StatusIsAudited
  BY DEF CaseInit, OpenedIsDetected, StatusIsAudited
<1>2. CaseInv /\ OpenedIsDetected /\ StatusIsAudited /\ [CaseNext]_caseVars
        => (OpenedIsDetected /\ StatusIsAudited)'
  BY AuditStep
<1>3. QED
  BY <1>1, <1>2, CaseInvHolds, PTL DEF CaseSpec

-----------------------------------------------------------------------------
(* Until two requests have overlapped, at most one is alive and busy, and    *)
(* what it has read of the status is what the row still holds.               *)
Lone == \A r \in Request : Busy(r) =>
  /\ \A o \in Request : Busy(o) => o = r
  /\ pc[r] = "adv" => seen[r] = status
  /\ pc[r] = "advAudit" => status = CaseStates[Rank(seen[r]) + 1]
  /\ pc[r] = "trWrite" => <<status, job[r].to>> \in Allowed

LEMMA LoneStep ==
  ASSUME CaseInv, Lone, ~overlapped', [CaseNext]_caseVars
  PROVE  Lone'
<1> USE DEF row, request, At, Goto
<1>t. /\ pc \in [Request -> {"idle", "open", "openCheck", "openAudit", "existing",
                 "alerts", "advRead", "adv", "advAudit", "totals", "issueRead",
                 "issueInsert", "issueAudit", "trRead", "trWrite", "trMirror",
                 "trAudit", "done", "refused"}]
      /\ DOMAIN job = Request /\ DOMAIN seen = Request /\ DOMAIN alive = Request
  BY DEF CaseInv, CaseTypeOK
<1>1. ASSUME NEW r \in Request, \A o \in Request \ {r} : ~Busy(o)',
             Busy(r)' => /\ pc'[r] = "adv" => seen'[r] = status'
                         /\ pc'[r] = "advAudit" => status' = CaseStates[Rank(seen'[r]) + 1]
                         /\ pc'[r] = "trWrite" => <<status', job'[r].to>> \in Allowed
      PROVE  Lone'
  BY <1>1 DEF Lone
<1>2. ASSUME NEW r \in Request, Busy(r),
             \A o \in Request \ {r} : alive'[o] = alive[o] /\ pc'[o] = pc[o]
      PROVE  \A o \in Request \ {r} : ~Busy(o)'
  BY <1>2 DEF Lone, Busy
<1>3. ASSUME NEW r \in Request, NEW j \in Job, Begin(r, j) PROVE Lone'
  <2>1. \A o \in Request : ~Busy(o)
    BY <1>3 DEF Begin
  <2>2. \A o \in Request \ {r} : ~Busy(o)'
    BY <1>3, <1>t, <2>1 DEF Begin, Busy
  <2>3. pc'[r] \in {"open", "trRead"}
    BY <1>3, <1>t DEF Begin
  <2>4. QED
    BY <1>1, <2>2, <2>3
<1>4. ASSUME NEW r \in Request,
             \/ OpenCase(r) \/ CheckOpened(r) \/ AuditOpened(r) \/ ReadAlerts(r)
             \/ (\E k \in Kind : InsertAlert(r, k)) \/ AlertsDone(r) \/ AdvanceDone(r)
             \/ SetTotals(r) \/ IssueRead(r) \/ IssueInsert(r) \/ IssueAudit(r)
             \/ TransitionMirror(r) \/ TransitionAudit(r)
      PROVE  Lone'
  <2>1. /\ Busy(r) /\ \A o \in Request \ {r} : alive'[o] = alive[o] /\ pc'[o] = pc[o]
        /\ pc'[r] \notin {"adv", "advAudit", "trWrite"}
    BY <1>4, <1>t
    DEF OpenCase, CheckOpened, AuditOpened, ReadAlerts, InsertAlert, AlertsDone, AdvanceDone,
        SetTotals, IssueRead, IssueInsert, IssueAudit, TransitionMirror, TransitionAudit,
        Answer, Busy
  <2>2. QED
    BY <1>1, <1>2, <2>1
<1>5. ASSUME NEW r \in Request, AdvanceRead(r) \/ AdvanceWrite(r) \/ AdvanceAudit(r)
      PROVE  Lone'
  <2>1. Busy(r) /\ \A o \in Request \ {r} : alive'[o] = alive[o] /\ pc'[o] = pc[o]
    BY <1>5, <1>t DEF AdvanceRead, AdvanceWrite, AdvanceAudit, Busy
  <2>2. CASE AdvanceRead(r)
    <3>1. pc'[r] = "adv" /\ seen'[r] = status /\ status' = status
      BY <1>t, <2>2 DEF AdvanceRead
    <3>2. QED
      BY <1>1, <1>2, <2>1, <3>1
  <2>3. CASE AdvanceWrite(r)
    <3>1. pc'[r] = "advAudit" /\ seen' = seen /\ status' = CaseStates[Rank(seen[r]) + 1]
      BY <1>t, <2>3 DEF AdvanceWrite
    <3>2. QED
      BY <1>1, <1>2, <2>1, <3>1
  <2>4. CASE AdvanceAudit(r)
    <3>1. /\ pc[r] = "advAudit" /\ pc'[r] = "adv" /\ status' = status
          /\ seen'[r] = CaseStates[Rank(seen[r]) + 1]
      BY <1>t, <2>4 DEF AdvanceAudit
    <3>2. status = CaseStates[Rank(seen[r]) + 1]
      BY <2>1, <3>1 DEF Lone
    <3>3. QED
      BY <1>1, <1>2, <2>1, <3>1, <3>2
  <2>5. QED
    BY <1>5, <2>2, <2>3, <2>4
<1>6. ASSUME NEW r \in Request, TransitionRead(r) PROVE Lone'
  <2>1. Busy(r) /\ \A o \in Request \ {r} : alive'[o] = alive[o] /\ pc'[o] = pc[o]
    BY <1>6, <1>t DEF TransitionRead, Answer, Busy
  <2>2. \/ pc'[r] = "refused"
        \/ pc'[r] = "trWrite" /\ <<status, job[r].to>> \in Allowed /\ job' = job /\ status' = status
    BY <1>6, <1>t DEF TransitionRead, Answer
  <2>3. QED
    BY <1>1, <1>2, <2>1, <2>2
<1>7. ASSUME NEW r \in Request, TransitionWrite(r) PROVE Lone'
  <2>1. /\ Busy(r) /\ \A o \in Request \ {r} : alive'[o] = alive[o] /\ pc'[o] = pc[o]
        /\ pc'[r] \in {"trMirror", "trAudit"} \/ ~alive'[r]
    BY <1>7, <1>t DEF TransitionWrite, Busy
  <2>2. QED
    BY <1>1, <1>2, <2>1 DEF Busy
<1>8. ASSUME NEW r \in Request, Die(r) PROVE Lone'
  <2>1. /\ Busy(r) /\ \A o \in Request \ {r} : alive'[o] = alive[o] /\ pc'[o] = pc[o]
        /\ ~alive'[r]
    BY <1>8, <1>t DEF Die
  <2>2. QED
    BY <1>1, <1>2, <2>1 DEF Busy
<1>9. ASSUME UNCHANGED caseVars PROVE Lone'
  BY <1>9 DEF caseVars, Lone, Busy
<1>10. QED
  BY <1>3, <1>4, <1>5, <1>6, <1>7, <1>8, <1>9 DEF CaseNext, Commit, Transition

(* While requests come one at a time, also after some of them died half way, *)
(* the status moves only along _ALLOWED (LoneHopsAreLegal).                  *)
THEOREM LoneHopsAlwaysLegal == CaseSpec => LoneHopsAreLegal
<1>1. CaseInit => (~overlapped => Lone)
  BY DEF CaseInit, Lone, Busy
<1>2. CaseInv /\ (~overlapped => Lone) /\ [CaseNext]_caseVars => (~overlapped => Lone)'
  <2> SUFFICES ASSUME CaseInv, ~overlapped => Lone, [CaseNext]_caseVars, ~overlapped'
               PROVE  Lone'
    OBVIOUS
  <2>1. overlapped' = overlapped \/ \E r \in Request, j \in Job : Begin(r, j)
    BY DEF CaseNext, caseVars, Commit, Transition, OpenCase, CheckOpened, AuditOpened,
           ReadAlerts, InsertAlert, AlertsDone, AdvanceRead, AdvanceWrite, AdvanceAudit,
           AdvanceDone, SetTotals, IssueRead, IssueInsert, IssueAudit, TransitionRead,
           TransitionWrite, TransitionMirror, TransitionAudit, Die
  <2>2. ~overlapped
    BY <2>1 DEF Begin
  <2>3. QED
    BY <2>2, LoneStep
<1>3. ASSUME CaseInv, Lone, [CaseNext]_caseVars, status' # status, status # "none"
      PROVE  <<status, status'>> \in Allowed
  <2> USE DEF row, At
  <2>1. ASSUME NEW r \in Request, AdvanceWrite(r) PROVE <<status, status'>> \in Allowed
    <3>1. seen[r] = status
      BY <1>3, <2>1 DEF AdvanceWrite, Lone, Busy
    <3>2. PICK i \in 1 .. 6 : i = Rank(status) /\ status = CaseStates[i]
      BY <1>3, RankFacts DEF CaseInv, CaseTypeOK
    <3>3. i < 4
      BY <1>3, <2>1, <3>1, <3>2, RankFacts DEF AdvanceWrite, CaseInv, CaseTypeOK
    <3>4. status' = CaseStates[i + 1]
      BY <2>1, <3>1, <3>2 DEF AdvanceWrite
    <3>5. i = 1 \/ i = 2 \/ i = 3
      BY <3>2, <3>3
    <3>6. /\ CaseStates[1] = "DETECTED" /\ CaseStates[2] = "REVIEWED"
          /\ CaseStates[3] = "CONFIRMED" /\ CaseStates[4] = "CHALLAN_ISSUED"
      BY DEF CaseStates
    <3>7. <<status, status'>> \in {<<"DETECTED", "REVIEWED">>, <<"REVIEWED", "CONFIRMED">>,
                                  <<"CONFIRMED", "CHALLAN_ISSUED">>}
      <4>1. i = 1 => status = "DETECTED" /\ status' = "REVIEWED"
        BY <3>2, <3>4, <3>6
      <4>2. i = 2 => status = "REVIEWED" /\ status' = "CONFIRMED"
        BY <3>2, <3>4, <3>6
      <4>3. i = 3 => status = "CONFIRMED" /\ status' = "CHALLAN_ISSUED"
        BY <3>2, <3>4, <3>6
      <4>4. QED
        BY <3>5, <4>1, <4>2, <4>3
    <3>8. QED
      BY <3>7 DEF Allowed
  <2>2. ASSUME NEW r \in Request, TransitionWrite(r) PROVE <<status, status'>> \in Allowed
    BY <1>3, <2>2 DEF TransitionWrite, Lone, Busy
  <2>3. ASSUME NEW r \in Request, OpenCase(r) PROVE FALSE
    BY <1>3, <2>3 DEF OpenCase
  <2>4. QED
    BY <1>3, <2>1, <2>2, <2>3
    DEF CaseNext, caseVars, Commit, Transition, Begin, CheckOpened, AuditOpened, ReadAlerts,
        InsertAlert, AlertsDone, AdvanceRead, AdvanceAudit, AdvanceDone, SetTotals, IssueRead,
        IssueInsert, IssueAudit, TransitionRead, TransitionMirror, TransitionAudit, Die
<1>4. CaseInv /\ (~overlapped => Lone) /\ [CaseNext]_caseVars
        => [status' # status /\ status # "none" /\ ~overlapped =>
              <<status, status'>> \in Allowed]_caseVars
  BY <1>3
<1>5. QED
  BY <1>1, <1>2, <1>4, CaseInvHolds, PTL DEF CaseSpec, LoneHopsAreLegal

-----------------------------------------------------------------------------
(* A case is past CONFIRMED, or about to be, only with its challan.          *)
ChallanComesFirst ==
  /\ status \in {"CHALLAN_ISSUED", "PAID"} => challan.state # "none"
  /\ \A r \in Request :
       /\ pc[r] \in {"advRead", "adv", "advAudit", "issueAudit"} /\ target[r] = "CHALLAN_ISSUED"
            => challan.state # "none"
       /\ pc[r] = "issueAudit" => challan.state # "none"
       /\ pc[r] = "trWrite" => /\ job[r].to # "CHALLAN_ISSUED"
                               /\ job[r].to = "PAID" => challan.state # "none"

LEMMA ChallanFirstStep ==
  ASSUME \A j \in Job : j.op = "transition" => j.to # "CHALLAN_ISSUED",
         CaseInv, ChallanComesFirst, [CaseNext]_caseVars,
         challan.state # "none" => challan'.state # "none"
  PROVE  ChallanComesFirst'
<1> USE DEF row, request, At, Goto, CaseInv
<1>t. /\ DOMAIN pc = Request /\ status \in Stored \union {"none"}
      /\ target \in [Request -> {"CONFIRMED", "CHALLAN_ISSUED"}]
      /\ DOMAIN job = Request
  BY DEF CaseTypeOK
<1> USE <1>t
<1>1. ASSUME NEW r \in Request, NEW j \in Job, Begin(r, j) PROVE ChallanComesFirst'
  BY <1>1 DEF Begin, ChallanComesFirst
<1>2. ASSUME NEW r \in Request, OpenCase(r) PROVE ChallanComesFirst'
  BY <1>2 DEF OpenCase, ChallanComesFirst
<1>3. ASSUME NEW r \in Request,
             \/ CheckOpened(r) \/ AuditOpened(r) \/ ReadAlerts(r)
             \/ \E k \in Kind : InsertAlert(r, k)
      PROVE  ChallanComesFirst'
  BY <1>3 DEF CheckOpened, AuditOpened, ReadAlerts, InsertAlert, ChallanComesFirst
<1>4. ASSUME NEW r \in Request, AlertsDone(r) \/ AdvanceRead(r) PROVE ChallanComesFirst'
  BY <1>4 DEF AlertsDone, AdvanceRead, ChallanComesFirst
<1>5. ASSUME NEW r \in Request, AdvanceWrite(r) PROVE ChallanComesFirst'
  <2>1. PICK i \in 1 .. 6 : i = Rank(seen[r]) /\ i < Rank(target[r])
    BY <1>5, RankFacts DEF AdvanceWrite, SeenIsACase
  <2>2. status' = CaseStates[i + 1] /\ UNCHANGED <<challan, target, job>>
        /\ pc' = [pc EXCEPT ![r] = "advAudit"] /\ pc[r] = "adv"
    BY <1>5, <2>1 DEF AdvanceWrite
  <2>3. CASE target[r] = "CHALLAN_ISSUED"
    BY <2>2, <2>3 DEF ChallanComesFirst
  <2>4. CASE target[r] = "CONFIRMED"
    <3>1. i = 1 \/ i = 2
      BY <2>1, <2>4, RankFacts
    <3>2. CaseStates[2] = "REVIEWED" /\ CaseStates[3] = "CONFIRMED"
      BY DEF CaseStates
    <3>3. status' = "REVIEWED" \/ status' = "CONFIRMED"
      BY <2>2, <3>1, <3>2
    <3>4. QED
      BY <2>2, <2>4, <3>3 DEF ChallanComesFirst
  <2>5. QED
    BY <2>3, <2>4
<1>6. ASSUME NEW r \in Request, AdvanceAudit(r) \/ AdvanceDone(r) \/ SetTotals(r)
      PROVE  ChallanComesFirst'
  BY <1>6 DEF AdvanceAudit, AdvanceDone, SetTotals, Answer, ChallanComesFirst
<1>7. ASSUME NEW r \in Request, IssueRead(r) \/ IssueAudit(r) PROVE ChallanComesFirst'
  BY <1>7 DEF IssueRead, IssueAudit, ChallanComesFirst
<1>8. ASSUME NEW r \in Request, IssueInsert(r) PROVE ChallanComesFirst'
  <2>1. challan'.state # "none"
    BY <1>8 DEF IssueInsert
  <2>2. QED
    BY <1>8, <2>1 DEF IssueInsert, ChallanComesFirst
<1>9. ASSUME NEW r \in Request, TransitionRead(r) PROVE ChallanComesFirst'
  <2>1. CASE <<status, job[r].to>> \in Allowed
    <3>1. job[r].to # "CHALLAN_ISSUED"
      <4>1. job[r] \in Job \union {NoJob} /\ job[r] \in TransitionJob
        BY <1>9 DEF TransitionRead, JobFits, TransitionLabels, CaseTypeOK
      <4>2. job[r] # NoJob
        BY <4>1, JobFacts DEF NoJob
      <4>3. QED
        BY <4>1, <4>2, JobFacts
    <3>2. job[r].to = "PAID" => status = "CHALLAN_ISSUED"
      BY <2>1 DEF Allowed
    <3>3. QED
      BY <1>9, <2>1, <3>1, <3>2 DEF TransitionRead, ChallanComesFirst
  <2>2. CASE <<status, job[r].to>> \notin Allowed
    BY <1>9, <2>2 DEF TransitionRead, Answer, ChallanComesFirst
  <2>3. QED
    BY <2>1, <2>2
<1>10. ASSUME NEW r \in Request, TransitionWrite(r) PROVE ChallanComesFirst'
  BY <1>10 DEF TransitionWrite, ChallanComesFirst
<1>11. ASSUME NEW r \in Request, TransitionMirror(r) \/ TransitionAudit(r)
       PROVE  ChallanComesFirst'
  <2>1. status' = status /\ \A o \in Request \ {r} : /\ pc'[o] = pc[o] /\ job'[o] = job[o]
                                                       /\ target'[o] = target[o]
    BY <1>11 DEF TransitionMirror, TransitionAudit, Answer
  <2>2. pc'[r] \in {"trAudit", "done"}
    BY <1>11 DEF TransitionMirror, TransitionAudit, Answer
  <2>3. QED
    BY <2>1, <2>2 DEF ChallanComesFirst
<1>12. ASSUME NEW r \in Request, Die(r) PROVE ChallanComesFirst'
  BY <1>12 DEF Die, ChallanComesFirst
<1>13. ASSUME UNCHANGED caseVars PROVE ChallanComesFirst'
  BY <1>13 DEF caseVars, ChallanComesFirst
<1>14. QED
  BY <1>1, <1>2, <1>3, <1>4, <1>5, <1>6, <1>7, <1>8, <1>9, <1>10, <1>11, <1>12, <1>13
  DEF CaseNext, Commit, Transition

(* "PAID only after a challan", however commits, transitions and deaths      *)
(* interleave, as long as nobody sets a case to CHALLAN_ISSUED by hand: that *)
(* transition, which writes no challan, is the only way to a case that is    *)
(* paid without one (PaidOnlyAfterAChallan).                                 *)
THEOREM PaidCasesHaveChallans ==
  ASSUME \A j \in Job : j.op = "transition" => j.to # "CHALLAN_ISSUED"
  PROVE  CaseSpec => []PaidOnlyAfterAChallan
<1>1. CaseInit => ChallanComesFirst
  BY DEF CaseInit, ChallanComesFirst
<1>2. CaseSpec => [][challan.state # "none" => challan'.state # "none"]_caseVars
  <2>1. ASSUME challan.state # "none" =>
                 challan'.state # "none" /\ challan'.fine = challan.fine
        PROVE  challan.state # "none" => challan'.state # "none"
    BY <2>1
  <2>2. [challan.state # "none" =>
            challan'.state # "none" /\ challan'.fine = challan.fine]_caseVars
        => [challan.state # "none" => challan'.state # "none"]_caseVars
    BY <2>1
  <2>3. QED
    BY <2>2, ChallanNeverRewritten, PTL DEF ChallanIsImmutable
<1>3. CaseInv /\ ChallanComesFirst /\ [CaseNext]_caseVars
        /\ [challan.state # "none" => challan'.state # "none"]_caseVars
        => ChallanComesFirst'
  <2>1. UNCHANGED caseVars => challan' = challan
    BY DEF caseVars
  <2>2. QED
    BY <2>1, ChallanFirstStep
<1>4. ChallanComesFirst => PaidOnlyAfterAChallan
  BY DEF ChallanComesFirst, PaidOnlyAfterAChallan
<1>5. QED
  BY <1>1, <1>2, <1>3, <1>4, CaseInvHolds, PTL DEF CaseSpec

-----------------------------------------------------------------------------
(* The escalation ladder *)

Notice == [role : {"TRANSPORTER", "OWNER", "TRAFFIC_POLICE"},
           channel : {"SMS", "EMAIL", "WHATSAPP"}]

(* How many notices a rung sends. *)
NoticeCount(g) == Len(Notices(g))

(* The notices of a rung: six or seven, all different, and one e-mail a role. *)
LEMMA NoticesFacts ==
  ASSUME NEW g \in Rung
  PROVE  /\ Notices(g) \in Seq(Notice) /\ NoticeCount(g) \in 6 .. 7
         /\ \A p, q \in 1 .. NoticeCount(g) : Notices(g)[p] = Notices(g)[q] => p = q
         /\ \A p, q \in 1 .. NoticeCount(g) :
              Notices(g)[p].channel = "EMAIL" /\ Notices(g)[q].channel = "EMAIL"
                /\ Notices(g)[p].role = Notices(g)[q].role => p = q
<1> DEFINE six == [i \in 1..6 |-> [role |-> IF i <= 3 THEN "TRANSPORTER" ELSE "OWNER",
                                   channel |-> Channels[((i - 1) % 3) + 1]]]
           police == [role |-> "TRAFFIC_POLICE", channel |-> "EMAIL"]
           more == IF g = 3 THEN <<police>> ELSE <<>>
<1>1. \A i \in 1 .. 6 : ((i - 1) % 3) + 1 =
        IF i = 1 \/ i = 4 THEN 1 ELSE IF i = 2 \/ i = 5 THEN 2 ELSE 3
  OBVIOUS
<1>2. Channels[1] = "SMS" /\ Channels[2] = "EMAIL" /\ Channels[3] = "WHATSAPP"
  BY DEF Channels
<1>3. \A i \in 1 .. 6 :
        /\ six[i].role = IF i <= 3 THEN "TRANSPORTER" ELSE "OWNER"
        /\ six[i].channel = IF i = 1 \/ i = 4 THEN "SMS"
                            ELSE IF i = 2 \/ i = 5 THEN "EMAIL" ELSE "WHATSAPP"
        /\ six[i] \in Notice
  BY <1>1, <1>2 DEF Notice
<1>4. six \in Seq(Notice) /\ Len(six) = 6
  <2>1. six \in [1 .. 6 -> Notice]
    BY <1>3
  <2>2. six \in Seq(Notice)
    BY <2>1, SeqDef
  <2>3. QED
    BY <2>1, <2>2, LenProperties
<1>5. police \in Notice /\ police.role = "TRAFFIC_POLICE" /\ police.channel = "EMAIL"
  BY DEF Notice
<1>6. more \in Seq(Notice) /\ Len(more) \in 0 .. 1 /\ \A i \in 1 .. Len(more) : more[i] = police
  BY <1>5
<1>7. Notices(g) = six \o more
  BY DEF Notices
<1> HIDE DEF six, police, more
<1>8. /\ Notices(g) \in Seq(Notice) /\ Len(Notices(g)) = 6 + Len(more)
      /\ \A i \in 1 .. Len(Notices(g)) :
           Notices(g)[i] = IF i <= 6 THEN six[i] ELSE more[i - 6]
  <2>1. /\ six \o more \in Seq(Notice) /\ Len(six \o more) = Len(six) + Len(more)
        /\ \A i \in 1 .. Len(six) + Len(more) : (six \o more)[i] =
             IF i <= Len(six) THEN six[i] ELSE more[i - Len(six)]
    BY <1>4, <1>6, ConcatProperties
  <2>2. QED
    BY <1>4, <1>7, <2>1
<1>9. \A i \in 1 .. Len(Notices(g)) :
        /\ i <= 6 => Notices(g)[i] = six[i]
        /\ i > 6 => i = 7 /\ Notices(g)[i] = police
  BY <1>6, <1>8
<1>10. \A i \in 1 .. Len(Notices(g)) :
        /\ Notices(g)[i].role = IF i <= 3 THEN "TRANSPORTER"
                                ELSE IF i <= 6 THEN "OWNER" ELSE "TRAFFIC_POLICE"
        /\ Notices(g)[i].channel = IF i = 1 \/ i = 4 THEN "SMS"
                                   ELSE IF i = 2 \/ i = 5 \/ i = 7 THEN "EMAIL" ELSE "WHATSAPP"
        /\ i \in 1 .. 7
  BY <1>3, <1>5, <1>6, <1>8, <1>9
<1>11. ASSUME NEW p \in 1 .. Len(Notices(g)), NEW q \in 1 .. Len(Notices(g)),
              Notices(g)[p].role = Notices(g)[q].role
       PROVE  \/ p \in 1 .. 3 /\ q \in 1 .. 3
              \/ p \in 4 .. 6 /\ q \in 4 .. 6
              \/ p = 7 /\ q = 7
  BY <1>10, <1>11
<1>12. ASSUME NEW p \in 1 .. Len(Notices(g)), NEW q \in 1 .. Len(Notices(g)),
              Notices(g)[p].channel = Notices(g)[q].channel
       PROVE  \/ p \in {1, 4} /\ q \in {1, 4}
              \/ p \in {2, 5, 7} /\ q \in {2, 5, 7}
              \/ p \in {3, 6} /\ q \in {3, 6}
  BY <1>10, <1>12
<1>13. \A p, q \in 1 .. Len(Notices(g)) :
         Notices(g)[p].role = Notices(g)[q].role /\ Notices(g)[p].channel = Notices(g)[q].channel
           => p = q
  BY <1>11, <1>12
<1>14. QED
  BY <1>6, <1>8, <1>13 DEF NoticeCount

-----------------------------------------------------------------------------
Roles == {"TRANSPORTER", "OWNER", "TRAFFIC_POLICE"}
LogRow == [to : Notice, status : Outcomes]
Climber == [pc : {"idle", "fire", "send", "record", "done", "dead"},
            top : 0..3, rung : 1..4, pos : 1..7, outcome : Outcomes]

LadderRows ==
  /\ ledger \subseteq Rung
  /\ log \in [Rung -> Seq(LogRow)] /\ mails \in [Rung -> Seq(Roles)]
  /\ climb \in [Evaluator -> Climber]
  /\ contact \in BOOLEAN /\ mailer \in BOOLEAN
  /\ mailFaults \in 0..MaxMailFaults /\ ladderCrashes \in 0..MaxLadderCrashes

(* An evaluator climbs from the first rung, over rungs that are on the       *)
(* ledger.                                                                   *)
ClimbsInOrder == \A e \in Evaluator :
  /\ climb[e].pc = "idle" => climb[e].rung = 1
  /\ climb[e].pc \in {"fire", "send", "record"} =>
       \A lower \in 1 .. (climb[e].rung - 1) : lower \in ledger

(* A rung is worked on by the evaluator that put it on the ledger, and its   *)
(* log holds the notices before the one that evaluator is at.                *)
Working(e) == climb[e].pc \in {"send", "record"}
OneWorker == \A e \in Evaluator : Working(e) =>
  /\ climb[e].rung \in ledger /\ climb[e].rung <= climb[e].top
  /\ climb[e].pos = Len(log[climb[e].rung]) + 1
  /\ climb[e].pos <= NoticeCount(climb[e].rung)
  /\ \A f \in Evaluator : Working(f) /\ climb[f].rung = climb[e].rung => f = e
LogFollowsNotices == \A g \in Rung :
  /\ Len(log[g]) <= NoticeCount(g)
  /\ \A i \in 1 .. Len(log[g]) : log[g][i].to = Notices(g)[i]
FreshIsEmpty == \A g \in Rung : g \notin ledger => Len(log[g]) = 0 /\ Len(mails[g]) = 0

(* A mail is the e-mail notice of its role, up to the one in hand; the one   *)
(* in hand has not been mailed while its evaluator has still to send it.     *)
MailsAreNotices == \A g \in Rung : \A i \in 1 .. Len(mails[g]) :
  \E p \in 1 .. NoticeCount(g) :
    /\ Notices(g)[p].role = mails[g][i] /\ Notices(g)[p].channel = "EMAIL"
    /\ p <= Len(log[g]) + 1
    /\ \A e \in Evaluator : climb[e].pc = "send" /\ climb[e].rung = g => p <= Len(log[g])
MailsDiffer == \A g \in Rung : \A i, j \in 1 .. Len(mails[g]) :
  mails[g][i] = mails[g][j] => i = j

(* Whatever is or will be logged as SENT has left.                           *)
SentIsMailed ==
  /\ \A g \in Rung : \A i \in 1 .. Len(log[g]) : log[g][i].status = "SENT" =>
       \E j \in 1 .. Len(mails[g]) : mails[g][j] = log[g][i].to.role
  /\ \A e \in Evaluator : climb[e].pc = "record" /\ climb[e].outcome = "SENT" =>
       LET g == climb[e].rung IN
       \E j \in 1 .. Len(mails[g]) : mails[g][j] = Notices(g)[climb[e].pos].role

LadderInv == /\ LadderRows /\ ClimbsInOrder /\ OneWorker /\ LogFollowsNotices
             /\ FreshIsEmpty /\ MailsAreNotices /\ MailsDiffer /\ SentIsMailed

LEMMA ClimberFacts ==
  /\ \A c \in Climber :
       /\ c.pc \in {"idle", "fire", "send", "record", "done", "dead"}
       /\ c.top \in 0..3 /\ c.rung \in 1..4 /\ c.pos \in 1..7 /\ c.outcome \in Outcomes
  /\ \A r \in LogRow : r.to \in Notice /\ r.status \in Outcomes
  /\ \A n \in Notice : n.role \in Roles
  BY DEF Climber, LogRow, Notice, Roles

(* The rungs and notices an evaluator works on, and what they are made of.   *)
LEMMA WorkerFacts ==
  ASSUME LadderInv, NEW e \in Evaluator, Working(e)
  PROVE  LET c == climb[e] IN
         /\ c \in Climber /\ c.rung \in Rung /\ c.rung <= 3 /\ c.rung + 1 \in 1 .. 4
         /\ c.pos \in 1 .. NoticeCount(c.rung) /\ NoticeCount(c.rung) \in 6 .. 7
         /\ Notices(c.rung)[c.pos] \in Notice
         /\ Len(log[c.rung]) \in Nat /\ c.pos = Len(log[c.rung]) + 1
<1>1. climb[e] \in Climber /\ climb[e].rung \in Rung
  BY DEF LadderInv, LadderRows, OneWorker
<1>2. Len(log[climb[e].rung]) \in Nat
  BY <1>1, LenProperties DEF LadderInv, LadderRows
<1>3. climb[e].pos \in 1 .. NoticeCount(climb[e].rung) /\ NoticeCount(climb[e].rung) \in 6 .. 7
  BY <1>1, ClimberFacts, NoticesFacts DEF LadderInv, OneWorker
<1>4. Notices(climb[e].rung)[climb[e].pos] \in Notice
  BY <1>1, <1>3, NoticesFacts, ElementOfSeq DEF NoticeCount
<1>5. QED
  BY <1>1, <1>2, <1>3, <1>4 DEF Rung, LadderInv, OneWorker

-----------------------------------------------------------------------------
(* An evaluator that is not on a notice afterwards disturbs nothing, as long *)
(* as it climbs in order.                                                    *)
LEMMA MoveKeeps ==
  ASSUME LadderInv, NEW e \in Evaluator, NEW c \in Climber,
         climb' = [climb EXCEPT ![e] = c], c.pc \notin {"send", "record"},
         c.pc = "idle" => c.rung = 1,
         c.pc = "fire" => \A lower \in 1 .. (c.rung - 1) : lower \in ledger,
         UNCHANGED <<ledger, log, mails, contact, mailer, mailFaults>>,
         ladderCrashes' \in 0..MaxLadderCrashes
  PROVE  LadderInv'
<1>t. climb \in [Evaluator -> Climber] /\ climb' \in [Evaluator -> Climber]
  BY DEF LadderInv, LadderRows
<1>1. climb'[e] = c /\ ~Working(e)' /\ \A f \in Evaluator \ {e} : climb'[f] = climb[f]
  BY <1>t DEF Working
<1>2. \A f \in Evaluator : Working(f)' => f # e /\ Working(f)
  BY <1>1 DEF Working
<1>3. LadderRows' /\ ClimbsInOrder'
  BY <1>t, <1>1 DEF LadderInv, LadderRows, ClimbsInOrder
<1>4. OneWorker' /\ SentIsMailed'
  BY <1>1, <1>2 DEF LadderInv, OneWorker, SentIsMailed, Working
<1>5. LogFollowsNotices' /\ FreshIsEmpty' /\ MailsDiffer'
  BY DEF LadderInv, LogFollowsNotices, FreshIsEmpty, MailsDiffer
<1>6. MailsAreNotices'
  BY <1>1 DEF LadderInv, MailsAreNotices
<1>7. QED
  BY <1>3, <1>4, <1>5, <1>6 DEF LadderInv

LEMMA FireKeeps ==
  ASSUME LadderInv, NEW e \in Evaluator, FireRung(e)
  PROVE  LadderInv'
<1> DEFINE c == climb[e]
<1>1. /\ c.pc = "fire" /\ c.rung <= c.top /\ ledger' = ledger \union {c.rung}
      /\ climb' = [climb EXCEPT ![e] =
                     IF IsFresh(c.rung) THEN [c EXCEPT !.pc = "send", !.pos = 1]
                                        ELSE [c EXCEPT !.rung = @ + 1]]
      /\ UNCHANGED <<log, mails, contact, mailer, mailFaults, ladderCrashes>>
  BY DEF FireRung
<1>2. PICK d \in Climber : d = c
  BY DEF LadderInv, LadderRows
<1>3. d.top \in 0..3 /\ d.rung \in 1..4 /\ d.rung <= d.top /\ d.rung \in Rung /\ d.pc = "fire"
  BY <1>1, <1>2, ClimberFacts DEF Rung
<1>4. \A lower \in 1 .. (d.rung - 1) : lower \in ledger
  BY <1>1, <1>2 DEF LadderInv, ClimbsInOrder
<1>t. climb \in [Evaluator -> Climber]
  BY DEF LadderInv, LadderRows
<1>5. CASE d.rung \in ledger
  <2> DEFINE up == [d EXCEPT !.rung = d.rung + 1]
  <2>1. d.rung + 1 \in 1 .. 4
    BY <1>3
  <2>2. up \in Climber /\ up.pc = "fire" /\ up.rung = d.rung + 1
    BY <1>3, <2>1 DEF Climber
  <2>3. climb' = [climb EXCEPT ![e] = up] /\ ledger' = ledger
    BY <1>1, <1>2, <1>5 DEF IsFresh
  <2>4. \A lower \in 1 .. (up.rung - 1) : lower \in ledger
    BY <1>3, <1>4, <1>5, <2>2
  <2>5. ladderCrashes' \in 0..MaxLadderCrashes
    BY <1>1 DEF LadderInv, LadderRows
  <2> HIDE DEF up
  <2>6. QED
    BY <1>1, <2>2, <2>3, <2>4, <2>5, MoveKeeps
<1>6. CASE d.rung \notin ledger
  <2> DEFINE on == [d EXCEPT !.pc = "send", !.pos = 1]
  <2>1. on \in Climber /\ on.pc = "send" /\ on.pos = 1 /\ on.rung = d.rung /\ on.top = d.top
    <3>1. PICK mid \in Climber : mid = [d EXCEPT !.pc = "send"]
      BY DEF Climber
    <3>2. mid.pc = "send" /\ mid.rung = d.rung /\ mid.top = d.top
      BY <3>1 DEF Climber
    <3>3. on = [mid EXCEPT !.pos = 1]
      BY <3>1
    <3>4. 1 \in 1 .. 7
      OBVIOUS
    <3>5. QED
      BY <3>2, <3>3, <3>4 DEF Climber
  <2>2. climb' = [climb EXCEPT ![e] = on]
    BY <1>1, <1>2, <1>6 DEF IsFresh
  <2> HIDE DEF on
  <2>3. /\ climb'[e] = on /\ \A f \in Evaluator \ {e} : climb'[f] = climb[f]
        /\ climb' \in [Evaluator -> Climber]
    BY <1>t, <2>1, <2>2
  <2>4. LadderRows'
    BY <1>1, <1>2, <1>3, <2>3 DEF LadderInv, LadderRows
  <2>5. ledger \subseteq ledger' /\ d.rung \in ledger'
    BY <1>1, <1>2
  <2>6. ClimbsInOrder'
    <3> SUFFICES ASSUME NEW f \in Evaluator
                 PROVE  /\ climb'[f].pc = "idle" => climb'[f].rung = 1
                        /\ climb'[f].pc \in {"fire", "send", "record"} =>
                             \A lower \in 1 .. (climb'[f].rung - 1) : lower \in ledger'
      BY DEF ClimbsInOrder
    <3>1. CASE f = e
      BY <1>4, <2>1, <2>3, <2>5, <3>1
    <3>2. CASE f # e
      BY <2>3, <2>5, <3>2 DEF LadderInv, ClimbsInOrder
    <3>3. QED
      BY <3>1, <3>2
  <2>7. Len(log[d.rung]) = 0 /\ Len(mails[d.rung]) = 0 /\ log' = log /\ mails' = mails
    BY <1>1, <1>3, <1>6 DEF LadderInv, FreshIsEmpty
  <2>8. \A f \in Evaluator \ {e} : Working(f)' => Working(f) /\ climb'[f].rung # d.rung
    BY <1>6, <2>3 DEF LadderInv, OneWorker, Working
  <2>9. NoticeCount(d.rung) \in 6 .. 7
    BY <1>3, NoticesFacts
  <2>10. OneWorker'
    <3> SUFFICES ASSUME NEW f \in Evaluator, Working(f)'
                 PROVE  /\ climb'[f].rung \in ledger' /\ climb'[f].rung <= climb'[f].top
                        /\ climb'[f].pos = Len(log[climb'[f].rung]) + 1
                        /\ climb'[f].pos <= NoticeCount(climb'[f].rung)
                        /\ \A h \in Evaluator : Working(h)' /\ climb'[h].rung = climb'[f].rung => h = f
      BY <2>7 DEF OneWorker
    <3>1. CASE f = e
      <4>1. climb'[f].rung = d.rung /\ climb'[f].top = d.top /\ climb'[f].pos = 1
        BY <2>1, <2>3, <3>1
      <4>2. \A h \in Evaluator : Working(h)' /\ climb'[h].rung = climb'[f].rung => h = f
        BY <2>8, <3>1, <4>1
      <4>3. climb'[f].pos <= NoticeCount(climb'[f].rung)
        <5>1. NoticeCount(climb'[f].rung) \in 6 .. 7
          BY <1>3, <4>1, NoticesFacts
        <5>2. QED
          BY <4>1, <5>1
      <4>4. QED
        BY <1>3, <2>5, <2>7, <4>1, <4>2, <4>3
    <3>2. CASE f # e
      BY <2>1, <2>3, <2>5, <2>8, <3>2 DEF LadderInv, OneWorker, Working
    <3>3. QED
      BY <3>1, <3>2
  <2>11. LogFollowsNotices' /\ MailsDiffer' /\ FreshIsEmpty'
    BY <1>1, <1>2, <1>3, <2>7 DEF LadderInv, LogFollowsNotices, MailsDiffer, FreshIsEmpty
  <2>12. MailsAreNotices'
    <3> SUFFICES ASSUME NEW g \in Rung, NEW i \in 1 .. Len(mails[g])
                 PROVE  \E p \in 1 .. NoticeCount(g) :
                          /\ Notices(g)[p].role = mails[g][i] /\ Notices(g)[p].channel = "EMAIL"
                          /\ p <= Len(log[g]) + 1
                          /\ \A f \in Evaluator :
                               climb'[f].pc = "send" /\ climb'[f].rung = g => p <= Len(log[g])
      BY <2>7 DEF MailsAreNotices
    <3>1. g # d.rung
      BY <2>7
    <3>2. \A f \in Evaluator : climb'[f].pc = "send" /\ climb'[f].rung = g =>
            climb[f].pc = "send" /\ climb[f].rung = g
      BY <2>1, <2>3, <3>1
    <3>3. PICK p \in 1 .. NoticeCount(g) :
            /\ Notices(g)[p].role = mails[g][i] /\ Notices(g)[p].channel = "EMAIL"
            /\ p <= Len(log[g]) + 1
            /\ \A f \in Evaluator : climb[f].pc = "send" /\ climb[f].rung = g => p <= Len(log[g])
      BY DEF LadderInv, MailsAreNotices
    <3>4. QED
      BY <3>2, <3>3
  <2>13. SentIsMailed'
    BY <2>1, <2>3, <2>7 DEF LadderInv, SentIsMailed
  <2>14. QED
    BY <2>4, <2>6, <2>10, <2>11, <2>12, <2>13 DEF LadderInv
<1>7. QED
  BY <1>5, <1>6

LEMMA SendKeeps ==
  ASSUME LadderInv, NEW e \in Evaluator, Send(e)
  PROVE  LadderInv'
<1> DEFINE c == climb[e]
           notice == Notices(c.rung)[c.pos]
<1>1. PICK o \in IF Mailable(notice) THEN Outcomes ELSE {"UNAVAILABLE"} :
        /\ mailFaults' = mailFaults + (IF Mailable(notice) /\ o # "SENT" THEN 1 ELSE 0)
        /\ mailFaults' <= MaxMailFaults
        /\ climb' = [climb EXCEPT ![e].pc = "record", ![e].outcome = o]
        /\ mails' = IF o = "SENT" THEN [mails EXCEPT ![c.rung] = Append(@, notice.role)]
                    ELSE mails
  BY DEF Send
<1>2. c.pc = "send" /\ UNCHANGED <<ledger, log, contact, mailer, ladderCrashes>>
  BY DEF Send
<1>w. /\ c \in Climber /\ c.rung \in Rung
      /\ c.pos \in 1 .. NoticeCount(c.rung) /\ notice \in Notice
      /\ Len(log[c.rung]) \in Nat /\ c.pos = Len(log[c.rung]) + 1
  BY <1>2, WorkerFacts DEF Working
<1>t. climb \in [Evaluator -> Climber] /\ mails \in [Rung -> Seq(Roles)]
  BY DEF LadderInv, LadderRows
<1>3. PICK z \in Rung, n \in 1 .. 7, d \in Climber :
        /\ z = c.rung /\ n = c.pos /\ d = [c EXCEPT !.pc = "record", !.outcome = o]
        /\ n \in 1 .. NoticeCount(z)
  <2>1. o \in Outcomes
    BY DEF Outcomes
  <2>2. PICK mid \in Climber : mid = [c EXCEPT !.pc = "record"]
    BY <1>w DEF Climber
  <2>3. [mid EXCEPT !.outcome = o] \in Climber
    BY <2>1, <2>2 DEF Climber
  <2>4. [c EXCEPT !.pc = "record", !.outcome = o] = [mid EXCEPT !.outcome = o]
    BY <2>2
  <2>5. c.pos \in 1 .. 7
    BY <1>w, ClimberFacts
  <2>6. QED
    BY <1>w, <2>3, <2>4, <2>5
<1>4. /\ d.pc = "record" /\ d.outcome = o /\ d.rung = z /\ d.pos = n /\ d.top = c.top
      /\ n = Len(log[z]) + 1 /\ Len(log[z]) \in Nat
  BY <1>w, <1>3 DEF Climber
<1>5. climb' = [climb EXCEPT ![e] = d]
  BY <1>1, <1>3, <1>t
<1>6. /\ climb'[e] = d /\ \A f \in Evaluator \ {e} : climb'[f] = climb[f]
      /\ climb' \in [Evaluator -> Climber]
  BY <1>5, <1>t
<1>7. \A f \in Evaluator : /\ climb'[f].rung = climb[f].rung /\ climb'[f].top = climb[f].top
                           /\ climb'[f].pos = climb[f].pos /\ (Working(f)' <=> Working(f))
  BY <1>2, <1>3, <1>4, <1>6 DEF Working
<1>8. /\ \A g \in Rung : mails[g] \in Seq(Roles) /\ Len(mails[g]) \in Nat
      /\ notice = Notices(z)[n] /\ notice.role \in Roles
  BY <1>t, <1>w, <1>3, LenProperties, ClimberFacts
<1>s. o = "SENT" => notice.channel = "EMAIL"
  BY DEF Mailable
<1>9. /\ \A g \in Rung : mails'[g] \in Seq(Roles) /\ Len(mails'[g]) >= Len(mails[g])
      /\ \A g \in Rung : \A i \in 1 .. Len(mails[g]) : mails'[g][i] = mails[g][i]
      /\ \A g \in Rung : \A i \in 1 .. Len(mails'[g]) :
           \/ i \in 1 .. Len(mails[g])
           \/ o = "SENT" /\ g = z /\ i = Len(mails[z]) + 1 /\ mails'[g][i] = notice.role
      /\ o = "SENT" => \E i \in 1 .. Len(mails'[z]) : mails'[z][i] = notice.role
      /\ mails' \in [Rung -> Seq(Roles)]
  <2>1. CASE o # "SENT"
    BY <1>1, <1>8, <1>t, <2>1
  <2>2. CASE o = "SENT"
    <3> HIDE DEF notice
    <3>1. mails' = [mails EXCEPT ![z] = Append(mails[z], notice.role)]
      BY <1>1, <1>3, <2>2
    <3>2. /\ Append(mails[z], notice.role) \in Seq(Roles)
          /\ Len(Append(mails[z], notice.role)) = Len(mails[z]) + 1
          /\ \A i \in 1 .. Len(mails[z]) : Append(mails[z], notice.role)[i] = mails[z][i]
          /\ Append(mails[z], notice.role)[Len(mails[z]) + 1] = notice.role
      BY <1>8, AppendProperties
    <3>3. /\ mails'[z] = Append(mails[z], notice.role)
          /\ \A g \in Rung \ {z} : mails'[g] = mails[g]
          /\ mails' \in [Rung -> Seq(Roles)]
      BY <1>t, <3>1, <3>2
    <3>4. /\ Len(mails'[z]) = Len(mails[z]) + 1 /\ mails'[z][Len(mails[z]) + 1] = notice.role
          /\ \A i \in 1 .. Len(mails[z]) : mails'[z][i] = mails[z][i]
      BY <3>2, <3>3
    <3>5. Len(mails[z]) \in Nat
      BY <1>8
    <3>6. \E i \in 1 .. Len(mails'[z]) : mails'[z][i] = notice.role
      BY <3>4, <3>5
    <3>7. \A i \in 1 .. Len(mails'[z]) :
            \/ i \in 1 .. Len(mails[z])
            \/ i = Len(mails[z]) + 1 /\ mails'[z][i] = notice.role
      <4>1. \A i \in 1 .. Len(mails'[z]) : i \in 1 .. Len(mails[z]) \/ i = Len(mails[z]) + 1
        BY <3>4, <3>5
      <4>2. QED
        BY <3>4, <4>1
    <3>8. \A g \in Rung : mails'[g] \in Seq(Roles) /\ Len(mails'[g]) >= Len(mails[g])
      BY <1>8, <3>2, <3>3, <3>4, <3>5
    <3>9. \A g \in Rung : \A i \in 1 .. Len(mails[g]) : mails'[g][i] = mails[g][i]
      BY <3>3, <3>4
    <3>10. \A g \in Rung : \A i \in 1 .. Len(mails'[g]) :
             \/ i \in 1 .. Len(mails[g])
             \/ g = z /\ i = Len(mails[z]) + 1 /\ mails'[g][i] = notice.role
      BY <3>3, <3>7
    <3>11. QED
      BY <2>2, <3>3, <3>6, <3>8, <3>9, <3>10
  <2>3. QED
    BY <2>1, <2>2
<1>10. LadderRows'
  <2>1. mailFaults' \in 0..MaxMailFaults
    BY <1>1, MailFaultAssumption DEF LadderInv, LadderRows
  <2>2. QED
    BY <1>2, <1>6, <1>9, <2>1 DEF LadderInv, LadderRows
<1>11. ClimbsInOrder'
  BY <1>2, <1>3, <1>4, <1>6 DEF LadderInv, ClimbsInOrder
<1>12. OneWorker'
  BY <1>2, <1>7 DEF LadderInv, OneWorker
<1>13. LogFollowsNotices'
  BY <1>2 DEF LadderInv, LogFollowsNotices
<1>14. z \in ledger
  BY <1>2, <1>3 DEF LadderInv, OneWorker, Working
<1>15. FreshIsEmpty'
  <2> SUFFICES ASSUME NEW g \in Rung, g \notin ledger
               PROVE  Len(log[g]) = 0 /\ Len(mails'[g]) = 0
    BY <1>2 DEF FreshIsEmpty
  <2>1. mails'[g] = mails[g]
    BY <1>1, <1>3, <1>14, <1>t
  <2>2. QED
    BY <2>1 DEF LadderInv, FreshIsEmpty
<1>16. \A f \in Evaluator : climb'[f].pc = "send" =>
         f # e /\ climb[f].pc = "send" /\ climb[f].rung = climb'[f].rung /\ climb[f].rung # z
  <2> SUFFICES ASSUME NEW f \in Evaluator, climb'[f].pc = "send"
               PROVE  f # e /\ climb[f].pc = "send" /\ climb[f].rung = climb'[f].rung
                      /\ climb[f].rung # z
    OBVIOUS
  <2>1. f # e /\ climb'[f] = climb[f]
    BY <1>4, <1>6
  <2>2. Working(f) /\ Working(e)
    BY <1>2, <2>1 DEF Working
  <2>3. climb[f].rung # z
    BY <1>3, <2>1, <2>2 DEF LadderInv, OneWorker
  <2>4. QED
    BY <2>1, <2>3
<1>17. MailsAreNotices'
  <2> SUFFICES ASSUME NEW g \in Rung, NEW i \in 1 .. Len(mails'[g])
               PROVE  \E p \in 1 .. NoticeCount(g) :
                        /\ Notices(g)[p].role = mails'[g][i] /\ Notices(g)[p].channel = "EMAIL"
                        /\ p <= Len(log[g]) + 1
                        /\ \A f \in Evaluator :
                             climb'[f].pc = "send" /\ climb'[f].rung = g => p <= Len(log[g])
    BY <1>2 DEF MailsAreNotices
  <2>1. CASE i \in 1 .. Len(mails[g])
    <3>1. PICK p \in 1 .. NoticeCount(g) :
            /\ Notices(g)[p].role = mails[g][i] /\ Notices(g)[p].channel = "EMAIL"
            /\ p <= Len(log[g]) + 1
            /\ \A f \in Evaluator : climb[f].pc = "send" /\ climb[f].rung = g => p <= Len(log[g])
      BY <2>1 DEF LadderInv, MailsAreNotices
    <3>2. QED
      BY <1>9, <1>16, <2>1, <3>1
  <2>2. CASE i \notin 1 .. Len(mails[g])
    <3>1. o = "SENT" /\ g = z /\ mails'[g][i] = notice.role
      BY <1>9, <2>2
    <3> HIDE DEF notice
    <3>2. /\ Notices(g)[n].role = mails'[g][i] /\ Notices(g)[n].channel = "EMAIL"
      BY <1>8, <1>s, <3>1
    <3>4. n <= Len(log[g]) + 1 /\ n \in 1 .. NoticeCount(g)
      BY <1>3, <1>4, <3>1
    <3>5. QED
      BY <1>16, <3>1, <3>2, <3>4
  <2>3. QED
    BY <2>1, <2>2
<1>18. \A i \in 1 .. Len(mails[z]) : o = "SENT" => mails[z][i] # notice.role
  <2> SUFFICES ASSUME NEW i \in 1 .. Len(mails[z]), o = "SENT", mails[z][i] = notice.role
               PROVE  FALSE
    OBVIOUS
  <2>1. PICK p \in 1 .. NoticeCount(z) :
          /\ Notices(z)[p].role = mails[z][i] /\ Notices(z)[p].channel = "EMAIL"
          /\ p <= Len(log[z])
    BY <1>2, <1>3 DEF LadderInv, MailsAreNotices
  <2> HIDE DEF notice
  <2>2. Notices(z)[n].channel = "EMAIL" /\ Notices(z)[p].role = Notices(z)[n].role
    BY <1>8, <1>s, <2>1
  <2>3. p = n
    BY <1>3, <2>1, <2>2, NoticesFacts
  <2>4. QED
    BY <1>4, <2>1, <2>3
<1>19. MailsDiffer'
  BY <1>8, <1>9, <1>18 DEF LadderInv, MailsDiffer
<1>20. SentIsMailed'
  <2>1. \A g \in Rung : \A i \in 1 .. Len(log[g]) : log[g][i].status = "SENT" =>
          \E j \in 1 .. Len(mails'[g]) : mails'[g][j] = log[g][i].to.role
    <3> SUFFICES ASSUME NEW g \in Rung, NEW i \in 1 .. Len(log[g]), log[g][i].status = "SENT"
                 PROVE  \E j \in 1 .. Len(mails'[g]) : mails'[g][j] = log[g][i].to.role
      OBVIOUS
    <3>1. PICK j \in 1 .. Len(mails[g]) : mails[g][j] = log[g][i].to.role
      BY DEF LadderInv, SentIsMailed
    <3>2. j \in 1 .. Len(mails'[g])
      BY <1>8, <1>9, LenProperties
    <3>3. QED
      BY <1>9, <3>1, <3>2
  <2>2. ASSUME NEW f \in Evaluator, climb'[f].pc = "record", climb'[f].outcome = "SENT"
        PROVE  \E j \in 1 .. Len(mails'[climb'[f].rung]) :
                 mails'[climb'[f].rung][j] = Notices(climb'[f].rung)[climb'[f].pos].role
    <3>1. CASE f = e
      BY <1>4, <1>6, <1>8, <1>9, <2>2, <3>1
    <3>2. CASE f # e
      <4>1. /\ climb'[f] = climb[f] /\ climb[f].pc = "record" /\ climb[f].outcome = "SENT"
            /\ Working(f)
        BY <1>6, <2>2, <3>2 DEF Working
      <4>2. PICK g \in Rung : g = climb[f].rung
        BY <4>1, WorkerFacts
      <4>3. PICK j \in 1 .. Len(mails[g]) : mails[g][j] = Notices(g)[climb[f].pos].role
        BY <4>1, <4>2 DEF LadderInv, SentIsMailed
      <4>4. j \in 1 .. Len(mails'[g])
        BY <1>8, <1>9, LenProperties
      <4>5. QED
        BY <1>9, <4>1, <4>2, <4>3, <4>4
    <3>3. QED
      BY <3>1, <3>2
  <2>3. QED
    BY <1>2, <2>1, <2>2 DEF SentIsMailed
<1>21. QED
  BY <1>10, <1>11, <1>12, <1>13, <1>15, <1>17, <1>19, <1>20 DEF LadderInv

LEMMA RecordKeeps ==
  ASSUME LadderInv, NEW e \in Evaluator, Record(e)
  PROVE  LadderInv'
<1> DEFINE c == climb[e]
           noted == [to |-> Notices(c.rung)[c.pos], status |-> c.outcome]
           last == c.pos = NoticeCount(c.rung)
           up == [c EXCEPT !.pc = "fire", !.rung = c.rung + 1, !.pos = 1]
           on == [c EXCEPT !.pc = "send", !.pos = c.pos + 1]
<1>1. /\ c.pc = "record"
      /\ log' = [log EXCEPT ![c.rung] = Append(log[c.rung], noted)]
      /\ climb' = [climb EXCEPT ![e] = IF last THEN up ELSE on]
      /\ UNCHANGED <<ledger, mails, contact, mailer, mailFaults, ladderCrashes>>
  BY DEF Record, NoticeCount
<1>w. /\ c \in Climber /\ c.rung \in Rung /\ c.rung + 1 \in 1 .. 4
      /\ c.pos \in 1 .. NoticeCount(c.rung) /\ NoticeCount(c.rung) \in 6 .. 7
      /\ Notices(c.rung)[c.pos] \in Notice
      /\ Len(log[c.rung]) \in Nat /\ c.pos = Len(log[c.rung]) + 1
  BY <1>1, WorkerFacts DEF Working
<1>t. climb \in [Evaluator -> Climber] /\ log \in [Rung -> Seq(LogRow)]
      /\ mails \in [Rung -> Seq(Roles)]
  BY DEF LadderInv, LadderRows
<1>2. noted \in LogRow /\ noted.to = Notices(c.rung)[c.pos] /\ noted.status = c.outcome
  BY <1>w, ClimberFacts DEF LogRow
<1>3. up \in Climber /\ up.pc = "fire" /\ up.rung = c.rung + 1
  <2>1. PICK mid \in Climber : mid = [c EXCEPT !.pc = "fire"]
    BY <1>w DEF Climber
  <2>2. mid.rung = c.rung
    BY <1>w, <2>1 DEF Climber
  <2>3. PICK mid2 \in Climber : mid2 = [mid EXCEPT !.rung = c.rung + 1]
    BY <1>w DEF Climber
  <2>4. mid2.pc = "fire" /\ mid2.rung = c.rung + 1
    BY <1>w, <2>1, <2>3 DEF Climber
  <2>5. up = [mid2 EXCEPT !.pos = 1] /\ 1 \in 1 .. 7
    BY <2>1, <2>3
  <2>6. QED
    BY <2>4, <2>5 DEF Climber
<1>4. ~last => /\ on \in Climber /\ on.pc = "send" /\ on.rung = c.rung /\ on.top = c.top
               /\ on.pos = c.pos + 1 /\ c.pos + 1 <= NoticeCount(c.rung)
  <2> SUFFICES ASSUME ~last
               PROVE  /\ on \in Climber /\ on.pc = "send" /\ on.rung = c.rung /\ on.top = c.top
                      /\ on.pos = c.pos + 1 /\ c.pos + 1 <= NoticeCount(c.rung)
    OBVIOUS
  <2>1. c.pos + 1 \in 1 .. 7 /\ c.pos + 1 <= NoticeCount(c.rung)
    BY <1>w
  <2>2. PICK mid \in Climber : mid = [c EXCEPT !.pc = "send"]
    BY <1>w DEF Climber
  <2>3. mid.pc = "send" /\ mid.rung = c.rung /\ mid.top = c.top
    BY <1>w, <2>2 DEF Climber
  <2>4. on = [mid EXCEPT !.pos = c.pos + 1]
    BY <2>2
  <2>5. QED
    BY <2>1, <2>3, <2>4 DEF Climber
<1>5. PICK z \in Rung, d \in Climber, r \in LogRow :
        /\ z = c.rung /\ d = (IF last THEN up ELSE on) /\ r = noted
  BY <1>w, <1>2, <1>3, <1>4
<1>6. \/ /\ d.pc = "fire" /\ d.rung = z + 1 /\ c.pos = NoticeCount(z)
      \/ /\ d.pc = "send" /\ d.rung = z /\ d.top = c.top /\ d.pos = c.pos + 1
         /\ c.pos + 1 <= NoticeCount(z)
  <2>1. CASE last
    <3>1. d = up /\ c.pos = NoticeCount(z)
      BY <1>5, <2>1
    <3> HIDE DEF up, on, last
    <3>2. d.pc = "fire" /\ d.rung = z + 1
      BY <1>3, <1>5, <3>1
    <3>3. QED
      BY <3>1, <3>2
  <2>2. CASE ~last
    <3>1. d = on
      BY <1>5, <2>2
    <3>2. QED
      BY <1>4, <1>5, <2>2, <3>1
  <2>3. QED
    BY <2>1, <2>2
<1>7. r.to = Notices(z)[c.pos] /\ r.status = c.outcome
  BY <1>2, <1>5
<1>8. climb' = [climb EXCEPT ![e] = d] /\ log' = [log EXCEPT ![z] = Append(log[z], r)]
  BY <1>1, <1>5
<1>9. /\ c.pos = Len(log[z]) + 1 /\ Len(log[z]) \in Nat /\ z \in ledger /\ c.rung = z
      /\ c.rung <= c.top /\ c.pos <= NoticeCount(z) /\ NoticeCount(z) \in Nat /\ c.pc = "record"
  BY <1>1, <1>w, <1>5 DEF LadderInv, OneWorker, Working
<1> HIDE DEF noted, last, up, on
<1>10. /\ climb'[e] = d /\ \A f \in Evaluator \ {e} : climb'[f] = climb[f]
       /\ climb' \in [Evaluator -> Climber]
  BY <1>8, <1>t
<1>11. /\ log' \in [Rung -> Seq(LogRow)] /\ Len(log'[z]) = Len(log[z]) + 1
       /\ \A i \in 1 .. Len(log[z]) : log'[z][i] = log[z][i]
       /\ log'[z][Len(log[z]) + 1] = r
       /\ \A g \in Rung \ {z} : log'[g] = log[g]
  <2>1. log[z] \in Seq(LogRow)
    BY <1>t
  <2>2. /\ Append(log[z], r) \in Seq(LogRow) /\ Len(Append(log[z], r)) = Len(log[z]) + 1
        /\ \A i \in 1 .. Len(log[z]) : Append(log[z], r)[i] = log[z][i]
        /\ Append(log[z], r)[Len(log[z]) + 1] = r
    BY <2>1, AppendProperties
  <2>3. log'[z] = Append(log[z], r) /\ \A g \in Rung \ {z} : log'[g] = log[g]
    BY <1>8, <1>t
  <2>4. log' \in [Rung -> Seq(LogRow)]
    BY <1>8, <1>t, <2>2
  <2>5. QED
    BY <2>2, <2>3, <2>4
<1>12. \A g \in Rung : Len(log[g]) \in Nat
  BY <1>t, LenProperties
<1>13. LadderRows'
  BY <1>1, <1>10, <1>11 DEF LadderInv, LadderRows
<1>14. ClimbsInOrder'
  <2>1. \A lower \in 1 .. (z - 1) : lower \in ledger
    BY <1>9 DEF LadderInv, ClimbsInOrder
  <2>2. z \in 1 .. 3
    BY DEF Rung
  <2>3. \A lower \in 1 .. (d.rung - 1) : lower \in ledger
    BY <1>6, <1>9, <2>1, <2>2
  <2>4. d.pc # "idle"
    BY <1>6
  <2>5. QED
    BY <1>1, <1>10, <2>3, <2>4 DEF LadderInv, ClimbsInOrder
<1>15. \A f \in Evaluator \ {e} : Working(f)' => Working(f) /\ climb'[f] = climb[f] /\ climb[f].rung # z
  BY <1>9, <1>10 DEF LadderInv, OneWorker, Working
<1>16. OneWorker'
  <2> SUFFICES ASSUME NEW f \in Evaluator, Working(f)'
               PROVE  /\ climb'[f].rung \in ledger' /\ climb'[f].rung <= climb'[f].top
                      /\ climb'[f].pos = Len(log'[climb'[f].rung]) + 1
                      /\ climb'[f].pos <= NoticeCount(climb'[f].rung)
                      /\ \A h \in Evaluator : Working(h)' /\ climb'[h].rung = climb'[f].rung => h = f
    BY DEF OneWorker
  <2>1. CASE f = e
    <3>1. d.pc = "send"
      BY <1>6, <1>10, <2>1 DEF Working
    <3>2. /\ climb'[f].rung = z /\ climb'[f].top = c.top /\ climb'[f].pos = c.pos + 1
          /\ c.pos + 1 <= NoticeCount(z)
      BY <1>6, <1>10, <2>1, <3>1
    <3>3. \A h \in Evaluator : Working(h)' /\ climb'[h].rung = climb'[f].rung => h = f
      BY <1>15, <2>1, <3>2
    <3>4. climb'[f].pos = Len(log'[climb'[f].rung]) + 1
      BY <1>9, <1>11, <3>2
    <3>5. climb'[f].pos <= NoticeCount(climb'[f].rung)
      BY <3>2
    <3>6. QED
      BY <1>1, <1>9, <3>2, <3>3, <3>4, <3>5
  <2>2. CASE f # e
    <3>1. Working(f) /\ climb'[f] = climb[f] /\ climb[f].rung # z /\ climb[f].rung \in Rung
      BY <1>15, <2>2, WorkerFacts
    <3>2. log'[climb[f].rung] = log[climb[f].rung]
      BY <1>11, <3>1
    <3>3. \A h \in Evaluator : Working(h)' /\ climb'[h].rung = climb'[f].rung => h = f
      <4> SUFFICES ASSUME NEW h \in Evaluator, Working(h)', climb'[h].rung = climb'[f].rung
                   PROVE  h = f
        OBVIOUS
      <4>1. CASE h = e
        <5>1. climb'[h].rung = z
          BY <1>6, <1>10, <4>1 DEF Working
        <5>2. QED
          BY <3>1, <5>1
      <4>2. CASE h # e
        BY <1>15, <3>1, <4>2 DEF LadderInv, OneWorker
      <4>3. QED
        BY <4>1, <4>2
    <3>4. /\ climb[f].rung \in ledger /\ climb[f].rung <= climb[f].top
          /\ climb[f].pos = Len(log[climb[f].rung]) + 1
          /\ climb[f].pos <= NoticeCount(climb[f].rung)
      BY <3>1 DEF LadderInv, OneWorker
    <3>5. climb'[f].pos = Len(log'[climb'[f].rung]) + 1
      BY <3>1, <3>2, <3>4
    <3>6. ledger' = ledger
      BY <1>1
    <3>7. QED
      BY <3>1, <3>3, <3>4, <3>5, <3>6
  <2>3. QED
    BY <2>1, <2>2
<1>17. LogFollowsNotices'
  <2> SUFFICES ASSUME NEW g \in Rung
               PROVE  /\ Len(log'[g]) <= NoticeCount(g)
                      /\ \A i \in 1 .. Len(log'[g]) : log'[g][i].to = Notices(g)[i]
    BY DEF LogFollowsNotices
  <2>1. CASE g = z
    <3>1. \A i \in 1 .. Len(log[z]) : log[z][i].to = Notices(z)[i]
      BY DEF LadderInv, LogFollowsNotices
    <3>2. \A i \in 1 .. Len(log'[z]) : i \in 1 .. Len(log[z]) \/ i = Len(log[z]) + 1
      BY <1>9, <1>11
    <3>3. QED
      BY <1>7, <1>9, <1>11, <2>1, <3>1, <3>2
  <2>2. CASE g # z
    BY <1>11, <2>2 DEF LadderInv, LogFollowsNotices
  <2>3. QED
    BY <2>1, <2>2
<1>18. FreshIsEmpty' /\ MailsDiffer'
  BY <1>1, <1>9, <1>11 DEF LadderInv, FreshIsEmpty, MailsDiffer
<1>19. MailsAreNotices'
  <2> SUFFICES ASSUME NEW g \in Rung, NEW i \in 1 .. Len(mails[g])
               PROVE  \E p \in 1 .. NoticeCount(g) :
                        /\ Notices(g)[p].role = mails[g][i] /\ Notices(g)[p].channel = "EMAIL"
                        /\ p <= Len(log'[g]) + 1
                        /\ \A f \in Evaluator :
                             climb'[f].pc = "send" /\ climb'[f].rung = g => p <= Len(log'[g])
    BY <1>1 DEF MailsAreNotices
  <2>1. PICK p \in 1 .. NoticeCount(g) :
          /\ Notices(g)[p].role = mails[g][i] /\ Notices(g)[p].channel = "EMAIL"
          /\ p <= Len(log[g]) + 1
          /\ \A f \in Evaluator : climb[f].pc = "send" /\ climb[f].rung = g => p <= Len(log[g])
    BY DEF LadderInv, MailsAreNotices
  <2>2. CASE g = z
    BY <1>11, <1>12, <2>1, <2>2
  <2>3. CASE g # z
    <3>1. log'[g] = log[g]
      BY <1>11, <2>3
    <3>2. \A f \in Evaluator : climb'[f].pc = "send" /\ climb'[f].rung = g =>
            climb[f].pc = "send" /\ climb[f].rung = g
      BY <1>6, <1>10, <2>3
    <3>3. QED
      BY <2>1, <3>1, <3>2
  <2>4. QED
    BY <2>2, <2>3
<1>20. SentIsMailed'
  <2>1. ASSUME NEW g \in Rung, NEW i \in 1 .. Len(log'[g]), log'[g][i].status = "SENT"
        PROVE  \E j \in 1 .. Len(mails[g]) : mails[g][j] = log'[g][i].to.role
    <3>1. CASE g = z /\ i = Len(log[z]) + 1
      <4>1. log'[g][i] = r /\ c.outcome = "SENT"
        BY <1>7, <1>11, <2>1, <3>1
      <4>2. \E j \in 1 .. Len(mails[z]) : mails[z][j] = Notices(z)[c.pos].role
        BY <1>9, <4>1 DEF LadderInv, SentIsMailed
      <4>3. QED
        BY <1>7, <3>1, <4>1, <4>2
    <3>2. CASE g # z \/ i # Len(log[z]) + 1
      <4>1. i \in 1 .. Len(log[g]) /\ log'[g][i] = log[g][i]
        BY <1>11, <1>12, <3>2
      <4>2. QED
        BY <2>1, <4>1 DEF LadderInv, SentIsMailed
    <3>3. QED
      BY <3>1, <3>2
  <2>2. \A f \in Evaluator : climb'[f].pc = "record" => climb'[f] = climb[f]
    BY <1>6, <1>10
  <2>3. ASSUME NEW f \in Evaluator, climb'[f].pc = "record", climb'[f].outcome = "SENT"
        PROVE  \E j \in 1 .. Len(mails[climb'[f].rung]) :
                 mails[climb'[f].rung][j] = Notices(climb'[f].rung)[climb'[f].pos].role
    BY <2>2, <2>3 DEF LadderInv, SentIsMailed
  <2>4. mails' = mails
    BY <1>1
  <2>5. QED
    BY <2>1, <2>3, <2>4 DEF SentIsMailed
<1>21. QED
  BY <1>13, <1>14, <1>16, <1>17, <1>18, <1>19, <1>20 DEF LadderInv

-----------------------------------------------------------------------------
LEMMA LadderInductive ==
  ASSUME LadderInv, [LadderNext]_ladderVars
  PROVE  LadderInv'
<1>t. climb \in [Evaluator -> Climber] /\ ladderCrashes \in 0..MaxLadderCrashes
  BY DEF LadderInv, LadderRows
<1>1. ASSUME NEW e \in Evaluator, NEW top \in 0..3, Evaluate(e, top) PROVE LadderInv'
  <2>1. PICK d \in Climber : d = climb[e]
    BY <1>t
  <2>2. d.pc = "idle" /\ d.rung = 1
    BY <1>1, <2>1 DEF Evaluate, LadderInv, ClimbsInOrder
  <2>3. PICK mid \in Climber : mid = [d EXCEPT !.pc = "fire"]
    BY DEF Climber
  <2>4. mid.pc = "fire" /\ mid.rung = 1
    BY <2>2, <2>3 DEF Climber
  <2>5. PICK c \in Climber : c = [mid EXCEPT !.top = top]
    BY DEF Climber
  <2>6. c.pc = "fire" /\ c.rung = 1
    BY <2>4, <2>5 DEF Climber
  <2>7. c = [d EXCEPT !.pc = "fire", !.top = top]
    BY <2>3, <2>5
  <2>8. climb' = [climb EXCEPT ![e] = c]
    BY <1>1, <1>t, <2>1, <2>7 DEF Evaluate
  <2>9. \A lower \in 1 .. (c.rung - 1) : lower \in ledger
    BY <2>6
  <2>10. QED
    BY <1>1, <1>t, <2>6, <2>8, <2>9, MoveKeeps DEF Evaluate
<1>2. ASSUME NEW e \in Evaluator, EvaluateDone(e) \/ EvaluatorDies(e) PROVE LadderInv'
  <2>1. PICK d \in Climber : d = climb[e]
    BY <1>t
  <2>2. PICK w \in {"done", "dead"} : climb' = [climb EXCEPT ![e].pc = w]
    BY <1>2 DEF EvaluateDone, EvaluatorDies
  <2>3. PICK c \in Climber : c = [d EXCEPT !.pc = w]
    BY DEF Climber
  <2>4. c.pc = w
    BY <2>3 DEF Climber
  <2>5. climb' = [climb EXCEPT ![e] = c]
    BY <2>1, <2>2, <2>3
  <2>6. ladderCrashes' \in 0..MaxLadderCrashes
    BY <1>2, <1>t, LadderCrashAssumption DEF EvaluateDone, EvaluatorDies
  <2>7. UNCHANGED <<ledger, log, mails, contact, mailer, mailFaults>>
    BY <1>2 DEF EvaluateDone, EvaluatorDies
  <2>8. c.pc \notin {"send", "record", "idle", "fire"}
    BY <2>4
  <2>9. QED
    BY <2>5, <2>6, <2>7, <2>8, MoveKeeps
<1>3. CASE UNCHANGED ladderVars
  BY <1>3
  DEF ladderVars, LadderInv, LadderRows, ClimbsInOrder, OneWorker, LogFollowsNotices,
      FreshIsEmpty, MailsAreNotices, MailsDiffer, SentIsMailed, Working
<1>4. QED
  BY <1>1, <1>2, <1>3, FireKeeps, SendKeeps, RecordKeeps DEF LadderNext, Climb

LEMMA LadderInvHolds == LadderSpec => []LadderInv
<1>1. LadderInit => LadderInv
  <2> SUFFICES ASSUME LadderInit PROVE LadderInv
    OBVIOUS
  <2> DEFINE start == [pc |-> "idle", top |-> 0, rung |-> 1, pos |-> 1, outcome |-> "SENT"]
  <2>1. start \in Climber
    <3>1. 0 \in 0..3 /\ 1 \in 1..4 /\ 1 \in 1..7 /\ "SENT" \in Outcomes
      BY DEF Outcomes
    <3>2. QED
      BY <3>1, Zenon DEF Climber
  <2>2. start.pc = "idle" /\ start.rung = 1
    OBVIOUS
  <2>3. climb = [e \in Evaluator |-> start]
    BY DEF LadderInit
  <2> HIDE DEF start
  <2>4. climb \in [Evaluator -> Climber] /\ \A e \in Evaluator : climb[e].pc = "idle" /\ climb[e].rung = 1
    BY <2>1, <2>2, <2>3
  <2>5. /\ log \in [Rung -> Seq(LogRow)] /\ mails \in [Rung -> Seq(Roles)]
        /\ \A g \in Rung : Len(log[g]) = 0 /\ Len(mails[g]) = 0
    BY DEF LadderInit
  <2>6. mailFaults \in 0..MaxMailFaults /\ ladderCrashes \in 0..MaxLadderCrashes
    BY LadderCrashAssumption, MailFaultAssumption DEF LadderInit
  <2>7. LadderRows
    BY <2>4, <2>5, <2>6 DEF LadderRows, LadderInit
  <2>8. ClimbsInOrder /\ OneWorker /\ SentIsMailed
    BY <2>4, <2>5 DEF ClimbsInOrder, OneWorker, SentIsMailed, Working
  <2>9. \A g \in Rung : NoticeCount(g) \in 6 .. 7
    BY NoticesFacts
  <2>10. LogFollowsNotices /\ FreshIsEmpty /\ MailsAreNotices /\ MailsDiffer
    BY <2>5, <2>9 DEF LogFollowsNotices, FreshIsEmpty, MailsAreNotices, MailsDiffer
  <2>11. QED
    BY <2>7, <2>8, <2>10 DEF LadderInv
<1>2. LadderInv /\ [LadderNext]_ladderVars => LadderInv'
  BY LadderInductive
<1>3. QED
  BY <1>1, <1>2, PTL DEF LadderSpec

(* Every state of the ladder is well typed: no rung is logged beyond its     *)
(* notices (LadderTypeOK).                                                   *)
THEOREM LadderTypeCorrect == LadderSpec => []LadderTypeOK
<1>1. LadderInv => LadderTypeOK
  <2> SUFFICES ASSUME LadderInv PROVE LadderTypeOK
    OBVIOUS
  <2>1. /\ ledger \subseteq Rung /\ log \in [Rung -> Seq(LogRow)] /\ mails \in [Rung -> Seq(Roles)]
        /\ climb \in [Evaluator -> Climber] /\ contact \in BOOLEAN /\ mailer \in BOOLEAN
        /\ mailFaults \in 0..MaxMailFaults /\ ladderCrashes \in 0..MaxLadderCrashes
    BY DEF LadderInv, LadderRows
  <2>2. \A g \in Rung : \A i \in DOMAIN log[g] : log[g][i].status \in Outcomes
    BY <2>1, LenProperties, ElementOfSeq, ClimberFacts
  <2>3. \A g \in Rung : \A i \in DOMAIN mails[g] : mails[g][i] \in Roles
    BY <2>1, LenProperties, ElementOfSeq
  <2>4. \A g \in Rung : Len(log[g]) <= Len(Notices(g))
    BY DEF LadderInv, LogFollowsNotices, NoticeCount
  <2>5. QED
    BY <2>1, <2>2, <2>3, <2>4 DEF LadderTypeOK, Climber, Roles
<1>2. QED
  BY <1>1, LadderInvHolds, PTL

(* A rung is on the ledger only with the rungs below it: an evaluator puts   *)
(* them there in order, whatever the others do (LadderHasNoGaps).            *)
THEOREM LadderNeverHasGaps == LadderSpec => []LadderHasNoGaps
<1>1. LadderInit => LadderHasNoGaps
  BY DEF LadderInit, LadderHasNoGaps
<1>2. ASSUME LadderInv, LadderHasNoGaps, [LadderNext]_ladderVars
      PROVE  LadderHasNoGaps'
  <2>1. CASE ledger' = ledger
    BY <1>2, <2>1 DEF LadderHasNoGaps
  <2>2. ASSUME NEW e \in Evaluator, FireRung(e) PROVE LadderHasNoGaps'
    <3>1. ledger' = ledger \union {climb[e].rung} /\ climb[e].rung \in 1..4
      BY <1>2, <2>2, ClimberFacts DEF FireRung, LadderInv, LadderRows
    <3>2. \A lower \in 1 .. (climb[e].rung - 1) : lower \in ledger
      BY <1>2, <2>2 DEF FireRung, LadderInv, ClimbsInOrder
    <3>3. \A lower \in 1 .. climb[e].rung : lower \in ledger'
      BY <3>1, <3>2
    <3>4. QED
      BY <1>2, <3>1, <3>3 DEF LadderHasNoGaps
  <2>3. QED
    BY <1>2, <2>1, <2>2
    DEF LadderNext, Climb, ladderVars, Evaluate, EvaluateDone, Send, Record, EvaluatorDies
<1>3. QED
  BY <1>1, <1>2, LadderInvHolds, PTL DEF LadderSpec

(* No notice is logged twice, no role gets two mails of one rung, and no row *)
(* claims SENT for a mail that never left: the evaluator whose row the       *)
(* ledger took is alone on its rung (OneNoticePerChannel).                   *)
THEOREM NoticesAreSentOnce == LadderSpec => []OneNoticePerChannel
<1>1. LadderInv => OneNoticePerChannel
  <2> SUFFICES ASSUME LadderInv, NEW g \in Rung
               PROVE  /\ \A i, j \in DOMAIN log[g] : i # j => log[g][i].to # log[g][j].to
                      /\ \A i, j \in DOMAIN mails[g] : i # j => mails[g][i] # mails[g][j]
                      /\ \A i \in DOMAIN log[g] : log[g][i].status = "SENT" =>
                           \E j \in DOMAIN mails[g] : mails[g][j] = log[g][i].to.role
    BY DEF OneNoticePerChannel
  <2>1. /\ DOMAIN log[g] = 1 .. Len(log[g]) /\ DOMAIN mails[g] = 1 .. Len(mails[g])
        /\ Len(log[g]) \in Nat
    BY LenProperties DEF LadderInv, LadderRows
  <2>2. /\ Len(log[g]) <= NoticeCount(g) /\ NoticeCount(g) \in 6 .. 7
        /\ \A i \in 1 .. Len(log[g]) : log[g][i].to = Notices(g)[i]
    BY NoticesFacts DEF LadderInv, LogFollowsNotices
  <2>3. \A i \in DOMAIN log[g] : i \in 1 .. NoticeCount(g)
    BY <2>1, <2>2
  <2>4. \A i, j \in DOMAIN log[g] : i # j => log[g][i].to # log[g][j].to
    BY <2>1, <2>2, <2>3, NoticesFacts
  <2>5. QED
    BY <2>1, <2>4 DEF LadderInv, MailsDiffer, SentIsMailed
<1>2. QED
  BY <1>1, LadderInvHolds, PTL

-----------------------------------------------------------------------------
(* Parking slots *)

OpenRow == [pc : {"open"}, truck : Truck, slot : Slot]
CloseRow == [pc : {"close", "free"}, stay : 1 .. MaxStays]

(* A request that closes or frees has a stay to go by.                       *)
StaysExist ==
  \A k \in Clerk : clerk[k].pc \in {"close", "free"} => clerk[k].stay \in DOMAIN stays

(* Somebody with a claim on slot s: a stay in it, or a request that is about *)
(* to open one or to free it.                                                *)
HoldsAsStay(n, s) == n \in DOMAIN stays /\ stays[n].slot = s /\ stays[n].active
HoldsAsClerk(k, s) ==
  \/ clerk[k].pc = "open" /\ clerk[k].slot = s
  \/ clerk[k].pc = "free" /\ stays[clerk[k].stay].slot = s

(* A slot that somebody holds is taken and has that one holder.              *)
OneHolder ==
  \A s \in Slot :
    /\ \A m, n : HoldsAsStay(m, s) /\ HoldsAsStay(n, s) => m = n
    /\ \A j, k \in Clerk : HoldsAsClerk(j, s) /\ HoldsAsClerk(k, s) => j = k
    /\ \A n : \A k \in Clerk : ~(HoldsAsStay(n, s) /\ HoldsAsClerk(k, s))
    /\ \A n : HoldsAsStay(n, s) => slot[s] # Free
    /\ \A k \in Clerk : HoldsAsClerk(k, s) => slot[s] # Free

(* Each request between its two transactions has room for its stay.          *)
Openers == {k \in Clerk : clerk[k].pc = "open"}
RoomForStays == Len(stays) + Cardinality(Openers) <= MaxStays

LEMMA RowFacts ==
  /\ NoOne.pc = "idle" /\ NoOne \notin OpenRow /\ NoOne \notin CloseRow
  /\ \A r \in OpenRow : r.pc = "open" /\ r.truck \in Truck /\ r.slot \in Slot
  /\ \A r \in CloseRow : r.pc \in {"close", "free"} /\ r.stay \in 1 .. MaxStays
  BY DEF NoOne, OpenRow, CloseRow

LEMMA TypeFacts ==
  ASSUME ParkTypeOK
  PROVE  /\ slot \in [Slot -> Truck \cup {Free}] /\ stays \in Seq(Stay)
         /\ Len(stays) \in Nat /\ DOMAIN stays = 1 .. Len(stays) /\ Len(stays) <= MaxStays
         /\ clerk \in [Clerk -> OpenRow \cup CloseRow \cup {NoOne}]
         /\ \A n \in DOMAIN stays : stays[n] \in Stay
<1>1. stays \in Seq(Stay)
  BY DEF ParkTypeOK
<1>2. Len(stays) \in Nat /\ DOMAIN stays = 1 .. Len(stays)
  BY <1>1, LenProperties
<1>3. \A n \in DOMAIN stays : stays[n] \in Stay
  BY <1>1, <1>2, ElementOfSeq
<1>4. QED
  BY <1>1, <1>2, <1>3 DEF ParkTypeOK, OpenRow, CloseRow

(* What a step makes of its request, and of the stays.                       *)
LEMMA OpenStayFacts ==
  ASSUME ParkTypeOK, NEW k \in Clerk, OpenStay(k)
  PROVE  LET new == [truck |-> clerk[k].truck, slot |-> clerk[k].slot, active |-> TRUE] IN
         /\ new \in Stay /\ stays' \in Seq(Stay)
         /\ DOMAIN stays' = DOMAIN stays \cup {Len(stays) + 1} /\ Len(stays) + 1 \notin DOMAIN stays
         /\ Len(stays') = Len(stays) + 1
         /\ \A n \in DOMAIN stays : stays'[n] = stays[n]
         /\ stays'[Len(stays) + 1] = new
<1> DEFINE new == [truck |-> clerk[k].truck, slot |-> clerk[k].slot, active |-> TRUE]
<1>1. clerk[k] \in OpenRow
  BY TypeFacts, RowFacts DEF OpenStay
<1>2. new \in Stay
  BY <1>1, RowFacts DEF Stay
<1>3. stays' = Append(stays, new)
  BY DEF OpenStay
<1> HIDE DEF new
<1>4. /\ stays' \in Seq(Stay) /\ Len(stays') = Len(stays) + 1
      /\ \A n \in 1 .. Len(stays) : stays'[n] = stays[n]
      /\ stays'[Len(stays) + 1] = new
  BY <1>2, <1>3, TypeFacts, AppendProperties
<1>5. DOMAIN stays' = 1 .. Len(stays')
  BY <1>4, LenProperties
<1>6. DOMAIN stays' = DOMAIN stays \cup {Len(stays) + 1} /\ Len(stays) + 1 \notin DOMAIN stays
  BY <1>4, <1>5, TypeFacts
<1>7. QED
  BY <1>2, <1>4, <1>6, TypeFacts DEF new

(* A record built from a stay by closing it is a stay.                       *)
LEMMA CloseStayFacts ==
  ASSUME ParkTypeOK, StaysExist, NEW k \in Clerk, CloseStay(k)
  PROVE  LET n0 == clerk[k].stay IN
         /\ n0 \in DOMAIN stays /\ stays' \in Seq(Stay)
         /\ DOMAIN stays' = DOMAIN stays /\ Len(stays') = Len(stays)
         /\ \A n \in DOMAIN stays : stays'[n].slot = stays[n].slot
         /\ \A n \in DOMAIN stays : n # n0 => stays'[n] = stays[n]
         /\ ~stays'[n0].active
<1> DEFINE n0 == clerk[k].stay
<1>1. n0 \in DOMAIN stays
  BY DEF StaysExist, CloseStay
<1>2. stays' = [stays EXCEPT ![n0].active = FALSE]
  BY DEF CloseStay
<1>3. PICK old \in Stay : old = stays[n0]
  BY <1>1, TypeFacts
<1>4. /\ [old EXCEPT !.active = FALSE] \in Stay
      /\ [old EXCEPT !.active = FALSE].slot = old.slot
      /\ ~[old EXCEPT !.active = FALSE].active
  BY <1>3 DEF Stay
<1>5. stays' = [stays EXCEPT ![n0] = [old EXCEPT !.active = FALSE]]
  BY <1>2, <1>3
<1> HIDE DEF n0
<1>6. stays' \in Seq(Stay) /\ Len(stays') = Len(stays)
  BY <1>1, <1>4, <1>5, TypeFacts, ExceptSeq
<1>7. DOMAIN stays' = DOMAIN stays
  BY <1>5
<1>8. \A n \in DOMAIN stays : n # n0 => stays'[n] = stays[n]
  BY <1>5
<1>9. stays'[n0] = [old EXCEPT !.active = FALSE]
  BY <1>1, <1>5
<1>10. \A n \in DOMAIN stays : stays'[n].slot = stays[n].slot
  BY <1>3, <1>4, <1>8, <1>9
<1>11. QED
  BY <1>1, <1>4, <1>6, <1>7, <1>8, <1>9, <1>10 DEF n0

-----------------------------------------------------------------------------
(* Types: the stays never outgrow their bound, because a request counts the  *)
(* one it is about to open from the moment it claims the slot.               *)

LEMMA OpenersShrink ==
  ASSUME RoomForStays, Len(stays) \in Nat, Len(stays') = Len(stays),
         Openers' \subseteq Openers
  PROVE  RoomForStays'
<1>1. IsFiniteSet(Openers)
  BY ClerkAssumption, FS_Subset DEF Openers
<1>2. Cardinality(Openers') <= Cardinality(Openers) /\ Cardinality(Openers) \in Nat
      /\ Cardinality(Openers') \in Nat
  BY <1>1, FS_Subset, FS_CardinalityType
<1>3. QED
  BY <1>2, StayBoundsAssumption DEF RoomForStays

LEMMA TypeInductive ==
  ASSUME ParkTypeOK, StaysExist, RoomForStays, [ParkNext]_parkVars
  PROVE  ParkTypeOK' /\ StaysExist' /\ RoomForStays'
<1> USE TypeFacts
<1>t. /\ slot \in [Slot -> Truck \cup {Free}] /\ stays \in Seq(Stay) /\ Len(stays) <= MaxStays
      /\ clerk \in [Clerk -> OpenRow \cup CloseRow \cup {NoOne}]
      /\ reclosed \in BOOLEAN /\ lost \in 0 .. MaxLost
  BY DEF ParkTypeOK
<1>q. ASSUME slot' \in [Slot -> Truck \cup {Free}], stays' \in Seq(Stay), RoomForStays',
             clerk' \in [Clerk -> OpenRow \cup CloseRow \cup {NoOne}],
             reclosed' \in BOOLEAN, lost' \in 0 .. MaxLost
      PROVE  ParkTypeOK'
  <2>1. IsFiniteSet(Openers')
    BY ClerkAssumption, FS_Subset DEF Openers
  <2>2. Cardinality(Openers') \in Nat /\ Len(stays') \in Nat
    BY <1>q, <2>1, FS_CardinalityType, LenProperties
  <2>3. Len(stays') <= MaxStays
    BY <1>q, <2>2, StayBoundsAssumption DEF RoomForStays
  <2>4. QED
    BY <1>q, <2>3 DEF ParkTypeOK, OpenRow, CloseRow
<1>1. ASSUME NEW k \in Clerk, NEW t \in Truck, NEW s \in Slot, Claim(k, t, s)
      PROVE  ParkTypeOK' /\ StaysExist' /\ RoomForStays'
  <2>1. [pc |-> "open", truck |-> t, slot |-> s] \in OpenRow
    BY DEF OpenRow
  <2>2. clerk' \in [Clerk -> OpenRow \cup CloseRow \cup {NoOne}]
    BY <1>1, <1>t, <2>1 DEF Claim
  <2>3. slot' \in [Slot -> Truck \cup {Free}]
    BY <1>1, <1>t DEF Claim
  <2>4. k \notin Openers /\ Openers' = Openers \cup {k}
    BY <1>1, <1>t, RowFacts DEF Claim, Openers
  <2>5. IsFiniteSet(Openers) /\ Cardinality(Openers) \in Nat
    BY ClerkAssumption, FS_Subset, FS_CardinalityType DEF Openers
  <2>6. Cardinality(Openers') = Cardinality(Openers) + 1
    BY <2>4, <2>5, FS_AddElement
  <2>7. Len(stays) + Cardinality(Openers) < MaxStays /\ stays' = stays
    BY <1>1 DEF Claim, Openers
  <2>8. RoomForStays'
    BY <2>5, <2>6, <2>7, StayBoundsAssumption DEF RoomForStays
  <2>9. StaysExist'
    BY <1>1, <1>t DEF StaysExist, Claim
  <2>10. ParkTypeOK'
    BY <1>1, <1>q, <1>t, <2>2, <2>3, <2>8 DEF Claim
  <2>11. QED
    BY <2>8, <2>9, <2>10
<1>2. ASSUME NEW k \in Clerk, OpenStay(k)
      PROVE  ParkTypeOK' /\ StaysExist' /\ RoomForStays'
  <2>1. /\ stays' \in Seq(Stay) /\ DOMAIN stays \subseteq DOMAIN stays'
        /\ Len(stays') = Len(stays) + 1
    BY <1>2, OpenStayFacts
  <2>2. clerk' \in [Clerk -> OpenRow \cup CloseRow \cup {NoOne}]
    BY <1>2, <1>t DEF OpenStay
  <2>3. k \in Openers /\ Openers' = Openers \ {k}
    BY <1>2, <1>t, RowFacts DEF OpenStay, Openers
  <2>4. IsFiniteSet(Openers) /\ Cardinality(Openers) \in Nat
    BY ClerkAssumption, FS_Subset, FS_CardinalityType DEF Openers
  <2>5. Cardinality(Openers') = Cardinality(Openers) - 1
    BY <2>3, <2>4, FS_RemoveElement
  <2>6. RoomForStays'
    BY <2>1, <2>4, <2>5, StayBoundsAssumption DEF RoomForStays
  <2>7. StaysExist'
    BY <1>2, <1>t, <2>1, RowFacts DEF StaysExist, OpenStay
  <2>8. ParkTypeOK'
    BY <1>2, <1>q, <1>t, <2>1, <2>2, <2>6 DEF OpenStay
  <2>9. QED
    BY <2>6, <2>7, <2>8
<1>3. ASSUME NEW k \in Clerk, NEW t \in Truck, PickStay(k, t)
      PROVE  ParkTypeOK' /\ StaysExist' /\ RoomForStays'
  <2>1. PICK n \in DOMAIN stays :
          clerk' = [clerk EXCEPT ![k] = [pc |-> "close", stay |-> n]]
    BY <1>3 DEF PickStay, OpenStays
  <2>2. n \in 1 .. MaxStays
    BY StayBoundsAssumption
  <2>3. [pc |-> "close", stay |-> n] \in CloseRow
    BY <2>2 DEF CloseRow
  <2>4. clerk' \in [Clerk -> OpenRow \cup CloseRow \cup {NoOne}]
    BY <1>t, <2>1, <2>3
  <2>5. Openers' \subseteq Openers /\ StaysExist'
    BY <1>3, <1>t, <2>1 DEF PickStay, Openers, StaysExist
  <2>6. RoomForStays'
    BY <1>3, <2>5, OpenersShrink DEF PickStay
  <2>7. QED
    BY <1>3, <1>q, <1>t, <2>4, <2>5, <2>6 DEF PickStay
<1>4. ASSUME NEW k \in Clerk, CloseStay(k)
      PROVE  ParkTypeOK' /\ StaysExist' /\ RoomForStays'
  <2>1. clerk[k] \in CloseRow /\ clerk[k].stay \in DOMAIN stays
    BY <1>4, <1>t, RowFacts DEF CloseStay, StaysExist
  <2>2. [pc |-> "free", stay |-> clerk[k].stay] \in CloseRow
    BY <2>1, RowFacts DEF CloseRow
  <2>3. clerk' = [clerk EXCEPT ![k] = [pc |-> "free", stay |-> clerk[k].stay]]
    BY <1>4 DEF CloseStay
  <2>4. clerk' \in [Clerk -> OpenRow \cup CloseRow \cup {NoOne}]
    BY <1>t, <2>2, <2>3
  <2>5. stays' \in Seq(Stay) /\ DOMAIN stays' = DOMAIN stays /\ Len(stays') = Len(stays)
    BY <1>4, CloseStayFacts
  <2>6. Openers' \subseteq Openers /\ StaysExist'
    BY <1>t, <2>1, <2>3, <2>5 DEF Openers, StaysExist
  <2>7. RoomForStays'
    BY <2>5, <2>6, OpenersShrink
  <2>8. reclosed' \in BOOLEAN
    BY <1>4 DEF CloseStay
  <2>9. QED
    BY <1>4, <1>q, <1>t, <2>4, <2>5, <2>6, <2>7, <2>8 DEF CloseStay
<1>5. ASSUME NEW k \in Clerk, FreeSlot(k)
      PROVE  ParkTypeOK' /\ StaysExist' /\ RoomForStays'
  <2>1. slot' \in [Slot -> Truck \cup {Free}]
    BY <1>5, <1>t DEF FreeSlot, Freed
  <2>2. clerk' \in [Clerk -> OpenRow \cup CloseRow \cup {NoOne}]
    BY <1>5, <1>t DEF FreeSlot
  <2>3. Openers' \subseteq Openers /\ StaysExist'
    BY <1>5, <1>t, RowFacts DEF Openers, StaysExist, FreeSlot
  <2>4. RoomForStays'
    BY <1>5, <2>3, OpenersShrink DEF FreeSlot
  <2>5. QED
    BY <1>5, <1>q, <1>t, <2>1, <2>2, <2>3, <2>4 DEF FreeSlot
<1>6. ASSUME NEW k \in Clerk, ParkingDies(k)
      PROVE  ParkTypeOK' /\ StaysExist' /\ RoomForStays'
  <2>1. lost' \in 0 .. MaxLost
    BY <1>6, <1>t, StayBoundsAssumption DEF ParkingDies
  <2>2. clerk' \in [Clerk -> OpenRow \cup CloseRow \cup {NoOne}]
    BY <1>6, <1>t DEF ParkingDies
  <2>3. Openers' \subseteq Openers /\ StaysExist'
    BY <1>6, <1>t, RowFacts DEF Openers, StaysExist, ParkingDies
  <2>4. RoomForStays'
    BY <1>6, <2>3, OpenersShrink DEF ParkingDies
  <2>5. QED
    BY <1>6, <1>q, <1>t, <2>1, <2>2, <2>3, <2>4 DEF ParkingDies
<1>7. ASSUME UNCHANGED parkVars
      PROVE  ParkTypeOK' /\ StaysExist' /\ RoomForStays'
  BY <1>7 DEF parkVars, ParkTypeOK, StaysExist, RoomForStays, Openers
<1>8. QED
  BY <1>1, <1>2, <1>3, <1>4, <1>5, <1>6, <1>7 DEF ParkNext

(* Every state of the facility is well typed, at most MaxStays stays among   *)
(* them (the tables parking_slot and parking_transaction).                   *)
THEOREM ParkTypeCorrect == ParkSpec => [](ParkTypeOK /\ StaysExist /\ RoomForStays)
<1>1. ParkInit => ParkTypeOK /\ StaysExist /\ RoomForStays
  <2> SUFFICES ASSUME ParkInit PROVE ParkTypeOK /\ StaysExist /\ RoomForStays
    OBVIOUS
  <2>1. \A k \in Clerk : clerk[k] = NoOne /\ clerk[k].pc = "idle"
    BY RowFacts DEF ParkInit
  <2>2. Openers = {}
    BY <2>1 DEF Openers
  <2>3. Len(stays) = 0 /\ stays \in Seq(Stay)
    BY DEF ParkInit
  <2>4. RoomForStays
    BY <2>2, <2>3, FS_EmptySet, StayBoundsAssumption DEF RoomForStays
  <2>5. slot \in [Slot -> Truck \cup {Free}] /\ reclosed \in BOOLEAN
    BY DEF ParkInit
  <2>6. lost \in 0 .. MaxLost /\ Len(stays) <= MaxStays
    BY <2>3, StayBoundsAssumption DEF ParkInit
  <2>7. ParkTypeOK
    BY <2>3, <2>5, <2>6 DEF ParkTypeOK, ParkInit
  <2>8. QED
    BY <2>1, <2>4, <2>7 DEF StaysExist
<1>2. ParkTypeOK /\ StaysExist /\ RoomForStays /\ [ParkNext]_parkVars
        => (ParkTypeOK /\ StaysExist /\ RoomForStays)'
  BY TypeInductive
<1>3. QED
  BY <1>1, <1>2, PTL DEF ParkSpec

-----------------------------------------------------------------------------
(* Who holds what after each step.                                           *)

SameStays == \A n, s : HoldsAsStay(n, s)' <=> HoldsAsStay(n, s)
LosesClaim(k) ==
  \A j \in Clerk, s \in Slot : HoldsAsClerk(j, s)' <=> j # k /\ HoldsAsClerk(j, s)

LEMMA ClaimHolds ==
  ASSUME ParkTypeOK, NEW k \in Clerk, NEW t \in Truck, NEW z \in Slot, Claim(k, t, z)
  PROVE  /\ SameStays /\ \A s : ~HoldsAsClerk(k, s)
         /\ \A j \in Clerk, s \in Slot :
              HoldsAsClerk(j, s)' <=> HoldsAsClerk(j, s) \/ (j = k /\ s = z)
  BY TypeFacts, RowFacts DEF Claim, SameStays, HoldsAsStay, HoldsAsClerk

LEMMA OpenHolds ==
  ASSUME ParkTypeOK, StaysExist, NEW k \in Clerk, OpenStay(k)
  PROVE  LET z == clerk[k].slot IN
         /\ z \in Slot /\ HoldsAsClerk(k, z) /\ LosesClaim(k)
         /\ \A n, s : HoldsAsStay(n, s)'
                       <=> HoldsAsStay(n, s) \/ (n = Len(stays) + 1 /\ s = z)
<1> DEFINE z == clerk[k].slot
           new == [truck |-> clerk[k].truck, slot |-> clerk[k].slot, active |-> TRUE]
<1>1. /\ DOMAIN stays' = DOMAIN stays \cup {Len(stays) + 1} /\ Len(stays) + 1 \notin DOMAIN stays
      /\ \A n \in DOMAIN stays : stays'[n] = stays[n]
      /\ stays'[Len(stays) + 1] = new
  BY OpenStayFacts
<1>2. new.slot = z /\ new.active
  OBVIOUS
<1> HIDE DEF new
<1>3. clerk[k].pc = "open" /\ clerk[k] \in OpenRow /\ clerk' = [clerk EXCEPT ![k] = NoOne]
  BY TypeFacts, RowFacts DEF OpenStay
<1>4. z \in Slot /\ HoldsAsClerk(k, z)
  BY <1>3, RowFacts DEF HoldsAsClerk
<1>5. \A n, s : HoldsAsStay(n, s)' <=> HoldsAsStay(n, s) \/ (n = Len(stays) + 1 /\ s = z)
  BY <1>1, <1>2 DEF HoldsAsStay
<1>6. LosesClaim(k)
  BY <1>1, <1>3, TypeFacts, RowFacts DEF LosesClaim, HoldsAsClerk, StaysExist
<1>7. QED
  BY <1>4, <1>5, <1>6

LEMMA PickHolds ==
  ASSUME ParkTypeOK, NEW k \in Clerk, NEW t \in Truck, PickStay(k, t)
  PROVE  SameStays /\ LosesClaim(k) /\ \A s : ~HoldsAsClerk(k, s)
  BY TypeFacts, RowFacts DEF PickStay, SameStays, LosesClaim, HoldsAsStay, HoldsAsClerk

LEMMA CloseHolds ==
  ASSUME ParkTypeOK, StaysExist, NEW k \in Clerk, CloseStay(k)
  PROVE  LET n0 == clerk[k].stay
             z == stays[n0].slot IN
         /\ z \in Slot /\ (stays[n0].active => HoldsAsStay(n0, z))
         /\ \A s : ~HoldsAsClerk(k, s)
         /\ \A n, s : HoldsAsStay(n, s)' <=> n # n0 /\ HoldsAsStay(n, s)
         /\ \A j \in Clerk, s \in Slot :
              HoldsAsClerk(j, s)' <=> HoldsAsClerk(j, s) \/ (j = k /\ s = z)
<1> DEFINE n0 == clerk[k].stay
           z == stays[n0].slot
<1>1. /\ n0 \in DOMAIN stays /\ DOMAIN stays' = DOMAIN stays
      /\ \A n \in DOMAIN stays : stays'[n].slot = stays[n].slot
      /\ \A n \in DOMAIN stays : n # n0 => stays'[n] = stays[n]
      /\ ~stays'[n0].active
  BY CloseStayFacts
<1>2. clerk[k].pc = "close" /\ clerk' = [clerk EXCEPT ![k] = [pc |-> "free", stay |-> n0]]
  BY DEF CloseStay
<1>3. z \in Slot
  BY <1>1, TypeFacts DEF Stay
<1>4. \A n, s : HoldsAsStay(n, s)' <=> n # n0 /\ HoldsAsStay(n, s)
  BY <1>1 DEF HoldsAsStay
<1>5. stays[n0].active => HoldsAsStay(n0, z)
  BY <1>1 DEF HoldsAsStay
<1>6. \A j \in Clerk \ {k} : clerk'[j] = clerk[j]
  BY <1>2, TypeFacts
<1>7. clerk'[k].pc = "free" /\ clerk'[k].stay = n0
  BY <1>2, TypeFacts
<1>8. \A j \in Clerk, s \in Slot : HoldsAsClerk(j, s)' <=> HoldsAsClerk(j, s) \/ (j = k /\ s = z)
  BY <1>1, <1>2, <1>6, <1>7 DEF HoldsAsClerk, StaysExist
<1>9. QED
  BY <1>2, <1>3, <1>4, <1>5, <1>8 DEF HoldsAsClerk

LEMMA FreeHolds ==
  ASSUME ParkTypeOK, StaysExist, NEW k \in Clerk, FreeSlot(k)
  PROVE  LET z == stays[clerk[k].stay].slot IN
         /\ z \in Slot /\ HoldsAsClerk(k, z) /\ SameStays /\ LosesClaim(k)
         /\ slot' = [slot EXCEPT ![z] = Free]
  BY TypeFacts, RowFacts
  DEF FreeSlot, Freed, SameStays, LosesClaim, HoldsAsStay, HoldsAsClerk, StaysExist, Stay

LEMMA DeathHolds ==
  ASSUME ParkTypeOK, NEW k \in Clerk, ParkingDies(k)
  PROVE  SameStays /\ LosesClaim(k)
  BY TypeFacts, RowFacts DEF ParkingDies, SameStays, LosesClaim, HoldsAsStay, HoldsAsClerk

-----------------------------------------------------------------------------
(* A slot has one holder until a stay is closed twice: whoever frees a slot  *)
(* is then that one holder, so nobody else is put out of it.                 *)
LEMMA OneHolderInductive ==
  ASSUME ParkTypeOK, StaysExist, OneHolder, ~reclosed', [ParkNext]_parkVars
  PROVE  OneHolder'
<1>t. slot \in [Slot -> Truck \cup {Free}]
  BY TypeFacts
<1>1. ASSUME NEW k \in Clerk, NEW t \in Truck, NEW s \in Slot, Claim(k, t, s)
      PROVE  OneHolder'
  <2>1. slot[s] = Free /\ slot' = [slot EXCEPT ![s] = t] /\ t # Free
    BY <1>1, FreeAssumption DEF Claim, Claimable
  <2>2. QED
    BY <1>1, <1>t, <2>1, ClaimHolds DEF OneHolder, SameStays
<1>2. ASSUME NEW k \in Clerk, OpenStay(k)
      PROVE  OneHolder'
  <2>1. slot' = slot
    BY <1>2 DEF OpenStay
  <2>2. QED
    BY <1>2, <2>1, OpenHolds DEF OneHolder, LosesClaim
<1>3. ASSUME NEW k \in Clerk, NEW t \in Truck, PickStay(k, t)
      PROVE  OneHolder'
  <2>1. slot' = slot
    BY <1>3 DEF PickStay
  <2>2. QED
    BY <1>3, <2>1, PickHolds DEF OneHolder, LosesClaim, SameStays
<1>4. ASSUME NEW k \in Clerk, CloseStay(k)
      PROVE  OneHolder'
  <2>1. slot' = slot /\ stays[clerk[k].stay].active
    BY <1>4 DEF CloseStay
  <2>2. QED
    BY <1>4, <2>1, CloseHolds DEF OneHolder
<1>5. ASSUME NEW k \in Clerk, FreeSlot(k)
      PROVE  OneHolder'
  BY <1>5, <1>t, FreeHolds DEF OneHolder, LosesClaim, SameStays
<1>6. ASSUME NEW k \in Clerk, ParkingDies(k)
      PROVE  OneHolder'
  <2>1. slot' = slot
    BY <1>6 DEF ParkingDies
  <2>2. QED
    BY <1>6, <2>1, DeathHolds DEF OneHolder, LosesClaim, SameStays
<1>7. ASSUME UNCHANGED parkVars
      PROVE  OneHolder'
  BY <1>7 DEF parkVars, OneHolder, HoldsAsStay, HoldsAsClerk
<1>8. QED
  BY <1>1, <1>2, <1>3, <1>4, <1>5, <1>6, <1>7 DEF ParkNext

(* Two vehicles stay in one slot only after two releases of one vehicle      *)
(* closed the same stay (SharedSlotNeedsADoubleRelease).                     *)
THEOREM SharedSlotsNeedADoubleRelease == ParkSpec => []SharedSlotNeedsADoubleRelease
<1>1. ParkInit => (~reclosed => OneHolder)
  <2> SUFFICES ASSUME ParkInit PROVE OneHolder
    OBVIOUS
  <2>1. \A n, s : ~HoldsAsStay(n, s)
    BY DEF ParkInit, HoldsAsStay
  <2>2. \A k \in Clerk : \A s : ~HoldsAsClerk(k, s)
    BY RowFacts DEF ParkInit, HoldsAsClerk
  <2>3. QED
    BY <2>1, <2>2 DEF OneHolder
<1>2. ParkTypeOK /\ StaysExist /\ (~reclosed => OneHolder) /\ [ParkNext]_parkVars
        => (~reclosed => OneHolder)'
  <2> SUFFICES ASSUME ParkTypeOK, StaysExist, ~reclosed => OneHolder, [ParkNext]_parkVars,
                      ~reclosed'
               PROVE  OneHolder'
    OBVIOUS
  <2>1. ~reclosed
    BY DEF ParkNext, parkVars, Claim, OpenStay, PickStay, CloseStay, FreeSlot, ParkingDies
  <2>2. QED
    BY <2>1, OneHolderInductive
<1>3. (~reclosed => OneHolder) => SharedSlotNeedsADoubleRelease
  BY DEF OneHolder, HoldsAsStay, SharedSlotNeedsADoubleRelease, Parked
<1>4. QED
  BY <1>1, <1>2, <1>3, ParkTypeCorrect, PTL DEF ParkSpec

(* Every occupied slot has somebody in it or on the way.                     *)
Held(s) == (\E n : HoldsAsStay(n, s)) \/ (\E k \in Clerk : HoldsAsClerk(k, s))
NoLeak == \A s \in Slot : slot[s] # Free => Held(s)

LEMMA NoLeakInductive ==
  ASSUME ParkTypeOK, StaysExist, NoLeak, lost' = 0, [ParkNext]_parkVars
  PROVE  NoLeak'
<1>t. slot \in [Slot -> Truck \cup {Free}] /\ lost \in 0 .. MaxLost
  BY TypeFacts DEF ParkTypeOK
<1>1. ASSUME NEW k \in Clerk, NEW t \in Truck, NEW s \in Slot, Claim(k, t, s)
      PROVE  NoLeak'
  <2>1. slot' = [slot EXCEPT ![s] = t]
    BY <1>1 DEF Claim
  <2>2. QED
    BY <1>1, <1>t, <2>1, ClaimHolds DEF NoLeak, Held, SameStays
<1>2. ASSUME NEW k \in Clerk, OpenStay(k)
      PROVE  NoLeak'
  <2> DEFINE z == clerk[k].slot
  <2>1. slot' = slot
    BY <1>2 DEF OpenStay
  <2>2. \A s \in Slot : HoldsAsClerk(k, s) => s = z
    BY <1>2 DEF OpenStay, HoldsAsClerk
  <2>3. /\ LosesClaim(k)
        /\ \A n, s : HoldsAsStay(n, s)' <=> HoldsAsStay(n, s) \/ (n = Len(stays) + 1 /\ s = z)
    BY <1>2, OpenHolds
  <2>4. QED
    BY <2>1, <2>2, <2>3 DEF NoLeak, Held, LosesClaim
<1>3. ASSUME NEW k \in Clerk, NEW t \in Truck, PickStay(k, t)
      PROVE  NoLeak'
  <2>1. slot' = slot
    BY <1>3 DEF PickStay
  <2>2. QED
    BY <1>3, <2>1, PickHolds DEF NoLeak, Held, LosesClaim, SameStays
<1>4. ASSUME NEW k \in Clerk, CloseStay(k)
      PROVE  NoLeak'
  <2> DEFINE n0 == clerk[k].stay
             z == stays[n0].slot
  <2>1. slot' = slot
    BY <1>4 DEF CloseStay
  <2>2. \A s \in Slot : HoldsAsStay(n0, s) => s = z
    BY DEF HoldsAsStay
  <2>3. /\ \A n, s : HoldsAsStay(n, s)' <=> n # n0 /\ HoldsAsStay(n, s)
        /\ \A j \in Clerk, s \in Slot :
             HoldsAsClerk(j, s)' <=> HoldsAsClerk(j, s) \/ (j = k /\ s = z)
    BY <1>4, CloseHolds
  <2>4. QED
    BY <2>1, <2>2, <2>3 DEF NoLeak, Held
<1>5. ASSUME NEW k \in Clerk, FreeSlot(k)
      PROVE  NoLeak'
  <2> DEFINE z == stays[clerk[k].stay].slot
  <2>1. \A s \in Slot : HoldsAsClerk(k, s) => s = z
    BY <1>5 DEF FreeSlot, HoldsAsClerk
  <2>2. z \in Slot /\ SameStays /\ LosesClaim(k) /\ slot' = [slot EXCEPT ![z] = Free]
    BY <1>5, FreeHolds
  <2>3. QED
    BY <1>t, <2>1, <2>2 DEF NoLeak, Held, LosesClaim, SameStays
<1>6. ASSUME NEW k \in Clerk, ParkingDies(k)
      PROVE  NoLeak'
  BY <1>6, <1>t, StayBoundsAssumption DEF ParkingDies
<1>7. ASSUME UNCHANGED parkVars
      PROVE  NoLeak'
  BY <1>7 DEF parkVars, NoLeak, Held, HoldsAsStay, HoldsAsClerk
<1>8. QED
  BY <1>1, <1>2, <1>3, <1>4, <1>5, <1>6, <1>7 DEF ParkNext

(* Without a lost request no slot stays occupied with nobody to give it back *)
(* (LeakedSlotNeedsALoss).                                                   *)
THEOREM LeakedSlotsNeedALoss == ParkSpec => []LeakedSlotNeedsALoss
<1>1. ParkInit => (lost = 0 => NoLeak)
  BY DEF ParkInit, NoLeak
<1>2. ParkTypeOK /\ StaysExist /\ (lost = 0 => NoLeak) /\ [ParkNext]_parkVars
        => (lost = 0 => NoLeak)'
  <2> SUFFICES ASSUME ParkTypeOK, StaysExist, lost = 0 => NoLeak, [ParkNext]_parkVars,
                      lost' = 0
               PROVE  NoLeak'
    OBVIOUS
  <2>1. lost' = lost \/ lost' = lost + 1
    BY DEF ParkNext, parkVars, Claim, OpenStay, PickStay, CloseStay, FreeSlot, ParkingDies
  <2>2. lost \in 0 .. MaxLost
    BY DEF ParkTypeOK
  <2>3. lost = 0
    BY <2>1, <2>2, StayBoundsAssumption
  <2>4. QED
    BY <2>3, NoLeakInductive
<1>3. (lost = 0 => NoLeak) => LeakedSlotNeedsALoss
  BY DEF NoLeak, Held, HoldsAsStay, HoldsAsClerk, LeakedSlotNeedsALoss, Parked, Opening, Freeing
<1>4. QED
  BY <1>1, <1>2, <1>3, ParkTypeCorrect, PTL DEF ParkSpec

(* A slot is shared only after a double release, and leaked only by a loss.  *)
THEOREM SlotsStayHeld == ParkSpec => []SlotsAreHeld
  BY SharedSlotsNeedADoubleRelease, LeakedSlotsNeedALoss, PTL DEF SlotsAreHeld

=============================================================================
