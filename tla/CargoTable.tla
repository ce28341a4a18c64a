----------------------------- MODULE CargoTable -----------------------------
(***************************************************************************)
(* The table core.cargo with its append-only audit log                     *)
(* core.cargo_lifecycle_event, and the transactions the cargo repository   *)
(* runs on them.  Each operator below is ONE database transaction: the row *)
(* lock (SELECT ... FOR UPDATE), the checks made under it, the UPDATE and  *)
(* the audit INSERT commit together or not at all.  The operators are used *)
(* by the modules whose requests run several such transactions in a row.   *)
(***************************************************************************)
EXTENDS CargoLifecycle

CONSTANTS
  Containers,   (* container numbers *)
  LegacyRows    (* rows copied from the legacy schema that Init may hold *)

VARIABLES
  cargo,        (* core.cargo, one row per container (AbsentRow = no row) *)
  audit         (* the newest core.cargo_lifecycle_event row per container *)

cargoVars == <<cargo, audit>>

(* yard is TRUE when yard_block is not NULL. *)
Row == [present   : BOOLEAN,
        lifecycle : Lifecycles,
        customs   : CustomsStates,
        released  : BOOLEAN,
        yard      : BOOLEAN]

AbsentRow == [present |-> FALSE, lifecycle |-> "NULL", customs |-> "PENDING",
              released |-> FALSE, yard |-> FALSE]

AuditRow == [old : Lifecycles \cup {"NONE"}, new : Lifecycles \cup {"NONE"}]

NoAudit == [old |-> "NONE", new |-> "NONE"]

ASSUME LegacyRowsAssumption ==
  /\ LegacyRows \subseteq Row
  /\ \A row \in LegacyRows : row.present /\ row.lifecycle = "NULL"

CargoTypeOK ==
  /\ cargo \in [Containers -> Row]
  /\ audit \in [Containers -> AuditRow]

CargoTableInit ==
  /\ cargo \in [Containers -> LegacyRows \cup {AbsentRow}]
  /\ audit = [c \in Containers |-> NoAudit]

(* The state a row stands for: its column, or what the legacy columns imply *)
(* when the column is NULL.                                                  *)
Effective(row) ==
  IF row.lifecycle # "NULL" THEN row.lifecycle
  ELSE IF row.released THEN "RELEASED"
  ELSE IF row.yard THEN "YARD_ASSIGNED"
  ELSE "CREATED"

(* The columns a client may patch; "keep" leaves a column as it is. *)
Patch == [released : {"keep", "true", "false"},
          customs  : CustomsStates \cup {"keep"},
          yard     : {"keep", "set", "clear"}]

NoPatch == [released |-> "keep", customs |-> "keep", yard |-> "keep"]

Patched(row, patch) ==
  [row EXCEPT
     !.released = IF patch.released = "keep" THEN @ ELSE patch.released = "true",
     !.customs  = IF patch.customs = "keep" THEN @ ELSE patch.customs,
     !.yard     = IF patch.yard = "keep" THEN @ ELSE patch.yard = "set"]

-----------------------------------------------------------------------------
(* INSERT with its opening audit row; refused by the primary key when the    *)
(* container is already there.                                               *)
CreateTxn(c, customs, yard) ==
  /\ ~ cargo[c].present
  /\ cargo' = [cargo EXCEPT ![c] =
                 [present |-> TRUE, lifecycle |-> "CREATED",
                  customs |-> customs, released |-> FALSE, yard |-> yard]]
  /\ audit' = [audit EXCEPT ![c] = [old |-> "NONE", new |-> "CREATED"]]

(* A plain UPDATE of the patched columns: no lifecycle check, no audit row. *)
UpdateTxn(c, patch) ==
  /\ cargo[c].present
  /\ cargo' = [cargo EXCEPT ![c] = Patched(@, patch)]
  /\ UNCHANGED audit

(* DELETE leaves the audit log behind. *)
DeleteTxn(c) ==
  /\ cargo[c].present
  /\ cargo' = [cargo EXCEPT ![c] = AbsentRow]
  /\ UNCHANGED audit

(* Faulty variant: the lock is taken, the customs status is not looked at. *)
MayAdvanceUngated(c, from, patch, blocked) ==
  /\ cargo[c].present
  /\ Effective(cargo[c]) \in from

(* The checks made under the row lock before a lifecycle move.  The customs  *)
(* gate looks at the row as the same statement would leave it.               *)
MayAdvance(c, from, patch, blocked) ==
  /\ cargo[c].present
  /\ Effective(cargo[c]) \in from
  /\ Patched(cargo[c], patch).customs \notin blocked

(* Faulty variant: the old state is read back after the UPDATE. *)
AdvanceTxnReadBack(c, target, from, patch, blocked) ==
  /\ MayAdvance(c, from, patch, blocked)
  /\ cargo' = [cargo EXCEPT ![c] = [Patched(@, patch) EXCEPT !.lifecycle = target]]
  /\ audit' = [audit EXCEPT ![c] = [old |-> target, new |-> target]]

AdvanceTxn(c, target, from, patch, blocked) ==
  /\ MayAdvance(c, from, patch, blocked)
  /\ cargo' = [cargo EXCEPT ![c] = [Patched(@, patch) EXCEPT !.lifecycle = target]]
  /\ audit' = [audit EXCEPT ![c] = [old |-> Effective(cargo[c]), new |-> target]]

-----------------------------------------------------------------------------
(* The audit log can never diverge from the row it explains: the newest      *)
(* audit row of a container that has one names the row's state               *)
(* (CargoRepository.create and transition_lifecycle, one transaction each).  *)
AuditMatchesRow ==
  \A c \in Containers :
    cargo[c].present /\ cargo[c].lifecycle # "NULL"
      => audit[c].new = cargo[c].lifecycle

=============================================================================
