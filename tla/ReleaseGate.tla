---------------------------- MODULE ReleaseGate -----------------------------
(***************************************************************************)
(* What the terminal promises customs about a container, whatever happens  *)
(* in the yard: it leaves only after a verification, in a step at which    *)
(* customs is not holding it, and once out it stays out until its record   *)
(* is removed.  How a request is carried out does not appear here.         *)
(***************************************************************************)
CONSTANT Containers

VARIABLES
  phase,   (* "absent", "open", "verified" or "released" *)
  held     (* customs holds or examines the container *)

gateVars == <<phase, held>>

GateInit ==
  /\ phase \in [Containers -> {"absent", "open"}]
  /\ held \in [Containers -> BOOLEAN]

Move(c, from, to) ==
  /\ phase[c] = from
  /\ phase' = [phase EXCEPT ![c] = to]

Register(c) ==
  /\ Move(c, "absent", "open")
  /\ \E h \in BOOLEAN : held' = [held EXCEPT ![c] = h]

Remove(c) ==
  /\ phase' = [phase EXCEPT ![c] = "absent"]
  /\ held' = [held EXCEPT ![c] = FALSE]

(* Customs may change its mind at any time. *)
Dispose(c) ==
  /\ \E h \in BOOLEAN : held' = [held EXCEPT ![c] = h]
  /\ UNCHANGED phase

Verify(c) == Move(c, "open", "verified") /\ UNCHANGED held

(* The release may lift the hold in the same step, never leave it standing. *)
Leave(c) ==
  /\ Move(c, "verified", "released")
  /\ held' = [held EXCEPT ![c] = FALSE]

GateNext ==
  \E c \in Containers :
    Register(c) \/ Remove(c) \/ Dispose(c) \/ Verify(c) \/ Leave(c)

GateSpec == GateInit /\ [][GateNext]_gateVars

=============================================================================
