-------------------------- MODULE ExclusiveClaims ---------------------------
(***************************************************************************)
(* What the partial unique indexes on open rows promise: an owner (a truck *)
(* job, an export booking) takes all the things it needs in one step, only *)
(* while nobody else has one of them, keeps exactly those, gives them all  *)
(* up in one step, and never takes anything again.  What is looked at, in  *)
(* how many steps and beside whom does not appear here.                    *)
(***************************************************************************)
CONSTANTS
  Owners,
  Things   (* what has room for one open owner *)

VARIABLES
  stage,   (* "new", "holding" or "done" *)
  claims   (* the things each owner holds *)

claimVars == <<stage, claims>>

ClaimInit ==
  /\ stage = [o \in Owners |-> "new"]
  /\ claims = [o \in Owners |-> {}]

Unclaimed(S) == \A p \in Owners : claims[p] \cap S = {}

(* An owner may need nothing that is exclusive. *)
Claim(o) ==
  /\ stage[o] = "new"
  /\ stage' = [stage EXCEPT ![o] = "holding"]
  /\ \E S \in SUBSET Things :
       Unclaimed(S) /\ claims' = [claims EXCEPT ![o] = S]

GiveUp(o) ==
  /\ stage[o] = "holding"
  /\ stage' = [stage EXCEPT ![o] = "done"]
  /\ claims' = [claims EXCEPT ![o] = {}]

ClaimNext == \E o \in Owners : Claim(o) \/ GiveUp(o)

ClaimSpec == ClaimInit /\ [][ClaimNext]_claimVars

=============================================================================
