--------------------------- MODULE MCCallSignaling ---------------------------
(* Instances of CallSignaling for TLC. *)
EXTENDS CallSignaling, TLC

CONSTANTS u1, u2, u3

NoBlocks == {}

(* Users, call ids and request slots are interchangeable. *)
Symmetry == Permutations(Users) \cup Permutations(CallIds)
              \cup Permutations(Requests)

Calls(r, u, v) == task[r].h = "initiate" => task[r].user = u /\ task[r].peer = v

(* State constraint: nobody calls their own account.  No document ever    *)
(* names one user as both parties.                                         *)
NoSelfCalls ==
    \A r \in Requests : task[r].h = "initiate" => task[r].user # task[r].peer

(* State constraint for one call id.  Users are alike, so of the only call *)
(* u1 is the caller and u2 the callee, and u3 is no party to it.           *)
OneCall == \A r \in Requests : Calls(r, u1, u2)

(* Keeps the counterexamples to the usual exchange: nobody calls their own *)
(* account, and nobody ends a call before the gateway announced its id.    *)
UsualExchange ==
    /\ NoSelfCalls
    /\ \A s, t \in Procs :
         task[s].h = "end" /\ task[t].h = "initiate" => task[s].call # task[t].call
==============================================================================
