---------------------------- MODULE MCMembership ----------------------------
(* Instance of Membership for TLC. *)
EXTENDS Membership, TLC

CONSTANTS u1, u2, u3

TwoUsers == {u1, u2}

SymmetricRequests == Permutations(Requests)

(* u1 and u2 are the pair of the thread. *)
Symmetric == SymmetricRequests \cup Permutations(TwoUsers)
==============================================================================
