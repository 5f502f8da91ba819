----------------------------- MODULE MCAccounts -----------------------------
(* Instance of Accounts for TLC. *)
EXTENDS Accounts, TLC

CONSTANTS n1, n2, p1, p2

Symmetric == Permutations({n1, n2}) \cup Permutations({p1, p2})
               \cup Permutations(Requests)
==============================================================================
