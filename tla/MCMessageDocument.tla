-------------------------- MODULE MCMessageDocument --------------------------
(* Instance of MessageDocument for TLC. *)
EXTENDS MessageDocument, TLC

CONSTANTS e1, e2

Symmetric == Permutations(Requests) \cup Permutations({e1, e2})
==============================================================================
