----------------------------- MODULE MCMessaging -----------------------------
(* Instance of Messaging for TLC. *)
EXTENDS Messaging, TLC

CONSTANTS u1, u2, u3

(* u3 has blocked u2. *)
OneBlock == {<<u3, u2>>}

NoBlocks == {}

SymmetricRequests == Permutations(Requests)
SymmetricAll      == Permutations(Requests) \cup Permutations(Users)
==============================================================================
