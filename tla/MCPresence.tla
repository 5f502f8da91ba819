----------------------------- MODULE MCPresence -----------------------------
(* Instance of Presence for TLC. *)
EXTENDS Presence, TLC

CONSTANTS u1

(* All connections are devices of one user. *)
OneUser == [s \in Sockets |-> u1]
==============================================================================
