---------------------------- MODULE MessageDelivery ----------------------------
(***************************************************************************)
(* What the message service promises to the members of a conversation,     *)
(* whatever the interleaving of senders, readers and members who come and  *)
(* go, and whatever fails: the recipients of a message are fixed once, a   *)
(* recipient's copy only moves forward, marking as read takes every        *)
(* earlier copy along, and a message is shown -- pushed to sockets, or     *)
(* made the preview of the conversation -- only when every recipient has a *)
(* copy whose status can be reported back.                                 *)
(*                                                                         *)
(* Messaging implements this specification.                                *)
(***************************************************************************)
EXTENDS Naturals

CONSTANTS Users, Msgs       \* Msgs: numbers, in order of creation

VARIABLES
    stored,      \* messages in the database
    audience,    \* audience[m]: the recipients of m
    copy,        \* copy[m][u]: how far m got with recipient u
    pushed,      \* messages pushed to the sockets of the conversation
    preview      \* the message the conversation list shows, 0: none

dvars == <<stored, audience, copy, pushed, preview>>

Copies == {"none", "sent", "delivered", "read"}

DeliveryInit ==
    /\ stored   = {}
    /\ audience = [m \in Msgs |-> {}]
    /\ copy     = [m \in Msgs |-> [u \in Users |-> "none"]]
    /\ pushed   = {}
    /\ preview  = 0

(* Every recipient of m has a copy. *)
Fanned(m) == m \in stored /\ \A u \in audience[m] : copy[m][u] # "none"

StoreMessage(m, A) ==
    /\ m \notin stored
    /\ stored'   = stored \cup {m}
    /\ audience' = [audience EXCEPT ![m] = A]
    /\ UNCHANGED <<copy, pushed, preview>>

(* A recipient gets a copy while the message is not shown. *)
HandOut(m, u) ==
    /\ u \in audience[m]
    /\ copy[m][u] = "none"
    /\ copy' = [copy EXCEPT ![m][u] = "sent"]
    /\ UNCHANGED <<stored, audience, pushed, preview>>

Acknowledge(m, u) ==
    /\ copy[m][u] = "sent"
    /\ copy' = [copy EXCEPT ![m][u] = "delivered"]
    /\ UNCHANGED <<stored, audience, pushed, preview>>

ReadUpTo(x, u) ==
    /\ x \in stored
    /\ copy' = [m \in Msgs |->
                  IF m <= x /\ copy[m][u] # "none"
                  THEN [copy[m] EXCEPT ![u] = "read"] ELSE copy[m]]
    /\ UNCHANGED <<stored, audience, pushed, preview>>

Push(m) ==
    /\ Fanned(m)
    /\ pushed' = pushed \cup {m}
    /\ UNCHANGED <<stored, audience, copy, preview>>

Preview(m) ==
    /\ Fanned(m)
    /\ preview' = m
    /\ UNCHANGED <<stored, audience, copy, pushed>>

DeliveryNext ==
    \/ \E m \in Msgs :
         \/ \E A \in SUBSET Users : StoreMessage(m, A)
         \/ Push(m) \/ Preview(m)
    \/ \E m \in Msgs, u \in Users :
         HandOut(m, u) \/ Acknowledge(m, u) \/ ReadUpTo(m, u)

DeliverySpec == DeliveryInit /\ [][DeliveryNext]_dvars
==============================================================================
