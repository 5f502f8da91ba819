------------------------------ MODULE MessageLife ------------------------------
(***************************************************************************)
(* A message after it was sent, as if each request were carried out at     *)
(* once: on what is stored at that time, or not at all.  Between the       *)
(* arrival of a request and that time others may be carried out, and only  *)
(* twice does it show.  An edit that arrived before the message was        *)
(* deleted may still be carried out.  And a user two of whose reactions    *)
(* were pending together is a rival of himself: he may get a reaction      *)
(* without losing an earlier one.                                          *)
(*                                                                         *)
(* MessageDocument implements this specification under the refinement      *)
(* mapping given there.                                                    *)
(***************************************************************************)
EXTENDS Naturals

CONSTANTS
    Users, Sender, Emojis,
    Handles       \* names of requests that are pending

VARIABLES
    content, deleted, hiddenFor, reactions,
    pending,      \* requests that were made and may yet be carried out
    rivals        \* users two of whose reactions were pending together

body == <<content, deleted>>

lvars == <<body, hiddenFor, reactions, pending, rivals>>

LifeInit ==
    /\ content   = "sent"
    /\ deleted   = FALSE
    /\ hiddenFor = {}
    /\ reactions = {}
    /\ pending   = {}
    /\ rivals    = {}

(* The reaction u chose first of those he has; none if he has none.        *)
First(u) == {a \in reactions : /\ a.user = u
                               /\ \A b \in reactions : b.user = u => a.id <= b.id}

(* A reaction of u joins the others, and is the latest. *)
Adds(u, emoji) ==
    \E a \in reactions' :
      /\ reactions' \ reactions = {a}
      /\ a.user = u /\ a.emoji = emoji
      /\ \A b \in reactions : b.id < a.id

(* p is carried out. *)
Settle(p, act) ==
    /\ p \in pending
    /\ p.act = act
    /\ pending' = pending \ {p}
    /\ UNCHANGED rivals

------------------------------------------------------------------------------
Ask(p) ==
    /\ \A q \in pending : q.handle # p.handle
    /\ p.act \in {"edit", "delete"} => p.user = Sender
    /\ p.act = "edit" => ~deleted
    /\ p.act = "hide" => p.user \notin hiddenFor
    /\ pending' = pending \cup {p}
    /\ rivals' = IF p.act = "react"
                     /\ \E q \in pending : q.act = "react" /\ q.user = p.user
                 THEN rivals \cup {p.user} ELSE rivals
    /\ UNCHANGED <<body, hiddenFor, reactions>>

(* Requests are refused, come to nothing or are lost. *)
Forgo ==
    /\ pending' \subseteq pending
    /\ UNCHANGED <<body, hiddenFor, reactions, rivals>>

Edit(p) ==
    /\ Settle(p, "edit")
    /\ content' = "edited"
    /\ UNCHANGED <<deleted, hiddenFor, reactions>>

Delete(p) ==
    /\ Settle(p, "delete")
    /\ content' = "empty"
    /\ deleted' = TRUE
    /\ UNCHANGED <<hiddenFor, reactions>>

Hide(p) ==
    /\ Settle(p, "hide")
    /\ hiddenFor' = hiddenFor \cup {p.user}
    /\ UNCHANGED <<body, reactions>>

(* The earlier reaction goes, and the new one comes unless it is the same. *)
React(p) ==
    /\ Settle(p, "react")
    /\ reactions \ reactions' = First(p.user)
    /\ IF \E a \in First(p.user) : a.emoji = p.emoji
       THEN reactions' \subseteq reactions
       ELSE Adds(p.user, p.emoji)
    /\ UNCHANGED <<body, hiddenFor>>

ReactAgain(p) ==
    /\ Settle(p, "react")
    /\ p.user \in rivals
    /\ reactions \subseteq reactions'
    /\ Adds(p.user, p.emoji)
    /\ UNCHANGED <<body, hiddenFor>>

AllRequests == [handle : Handles, act : {"edit", "delete", "hide"}, user : Users]
              \cup [handle : Handles, act : {"react"}, user : Users, emoji : Emojis]

LifeNext ==
    \/ \E p \in AllRequests : Ask(p)
    \/ Forgo
    \/ \E p \in pending : Edit(p) \/ Delete(p) \/ Hide(p) \/ React(p) \/ ReactAgain(p)

LifeSpec == LifeInit /\ [][LifeNext]_lvars
==============================================================================
