--------------------------- MODULE MembershipRules ---------------------------
(***************************************************************************)
(* The house rules of one conversation: who may bring whom in, put whom    *)
(* out and change whose role, and what becomes of a member.                *)
(*                                                                         *)
(* Nothing happens to a member without a warrant, and whoever holds one    *)
(* had the role for it when he obtained it.  It may be used long after,    *)
(* when he has that role no more.  But no warrant, however late it is      *)
(* used, hits the owner: an owner is one from the foundation of the group  *)
(* until he leaves it himself, and nobody becomes one later.               *)
(*                                                                         *)
(* Admins bring in whom they like.  A member does so by an invitation made *)
(* while adding is open to all, and admins decide whether it is.           *)
(*                                                                         *)
(* Membership implements this specification under the refinement mapping   *)
(* given there.                                                            *)
(***************************************************************************)
CONSTANTS
    Users,        \* accounts
    Pair          \* the two users of the direct thread

VARIABLES
    kind,         \* the conversation: none yet, or its type
    strict,       \* whether only admins add members
    standing,     \* standing[u]: what user u is in the conversation
    warrants      \* the changes somebody may still make

rvars == <<kind, strict, standing, warrants>>

Standings == {"outside", "left", "member", "admin", "owner"}

(* A warrant names the act, who does it and to whom.  "admin" and "member" *)
(* give that role; "leave" is the way out that is open to the owner;       *)
(* "settings" is to decide who may add members.                            *)
Acts == {"invite", "join", "remove", "leave", "admin", "member", "settings"}

Inside == {"member", "admin", "owner"}

Admins == {"admin", "owner"}

RulesTypeOK ==
    /\ kind \in {"none", "direct", "group"}
    /\ strict \in BOOLEAN
    /\ standing \in [Users -> Standings]
    /\ warrants \subseteq Acts \X Users \X Users

RulesInit ==
    /\ kind = "none"
    /\ ~strict
    /\ standing = [u \in Users |-> "outside"]
    /\ warrants = {}

(* Who can now have a warrant for what. *)
Entitled(act, by, u) ==
    \/ act = "invite"              /\ kind = "group" /\ ~strict
    \/ act = "join"                /\ kind = "group"
                                   /\ \/ standing[by] \in Admins
                                      \/ /\ standing[by] \in Inside
                                         /\ <<"invite", by, u>> \in warrants
    \/ act \in {"remove", "settings"} /\ standing[by] \in Admins
    \/ act = "remove"              /\ standing[by] # "owner" /\ by = u
    \/ act = "leave"               /\ standing[by] \in Inside /\ by = u
    \/ act \in {"admin", "member"} /\ standing[by] = "owner"

(* Warrants are obtained, given up or lost. *)
Obtain ==
    /\ UNCHANGED <<kind, strict, standing>>
    /\ \A w \in warrants' \ warrants :
         w \in Acts \X Users \X Users /\ Entitled(w[1], w[2], w[3])

FoundGroup(owner, members) ==
    /\ kind = "none"
    /\ kind' = "group"
    /\ strict' = FALSE
    /\ standing' = [u \in Users |->
                      IF u = owner THEN "owner"
                      ELSE IF u \in members THEN "member" ELSE "outside"]
    /\ UNCHANGED warrants

(* A thread is founded by one of its two users, who are yet to be entered. *)
FoundThread(by) ==
    /\ kind = "none"
    /\ kind' = "direct"
    /\ warrants' \subseteq warrants \cup ({"join"} \X {by} \X Pair)
    /\ UNCHANGED <<strict, standing>>

Decide(by) ==
    /\ <<"settings", by, by>> \in warrants
    /\ strict' \in BOOLEAN
    /\ warrants' \subseteq warrants
    /\ UNCHANGED <<kind, standing>>

(* The change of standing that uses up a warrant. *)
Become(S, s) ==
    /\ standing' = [u \in Users |-> IF u \in S THEN s ELSE standing[u]]
    /\ warrants' \subseteq warrants
    /\ UNCHANGED <<kind, strict>>

(* Who comes in is a member, even if he had been more than that. *)
Join(by, S) ==
    /\ \A u \in S : <<"join", by, u>> \in warrants /\ standing[u] # "owner"
    /\ Become(S, "member")

PutOut(by, u) ==
    /\ <<"remove", by, u>> \in warrants
    /\ standing[u] \in {"member", "admin"}
    /\ Become({u}, "left")

WalkOut(u) ==
    /\ <<"leave", u, u>> \in warrants
    /\ standing[u] \in Inside
    /\ Become({u}, "left")

Appoint(by, u, role) ==
    /\ <<role, by, u>> \in warrants
    /\ standing[u] \in {"member", "admin"}
    /\ Become({u}, role)

RulesNext ==
    \/ Obtain
    \/ \E by \in Pair : FoundThread(by)
    \/ \E by \in Users : Decide(by)
    \/ \E u \in Users, members \in SUBSET Users : FoundGroup(u, members)
    \/ \E by \in Users, S \in SUBSET Users : Join(by, S)
    \/ \E u \in Users : WalkOut(u) \/ \E by \in Users : PutOut(by, u)
    \/ \E by, u \in Users, role \in {"admin", "member"} : Appoint(by, u, role)

RulesSpec == RulesInit /\ [][RulesNext]_rvars
==============================================================================
