----------------------------- MODULE Membership -----------------------------
(***************************************************************************)
(* Who is in a conversation: the participant rows of one conversation, of  *)
(* its group document, and the requests that change them.                  *)
(*                                                                         *)
(* The conversation is either a group (GroupsService: add, remove, roles,  *)
(* settings) or the direct thread of a pair of users                       *)
(* (ConversationsService.getOrCreateDirect).  Both share the rows and the  *)
(* generic leave route.  Only the creation of a group is a transaction;    *)
(* every other request is a chain of round trips, and decides on what it   *)
(* read several round trips ago.                                           *)
(***************************************************************************)
EXTENDS Naturals, FiniteSets

CONSTANTS
    Users,        \* accounts
    Pair,         \* the two users of the direct thread
    Requests,     \* slots for HTTP requests whose handler is in flight
    MaxOps,       \* bound: requests ever made
    MaxFaults,    \* bound: crashes and failed round trips
    Nil           \* "no user"

ASSUME ConstantsAssumption ==
    /\ IsFiniteSet(Users)
    /\ Pair \subseteq Users
    /\ MaxOps \in Nat
    /\ MaxFaults \in Nat
    /\ Nil \notin Users

VARIABLES
    kind,         \* the conversation document: none yet, or its type
    group,        \* the group document
    row,          \* row[u]: u's participant document
    task,         \* handlers in flight
    tidy,         \* history: nothing happened yet that memberCount may miss
    ops,          \* number of requests so far (for the bound only)
    faults        \* number of faults so far (for the bound only)

vars == <<kind, group, row, task, tidy, ops, faults>>

------------------------------------------------------------------------------
(* Types.                                                                  *)

Roles == {"owner", "admin", "member"}

ADMIN_ROLES == {"owner", "admin"}

Rows == [state : {"absent", "active", "left"}, role : Roles]

NoRow == [state |-> "absent", role |-> "member"]

RowOf(role) == [state |-> "active", role |-> role]

(* strict: settings.whoCanAddMembers is 'admins'. *)
Groups == [memberCount : Nat, ownerId : Users \cup {Nil}, strict : BOOLEAN]

NoGroup == [memberCount |-> 0, ownerId |-> Nil, strict |-> FALSE]

Awaits == {"idle", "assertAdder", "listMembers", "upsert", "checkSelf",
           "assertRemover", "checkTarget", "leave", "saveCount",
           "assertOwner", "checkRole", "setRole", "assertAdmin",
           "saveSettings", "create", "insertOpener", "insertOther",
           "assertOpener"}

(* seen and strict are what the handler read of the group document; ids    *)
(* the users it still has to add, added how many they were.                *)
Tasks == [op     : {"none", "add", "remove", "role", "settings", "leave", "open"},
          pc     : Awaits,
          user   : Users \cup {Nil},
          target : Users \cup {Nil},
          ids    : SUBSET Users,
          added  : Nat,
          seen   : Nat,
          strict : BOOLEAN,
          role   : Roles]

NoTask == [op |-> "none", pc |-> "idle", user |-> Nil, target |-> Nil,
           ids |-> {}, added |-> 0, seen |-> 0, strict |-> FALSE,
           role |-> "member"]

TypeOK ==
    /\ kind \in {"none", "direct", "group"}
    /\ group \in Groups
    /\ row \in [Users -> Rows]
    /\ task \in [Requests -> Tasks]
    /\ tidy \in BOOLEAN
    /\ ops \in 0..MaxOps
    /\ faults \in 0..MaxFaults

------------------------------------------------------------------------------
(* Vocabulary.                                                             *)

Active == {u \in Users : row[u].state = "active"}

Idle(r) == task[r].pc = "idle"

At(r, pc) == task[r].pc = pc

GoTo(r, pc) == task' = [task EXCEPT ![r].pc = pc]

Finish(r) == task' = [task EXCEPT ![r] = NoTask]

(* assertActiveParticipant and the role it returns. *)
HasRole(u, roles) == u \in Active /\ row[u].role \in roles

(* Pass or refuse: a failed check ends the handler. *)
Check(r, passes, pc) == IF passes THEN GoTo(r, pc) ELSE Finish(r)

(* A request arrives; every handler on a group reads its document first.   *)
Begin(r, t) ==
    /\ Idle(r)
    /\ ops < MaxOps
    /\ ops' = ops + 1
    /\ task' = [task EXCEPT ![r] = t]
    /\ UNCHANGED <<kind, group, row, faults>>

Counting(r) == task[r].op \in {"add", "remove"}

------------------------------------------------------------------------------
Init ==
    /\ kind   = "none"
    /\ group  = NoGroup
    /\ row    = [u \in Users |-> NoRow]
    /\ task   = [r \in Requests |-> NoTask]
    /\ tidy   = TRUE
    /\ ops    = 0
    /\ faults = 0

------------------------------------------------------------------------------
(* Groups.                                                                 *)

(* One transaction: conversation, group and rows, or nothing.  (The slot   *)
(* is then not used for the thread.)                                       *)
CreateGroup(owner, memberIds) ==
    /\ kind = "none"
    /\ \A r \in Requests : Idle(r)
    /\ kind' = "group"
    /\ group' = [memberCount |-> Cardinality(memberIds \ {owner}) + 1,
                 ownerId |-> owner, strict |-> FALSE]
    /\ row' = [u \in Users |->
                 IF u = owner THEN RowOf("owner")
                 ELSE IF u \in memberIds THEN RowOf("member") ELSE NoRow]
    /\ UNCHANGED <<task, tidy, ops, faults>>

AddMembers(r, u, ids) ==
    /\ kind = "group"
    /\ Begin(r, [NoTask EXCEPT !.op = "add", !.pc = "assertAdder", !.user = u,
                               !.ids = ids, !.seen = group.memberCount,
                               !.strict = group.strict])
    /\ tidy' = (tidy /\ \A s \in Requests : ~Counting(s))

(* Mutant: every member may add, whatever the settings say. *)
AssertAdderOpen(r) ==
    /\ At(r, "assertAdder")
    /\ Check(r, HasRole(task[r].user, Roles), "listMembers")
    /\ UNCHANGED <<kind, group, row, tidy, ops, faults>>

AssertAdder(r) ==
    /\ At(r, "assertAdder")
    /\ Check(r, HasRole(task[r].user,
                        IF task[r].strict THEN ADMIN_ROLES ELSE Roles),
             "listMembers")
    /\ UNCHANGED <<kind, group, row, tidy, ops, faults>>

(* Mutant: everybody named in the request is counted. *)
ListMembersUnfiltered(r) ==
    /\ At(r, "listMembers")
    /\ LET newIds == task[r].ids \ Active IN
         IF newIds = {} THEN Finish(r)
         ELSE task' = [task EXCEPT ![r].pc = "upsert", ![r].ids = newIds,
                                   ![r].added = Cardinality(task[r].ids)]
    /\ UNCHANGED <<kind, group, row, tidy, ops, faults>>

ListMembers(r) ==
    /\ At(r, "listMembers")
    /\ LET newIds == task[r].ids \ Active IN
         IF newIds = {} THEN Finish(r)
         ELSE task' = [task EXCEPT ![r].pc = "upsert", ![r].ids = newIds,
                                   ![r].added = Cardinality(newIds)]
    /\ UNCHANGED <<kind, group, row, tidy, ops, faults>>

(* Mutant: a row that was left is revived as it was. *)
UpsertRevives(r) ==
    /\ At(r, "upsert")
    /\ \E u \in task[r].ids :
         /\ row' = [row EXCEPT ![u].state = "active"]
         /\ task' = [task EXCEPT ![r].ids = @ \ {u},
                                 ![r].pc = IF task[r].ids = {u} THEN "saveCount"
                                           ELSE "upsert"]
    /\ UNCHANGED <<kind, group, tidy, ops, faults>>

(* bulkWrite upserts row after row: a row that was left is revived, and    *)
(* whoever had it returns as a member.                                     *)
Upsert(r) ==
    /\ At(r, "upsert")
    /\ \E u \in task[r].ids :
         /\ row' = [row EXCEPT ![u] = RowOf("member")]
         /\ task' = [task EXCEPT ![r].ids = @ \ {u},
                                 ![r].pc = IF task[r].ids = {u} THEN "saveCount"
                                           ELSE "upsert"]
    /\ UNCHANGED <<kind, group, tidy, ops, faults>>

(* Mutant: the count may become negative. *)
NewCountUnchecked(t) == IF t.op = "add" THEN t.seen + t.added ELSE t.seen - 1

(* What the handler makes of the memberCount it read. *)
NewCount(t) == IF t.op = "add" THEN t.seen + t.added
               ELSE IF t.seen = 0 THEN 0 ELSE t.seen - 1

(* save writes a count only if it differs from the one that was read. *)
SaveCount(r) ==
    /\ At(r, "saveCount")
    /\ group' = IF NewCount(task[r]) = task[r].seen THEN group
                ELSE [group EXCEPT !.memberCount = NewCount(task[r])]
    /\ Finish(r)
    /\ UNCHANGED <<kind, row, tidy, ops, faults>>

RemoveMember(r, u, v) ==
    /\ kind = "group"
    /\ Begin(r, [NoTask EXCEPT !.op = "remove", !.user = u, !.target = v,
                               !.pc = IF u = v THEN "checkSelf" ELSE "assertRemover",
                               !.seen = group.memberCount])
    /\ tidy' = (tidy /\ \A s \in Requests : ~Counting(s))

(* The owner may not leave; somebody who is not in the group may. *)
CheckSelf(r) ==
    /\ At(r, "checkSelf")
    /\ Check(r, ~HasRole(task[r].user, {"owner"}), "leave")
    /\ UNCHANGED <<kind, group, row, tidy, ops, faults>>

AssertRemover(r) ==
    /\ At(r, "assertRemover")
    /\ Check(r, HasRole(task[r].user, ADMIN_ROLES), "checkTarget")
    /\ UNCHANGED <<kind, group, row, tidy, ops, faults>>

CheckTarget(r) ==
    /\ At(r, "checkTarget")
    /\ Check(r, ~HasRole(task[r].target, {"owner"}), "leave")
    /\ UNCHANGED <<kind, group, row, tidy, ops, faults>>

(* The unconditional update of leave, for removeMember, which then saves   *)
(* the count, and for the leave route, which does not.                     *)
Leave(r) ==
    /\ At(r, "leave")
    /\ LET v == task[r].target IN
         /\ row' = IF row[v].state = "absent" THEN row
                   ELSE [row EXCEPT ![v].state = "left"]
         /\ tidy' = (tidy /\ Counting(r) /\ v \in Active)
    /\ IF Counting(r) THEN GoTo(r, "saveCount") ELSE Finish(r)
    /\ UNCHANGED <<kind, group, ops, faults>>

UpdateRole(r, u, v, role) ==
    /\ kind = "group"
    /\ Begin(r, [NoTask EXCEPT !.op = "role", !.pc = "assertOwner", !.user = u,
                               !.target = v, !.role = role])
    /\ UNCHANGED tidy

AssertOwner(r) ==
    /\ At(r, "assertOwner")
    /\ Check(r, HasRole(task[r].user, {"owner"}), "checkRole")
    /\ UNCHANGED <<kind, group, row, tidy, ops, faults>>

(* Mutant: the target's role is not looked at. *)
CheckRoleSkipped(r) ==
    /\ At(r, "checkRole")
    /\ GoTo(r, "setRole")
    /\ UNCHANGED <<kind, group, row, tidy, ops, faults>>

CheckRole(r) ==
    /\ At(r, "checkRole")
    /\ Check(r, ~HasRole(task[r].target, {"owner"}), "setRole")
    /\ UNCHANGED <<kind, group, row, tidy, ops, faults>>

(* The update asks again for an active row. *)
SetRole(r) ==
    /\ At(r, "setRole")
    /\ row' = IF task[r].target \in Active
              THEN [row EXCEPT ![task[r].target].role = task[r].role] ELSE row
    /\ Finish(r)
    /\ UNCHANGED <<kind, group, tidy, ops, faults>>

(* A patch of whoCanAddMembers; one that changes nothing saves nothing. *)
UpdateSettings(r, u) ==
    /\ kind = "group"
    /\ Begin(r, [NoTask EXCEPT !.op = "settings", !.pc = "assertAdmin",
                               !.user = u, !.strict = group.strict])
    /\ UNCHANGED tidy

AssertAdmin(r) ==
    /\ At(r, "assertAdmin")
    /\ Check(r, HasRole(task[r].user, ADMIN_ROLES), "saveSettings")
    /\ UNCHANGED <<kind, group, row, tidy, ops, faults>>

(* save writes only the paths that changed, and leaves the count alone. *)
SaveSettings(r) ==
    /\ At(r, "saveSettings")
    /\ group' = [group EXCEPT !.strict = ~task[r].strict]
    /\ Finish(r)
    /\ UNCHANGED <<kind, row, tidy, ops, faults>>

------------------------------------------------------------------------------
(* POST /conversations/:id/leave, for threads and groups alike.  The check *)
(* of the membership is the first round trip.                              *)
LeaveRoute(r, u) ==
    /\ u \in Active
    /\ Begin(r, [NoTask EXCEPT !.op = "leave", !.pc = "leave", !.user = u,
                               !.target = u])
    /\ UNCHANGED tidy

------------------------------------------------------------------------------
(* Direct threads.                                                         *)

(* findOne by the pair's hash is the first round trip. *)
OpenDirect(r, u) ==
    /\ kind # "group"
    /\ u \in Pair
    /\ Begin(r, [NoTask EXCEPT !.op = "open", !.user = u,
                               !.pc = IF kind = "direct" THEN "assertOpener"
                                      ELSE "create"])
    /\ UNCHANGED tidy

(* The unique index decides a race.  The loser finds the winner's thread,  *)
(* which is never deleted, and goes on with it.                            *)
CreateDirect(r) ==
    /\ At(r, "create")
    /\ IF kind = "none" THEN kind' = "direct" /\ GoTo(r, "insertOpener")
                        ELSE UNCHANGED kind /\ GoTo(r, "assertOpener")
    /\ UNCHANGED <<group, row, tidy, ops, faults>>

(* Mutant: the other's row is left to the other's first visit. *)
InsertOpenerOnly(r) ==
    /\ At(r, "insertOpener")
    /\ row' = [row EXCEPT ![task[r].user] = RowOf("member")]
    /\ GoTo(r, "assertOpener")
    /\ UNCHANGED <<kind, group, tidy, ops, faults>>

(* insertMany writes the rows in the order they are given in. *)
InsertOpener(r) ==
    /\ At(r, "insertOpener")
    /\ row' = [row EXCEPT ![task[r].user] = RowOf("member")]
    /\ GoTo(r, "insertOther")
    /\ UNCHANGED <<kind, group, tidy, ops, faults>>

InsertOther(r) ==
    /\ At(r, "insertOther")
    /\ row' = [u \in Users |-> IF u \in Pair \ {task[r].user}
                               THEN RowOf("member") ELSE row[u]]
    /\ GoTo(r, "assertOpener")
    /\ UNCHANGED <<kind, group, tidy, ops, faults>>

(* Admitted or refused, the request is over. *)
AssertOpener(r) ==
    /\ At(r, "assertOpener")
    /\ Finish(r)
    /\ UNCHANGED <<kind, group, row, tidy, ops, faults>>

------------------------------------------------------------------------------
(* The process dies with its handlers. *)
Crash ==
    /\ faults < MaxFaults
    /\ faults' = faults + 1
    /\ task' = [r \in Requests |-> NoTask]
    /\ tidy' = FALSE
    /\ UNCHANGED <<kind, group, row, ops>>

(* A round trip of handler r fails, and the handler with it. *)
Abort(r) ==
    /\ faults < MaxFaults
    /\ faults' = faults + 1
    /\ ~Idle(r)
    /\ Finish(r)
    /\ tidy' = FALSE
    /\ UNCHANGED <<kind, group, row, ops>>

------------------------------------------------------------------------------
(* The next round trip of handler r completes. *)
Step(r) ==
    \/ AssertAdder(r) \/ ListMembers(r) \/ Upsert(r) \/ SaveCount(r)
    \/ CheckSelf(r) \/ AssertRemover(r) \/ CheckTarget(r) \/ Leave(r)
    \/ AssertOwner(r) \/ CheckRole(r) \/ SetRole(r)
    \/ AssertAdmin(r) \/ SaveSettings(r)
    \/ CreateDirect(r) \/ InsertOpener(r) \/ InsertOther(r) \/ AssertOpener(r)

Request(r, u) ==
    \/ \E ids \in SUBSET Users \ {{}} : AddMembers(r, u, ids)
    \/ \E v \in Users : RemoveMember(r, u, v)
    \/ \E v \in Users, role \in {"admin", "member"} : UpdateRole(r, u, v, role)
    \/ UpdateSettings(r, u) \/ LeaveRoute(r, u) \/ OpenDirect(r, u)

Next ==
    \/ \E u \in Users, ids \in SUBSET Users : CreateGroup(u, ids)
    \/ \E r \in Requests, u \in Users : Request(r, u)
    \/ \E r \in Requests : Step(r) \/ Abort(r)
    \/ Crash

Spec == Init /\ [][Next]_vars

------------------------------------------------------------------------------
(* Properties.                                                             *)

(* The group is in the hands of the owner its document names. *)
Owned == kind = "group" /\ HasRole(group.ownerId, {"owner"})

(* The request in flight with which the owner leaves by the generic route. *)
OwnerWalksOut(r) ==
    /\ At(r, "leave")
    /\ task[r].op = "leave"
    /\ task[r].target = group.ownerId
    /\ Idle(r)'

(* groups.service.ts:139-143, 156-158, 188-190: nobody removes or demotes  *)
(* the owner, although each of these checks is made round trips before the *)
(* update it allows, and rows come and go in between.  Only the owner ends *)
(* an ownership, and only by the generic leave route.                      *)
OwnerStepsDown ==
    [][Owned => Owned' \/ \E r \in Requests : OwnerWalksOut(r)]_vars

(* memberCount is the number of active rows (groups.service.ts:45, 121,    *)
(* 162) between two changes of the membership, unless two of them          *)
(* overlapped, somebody left by the generic route, somebody was removed    *)
(* who was not in the group, or a handler failed.  Changes of roles and    *)
(* settings, which save the same document, never disturb it.               *)
CountIsExact ==
    /\ tidy
    /\ kind = "group"
    /\ \A r \in Requests : ~Counting(r)
    => group.memberCount = Cardinality(Active)

(* r has created the thread and has yet to insert u's row.                 *)
Inserts(r, u) ==
    \/ At(r, "insertOpener")
    \/ At(r, "insertOther") /\ u # task[r].user

(* conversations.service.ts:53-73: two users may open their thread at      *)
(* once, and still each row is inserted once -- the index on the pair of   *)
(* conversation and user would stop insertMany half-way -- and, as long as *)
(* nothing fails, each of the pair has a row or somebody is inserting it.  *)
(* The property is about the rows: whoever has left the thread by the      *)
(* generic route has one, which nothing revives, and is refused from then  *)
(* on (conversations.controller.ts:57-64, 82-88).                          *)
NoHalfThread ==
    \A u \in Pair :
      /\ \A r, s \in Requests :
           Inserts(r, u) => row[u].state = "absent" /\ (Inserts(s, u) => r = s)
      /\ faults = 0 /\ kind = "direct" /\ row[u].state = "absent"
           => \E r \in Requests : Inserts(r, u)

------------------------------------------------------------------------------
(* The rules behind it all.                                                *)

StandingOf(r) ==
    CASE r.state = "absent" -> "outside"
      [] r.state = "left"   -> "left"
      [] OTHER              -> r.role

(* What the checks that handler t has passed allow it to do to whom.  That *)
(* adding was open to all is checked on the document read on arrival.      *)
Warrants(t) ==
    CASE t.pc = "assertAdder"  -> IF t.strict THEN {}
                                  ELSE {"invite"} \X {t.user} \X t.ids
      [] t.pc \in {"listMembers", "upsert"} -> {"join"} \X {t.user} \X t.ids
      [] t.pc = "insertOpener" -> {"join"} \X {t.user} \X Pair
      [] t.pc = "insertOther"  -> {"join"} \X {t.user} \X (Pair \ {t.user})
      [] t.pc = "checkTarget"  -> {<<"remove", t.user, t.target>>}
      [] t.pc = "leave"        -> {<<t.op, t.user, t.target>>}
      [] t.pc \in {"checkRole", "setRole"} -> {<<t.role, t.user, t.target>>}
      [] t.pc = "saveSettings" -> {<<"settings", t.user, t.user>>}
      [] OTHER                 -> {}

Standing == [u \in Users |-> StandingOf(row[u])]

Outstanding == UNION {Warrants(task[r]) : r \in Requests}

Rules == INSTANCE MembershipRules WITH
           strict <- group.strict, standing <- Standing,
           warrants <- Outstanding

(* Whatever the interleaving of the round trips and whichever of them      *)
(* fails, the participant rows follow MembershipRules: every change of a   *)
(* row rests on a check that was passed by somebody who had the role       *)
(* (groups.service.ts:97-101, 133-158, 177-190), nobody ever becomes owner *)
(* after the creation of the group, and no change but his own departure by *)
(* the leave route (conversations.service.ts) happens to the owner.  Who   *)
(* is no admin adds members only while the group lets everybody, or did    *)
(* when his request arrived (groups.service.ts:94-105), and only admins    *)
(* change that (200-210).                                                  *)
RulesSpec == Rules!RulesSpec

------------------------------------------------------------------------------
(* groups.service.ts:141: "the owner must transfer ownership before        *)
(* leaving the group".  A group has an owner in it.                        *)
OwnerStays == kind = "group" => HasRole(group.ownerId, {"owner"})

------------------------------------------------------------------------------
(* The inductive invariant behind the properties (MembershipProofs).       *)

(* Which awaits belong to which request, and which requests to which kind  *)
(* of conversation.                                                        *)
AwaitOK(t) ==
    \/ t.op = "none" /\ t.pc = "idle"
    \/ t.op = "add" /\ t.pc \in {"assertAdder", "listMembers", "upsert", "saveCount"}
    \/ t.op = "remove" /\ t.pc \in {"checkSelf", "assertRemover", "checkTarget",
                                   "leave", "saveCount"}
    \/ t.op = "role" /\ t.pc \in {"assertOwner", "checkRole", "setRole"}
    \/ t.op = "settings" /\ t.pc \in {"assertAdmin", "saveSettings"}
    \/ t.op = "leave" /\ t.pc = "leave"
    \/ t.op = "open" /\ t.pc \in {"create", "insertOpener", "insertOther",
                                 "assertOpener"}

TaskOK(t) ==
    /\ AwaitOK(t)
    /\ t.op # "none" => t.user \in Users
    /\ t.op \in {"remove", "role", "leave"} => t.target \in Users
    /\ t.op = "open" => t.user \in Pair /\ kind # "group"
    /\ t.op = "leave" => t.target = t.user
    /\ t.op \in {"add", "remove", "role", "settings"} => kind = "group"
    /\ t.role # "owner"
    /\ t.pc = "checkSelf" => t.target = t.user
    /\ t.pc = "upsert" => t.ids # {}
    /\ t.pc = "insertOther" => row[t.user].state # "absent"

(* An update that would end an ownership is in flight only if the          *)
(* ownership is over.                                                      *)
SparesOwner(t) ==
    \/ t.pc = "upsert" /\ group.ownerId \in t.ids
    \/ t.pc = "leave" /\ t.op = "remove" /\ t.target = group.ownerId
    \/ t.pc = "setRole" /\ t.target = group.ownerId
    => ~Owned

(* There is no owner but the one the group document names, and no other    *)
(* row, not even that of somebody who left, says so.                       *)
OneOwner ==
    \A u \in Users :
      row[u].role = "owner" => kind = "group" /\ group.ownerId = u

(* What a handler that will save a count knows, if nothing disturbed it.   *)
CountOK(t) ==
    /\ group.memberCount = t.seen
    /\ t.pc \notin {"upsert", "saveCount"} => t.seen = Cardinality(Active)
    /\ t.pc = "upsert" => /\ t.ids \cap Active = {}
                          /\ t.seen + t.added = Cardinality(Active) + Cardinality(t.ids)
    /\ t.pc = "saveCount" => NewCount(t) = Cardinality(Active)

Orderly ==
    tidy /\ kind = "group" =>
      /\ \A r, s \in Requests : Counting(r) /\ Counting(s) => r = s
      /\ \A r \in Requests : Counting(r) => CountOK(task[r])

IInv ==
    /\ TypeOK
    /\ kind = "group" => group.ownerId \in Users
    /\ \A r \in Requests : TaskOK(task[r]) /\ SparesOwner(task[r])
    /\ Orderly
    /\ CountIsExact

(* No rows without a conversation; and one request at most is inserting    *)
(* them, into a thread that is there.                                      *)
ThreadOK ==
    /\ NoHalfThread
    /\ kind = "none" => \A u \in Users : row[u].state = "absent"
    /\ \A r \in Requests :
         task[r].pc \in {"insertOpener", "insertOther"} =>
           /\ kind = "direct"
           /\ \A s \in Requests \ {r} :
                task[s].pc \notin {"insertOpener", "insertOther"}
==============================================================================
