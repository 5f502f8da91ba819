-------------------------- MODULE MembershipProofs --------------------------
(* Proofs about Membership. *)
EXTENDS Membership, FiniteSetTheorems, TLAPS

------------------------------------------------------------------------------
(* Counting members.                                                       *)

(* Sets of users can be counted. *)
LEMMA UsersFinite ==
  ASSUME NEW S \in SUBSET Users
  PROVE  IsFiniteSet(S) /\ Cardinality(S) \in Nat
  BY ConstantsAssumption, FS_Subset, FS_CardinalityType

------------------------------------------------------------------------------
(* Preservation of the inductive invariant.                                *)

(* What the slot of a finished handler knows. *)
LEMMA NoTaskOK ==
  /\ NoTask \in Tasks /\ NoTask.pc = "idle" /\ NoTask.op = "none"
  /\ TaskOK(NoTask) /\ SparesOwner(NoTask)
  BY DEF NoTask, Tasks, Awaits, Roles, TaskOK, AwaitOK, SparesOwner

(* The inductive invariant holds initially. *)
LEMMA InitIInv == Init => IInv
  <1> SUFFICES ASSUME Init PROVE IInv
    OBVIOUS
  <1>1. TypeOK
    <2>1. NoRow \in Rows /\ NoGroup \in Groups
      BY DEF NoRow, Rows, Roles, NoGroup, Groups
    <2> QED
      BY <2>1, NoTaskOK, ConstantsAssumption DEF Init, TypeOK
  <1>2. kind = "none" /\ \A r \in Requests : task[r] = NoTask
    BY DEF Init
  <1> QED
    BY <1>1, <1>2, NoTaskOK DEF IInv, Orderly, CountIsExact

(* Handler r goes on as k. *)
LEMMA HandlerStep ==
  ASSUME IInv, NEW r \in Requests, NEW k \in Tasks,
         task' = [task EXCEPT ![r] = k]
  PROVE  /\ task' \in [Requests -> Tasks]
         /\ task'[r] = k
         /\ \A x \in Requests \ {r} : task'[x] = task[x]
  BY DEF IInv, TypeOK

(* A step of handler r leaves alone what the others rely on. *)
LEMMA OthersStayOK ==
  ASSUME IInv, NEW r \in Requests,
         \A x \in Requests \ {r} : task'[x] = task[x],
         TaskOK(task[r])', SparesOwner(task[r])',
         kind' = kind \/ (kind = "none" /\ kind' = "direct"),
         group'.ownerId = group.ownerId,
         \A u \in Users : row[u].state # "absent" => row'[u].state # "absent",
         Owned' => Owned
  PROVE  \A x \in Requests : TaskOK(task[x])' /\ SparesOwner(task[x])'
  <1>1. ASSUME NEW x \in Requests \ {r} PROVE TaskOK(task[x])'
    <2>1. TaskOK(task[x]) /\ task'[x] = task[x]
      BY DEF IInv
    <2>2. task[x].pc = "insertOther" => task[x].user \in Users
      BY <2>1, ConstantsAssumption DEF TaskOK, AwaitOK
    <2> QED
      BY <2>1, <2>2 DEF TaskOK, AwaitOK
  <1>2. ASSUME NEW x \in Requests \ {r} PROVE SparesOwner(task[x])'
    <2>1. SparesOwner(task[x]) /\ task'[x] = task[x]
      BY DEF IInv
    <2> QED
      BY <2>1 DEF SparesOwner
  <1> QED
    BY <1>1, <1>2

(* A handler that does not save a count, and changes no membership while   *)
(* one may be saved.                                                       *)
LEMMA CountUndisturbed ==
  ASSUME IInv, NEW r \in Requests,
         \A x \in Requests \ {r} : task'[x] = task[x],
         ~Counting(r), ~Counting(r)', tidy' => tidy,
         tidy' /\ kind' = "group" =>
           /\ kind = "group"
           /\ group'.memberCount = group.memberCount
           /\ Active' = Active
  PROVE  Orderly' /\ CountIsExact'
  <1>1. \A x \in Requests : /\ Counting(x)' <=> Counting(x)
                            /\ Counting(x) => task'[x] = task[x]
    BY DEF Counting
  <1>2. ASSUME tidy', kind' = "group"
        PROVE  \A x \in Requests : Counting(x)' => CountOK(task[x])'
    <2>1. \A x \in Requests : Counting(x) => CountOK(task[x])
      BY <1>2 DEF IInv, Orderly
    <2> QED
      BY <1>1, <1>2, <2>1 DEF CountOK, NewCount
  <1>3. Orderly'
    BY <1>1, <1>2 DEF IInv, Orderly
  <1>4. CountIsExact'
    BY <1>1 DEF IInv, CountIsExact
  <1> QED
    BY <1>3, <1>4

(* The one handler that will save a count goes on, or saves it. *)
LEMMA CountCarriedOn ==
  ASSUME IInv, NEW r \in Requests,
         \A x \in Requests \ {r} : task'[x] = task[x],
         Counting(r), kind' = kind, tidy' => tidy,
         tidy' /\ kind = "group" /\ CountOK(task[r]) =>
           IF Counting(r)' THEN CountOK(task[r])'
           ELSE group'.memberCount = Cardinality(Active)'
  PROVE  Orderly' /\ CountIsExact'
  <1> SUFFICES ASSUME tidy', kind' = "group"
               PROVE  Orderly' /\ CountIsExact'
    BY DEF Orderly, CountIsExact
  <1>1. /\ CountOK(task[r])
        /\ \A x \in Requests \ {r} : ~Counting(x)
    BY DEF IInv, Orderly
  <1>2. \A x \in Requests \ {r} : ~Counting(x)'
    BY <1>1 DEF Counting
  <1> QED
    BY <1>1, <1>2 DEF Orderly, CountIsExact

(* A handler goes on, or is done, and has changed nothing: what it learnt  *)
(* is all that counts.                                                     *)
LEMMA QuietStep ==
  ASSUME IInv, NEW r \in Requests, NEW k \in Tasks,
         task' = [task EXCEPT ![r] = k],
         TaskOK(k), SparesOwner(k),
         UNCHANGED <<kind, group, row, tidy, faults>>, ops' \in 0..MaxOps,
         k.op = task[r].op \/ k.op = "none",
         Counting(r) =>
           IF k.op = "none" THEN task[r].pc \notin {"upsert", "saveCount"}
           ELSE tidy /\ kind = "group" /\ CountOK(task[r]) => CountOK(k)
  PROVE  IInv'
  <1>1. /\ task' \in [Requests -> Tasks] /\ task'[r] = k
        /\ \A x \in Requests \ {r} : task'[x] = task[x]
    BY HandlerStep
  <1>2. TypeOK'
    BY <1>1 DEF IInv, TypeOK
  <1>3. Active' = Active /\ (Owned' <=> Owned)
    BY DEF Active, Owned, HasRole
  <1>4. TaskOK(task[r])' /\ SparesOwner(task[r])'
    BY <1>1, <1>3 DEF TaskOK, AwaitOK, SparesOwner
  <1>5. \A x \in Requests : TaskOK(task[x])' /\ SparesOwner(task[x])'
    BY <1>1, <1>3, <1>4, OthersStayOK
  <1>6. Orderly' /\ CountIsExact'
    <2>1. CASE Counting(r)
      <3>1. Counting(r)' <=> k.op # "none"
        BY <1>1, <2>1 DEF Counting
      <3>2. ASSUME tidy, kind = "group", CountOK(task[r])
            PROVE  IF Counting(r)' THEN CountOK(task[r])'
                   ELSE group'.memberCount = Cardinality(Active)'
        <4>1. CASE k.op = "none"
          BY <1>3, <2>1, <3>1, <3>2, <4>1 DEF CountOK
        <4>2. CASE k.op # "none"
          BY <1>1, <1>3, <2>1, <3>1, <3>2, <4>2 DEF CountOK, NewCount
        <4> QED
          BY <4>1, <4>2
      <3> QED
        BY <1>1, <2>1, <3>2, CountCarriedOn
    <2>2. CASE ~Counting(r)
      <3>1. ~Counting(r)'
        BY <1>1, <2>2 DEF Counting
      <3> QED
        BY <1>1, <1>3, <2>2, <3>1, CountUndisturbed
    <2> QED
      BY <2>1, <2>2
  <1> QED
    BY <1>2, <1>5, <1>6 DEF IInv

(* A handler that goes on keeps the rest of what it knows. *)
LEMMA GoesOn ==
  ASSUME IInv, NEW r \in Requests, NEW pc \in Awaits,
         NEW k, k = [task[r] EXCEPT !.pc = pc]
  PROVE  /\ k \in Tasks /\ k.pc = pc /\ k.op = task[r].op
         /\ k.user = task[r].user /\ k.target = task[r].target
         /\ k.ids = task[r].ids /\ k.added = task[r].added
         /\ k.seen = task[r].seen /\ k.role = task[r].role
         /\ GoTo(r, pc) => task' = [task EXCEPT ![r] = k]
  BY DEF IInv, TypeOK, Tasks, GoTo

(* A check lets the handler go on or ends it. *)
LEMMA CheckStep ==
  ASSUME IInv, NEW r \in Requests, NEW pc \in Awaits \ {"upsert", "saveCount"},
         Finish(r) \/ (GoTo(r, pc) /\ TaskOK([task[r] EXCEPT !.pc = pc])
                                  /\ SparesOwner([task[r] EXCEPT !.pc = pc])),
         task[r].pc \notin {"upsert", "saveCount"},
         UNCHANGED <<kind, group, row, tidy, ops, faults>>
  PROVE  IInv'
  <1>1. ops' \in 0..MaxOps
    BY DEF IInv, TypeOK
  <1>2. CASE Finish(r)
    BY <1>1, <1>2, NoTaskOK, QuietStep DEF Finish
  <1>3. CASE GoTo(r, pc) /\ TaskOK([task[r] EXCEPT !.pc = pc])
                         /\ SparesOwner([task[r] EXCEPT !.pc = pc])
    <2>1. PICK k : k = [task[r] EXCEPT !.pc = pc]
      OBVIOUS
    <2>2. /\ k \in Tasks /\ k.pc = pc /\ k.op = task[r].op
          /\ k.ids = task[r].ids /\ k.seen = task[r].seen
          /\ task' = [task EXCEPT ![r] = k]
      BY <1>3, <2>1, GoesOn
    <2>3. CountOK(task[r]) => CountOK(k)
      BY <2>2 DEF CountOK
    <2> QED
      BY <1>1, <1>3, <2>1, <2>2, <2>3, QuietStep DEF Counting
  <1> QED
    BY <1>2, <1>3

(* The checks of addMembers, removeMember, updateRole, updateSettings and  *)
(* getOrCreateDirect.                                                      *)
LEMMA CheckSteps ==
  ASSUME IInv, NEW r \in Requests,
         \/ AssertAdder(r) \/ CheckSelf(r) \/ AssertRemover(r) \/ CheckTarget(r)
         \/ AssertOwner(r) \/ CheckRole(r) \/ AssertAdmin(r) \/ AssertOpener(r)
  PROVE  IInv'
  <1>1. TaskOK(task[r])
    BY DEF IInv
  <1>2. ASSUME NEW pc \in Awaits, NEW k, k = [task[r] EXCEPT !.pc = pc]
        PROVE  /\ k.pc = pc /\ k.op = task[r].op
               /\ k.user = task[r].user /\ k.target = task[r].target
               /\ k.ids = task[r].ids /\ k.role = task[r].role
    BY <1>2, GoesOn
  <1>3. CASE AssertAdder(r)
    <2> DEFINE k == [task[r] EXCEPT !.pc = "listMembers"]
    <2>1. k.pc = "listMembers" /\ k.op = task[r].op /\ k.role = task[r].role
      BY <1>2 DEF Awaits
    <2>2. TaskOK(k) /\ SparesOwner(k)
      BY <1>1, <1>3, <2>1 DEF AssertAdder, At, TaskOK, AwaitOK, SparesOwner
    <2> QED
      BY <1>3, <2>2, CheckStep DEF AssertAdder, At, Check, Awaits
  <1>4. CASE CheckSelf(r)
    <2> DEFINE k == [task[r] EXCEPT !.pc = "leave"]
    <2>1. /\ k.pc = "leave" /\ k.op = task[r].op /\ k.role = task[r].role
          /\ k.target = task[r].target
      BY <1>2 DEF Awaits
    <2>2. TaskOK(k)
      BY <1>1, <1>4, <2>1 DEF CheckSelf, At, TaskOK, AwaitOK
    <2>3. GoTo(r, "leave") => SparesOwner(k)
      <3>1. task[r].target = task[r].user
        BY <1>1, <1>4 DEF CheckSelf, At, TaskOK
      <3>2. Finish(r) \/ ~HasRole(task[r].target, {"owner"})
        BY <1>4, <3>1 DEF CheckSelf, Check
      <3>3. Finish(r) /\ GoTo(r, "leave") => FALSE
        <4>1. Finish(r) => task'[r].pc = "idle"
          BY NoTaskOK DEF Finish, IInv, TypeOK
        <4>2. GoTo(r, "leave") => task'[r].pc = "leave"
          BY DEF GoTo, IInv, TypeOK, Tasks
        <4> QED
          BY <4>1, <4>2
      <3> QED
        BY <2>1, <3>2, <3>3 DEF SparesOwner, Owned
    <2> QED
      BY <1>4, <2>2, <2>3, CheckStep DEF CheckSelf, At, Check, Awaits
  <1>5. CASE AssertRemover(r)
    <2> DEFINE k == [task[r] EXCEPT !.pc = "checkTarget"]
    <2>1. /\ k.pc = "checkTarget" /\ k.op = task[r].op /\ k.role = task[r].role
          /\ k.target = task[r].target
      BY <1>2 DEF Awaits
    <2>2. TaskOK(k) /\ SparesOwner(k)
      BY <1>1, <1>5, <2>1 DEF AssertRemover, At, TaskOK, AwaitOK, SparesOwner
    <2> QED
      BY <1>5, <2>2, CheckStep DEF AssertRemover, At, Check, Awaits
  <1>6. CASE CheckTarget(r)
    <2> DEFINE k == [task[r] EXCEPT !.pc = "leave"]
    <2>1. /\ k.pc = "leave" /\ k.op = task[r].op /\ k.role = task[r].role
          /\ k.target = task[r].target
      BY <1>2 DEF Awaits
    <2>2. TaskOK(k)
      BY <1>1, <1>6, <2>1 DEF CheckTarget, At, TaskOK, AwaitOK
    <2>3. Finish(r) \/ (GoTo(r, "leave") /\ SparesOwner(k))
      BY <1>6, <2>1 DEF CheckTarget, Check, SparesOwner, Owned
    <2> QED
      BY <1>6, <2>2, <2>3, CheckStep DEF CheckTarget, At, Awaits
  <1>7. CASE AssertOwner(r)
    <2> DEFINE k == [task[r] EXCEPT !.pc = "checkRole"]
    <2>1. /\ k.pc = "checkRole" /\ k.op = task[r].op /\ k.role = task[r].role
          /\ k.target = task[r].target
      BY <1>2 DEF Awaits
    <2>2. TaskOK(k) /\ SparesOwner(k)
      BY <1>1, <1>7, <2>1 DEF AssertOwner, At, TaskOK, AwaitOK, SparesOwner
    <2> QED
      BY <1>7, <2>2, CheckStep DEF AssertOwner, At, Check, Awaits
  <1>8. CASE CheckRole(r)
    <2> DEFINE k == [task[r] EXCEPT !.pc = "setRole"]
    <2>1. /\ k.pc = "setRole" /\ k.op = task[r].op /\ k.role = task[r].role
          /\ k.target = task[r].target
      BY <1>2 DEF Awaits
    <2>2. TaskOK(k)
      BY <1>1, <1>8, <2>1 DEF CheckRole, At, TaskOK, AwaitOK
    <2>3. Finish(r) \/ (GoTo(r, "setRole") /\ SparesOwner(k))
      BY <1>8, <2>1 DEF CheckRole, Check, SparesOwner, Owned
    <2> QED
      BY <1>8, <2>2, <2>3, CheckStep DEF CheckRole, At, Awaits
  <1>9. CASE AssertAdmin(r)
    <2> DEFINE k == [task[r] EXCEPT !.pc = "saveSettings"]
    <2>1. k.pc = "saveSettings" /\ k.op = task[r].op /\ k.role = task[r].role
      BY <1>2 DEF Awaits
    <2>2. TaskOK(k) /\ SparesOwner(k)
      BY <1>1, <1>9, <2>1 DEF AssertAdmin, At, TaskOK, AwaitOK, SparesOwner
    <2> QED
      BY <1>9, <2>2, CheckStep DEF AssertAdmin, At, Check, Awaits
  <1>10. CASE AssertOpener(r)
    BY <1>10, CheckStep DEF AssertOpener, At, Awaits
  <1> QED
    BY <1>3, <1>4, <1>5, <1>6, <1>7, <1>8, <1>9, <1>10

(* The new members are counted before they are added. *)
LEMMA ListMembersStep ==
  ASSUME IInv, NEW r \in Requests, ListMembers(r)
  PROVE  IInv'
  <1> DEFINE newIds == task[r].ids \ Active
             k == [task[r] EXCEPT !.pc = "upsert", !.ids = newIds,
                                  !.added = Cardinality(newIds)]
  <1>1. /\ task[r].pc = "listMembers" /\ task[r].op = "add" /\ TaskOK(task[r])
        /\ task[r] \in Tasks /\ ops \in 0..MaxOps
    BY DEF IInv, TypeOK, TaskOK, AwaitOK, ListMembers, At
  <1>2. UNCHANGED <<kind, group, row, tidy, ops, faults>>
    BY DEF ListMembers
  <1>3. CASE Finish(r)
    BY <1>1, <1>2, <1>3, NoTaskOK, QuietStep DEF Finish
  <1>4. CASE newIds # {} /\ task' = [task EXCEPT ![r] = k]
    <2>1. newIds \in SUBSET Users /\ Cardinality(newIds) \in Nat
      BY <1>1, UsersFinite DEF Tasks
    <2>2. /\ k \in Tasks /\ k.pc = "upsert" /\ k.op = "add" /\ k.ids = newIds
          /\ k.seen = task[r].seen /\ k.added = Cardinality(newIds)
          /\ k.role = task[r].role
      BY <1>1, <2>1 DEF Tasks, Awaits
    <2>3. TaskOK(k)
      BY <1>1, <1>4, <2>2 DEF TaskOK, AwaitOK
    <2>4. SparesOwner(k)
      BY <2>2 DEF SparesOwner, Owned, HasRole
    <2>5. CountOK(task[r]) => CountOK(k)
      BY <1>1, <2>2 DEF CountOK
    <2> HIDE DEF k
    <2> QED
      BY <1>1, <1>2, <1>4, <2>2, <2>3, <2>4, <2>5, QuietStep
  <1> QED
    BY <1>3, <1>4 DEF ListMembers

(* A handler that starts knows the count it will change, or changes none.  *)
LEMMA BeginStep ==
  ASSUME IInv, NEW r \in Requests, NEW k \in Tasks, Begin(r, k),
         TaskOK(k), SparesOwner(k),
         IF k.op \in {"add", "remove"}
         THEN /\ k.pc \notin {"upsert", "saveCount"} /\ k.seen = group.memberCount
              /\ tidy' = (tidy /\ \A s \in Requests : ~Counting(s))
         ELSE tidy' = tidy
  PROVE  IInv'
  <1>1. /\ task[r].pc = "idle" /\ task[r].op = "none" /\ ~Counting(r)
        /\ ops' \in 0..MaxOps
        /\ UNCHANGED <<kind, group, row, faults>>
    <2>1. task[r].pc = "idle" /\ TaskOK(task[r])
      BY DEF IInv, Begin, Idle
    <2> QED
      BY <2>1, ConstantsAssumption
         DEF Begin, IInv, TypeOK, TaskOK, AwaitOK, Counting
  <1>2. /\ task' \in [Requests -> Tasks] /\ task'[r] = k
        /\ \A x \in Requests \ {r} : task'[x] = task[x]
    BY HandlerStep DEF Begin
  <1>3. tidy' \in BOOLEAN
    BY DEF IInv, TypeOK
  <1>4. TypeOK'
    BY <1>1, <1>2, <1>3 DEF IInv, TypeOK
  <1>5. Active' = Active /\ (Owned' <=> Owned)
    BY <1>1 DEF Active, Owned, HasRole
  <1>6. TaskOK(task[r])' /\ SparesOwner(task[r])'
    BY <1>1, <1>2, <1>5 DEF TaskOK, AwaitOK, SparesOwner
  <1>7. \A x \in Requests : TaskOK(task[x])' /\ SparesOwner(task[x])'
    BY <1>1, <1>2, <1>5, <1>6, OthersStayOK
  <1>8. Orderly' /\ CountIsExact'
    <2>1. CASE k.op \in {"add", "remove"}
      <3>1. Counting(r)'
        BY <1>2, <2>1 DEF Counting
      <3>2. ASSUME tidy', kind' = "group"
            PROVE  /\ \A x \in Requests \ {r} : ~Counting(x)'
                   /\ CountOK(task[r])'
        <4>1. tidy /\ kind = "group" /\ \A x \in Requests : ~Counting(x)
          BY <1>1, <2>1, <3>2
        <4>2. group.memberCount = Cardinality(Active)
          BY <4>1 DEF IInv, CountIsExact
        <4> QED
          BY <1>1, <1>2, <1>5, <2>1, <4>1, <4>2 DEF Counting, CountOK, NewCount
      <3> QED
        BY <3>1, <3>2 DEF Orderly, CountIsExact
    <2>2. CASE k.op \notin {"add", "remove"}
      <3>1. ~Counting(r)'
        BY <1>2, <2>2 DEF Counting
      <3> QED
        BY <1>1, <1>2, <1>5, <2>2, <3>1, CountUndisturbed
    <2> QED
      BY <2>1, <2>2
  <1> QED
    BY <1>1, <1>4, <1>7, <1>8 DEF IInv

(* Requests arrive. *)
LEMMA RequestSteps ==
  ASSUME IInv, NEW r \in Requests, NEW u \in Users, Request(r, u)
  PROVE  IInv'
  <1>1. group \in Groups
    BY DEF IInv, TypeOK
  <1>2. ASSUME NEW ids \in SUBSET Users, AddMembers(r, u, ids) PROVE IInv'
    <2> DEFINE k == [NoTask EXCEPT !.op = "add", !.pc = "assertAdder", !.user = u,
                                   !.ids = ids, !.seen = group.memberCount,
                                   !.strict = group.strict]
    <2>1. /\ k \in Tasks /\ k.op = "add" /\ k.pc = "assertAdder"
          /\ k.seen = group.memberCount /\ k.role = "member"
      BY <1>1 DEF NoTask, Tasks, Awaits, Roles, Groups
    <2>2. TaskOK(k) /\ SparesOwner(k)
      BY <1>2, <2>1 DEF TaskOK, AwaitOK, SparesOwner, AddMembers
    <2> QED
      BY <1>2, <2>1, <2>2, BeginStep DEF AddMembers
  <1>3. ASSUME NEW v \in Users, RemoveMember(r, u, v) PROVE IInv'
    <2> DEFINE k == [NoTask EXCEPT !.op = "remove", !.user = u, !.target = v,
                                   !.pc = IF u = v THEN "checkSelf"
                                          ELSE "assertRemover",
                                   !.seen = group.memberCount]
    <2>1. /\ k \in Tasks /\ k.op = "remove" /\ k.user = u /\ k.target = v
          /\ k.pc = IF u = v THEN "checkSelf" ELSE "assertRemover"
          /\ k.seen = group.memberCount /\ k.role = "member"
      BY <1>1 DEF NoTask, Tasks, Awaits, Roles, Groups
    <2>2. TaskOK(k) /\ SparesOwner(k)
      BY <1>3, <2>1 DEF TaskOK, AwaitOK, SparesOwner, RemoveMember
    <2>3. Begin(r, k) /\ tidy' = (tidy /\ \A s \in Requests : ~Counting(s))
      BY <1>3 DEF RemoveMember
    <2> HIDE DEF k
    <2> QED
      BY <2>1, <2>2, <2>3, BeginStep
  <1>4. ASSUME NEW v \in Users, NEW role \in {"admin", "member"},
               UpdateRole(r, u, v, role)
        PROVE  IInv'
    <2> DEFINE k == [NoTask EXCEPT !.op = "role", !.pc = "assertOwner", !.user = u,
                                   !.target = v, !.role = role]
    <2>1. /\ k \in Tasks /\ k.op = "role" /\ k.target = v
          /\ k.pc = "assertOwner" /\ k.role = role
      BY DEF NoTask, Tasks, Awaits, Roles
    <2>2. TaskOK(k) /\ SparesOwner(k)
      BY <1>4, <2>1 DEF TaskOK, AwaitOK, SparesOwner, UpdateRole
    <2> QED
      BY <1>4, <2>1, <2>2, BeginStep DEF UpdateRole
  <1>5. CASE UpdateSettings(r, u)
    <2> DEFINE k == [NoTask EXCEPT !.op = "settings", !.pc = "assertAdmin",
                                   !.user = u, !.strict = group.strict]
    <2>1. /\ k \in Tasks /\ k.op = "settings" /\ k.pc = "assertAdmin"
          /\ k.role = "member"
      BY <1>1 DEF NoTask, Tasks, Awaits, Roles, Groups
    <2>2. TaskOK(k) /\ SparesOwner(k)
      BY <1>5, <2>1 DEF TaskOK, AwaitOK, SparesOwner, UpdateSettings
    <2> QED
      BY <1>5, <2>1, <2>2, BeginStep DEF UpdateSettings
  <1>6. CASE LeaveRoute(r, u)
    <2> DEFINE k == [NoTask EXCEPT !.op = "leave", !.pc = "leave", !.user = u,
                                   !.target = u]
    <2>1. /\ k \in Tasks /\ k.op = "leave" /\ k.target = u
          /\ k.pc = "leave" /\ k.role = "member"
      BY DEF NoTask, Tasks, Awaits, Roles
    <2>2. TaskOK(k) /\ SparesOwner(k)
      BY <2>1 DEF TaskOK, AwaitOK, SparesOwner
    <2> QED
      BY <1>6, <2>1, <2>2, BeginStep DEF LeaveRoute
  <1>7. CASE OpenDirect(r, u)
    <2> DEFINE k == [NoTask EXCEPT !.op = "open", !.user = u,
                                   !.pc = IF kind = "direct" THEN "assertOpener"
                                          ELSE "create"]
    <2>1. /\ k \in Tasks /\ k.op = "open" /\ k.user = u
          /\ k.pc \in {"assertOpener", "create"} /\ k.role = "member"
      BY DEF NoTask, Tasks, Awaits, Roles
    <2>2. TaskOK(k) /\ SparesOwner(k)
      BY <1>7, <2>1 DEF TaskOK, AwaitOK, SparesOwner, OpenDirect
    <2> QED
      BY <1>7, <2>1, <2>2, BeginStep DEF OpenDirect
  <1> QED
    BY <1>2, <1>3, <1>4, <1>5, <1>6, <1>7 DEF Request

(* A step of handler r that changes rows or documents: what has to be      *)
(* shown of it.                                                            *)
LEMMA WriteStep ==
  ASSUME IInv, NEW r \in Requests,
         \A x \in Requests \ {r} : task'[x] = task[x],
         TypeOK',
         kind' = kind \/ (kind = "none" /\ kind' = "direct"),
         group'.ownerId = group.ownerId,
         \A u \in Users : row[u].state # "absent" => row'[u].state # "absent",
         Owned' => Owned,
         TaskOK(task[r])', SparesOwner(task[r])',
         Orderly', CountIsExact',
         faults' = faults
  PROVE  IInv'
  <1>1. \A x \in Requests : TaskOK(task[x])' /\ SparesOwner(task[x])'
    BY OthersStayOK
  <1>2. kind' = "group" => group'.ownerId \in Users
    BY DEF IInv
  <1> QED
    BY <1>1, <1>2 DEF IInv

(* Rows are added one after the other, none of them the owner's while he   *)
(* is there.                                                               *)
LEMMA UpsertStep ==
  ASSUME IInv, NEW r \in Requests, Upsert(r)
  PROVE  IInv'
  <1> DEFINE t == task[r]
  <1>1. /\ t.pc = "upsert" /\ t.op = "add" /\ TaskOK(t) /\ SparesOwner(t)
        /\ t \in Tasks /\ t.ids \in SUBSET Users /\ kind = "group"
        /\ row \in [Users -> Rows] /\ group \in Groups
    BY DEF IInv, TypeOK, TaskOK, AwaitOK, Upsert, At, Tasks
  <1>2. PICK u \in t.ids :
          /\ row' = [row EXCEPT ![u] = RowOf("member")]
          /\ task' = [task EXCEPT ![r].ids = @ \ {u},
                                  ![r].pc = IF task[r].ids = {u} THEN "saveCount"
                                            ELSE "upsert"]
    BY DEF Upsert
  <1>3. UNCHANGED <<kind, group, tidy, ops, faults>>
    BY DEF Upsert
  <1> DEFINE k == [t EXCEPT !.ids = t.ids \ {u},
                            !.pc = IF t.ids = {u} THEN "saveCount" ELSE "upsert"]
  <1>4. /\ k \in Tasks /\ k.op = "add" /\ k.ids = t.ids \ {u}
        /\ k.pc = IF t.ids = {u} THEN "saveCount" ELSE "upsert"
        /\ k.seen = t.seen /\ k.added = t.added /\ k.role = t.role
        /\ k.user = t.user /\ t.seen \in Nat /\ t.added \in Nat
    BY <1>1 DEF Tasks, Awaits
  <1>5. task' = [task EXCEPT ![r] = k]
    BY <1>2 DEF IInv, TypeOK, Tasks
  <1> HIDE DEF k
  <1>6. /\ task' \in [Requests -> Tasks] /\ task'[r] = k
        /\ \A x \in Requests \ {r} : task'[x] = task[x]
    BY <1>4, <1>5, HandlerStep
  <1>7. /\ RowOf("member") \in Rows /\ RowOf("member").state = "active"
        /\ RowOf("member").role = "member"
    BY DEF RowOf, Rows, Roles
  <1>8. /\ u \in Users /\ row' \in [Users -> Rows] /\ row'[u] = RowOf("member")
        /\ \A v \in Users \ {u} : row'[v] = row[v]
    BY <1>1, <1>2, <1>7
  <1>9. TypeOK'
    BY <1>3, <1>6, <1>8 DEF IInv, TypeOK
  <1>10. Active' = Active \cup {u}
    BY <1>7, <1>8 DEF Active
  <1>11. Owned' => Owned
    BY <1>3, <1>7, <1>8 DEF Owned, HasRole, Active
  <1>12. TaskOK(task[r])'
    BY <1>1, <1>3, <1>4, <1>6 DEF TaskOK, AwaitOK
  <1>13. SparesOwner(task[r])'
    BY <1>1, <1>3, <1>4, <1>6, <1>11 DEF SparesOwner
  <1>14. Orderly' /\ CountIsExact'
    <2>1. Counting(r) /\ Counting(r)'
      BY <1>1, <1>4, <1>6 DEF Counting
    <2>2. ASSUME CountOK(t) PROVE CountOK(task[r])'
      <3>1. /\ u \notin Active /\ t.ids \cap Active = {}
            /\ t.seen + t.added = Cardinality(Active) + Cardinality(t.ids)
            /\ group.memberCount = t.seen
        BY <1>1, <2>2 DEF CountOK
      <3>2. /\ Active \in SUBSET Users /\ IsFiniteSet(Active)
            /\ IsFiniteSet(t.ids) /\ Cardinality(Active) \in Nat
            /\ Cardinality(t.ids) \in Nat
        BY <1>1, UsersFinite DEF Active
      <3>3. Cardinality(Active)' = Cardinality(Active) + 1
        BY <1>10, <3>1, <3>2, FS_AddElement
      <3>4. Cardinality(t.ids \ {u}) = Cardinality(t.ids) - 1
        BY <3>2, FS_RemoveElement
      <3>5. CASE t.ids = {u}
        <4>1. Cardinality(t.ids) = 1
          BY <3>5, FS_Singleton
        <4>2. k.pc = "saveCount" /\ k.op = "add"
          BY <1>4, <3>5
        <4>3. k.seen + k.added = Cardinality(Active)'
          BY <1>4, <3>1, <3>2, <3>3, <4>1
        <4>4. group'.memberCount = k.seen
          BY <1>3, <1>4, <3>1
        <4>5. /\ task'[r].pc = "saveCount" /\ task'[r].op = "add"
              /\ task'[r].seen + task'[r].added = Cardinality(Active)'
              /\ group'.memberCount = task'[r].seen
          BY <1>6, <4>2, <4>3, <4>4
        <4> QED
          BY <4>5 DEF CountOK, NewCount
      <3>6. CASE t.ids # {u}
        <4>1. k.pc = "upsert" /\ k.ids \cap Active' = {}
          BY <1>4, <1>10, <3>1, <3>6
        <4>2. k.seen + k.added = Cardinality(Active)' + Cardinality(k.ids)
          BY <1>4, <3>1, <3>2, <3>3, <3>4
        <4>3. group'.memberCount = k.seen
          BY <1>3, <1>4, <3>1
        <4> QED
          BY <1>6, <4>1, <4>2, <4>3 DEF CountOK
      <3> QED
        BY <3>5, <3>6
    <2> QED
      BY <1>3, <1>6, <2>1, <2>2, CountCarriedOn
  <1> QED
    BY <1>1, <1>3, <1>6, <1>7, <1>8, <1>9, <1>11, <1>12, <1>13, <1>14, WriteStep

(* What was counted is saved. *)
LEMMA SaveCountStep ==
  ASSUME IInv, NEW r \in Requests, SaveCount(r)
  PROVE  IInv'
  <1> DEFINE t == task[r]
  <1>1. /\ t.pc = "saveCount" /\ Counting(r) /\ TaskOK(t) /\ t \in Tasks
        /\ kind = "group" /\ group \in Groups
    BY DEF IInv, TypeOK, TaskOK, AwaitOK, SaveCount, At, Counting
  <1>2. UNCHANGED <<kind, row, tidy, ops, faults>> /\ task' = [task EXCEPT ![r] = NoTask]
    BY DEF SaveCount, Finish
  <1>3. /\ task' \in [Requests -> Tasks] /\ task'[r] = NoTask
        /\ \A x \in Requests \ {r} : task'[x] = task[x]
    BY <1>2, NoTaskOK, HandlerStep
  <1>4. NewCount(t) \in Nat
    BY <1>1 DEF NewCount, Tasks
  <1>5. /\ group' \in Groups /\ group'.ownerId = group.ownerId
        /\ group.memberCount = t.seen => group'.memberCount = NewCount(t)
    BY <1>1, <1>4 DEF SaveCount, Groups
  <1>6. TypeOK'
    BY <1>2, <1>3, <1>5 DEF IInv, TypeOK
  <1>7. Active' = Active /\ (Owned' => Owned)
    BY <1>2, <1>5 DEF Active, Owned, HasRole
  <1>8. TaskOK(task[r])' /\ SparesOwner(task[r])'
    BY <1>3, NoTaskOK DEF TaskOK, AwaitOK, SparesOwner
  <1>9. Orderly' /\ CountIsExact'
    <2>1. ~Counting(r)'
      BY <1>3, NoTaskOK DEF Counting
    <2>2. CountOK(t) => group'.memberCount = Cardinality(Active)'
      BY <1>1, <1>5, <1>7 DEF CountOK
    <2> QED
      BY <1>1, <1>2, <1>3, <2>1, <2>2, CountCarriedOn
  <1> QED
    BY <1>1, <1>2, <1>3, <1>5, <1>6, <1>7, <1>8, <1>9, WriteStep

(* Of the removals only one of a member who was not the owner counts. *)
LEMMA LeaveStep ==
  ASSUME IInv, NEW r \in Requests, Leave(r)
  PROVE  IInv'
  <1> DEFINE t == task[r]
             v == task[r].target
             k == IF Counting(r) THEN [task[r] EXCEPT !.pc = "saveCount"] ELSE NoTask
  <1>1. /\ t.pc = "leave" /\ TaskOK(t) /\ t \in Tasks /\ v \in Users
        /\ t.op \in {"remove", "leave"}
        /\ row \in [Users -> Rows] /\ group \in Groups
    BY DEF IInv, TypeOK, TaskOK, AwaitOK, Leave, At
  <1>2. UNCHANGED <<kind, group, ops, faults>>
    BY DEF Leave
  <1>3. k \in Tasks /\ task' = [task EXCEPT ![r] = k]
    BY NoTaskOK, GoesOn DEF Leave, Finish, Awaits
  <1>4. Counting(r) => /\ k.pc = "saveCount" /\ k.op = t.op /\ k.seen = t.seen
                       /\ k.role = t.role /\ k.target = t.target
                       /\ k.user = t.user
    BY GoesOn DEF Awaits
  <1>5. ~Counting(r) => k = NoTask
    OBVIOUS
  <1> HIDE DEF k
  <1>6. /\ task' \in [Requests -> Tasks] /\ task'[r] = k
        /\ \A x \in Requests \ {r} : task'[x] = task[x]
    BY <1>3, HandlerStep
  <1>7. /\ row' \in [Users -> Rows] /\ row'[v].state \in {"absent", "left"}
        /\ \A u \in Users : row'[u].role = row[u].role
        /\ \A u \in Users \ {v} : row'[u] = row[u]
        /\ row[v].state # "absent" => row'[v].state # "absent"
    BY <1>1 DEF Leave, Rows
  <1>8. Active' = Active \ {v}
    BY <1>1, <1>7 DEF Active
  <1>9. TypeOK'
    <2>1. tidy' \in BOOLEAN
      BY DEF Leave, IInv, TypeOK
    <2> QED
      BY <1>2, <1>6, <1>7, <2>1 DEF IInv, TypeOK
  <1>10. Owned' => Owned
    <2>1. Active \subseteq Users
      BY DEF Active
    <2> QED
      BY <1>2, <1>7, <1>8, <2>1 DEF Owned, HasRole
  <1>11. TaskOK(task[r])'
    BY <1>1, <1>2, <1>4, <1>5, <1>6, NoTaskOK DEF TaskOK, AwaitOK, Counting
  <1>12. SparesOwner(task[r])'
    BY <1>4, <1>5, <1>6, NoTaskOK DEF SparesOwner
  <1>13. Orderly' /\ CountIsExact'
    <2>1. tidy' => tidy /\ Counting(r) /\ v \in Active
      BY DEF Leave
    <2>2. CASE Counting(r)
      <3>1. Counting(r)'
        BY <1>4, <1>6, <2>2 DEF Counting
      <3>2. ASSUME tidy', CountOK(t) PROVE CountOK(task[r])'
        <4>1. t.seen = Cardinality(Active) /\ group.memberCount = t.seen /\ v \in Active
          BY <1>1, <2>1, <3>2 DEF CountOK
        <4>2. IsFiniteSet(Active) /\ Cardinality(Active) \in Nat
          BY UsersFinite DEF Active
        <4>3. /\ Cardinality(Active)' = Cardinality(Active) - 1
              /\ Cardinality(Active) # 0
          BY <1>8, <4>1, <4>2, FS_RemoveElement, FS_EmptySet
        <4>4. t.op = "remove"
          BY <1>1, <2>2 DEF Counting
        <4> QED
          BY <1>2, <1>4, <1>6, <2>2, <4>1, <4>2, <4>3, <4>4 DEF CountOK, NewCount
      <3> QED
        BY <1>2, <1>6, <2>1, <2>2, <3>1, <3>2, CountCarriedOn
    <2>3. CASE ~Counting(r)
      <3>1. ~Counting(r)'
        BY <1>5, <1>6, <2>3, NoTaskOK DEF Counting
      <3> QED
        BY <1>6, <2>1, <2>3, <3>1, CountUndisturbed
    <2> QED
      BY <2>2, <2>3
  <1> QED
    BY <1>1, <1>2, <1>6, <1>7, <1>9, <1>10, <1>11, <1>12, <1>13, WriteStep

(* A role is set, and never the owner's while he is there. *)
LEMMA SetRoleStep ==
  ASSUME IInv, NEW r \in Requests, SetRole(r)
  PROVE  IInv'
  <1> DEFINE t == task[r]
             v == task[r].target
  <1>1. /\ t.pc = "setRole" /\ t.op = "role" /\ v \in Users /\ t \in Tasks
        /\ t.role # "owner" /\ row \in [Users -> Rows]
    BY DEF IInv, TypeOK, TaskOK, AwaitOK, SetRole, At
  <1>2. UNCHANGED <<kind, group, tidy, ops, faults>>
    BY DEF SetRole
  <1>3. /\ task' \in [Requests -> Tasks] /\ task'[r] = NoTask
        /\ \A x \in Requests \ {r} : task'[x] = task[x]
    BY NoTaskOK, HandlerStep DEF SetRole, Finish
  <1>4. t.role \in Roles
    BY <1>1 DEF Tasks
  <1>5. /\ row' \in [Users -> Rows]
        /\ \A u \in Users : row'[u].state = row[u].state
        /\ \A u \in Users : row'[u] = row[u] \/ row'[u].role # "owner"
    BY <1>1, <1>4 DEF SetRole, Rows
  <1>6. TypeOK'
    BY <1>2, <1>3, <1>5 DEF IInv, TypeOK
  <1>7. Active' = Active
    BY <1>5 DEF Active
  <1>8. Owned' => Owned
    <2>1. Active \subseteq Users
      BY DEF Active
    <2> QED
      BY <1>2, <1>5, <1>7, <2>1 DEF Owned, HasRole
  <1>9. TaskOK(task[r])' /\ SparesOwner(task[r])'
    BY <1>3, NoTaskOK DEF TaskOK, AwaitOK, SparesOwner
  <1>10. Orderly' /\ CountIsExact'
    <2>1. ~Counting(r) /\ ~Counting(r)'
      BY <1>1, <1>3, NoTaskOK DEF Counting
    <2> QED
      BY <1>2, <1>3, <1>7, <2>1, CountUndisturbed
  <1> QED
    BY <1>1, <1>2, <1>3, <1>5, <1>6, <1>8, <1>9, <1>10, WriteStep

(* Settings are saved without the count. *)
LEMMA SaveSettingsStep ==
  ASSUME IInv, NEW r \in Requests, SaveSettings(r)
  PROVE  IInv'
  <1>1. /\ task[r].pc = "saveSettings" /\ task[r].op = "settings"
        /\ task[r] \in Tasks /\ group \in Groups
    BY DEF IInv, TypeOK, TaskOK, AwaitOK, SaveSettings, At
  <1>2. UNCHANGED <<kind, row, tidy, ops, faults>>
    BY DEF SaveSettings
  <1>3. /\ task' \in [Requests -> Tasks] /\ task'[r] = NoTask
        /\ \A x \in Requests \ {r} : task'[x] = task[x]
    BY NoTaskOK, HandlerStep DEF SaveSettings, Finish
  <1>4. /\ group' \in Groups /\ group'.ownerId = group.ownerId
        /\ group'.memberCount = group.memberCount
    BY <1>1 DEF SaveSettings, Groups
  <1>5. TypeOK'
    BY <1>2, <1>3, <1>4 DEF IInv, TypeOK
  <1>6. Active' = Active /\ (Owned' => Owned)
    BY <1>2, <1>4 DEF Active, Owned, HasRole
  <1>7. TaskOK(task[r])' /\ SparesOwner(task[r])'
    BY <1>3, NoTaskOK DEF TaskOK, AwaitOK, SparesOwner
  <1>8. Orderly' /\ CountIsExact'
    <2>1. ~Counting(r) /\ ~Counting(r)'
      BY <1>1, <1>3, NoTaskOK DEF Counting
    <2> QED
      BY <1>2, <1>3, <1>4, <1>6, <2>1, CountUndisturbed
  <1> QED
    BY <1>1, <1>2, <1>3, <1>4, <1>5, <1>6, <1>7, <1>8, WriteStep

(* The steps of getOrCreateDirect that write: no group is concerned. *)
LEMMA DirectStep ==
  ASSUME IInv, NEW r \in Requests, NEW pc \in Awaits, GoTo(r, pc),
         task[r].op = "open",
         pc \in {"insertOpener", "insertOther", "assertOpener"},
         UNCHANGED <<group, tidy, ops, faults>>,
         kind' = kind \/ (kind = "none" /\ kind' = "direct"),
         row' \in [Users -> Rows],
         \A u \in Users : row[u].state # "absent" => row'[u].state # "absent",
         pc = "insertOther" => row'[task[r].user].state # "absent"
  PROVE  IInv'
  <1>1. PICK k : k = [task[r] EXCEPT !.pc = pc]
    OBVIOUS
  <1>2. /\ k \in Tasks /\ k.pc = pc /\ k.op = "open" /\ k.user = task[r].user
        /\ k.role = task[r].role /\ task' = [task EXCEPT ![r] = k]
    BY <1>1, GoesOn
  <1>3. /\ task' \in [Requests -> Tasks] /\ task'[r] = k
        /\ \A x \in Requests \ {r} : task'[x] = task[x]
    BY <1>2, HandlerStep
  <1>4. TaskOK(task[r]) /\ kind # "group" /\ kind' # "group"
    BY DEF IInv, TaskOK
  <1>5. kind' \in {"none", "direct", "group"}
    BY DEF IInv, TypeOK
  <1>6. TypeOK'
    BY <1>3, <1>5 DEF IInv, TypeOK
  <1>7. TaskOK(task[r])' /\ SparesOwner(task[r])'
    BY <1>2, <1>3, <1>4 DEF TaskOK, AwaitOK, SparesOwner
  <1>8. Orderly' /\ CountIsExact' /\ ~Owned'
    BY <1>4 DEF Orderly, CountIsExact, Owned
  <1> QED
    BY <1>2, <1>3, <1>6, <1>7, <1>8, WriteStep

(* A direct thread comes to be, with its rows. *)
LEMMA DirectSteps ==
  ASSUME IInv, NEW r \in Requests,
         CreateDirect(r) \/ InsertOpener(r) \/ InsertOther(r)
  PROVE  IInv'
  <1>1. /\ TaskOK(task[r]) /\ row \in [Users -> Rows]
        /\ {"insertOpener", "insertOther", "assertOpener"} \subseteq Awaits
    BY DEF IInv, TypeOK, Awaits
  <1>2. /\ RowOf("member") \in Rows /\ RowOf("member").state = "active"
    BY DEF RowOf, Rows, Roles
  <1>3. CASE CreateDirect(r)
    <2>1. task[r].pc = "create" /\ task[r].op = "open"
      BY <1>1, <1>3 DEF CreateDirect, At, TaskOK, AwaitOK
    <2>2. UNCHANGED <<group, row, tidy, ops, faults>>
      BY <1>3 DEF CreateDirect
    <2>3. CASE kind = "none"
      BY <1>1, <1>3, <2>1, <2>2, <2>3, DirectStep DEF CreateDirect
    <2>4. CASE kind # "none"
      BY <1>1, <1>3, <2>1, <2>2, <2>4, DirectStep DEF CreateDirect
    <2> QED
      BY <2>3, <2>4
  <1>4. CASE InsertOpener(r)
    <2>1. task[r].pc = "insertOpener" /\ task[r].op = "open" /\ task[r].user \in Users
      BY <1>1, <1>4, ConstantsAssumption DEF InsertOpener, At, TaskOK, AwaitOK
    <2>2. /\ row' \in [Users -> Rows] /\ row'[task[r].user].state # "absent"
          /\ \A u \in Users : row[u].state # "absent" => row'[u].state # "absent"
      BY <1>1, <1>2, <1>4, <2>1 DEF InsertOpener
    <2> QED
      BY <1>1, <1>4, <2>1, <2>2, DirectStep DEF InsertOpener
  <1>5. CASE InsertOther(r)
    <2>1. /\ task[r].pc = "insertOther" /\ task[r].op = "open"
          /\ row[task[r].user].state # "absent"
      BY <1>1, <1>5 DEF InsertOther, At, TaskOK, AwaitOK
    <2>2. \A u \in Users : row'[u] = IF u \in Pair \ {task[r].user}
                                   THEN RowOf("member") ELSE row[u]
      BY <1>5 DEF InsertOther
    <2>3. /\ row' \in [Users -> Rows]
          /\ \A u \in Users : row[u].state # "absent" => row'[u].state # "absent"
      BY <1>1, <1>2, <1>5, <2>2 DEF InsertOther
    <2> QED
      BY <1>1, <1>5, <2>1, <2>3, DirectStep DEF InsertOther
  <1> QED
    BY <1>3, <1>4, <1>5

(* A group starts with its owner and the right count. *)
LEMMA CreateGroupStep ==
  ASSUME IInv, NEW owner \in Users, NEW memberIds \in SUBSET Users,
         CreateGroup(owner, memberIds)
  PROVE  IInv'
  <1> DEFINE others == memberIds \ {owner}
  <1>1. /\ UNCHANGED <<task, tidy, ops, faults>> /\ kind' = "group"
        /\ group' = [memberCount |-> Cardinality(others) + 1,
                     ownerId |-> owner, strict |-> FALSE]
    BY DEF CreateGroup
  <1>2. IsFiniteSet(others) /\ Cardinality(others) \in Nat
    BY UsersFinite
  <1>3. \A role \in Roles : RowOf(role) \in Rows /\ RowOf(role).state = "active"
    BY DEF RowOf, Rows
  <1>4. /\ NoRow \in Rows /\ NoRow.state # "active"
        /\ {"owner", "member"} \subseteq Roles
    BY DEF NoRow, Rows, Roles
  <1>5. row' = [u \in Users |-> IF u = owner THEN RowOf("owner")
                                ELSE IF u \in memberIds THEN RowOf("member")
                                ELSE NoRow]
    BY DEF CreateGroup
  <1>6. group' \in Groups
    BY <1>1, <1>2 DEF Groups
  <1>7. TypeOK'
    BY <1>1, <1>3, <1>4, <1>5, <1>6 DEF IInv, TypeOK
  <1>8. Cardinality(Active)' = group'.memberCount
    <2>1. Active' = others \cup {owner}
      BY <1>3, <1>4, <1>5 DEF Active
    <2>2. Cardinality(others \cup {owner}) = Cardinality(others) + 1
      BY <1>2, FS_AddElement
    <2> QED
      BY <1>1, <2>1, <2>2
  <1>9. \A r \in Requests : task[r].pc = "idle" /\ task[r].op = "none"
    <2>1. \A r \in Requests : task[r].pc = "idle" /\ TaskOK(task[r])
      BY DEF CreateGroup, Idle, IInv
    <2> QED
      BY <2>1 DEF TaskOK, AwaitOK
  <1>10. \A r \in Requests : TaskOK(task[r])' /\ SparesOwner(task[r])'
    BY <1>1, <1>9 DEF IInv, TaskOK, AwaitOK, SparesOwner
  <1>11. Orderly' /\ CountIsExact'
    BY <1>1, <1>8, <1>9 DEF Orderly, CountIsExact, Counting
  <1> QED
    BY <1>1, <1>7, <1>10, <1>11 DEF IInv

(* Handlers die without having done anything. *)
LEMMA FaultStep ==
  ASSUME IInv, task' \in [Requests -> Tasks],
         \A x \in Requests : task'[x] = task[x] \/ task'[x] = NoTask,
         faults < MaxFaults, faults' = faults + 1, tidy' = FALSE,
         UNCHANGED <<kind, group, row, ops>>
  PROVE  IInv'
  <1>1. TypeOK' /\ faults' # 0
    <2>1. faults' \in 0..MaxFaults /\ faults' # 0
      BY ConstantsAssumption DEF IInv, TypeOK
    <2> QED
      BY <2>1 DEF IInv, TypeOK
  <1>2. Active' = Active /\ (Owned' <=> Owned)
    BY DEF Active, Owned, HasRole
  <1>3. ASSUME NEW x \in Requests PROVE TaskOK(task[x])' /\ SparesOwner(task[x])'
    <2>1. PICK k : k = task'[x] /\ TaskOK(k) /\ SparesOwner(k)
      BY NoTaskOK DEF IInv
    <2> QED
      BY <1>2, <2>1 DEF TaskOK, AwaitOK, SparesOwner
  <1> QED
    BY <1>1, <1>3 DEF IInv, Orderly, CountIsExact

(* Crashes and failed round trips. *)
LEMMA FaultSteps ==
  ASSUME IInv, Crash \/ \E r \in Requests : Abort(r)
  PROVE  IInv'
  <1>1. CASE Crash
    BY <1>1, NoTaskOK, FaultStep DEF Crash
  <1>2. ASSUME NEW r \in Requests, Abort(r) PROVE IInv'
    <2>1. /\ task' \in [Requests -> Tasks] /\ task'[r] = NoTask
          /\ \A x \in Requests \ {r} : task'[x] = task[x]
      BY <1>2, NoTaskOK, HandlerStep DEF Abort, Finish
    <2> QED
      BY <1>2, <2>1, FaultStep DEF Abort
  <1> QED
    BY <1>1, <1>2

(* The inductive invariant is preserved by every step. *)
LEMMA NextIInv == IInv /\ [Next]_vars => IInv'
  <1> SUFFICES ASSUME IInv, [Next]_vars PROVE IInv'
    OBVIOUS
  <1>1. CASE UNCHANGED vars
    <2>1. UNCHANGED <<kind, group, row, task, tidy, ops, faults>>
      BY <1>1 DEF vars
    <2>2. TypeOK'
      BY <2>1 DEF IInv, TypeOK
    <2>3. Active' = Active /\ (Owned' <=> Owned)
      BY <2>1 DEF Active, Owned, HasRole
    <2>4. \A r \in Requests : TaskOK(task[r])' /\ SparesOwner(task[r])'
      BY <2>1, <2>3 DEF IInv, TaskOK, AwaitOK, SparesOwner
    <2>5. Orderly'
      <3> SUFFICES ASSUME tidy, kind = "group" PROVE Orderly'
        BY <2>1 DEF Orderly
      <3>1. /\ \A r, s \in Requests : Counting(r) /\ Counting(s) => r = s
            /\ \A r \in Requests : Counting(r) => CountOK(task[r])
        BY DEF IInv, Orderly
      <3>2. \A r, s \in Requests : Counting(r)' /\ Counting(s)' => r = s
        BY <2>1, <3>1 DEF Counting
      <3>3. \A r \in Requests : Counting(r)' => CountOK(task[r])'
        BY <2>1, <2>3, <3>1 DEF Counting, CountOK, NewCount
      <3> QED
        BY <3>2, <3>3 DEF Orderly
    <2>6. CountIsExact'
      BY <2>1, <2>3 DEF IInv, CountIsExact, Counting
    <2> QED
      BY <2>2, <2>4, <2>5, <2>6, <2>1 DEF IInv
  <1>2. ASSUME NEW u \in Users, NEW ids \in SUBSET Users, CreateGroup(u, ids)
        PROVE  IInv'
    BY <1>2, CreateGroupStep
  <1>3. ASSUME NEW r \in Requests, NEW u \in Users, Request(r, u) PROVE IInv'
    BY <1>3, RequestSteps
  <1>4. ASSUME NEW r \in Requests, Step(r) PROVE IInv'
    BY <1>4, CheckSteps, ListMembersStep, UpsertStep, SaveCountStep, LeaveStep,
       SetRoleStep, SaveSettingsStep, DirectSteps DEF Step
  <1>5. CASE Crash \/ \E r \in Requests : Abort(r)
    BY <1>5, FaultSteps
  <1> QED
    BY <1>1, <1>2, <1>3, <1>4, <1>5 DEF Next

(* The inductive invariant holds throughout. *)
LEMMA Invariance == Spec => []IInv
  BY InitIInv, NextIInv, PTL DEF Spec

(* Handler r moves on, and whoever had no row of a thread has none now.    *)
LEMMA ThreadUndisturbed ==
  ASSUME ThreadOK, NEW r \in Requests,
         \A x \in Requests \ {r} : task'[x] = task[x],
         task[r].pc \notin {"insertOpener", "insertOther"},
         task'[r].pc \notin {"insertOpener", "insertOther"},
         kind' = kind, faults' = faults,
         kind # "group" =>
           \A u \in Users : row'[u].state = "absent" <=> row[u].state = "absent"
  PROVE  ThreadOK'
  <1>1. \A x \in Requests : /\ task'[x].pc \in {"insertOpener", "insertOther"}
                               => task[x].pc \in {"insertOpener", "insertOther"}
                                  /\ task'[x] = task[x]
                            /\ task[x].pc \in {"insertOpener", "insertOther"}
                               => task'[x] = task[x]
    OBVIOUS
  <1>2. \A x \in Requests, u \in Pair : Inserts(x, u)' <=> Inserts(x, u)
    BY <1>1 DEF Inserts, At
  <1>3. \A x \in Requests, u \in Pair : Inserts(x, u) => kind = "direct"
    BY DEF ThreadOK, Inserts, At
  <1>4. NoHalfThread'
    BY <1>2, <1>3, ConstantsAssumption DEF ThreadOK, NoHalfThread
  <1> QED
    BY <1>1, <1>4 DEF ThreadOK

(* Where a handler is after its step. *)
LEMMA MovesOn ==
  ASSUME IInv, NEW r \in Requests, NEW pc, Finish(r) \/ GoTo(r, pc)
  PROVE  /\ \A x \in Requests \ {r} : task'[x] = task[x]
         /\ task'[r].pc \in {"idle", pc}
         /\ GoTo(r, pc) => task'[r].pc = pc /\ task'[r].user = task[r].user
  BY NoTaskOK DEF IInv, TypeOK, Tasks, Finish, GoTo, NoTask

(* A request arrives, and nothing else happens to a thread. *)
LEMMA ThreadRequests ==
  ASSUME IInv, ThreadOK, NEW r \in Requests, NEW u \in Users, Request(r, u)
  PROVE  ThreadOK'
  <1>1. ASSUME NEW k, Begin(r, k), k.pc \notin {"insertOpener", "insertOther"}
        PROVE  ThreadOK'
    <2>1. /\ UNCHANGED <<kind, row, faults>> /\ task[r].pc = "idle"
          /\ task' = [task EXCEPT ![r] = k]
      BY <1>1 DEF Begin, Idle
    <2>2. /\ \A x \in Requests \ {r} : task'[x] = task[x]
          /\ task'[r].pc \notin {"insertOpener", "insertOther"}
      BY <1>1, <2>1 DEF IInv, TypeOK
    <2> QED
      BY <2>1, <2>2, ThreadUndisturbed
  <1>2. ASSUME NEW ids \in SUBSET Users, AddMembers(r, u, ids) PROVE ThreadOK'
    <2> DEFINE k == [NoTask EXCEPT !.op = "add", !.pc = "assertAdder", !.user = u,
                                   !.ids = ids, !.seen = group.memberCount,
                                   !.strict = group.strict]
    <2>1. k.pc = "assertAdder"
      BY DEF NoTask
    <2> QED
      BY <1>1, <1>2, <2>1 DEF AddMembers
  <1>3. ASSUME NEW v \in Users, RemoveMember(r, u, v) PROVE ThreadOK'
    <2> DEFINE k == [NoTask EXCEPT !.op = "remove", !.user = u, !.target = v,
                                   !.pc = IF u = v THEN "checkSelf"
                                          ELSE "assertRemover",
                                   !.seen = group.memberCount]
    <2>1. k.pc \in {"checkSelf", "assertRemover"}
      BY DEF NoTask
    <2> QED
      BY <1>1, <1>3, <2>1 DEF RemoveMember
  <1>4. ASSUME NEW v \in Users, NEW role \in {"admin", "member"},
               UpdateRole(r, u, v, role)
        PROVE  ThreadOK'
    <2> DEFINE k == [NoTask EXCEPT !.op = "role", !.pc = "assertOwner", !.user = u,
                                   !.target = v, !.role = role]
    <2>1. k.pc = "assertOwner"
      BY DEF NoTask
    <2> QED
      BY <1>1, <1>4, <2>1 DEF UpdateRole
  <1>5. CASE UpdateSettings(r, u)
    <2> DEFINE k == [NoTask EXCEPT !.op = "settings", !.pc = "assertAdmin",
                                   !.user = u, !.strict = group.strict]
    <2>1. k.pc = "assertAdmin"
      BY DEF NoTask
    <2> QED
      BY <1>1, <1>5, <2>1 DEF UpdateSettings
  <1>6. CASE LeaveRoute(r, u)
    <2> DEFINE k == [NoTask EXCEPT !.op = "leave", !.pc = "leave", !.user = u,
                                   !.target = u]
    <2>1. k.pc = "leave"
      BY DEF NoTask
    <2> QED
      BY <1>1, <1>6, <2>1 DEF LeaveRoute
  <1>7. CASE OpenDirect(r, u)
    <2> DEFINE k == [NoTask EXCEPT !.op = "open", !.user = u,
                                   !.pc = IF kind = "direct" THEN "assertOpener"
                                          ELSE "create"]
    <2>1. k.pc \in {"assertOpener", "create"}
      BY DEF NoTask
    <2> QED
      BY <1>1, <1>7, <2>1 DEF OpenDirect
  <1> QED
    BY <1>2, <1>3, <1>4, <1>5, <1>6, <1>7 DEF Request

(* What is done in groups, and the departures, leave a thread with the rows *)
(* it has.                                                                 *)
LEMMA ThreadSteps ==
  ASSUME IInv, ThreadOK, NEW r \in Requests, Step(r),
         ~CreateDirect(r), ~InsertOpener(r), ~InsertOther(r)
  PROVE  ThreadOK'
  <1> DEFINE Past == {"insertOpener", "insertOther"}
  <1>1. TaskOK(task[r]) /\ task[r] \in Tasks
    BY DEF IInv, TypeOK
  <1>2. ASSUME NEW pc, pc \notin Past, Finish(r) \/ GoTo(r, pc),
               task[r].pc \notin Past, UNCHANGED <<kind, row, faults>>
        PROVE  ThreadOK'
    BY <1>2, MovesOn, ThreadUndisturbed
  <1>3. CASE AssertAdder(r) \/ CheckSelf(r) \/ AssertRemover(r)
    BY <1>2, <1>3 DEF AssertAdder, CheckSelf, AssertRemover, Check, At
  <1>4. CASE CheckTarget(r) \/ AssertOwner(r) \/ CheckRole(r)
    BY <1>2, <1>4 DEF CheckTarget, AssertOwner, CheckRole, Check, At
  <1>5. CASE AssertAdmin(r) \/ SaveSettings(r) \/ SaveCount(r) \/ AssertOpener(r)
    BY <1>2, <1>5 DEF AssertAdmin, SaveSettings, SaveCount, AssertOpener, Check, At
  <1>6. CASE ListMembers(r)
    <2>1. /\ task[r].pc = "listMembers" /\ UNCHANGED <<kind, row, faults>>
          /\ \A x \in Requests \ {r} : task'[x] = task[x]
          /\ task'[r].pc \in {"idle", "upsert"}
      BY <1>6, NoTaskOK DEF ListMembers, Finish, NoTask, At, IInv, TypeOK, Tasks
    <2> QED
      BY <2>1, ThreadUndisturbed
  <1>7. CASE Upsert(r)
    <2>1. /\ task[r].pc = "upsert" /\ UNCHANGED <<kind, faults>> /\ kind = "group"
          /\ \A x \in Requests \ {r} : task'[x] = task[x]
          /\ task'[r].pc \in {"upsert", "saveCount"}
      BY <1>1, <1>7 DEF Upsert, At, IInv, TypeOK, Tasks, TaskOK, AwaitOK
    <2> QED
      BY <2>1, ThreadUndisturbed
  <1>8. CASE Leave(r)
    <2>1. /\ task[r].pc = "leave" /\ UNCHANGED <<kind, faults>>
          /\ \A u \in Users : row'[u].state = "absent" <=> row[u].state = "absent"
      BY <1>8 DEF Leave, At, IInv, TypeOK, Rows
    <2>2. Finish(r) \/ GoTo(r, "saveCount")
      BY <1>8 DEF Leave
    <2> QED
      BY <2>1, <2>2, MovesOn, ThreadUndisturbed
  <1>9. CASE SetRole(r)
    <2>1. /\ task[r].pc = "setRole" /\ UNCHANGED <<kind, faults>>
          /\ \A u \in Users : row'[u].state = row[u].state
      BY <1>9 DEF SetRole, At, IInv, TypeOK, Rows
    <2>2. Finish(r)
      BY <1>9 DEF SetRole
    <2> QED
      BY <2>1, <2>2, MovesOn, ThreadUndisturbed
  <1> QED
    BY <1>3, <1>4, <1>5, <1>6, <1>7, <1>8, <1>9 DEF Step

(* Who finds no thread creates it, and is then alone with the insertion of *)
(* its rows.                                                               *)
LEMMA ThreadOpened ==
  ASSUME IInv, ThreadOK, NEW r \in Requests,
         CreateDirect(r) \/ InsertOpener(r) \/ InsertOther(r)
  PROVE  ThreadOK'
  <1> DEFINE Past == {"insertOpener", "insertOther"}
  <1>1. /\ TaskOK(task[r]) /\ Pair \subseteq Users
        /\ row \in [Users -> Rows] /\ RowOf("member").state = "active"
    BY ConstantsAssumption DEF IInv, TypeOK, RowOf
  <1>2. /\ \A x \in Requests : task[x].pc \in Past => kind = "direct"
        /\ \A x, y \in Requests :
             task[x].pc \in Past /\ task[y].pc \in Past => x = y
    BY DEF ThreadOK
  <1>3. CASE CreateDirect(r) /\ kind # "none"
    <2>1. /\ task[r].pc = "create" /\ UNCHANGED <<kind, row, faults>>
          /\ GoTo(r, "assertOpener")
      BY <1>3 DEF CreateDirect, At
    <2> QED
      BY <2>1, MovesOn, ThreadUndisturbed
  <1>4. CASE CreateDirect(r) /\ kind = "none"
    <2>1. /\ UNCHANGED <<row, faults>> /\ kind' = "direct"
          /\ \A x \in Requests \ {r} : task'[x] = task[x]
          /\ task'[r].pc = "insertOpener"
      BY <1>4, MovesOn DEF CreateDirect
    <2>2. \A x \in Requests : task[x].pc \notin Past
      BY <1>2, <1>4
    <2>3. \A x \in Requests, u \in Pair : Inserts(x, u)' <=> x = r
      BY <2>1, <2>2 DEF Inserts, At
    <2>4. \A u \in Users : row[u].state = "absent"
      BY <1>4 DEF ThreadOK
    <2>5. NoHalfThread'
      BY <1>1, <2>1, <2>3, <2>4 DEF NoHalfThread
    <2> QED
      BY <2>1, <2>2, <2>5 DEF ThreadOK
  <1>5. CASE InsertOpener(r)
    <2>1. /\ UNCHANGED <<kind, faults>> /\ task[r].pc = "insertOpener"
          /\ \A x \in Requests \ {r} : task'[x] = task[x]
          /\ task'[r].pc = "insertOther" /\ task'[r].user = task[r].user
          /\ row' = [row EXCEPT ![task[r].user] = RowOf("member")]
      BY <1>5, MovesOn DEF InsertOpener, At
    <2>2. \A x \in Requests \ {r} : task'[x].pc \notin Past
      BY <1>2, <2>1
    <2>3. \A x \in Requests, u \in Pair :
            /\ Inserts(x, u)' <=> x = r /\ u # task[r].user
            /\ Inserts(r, u)
      BY <2>1, <2>2 DEF Inserts, At
    <2>4. \A u \in Pair : row'[u].state = "absent" <=> u # task[r].user
      BY <1>1, <2>1, <2>3 DEF ThreadOK, NoHalfThread
    <2>5. NoHalfThread'
      BY <2>1, <2>3, <2>4 DEF NoHalfThread
    <2> QED
      BY <1>2, <2>1, <2>2, <2>5 DEF ThreadOK
  <1>6. CASE InsertOther(r)
    <2>1. /\ UNCHANGED <<kind, faults>> /\ task[r].pc = "insertOther"
          /\ \A x \in Requests \ {r} : task'[x] = task[x]
          /\ task'[r].pc = "assertOpener" /\ row[task[r].user].state # "absent"
          /\ \A u \in Users : row'[u] = IF u \in Pair \ {task[r].user}
                                      THEN RowOf("member") ELSE row[u]
      BY <1>1, <1>6, MovesOn DEF InsertOther, At, TaskOK
    <2>2. \A x \in Requests : task'[x].pc \notin Past
      BY <1>2, <2>1
    <2>3. \A x \in Requests, u \in Pair : ~Inserts(x, u)'
      BY <2>2 DEF Inserts, At
    <2>4. \A u \in Pair : row'[u].state # "absent"
      BY <1>1, <2>1
    <2>5. NoHalfThread'
      BY <2>3, <2>4 DEF NoHalfThread
    <2> QED
      BY <1>2, <2>1, <2>2, <2>5 DEF ThreadOK
  <1> QED
    BY <1>3, <1>4, <1>5, <1>6

(* The rows of a thread, throughout. *)
LEMMA ThreadNext == IInv /\ ThreadOK /\ [Next]_vars => ThreadOK'
  <1> SUFFICES ASSUME IInv, ThreadOK, [Next]_vars PROVE ThreadOK'
    OBVIOUS
  <1>1. CASE UNCHANGED vars
    BY <1>1 DEF vars, ThreadOK, NoHalfThread, Inserts, At
  <1>2. ASSUME NEW u \in Users, NEW ids \in SUBSET Users, CreateGroup(u, ids)
        PROVE  ThreadOK'
    <2>1. /\ kind' = "group" /\ task' = task
          /\ \A r \in Requests : task[r].pc = "idle"
      BY <1>2 DEF CreateGroup, Idle
    <2> QED
      BY <2>1 DEF ThreadOK, NoHalfThread, Inserts, At
  <1>3. CASE Crash \/ \E r \in Requests : Abort(r)
    <2>1. /\ UNCHANGED <<kind, row>> /\ faults' # 0
          /\ \A x \in Requests : \/ task'[x] = task[x]
                                 \/ task'[x].pc = "idle"
      BY <1>3, ConstantsAssumption
         DEF Crash, Abort, Finish, NoTask, IInv, TypeOK
    <2>2. \A x \in Requests, u \in Pair : Inserts(x, u)' => Inserts(x, u)
      BY <2>1 DEF Inserts, At
    <2>3. NoHalfThread'
      BY <2>1, <2>2 DEF ThreadOK, NoHalfThread
    <2> QED
      BY <2>1, <2>3 DEF ThreadOK
  <1> QED
    BY <1>1, <1>2, <1>3, ThreadRequests, ThreadSteps, ThreadOpened DEF Next

------------------------------------------------------------------------------
(* The theorems.                                                           *)

(* Whatever the requests, their order and the faults, the documents and    *)
(* the handlers keep their shape.                                          *)
THEOREM TypeCorrect == Spec => []TypeOK
  BY Invariance, PTL DEF IInv

(* memberCount (groups.service.ts:45, 121, 162) is the number of active    *)
(* rows unless one of the listed disturbances happened.                    *)
THEOREM CountsAreExact == Spec => []CountIsExact
  BY Invariance, PTL DEF IInv

(* A direct thread (conversations.service.ts:53-73) gets each of its rows  *)
(* once, and without faults it has them or somebody is inserting them.     *)
THEOREM NoHalfThreads == Spec => []NoHalfThread
  <1>1. Init => ThreadOK
    BY DEF Init, ThreadOK, NoHalfThread, Inserts, At, NoTask, NoRow
  <1>2. ThreadOK => NoHalfThread
    BY DEF ThreadOK
  <1> QED
    BY Invariance, ThreadNext, <1>1, <1>2, PTL DEF Spec

(* What a step does to the ownership of a group. *)
LEMMA OwnerKept ==
  ASSUME IInv, [Next]_vars, Owned
  PROVE  Owned' \/ \E r \in Requests : OwnerWalksOut(r)
  <1> DEFINE o == group.ownerId
  <1>1. /\ o \in Users /\ row \in [Users -> Rows] /\ kind = "group"
        /\ row[o].state = "active" /\ row[o].role = "owner"
    BY DEF IInv, TypeOK, Owned, HasRole, Active
  <1>2. ASSUME kind' = kind, group'.ownerId = o, row'[o] = row[o] PROVE Owned'
    BY <1>1, <1>2 DEF Owned, HasRole, Active
  <1>3. ASSUME UNCHANGED <<kind, group, row>> PROVE Owned'
    BY <1>2, <1>3
  <1>4. ASSUME NEW r \in Requests, Step(r)
        PROVE  Owned' \/ OwnerWalksOut(r)
    <2>1. TaskOK(task[r]) /\ SparesOwner(task[r]) /\ task[r].op # "open"
      BY <1>1 DEF IInv, TaskOK
    <2>2. CASE Upsert(r)
      <3>1. PICK u \in task[r].ids : row' = [row EXCEPT ![u] = RowOf("member")]
        BY <2>2 DEF Upsert
      <3>2. o \notin task[r].ids
        BY <2>1, <2>2 DEF SparesOwner, Upsert, At
      <3> QED
        BY <1>1, <1>2, <2>2, <3>1, <3>2 DEF Upsert
    <2>3. CASE Leave(r)
      <3>1. CASE task[r].target # o
        BY <1>1, <1>2, <2>3, <3>1 DEF Leave
      <3>2. CASE task[r].target = o
        <4>1. task[r].pc = "leave" /\ task[r].op = "leave" /\ ~Counting(r)
          BY <2>1, <2>3, <3>2 DEF Leave, At, TaskOK, AwaitOK, SparesOwner, Counting
        <4>2. Idle(r)'
          BY <2>3, <4>1, NoTaskOK, HandlerStep DEF Leave, Finish, Idle
        <4> QED
          BY <3>2, <4>1, <4>2 DEF OwnerWalksOut, At
      <3> QED
        BY <3>1, <3>2
    <2>4. CASE SetRole(r)
      <3>1. task[r].target # o
        BY <2>1, <2>4 DEF SetRole, At, SparesOwner
      <3> QED
        BY <1>1, <1>2, <2>4, <3>1 DEF SetRole
    <2>5. CASE SaveCount(r) \/ SaveSettings(r)
      <3>1. group \in Groups
        BY DEF IInv, TypeOK
      <3> QED
        BY <1>2, <2>5, <3>1 DEF SaveCount, SaveSettings, Groups
    <2>6. CASE CreateDirect(r) \/ InsertOpener(r) \/ InsertOther(r)
      BY <2>1, <2>6 DEF CreateDirect, InsertOpener, InsertOther, At, TaskOK, AwaitOK
    <2>7. CASE AssertAdder(r) \/ AssertRemover(r) \/ AssertOwner(r) \/ AssertAdmin(r)
      BY <1>3, <2>7 DEF AssertAdder, AssertRemover, AssertOwner, AssertAdmin
    <2>8. CASE \/ ListMembers(r) \/ CheckSelf(r) \/ CheckTarget(r) \/ CheckRole(r)
               \/ AssertOpener(r)
      BY <1>3, <2>8 DEF ListMembers, CheckSelf, CheckTarget, CheckRole, AssertOpener
    <2> QED
      BY <1>4, <2>2, <2>3, <2>4, <2>5, <2>6, <2>7, <2>8 DEF Step
  <1>5. ASSUME NEW r \in Requests, NEW u \in Users, Request(r, u)
        PROVE  UNCHANGED <<kind, group, row>>
    BY <1>5 DEF Request, AddMembers, RemoveMember, UpdateRole, UpdateSettings,
                LeaveRoute, OpenDirect, Begin
  <1>6. ASSUME NEW u \in Users, NEW ids \in SUBSET Users, CreateGroup(u, ids)
        PROVE  FALSE
    BY <1>1, <1>6 DEF CreateGroup
  <1>7. CASE Crash \/ \E r \in Requests : Abort(r)
    BY <1>3, <1>7 DEF Crash, Abort
  <1>8. CASE UNCHANGED vars
    BY <1>3, <1>8 DEF vars
  <1> QED
    BY <1>3, <1>4, <1>5, <1>6, <1>7, <1>8 DEF Next

(* Only the owner ends an ownership, and only by the leave route: every    *)
(* check of groups.service.ts:139-143, 156-158 and 188-190 still holds     *)
(* when the update it allowed is made.                                     *)
THEOREM OwnersStepDown == Spec => OwnerStepsDown
  <1>1. IInv /\ [Next]_vars =>
          [Owned => Owned' \/ \E r \in Requests : OwnerWalksOut(r)]_vars
    BY OwnerKept
  <1> QED
    BY Invariance, <1>1, PTL DEF Spec, OwnerStepsDown

------------------------------------------------------------------------------
(* The refinement of MembershipRules.                                      *)

(* Roles change as they are allowed to: owner is what one is from the      *)
(* creation of the group, and what the document says.                      *)
LEMMA OneOwnerKept ==
  ASSUME IInv, OneOwner, [Next]_vars
  PROVE  OneOwner'
  <1>1. row \in [Users -> Rows] /\ group \in Groups
    BY DEF IInv, TypeOK
  <1>2. /\ RowOf("member").role = "member" /\ RowOf("owner").role = "owner"
        /\ NoRow.role = "member"
    BY DEF RowOf, NoRow
  <1>3. ASSUME kind' = kind, group'.ownerId = group.ownerId,
               \A u \in Users : row'[u].role = "owner" => row[u].role = "owner"
        PROVE  OneOwner'
    BY <1>3 DEF OneOwner
  <1>4. ASSUME UNCHANGED <<kind, group, row>> PROVE OneOwner'
    BY <1>3, <1>4
  <1>5. ASSUME NEW r \in Requests, Step(r) PROVE OneOwner'
    <2>1. TaskOK(task[r]) /\ task[r] \in Tasks
      BY DEF IInv, TypeOK
    <2>2. CASE Upsert(r)
      <3>1. PICK u \in task[r].ids : row' = [row EXCEPT ![u] = RowOf("member")]
        BY <2>2 DEF Upsert
      <3> QED
        BY <1>1, <1>2, <1>3, <2>2, <3>1 DEF Upsert
    <2>3. CASE Leave(r)
      BY <1>1, <1>3, <2>3 DEF Leave, Rows
    <2>4. CASE SetRole(r)
      BY <1>1, <1>3, <2>1, <2>4 DEF SetRole, Rows, TaskOK
    <2>5. CASE SaveCount(r) \/ SaveSettings(r)
      BY <1>1, <1>3, <2>5 DEF SaveCount, SaveSettings, Groups
    <2>6. CASE CreateDirect(r)
      <3>1. \A u \in Users : row[u].role # "owner"
        BY <2>1, <2>6 DEF CreateDirect, At, TaskOK, AwaitOK, OneOwner
      <3> QED
        BY <2>6, <3>1 DEF CreateDirect, OneOwner
    <2>7. CASE InsertOpener(r)
      BY <1>1, <1>2, <1>3, <2>7 DEF InsertOpener
    <2>8. CASE InsertOther(r)
      BY <1>1, <1>2, <1>3, <2>8 DEF InsertOther
    <2>9. CASE \/ AssertAdder(r) \/ AssertRemover(r) \/ AssertOwner(r)
               \/ AssertAdmin(r) \/ AssertOpener(r)
      BY <1>4, <2>9 DEF AssertAdder, AssertRemover, AssertOwner, AssertAdmin,
                        AssertOpener
    <2>10. CASE ListMembers(r) \/ CheckSelf(r) \/ CheckTarget(r) \/ CheckRole(r)
      BY <1>4, <2>10 DEF ListMembers, CheckSelf, CheckTarget, CheckRole
    <2> QED
      BY <1>5, <2>2, <2>3, <2>4, <2>5, <2>6, <2>7, <2>8, <2>9, <2>10 DEF Step
  <1>6. ASSUME NEW r \in Requests, NEW u \in Users, Request(r, u)
        PROVE  OneOwner'
    BY <1>4, <1>6 DEF Request, AddMembers, RemoveMember, UpdateRole, UpdateSettings,
                      LeaveRoute, OpenDirect, Begin
  <1>7. ASSUME NEW u \in Users, NEW ids \in SUBSET Users, CreateGroup(u, ids)
        PROVE  OneOwner'
    BY <1>2, <1>7 DEF CreateGroup, OneOwner
  <1>8. CASE Crash \/ \E r \in Requests : Abort(r)
    BY <1>4, <1>8 DEF Crash, Abort
  <1>9. CASE UNCHANGED vars
    BY <1>4, <1>9 DEF vars
  <1> QED
    BY <1>5, <1>6, <1>7, <1>8, <1>9 DEF Next

(* A group has one owner at most, the one its document names.              *)
THEOREM OwnerIsUnique == Spec => []OneOwner
  <1>1. Init => OneOwner
    BY DEF Init, OneOwner, NoRow
  <1>2. IInv /\ OneOwner /\ [Next]_vars => OneOwner'
    BY OneOwnerKept
  <1> QED
    BY Invariance, <1>1, <1>2, PTL DEF Spec

(* A step of handler r can only add warrants of r.                         *)
LEMMA WarrantsKept ==
  ASSUME NEW r \in Requests,
         \A x \in Requests \ {r} : task'[x] = task[x]
  PROVE  Outstanding' \subseteq Outstanding \cup Warrants(task'[r])
  <1>1. ASSUME NEW x \in Requests
        PROVE  Warrants(task'[x]) \subseteq Outstanding \cup Warrants(task'[r])
    BY DEF Outstanding
  <1>2. Outstanding' = UNION {Warrants(task'[x]) : x \in Requests}
    BY DEF Outstanding, Warrants
  <1> QED
    BY <1>1, <1>2

(* A finished handler holds none. *)
LEMMA NoWarrants == Warrants(NoTask) = {}
  BY NoTaskOK DEF Warrants


(* Handlers that change no row: what they are allowed afterwards they were *)
(* allowed before, or have just been found entitled to.                    *)
LEMMA ObtainStep ==
  ASSUME NEW r \in Requests,
         \A x \in Requests \ {r} : task'[x] = task[x],
         UNCHANGED <<kind, row, group.strict>>,
         \A w \in Warrants(task'[r]) :
           \/ w \in Warrants(task[r])
           \/ w \in Rules!Acts \X Users \X Users /\ Rules!Entitled(w[1], w[2], w[3])
  PROVE  Rules!RulesNext
  <1>1. Warrants(task[r]) \subseteq Outstanding
    BY DEF Outstanding
  <1>2. Outstanding' \subseteq Outstanding \cup Warrants(task'[r])
    BY WarrantsKept
  <1>3. Standing' = Standing
    BY DEF Standing
  <1>4. Rules!Obtain
    BY <1>1, <1>2, <1>3 DEF Rules!Obtain
  <1> QED
    BY <1>4 DEF Rules!RulesNext

(* A handler that uses a warrant, and has no new ones afterwards. *)
LEMMA EffectStep ==
  ASSUME NEW r \in Requests,
         \A x \in Requests \ {r} : task'[x] = task[x],
         Warrants(task'[r]) \subseteq Warrants(task[r]),
         UNCHANGED <<kind, group.strict>>,
         NEW S \in SUBSET Users, NEW s,
         \A u \in Users : StandingOf(row'[u]) = IF u \in S THEN s
                                             ELSE StandingOf(row[u])
  PROVE  Rules!Become(S, s)
  <1>1. Warrants(task[r]) \subseteq Outstanding
    BY DEF Outstanding
  <1>2. Outstanding' \subseteq Outstanding
    BY <1>1, WarrantsKept
  <1>3. Standing' = [u \in Users |-> IF u \in S THEN s ELSE Standing[u]]
    <2>1. Standing' = [u \in Users |-> StandingOf(row'[u])]
      BY DEF Standing, StandingOf
    <2>2. \A u \in Users : Standing[u] = StandingOf(row[u])
      BY DEF Standing
    <2> QED
      BY <2>1, <2>2
  <1> QED
    BY <1>2, <1>3 DEF Rules!Become

(* Whoever has a role stands as that in the conversation. *)
LEMMA RoleIsStanding ==
  ASSUME IInv, NEW u \in Users
  PROVE  /\ u \in Active <=> row[u].state = "active"
         /\ u \in Active => Standing[u] = row[u].role
         /\ u \in Active => Standing[u] \in {"member", "admin", "owner"}
         /\ u \notin Active => Standing[u] \in {"left", "outside"}
  BY DEF IInv, TypeOK, Rows, Roles, Active, Standing, StandingOf

(* Nobody but the owner is spared: whoever is owner in a row is the owner  *)
(* of the group.                                                           *)
LEMMA OwnerIsOwned ==
  ASSUME IInv, OneOwner, NEW u \in Users, Standing[u] = "owner"
  PROVE  kind = "group" /\ group.ownerId = u /\ Owned
  <1>1. u \in Active /\ row[u].role = "owner"
    BY RoleIsStanding
  <1> QED
    BY <1>1 DEF OneOwner, Owned, HasRole

(* The checks: a handler that passes one was entitled to pass it. *)
LEMMA ChecksEntitle ==
  ASSUME IInv, NEW r \in Requests,
         \/ AssertAdder(r) \/ CheckSelf(r) \/ AssertRemover(r) \/ CheckTarget(r)
         \/ AssertOwner(r) \/ CheckRole(r) \/ AssertAdmin(r) \/ AssertOpener(r)
  PROVE  Rules!RulesNext
  <1> DEFINE t == task[r]
  <1>1. TaskOK(t) /\ t \in Tasks
    BY DEF IInv, TypeOK
  <1>2. UNCHANGED <<kind, row, group.strict>>
    BY DEF AssertAdder, CheckSelf, AssertRemover, CheckTarget, AssertOwner,
           CheckRole, AssertAdmin, AssertOpener
  <1>3. ASSUME Finish(r) PROVE Rules!RulesNext
    <2>1. task'[r] = NoTask /\ \A x \in Requests \ {r} : task'[x] = task[x]
      BY <1>3, NoTaskOK, HandlerStep DEF Finish
    <2> QED
      BY <1>2, <2>1, NoWarrants, ObtainStep
  <1>4. ASSUME NEW pc \in Awaits, GoTo(r, pc),
               \A k \in Tasks :
                 /\ k.pc = pc /\ k.op = t.op /\ k.user = t.user
                 /\ k.target = t.target /\ k.ids = t.ids /\ k.role = t.role
                 => \A w \in Warrants(k) :
                      \/ w \in Warrants(t)
                      \/ /\ w \in Rules!Acts \X Users \X Users
                         /\ Rules!Entitled(w[1], w[2], w[3])
        PROVE  Rules!RulesNext
    <2>1. PICK k : k = [t EXCEPT !.pc = pc]
      OBVIOUS
    <2>2. /\ k \in Tasks /\ k.pc = pc /\ k.op = t.op /\ k.user = t.user
          /\ k.target = t.target /\ k.ids = t.ids /\ k.role = t.role
          /\ task' = [task EXCEPT ![r] = k]
      BY <1>4, <2>1, GoesOn
    <2>3. task'[r] = k /\ \A x \in Requests \ {r} : task'[x] = task[x]
      BY <2>2, HandlerStep
    <2>4. \A w \in Warrants(task'[r]) :
             \/ w \in Warrants(t)
             \/ /\ w \in Rules!Acts \X Users \X Users
                /\ Rules!Entitled(w[1], w[2], w[3])
      BY <1>4, <2>2, <2>3
    <2> QED
      BY <1>2, <2>3, <2>4, ObtainStep
  <1>5. \A u \in Users, roles \in SUBSET Roles :
           HasRole(u, roles) => Standing[u] \in roles
    BY RoleIsStanding DEF HasRole
  <1>6. CASE AssertAdder(r)
    <2>1. /\ t.pc = "assertAdder" /\ t.op = "add" /\ kind = "group"
          /\ t.ids \in SUBSET Users /\ t.strict \in BOOLEAN
      BY <1>1, <1>6 DEF AssertAdder, At, TaskOK, AwaitOK, Tasks
    <2>2. CASE Finish(r)
      BY <1>3, <2>2
    <2>3. CASE /\ GoTo(r, "listMembers")
               /\ HasRole(t.user, IF t.strict THEN ADMIN_ROLES ELSE Roles)
      <3>1. t.user \in Users /\ Standing[t.user] \in {"member", "admin", "owner"}
        BY <2>3, RoleIsStanding DEF HasRole, Active
      <3>2. t.strict => Standing[t.user] \in {"admin", "owner"}
        BY <1>5, <2>3, <3>1 DEF ADMIN_ROLES, Roles
      <3>3. \A u \in t.ids : ~t.strict => <<"invite", t.user, u>> \in Outstanding
        <4>1. ~t.strict => Warrants(t) = {"invite"} \X {t.user} \X t.ids
          BY <2>1 DEF Warrants
        <4>2. Warrants(t) \subseteq Outstanding
          BY DEF Outstanding
        <4> QED
          BY <4>1, <4>2
      <3>4. ASSUME NEW k \in Tasks, k.pc = "listMembers", k.user = t.user,
                   k.ids = t.ids, NEW w \in Warrants(k)
            PROVE  /\ w \in Rules!Acts \X Users \X Users
                   /\ Rules!Entitled(w[1], w[2], w[3])
        <4>1. PICK u \in t.ids : w = <<"join", t.user, u>>
          BY <3>4 DEF Warrants
        <4> QED
          BY <2>1, <3>1, <3>2, <3>3, <4>1
             DEF Rules!Acts, Rules!Entitled, Rules!Inside, Rules!Admins
      <3>5. "listMembers" \in Awaits
        BY DEF Awaits
      <3> QED
        BY <1>4, <2>3, <3>4, <3>5
    <2> QED
      BY <1>6, <2>2, <2>3 DEF AssertAdder, Check
  <1>7. CASE CheckSelf(r)
    <2>1. t.pc = "checkSelf" /\ t.op = "remove" /\ t.target = t.user /\ t.user \in Users
      BY <1>1, <1>7 DEF CheckSelf, At, TaskOK, AwaitOK
    <2>2. CASE Finish(r)
      BY <1>3, <2>2
    <2>3. CASE GoTo(r, "leave") /\ ~HasRole(t.user, {"owner"})
      <3>1. Standing[t.user] # "owner"
        BY <2>1, <2>3, RoleIsStanding DEF HasRole
      <3>2. ASSUME NEW k \in Tasks, k.pc = "leave", k.op = t.op, k.user = t.user,
                   k.target = t.target, NEW w \in Warrants(k)
            PROVE  /\ w \in Rules!Acts \X Users \X Users
                   /\ Rules!Entitled(w[1], w[2], w[3])
        <4>1. w = <<"remove", t.user, t.user>>
          BY <2>1, <3>2 DEF Warrants
        <4> QED
          BY <2>1, <3>1, <4>1 DEF Rules!Acts, Rules!Entitled
      <3>3. "leave" \in Awaits
        BY DEF Awaits
      <3> QED
        BY <1>4, <2>3, <3>2, <3>3
    <2> QED
      BY <1>7, <2>2, <2>3 DEF CheckSelf, Check
  <1>8. CASE AssertRemover(r)
    <2>1. t.pc = "assertRemover" /\ t.target \in Users
      BY <1>1, <1>8 DEF AssertRemover, At, TaskOK, AwaitOK
    <2>2. CASE Finish(r)
      BY <1>3, <2>2
    <2>3. CASE GoTo(r, "checkTarget") /\ HasRole(t.user, ADMIN_ROLES)
      <3>1. t.user \in Users /\ Standing[t.user] \in {"admin", "owner"}
        BY <2>3, <1>5 DEF HasRole, Active, ADMIN_ROLES, Roles
      <3>2. ASSUME NEW k \in Tasks, k.pc = "checkTarget", k.user = t.user,
                   k.target = t.target, NEW w \in Warrants(k)
            PROVE  /\ w \in Rules!Acts \X Users \X Users
                   /\ Rules!Entitled(w[1], w[2], w[3])
        <4>1. w = <<"remove", t.user, t.target>>
          BY <3>2 DEF Warrants
        <4> QED
          BY <2>1, <3>1, <4>1 DEF Rules!Acts, Rules!Entitled, Rules!Admins
      <3>3. "checkTarget" \in Awaits
        BY DEF Awaits
      <3> QED
        BY <1>4, <2>3, <3>2, <3>3
    <2> QED
      BY <1>8, <2>2, <2>3 DEF AssertRemover, Check
  <1>9. CASE CheckTarget(r)
    <2>1. t.pc = "checkTarget" /\ t.op = "remove"
      BY <1>1, <1>9 DEF CheckTarget, At, TaskOK, AwaitOK
    <2>2. CASE Finish(r)
      BY <1>3, <2>2
    <2>3. CASE GoTo(r, "leave")
      <3>1. ASSUME NEW k \in Tasks, k.pc = "leave", k.op = t.op, k.user = t.user,
                   k.target = t.target
            PROVE  Warrants(k) = Warrants(t)
        BY <2>1, <3>1 DEF Warrants
      <3>2. "leave" \in Awaits
        BY DEF Awaits
      <3> QED
        BY <1>4, <2>3, <3>1, <3>2
    <2> QED
      BY <1>9, <2>2, <2>3 DEF CheckTarget, Check
  <1>10. CASE AssertOwner(r)
    <2>1. /\ t.pc = "assertOwner" /\ t.target \in Users
          /\ t.role \in {"admin", "member"}
      BY <1>1, <1>10 DEF AssertOwner, At, TaskOK, AwaitOK, Tasks, Roles
    <2>2. CASE Finish(r)
      BY <1>3, <2>2
    <2>3. CASE GoTo(r, "checkRole") /\ HasRole(t.user, {"owner"})
      <3>1. t.user \in Users /\ Standing[t.user] = "owner"
        BY <2>3, RoleIsStanding DEF HasRole, Active
      <3>2. ASSUME NEW k \in Tasks, k.pc = "checkRole", k.user = t.user,
                   k.target = t.target, k.role = t.role, NEW w \in Warrants(k)
            PROVE  /\ w \in Rules!Acts \X Users \X Users
                   /\ Rules!Entitled(w[1], w[2], w[3])
        <4>1. w = <<t.role, t.user, t.target>>
          BY <3>2 DEF Warrants
        <4> QED
          BY <2>1, <3>1, <4>1 DEF Rules!Acts, Rules!Entitled
      <3>3. "checkRole" \in Awaits
        BY DEF Awaits
      <3> QED
        BY <1>4, <2>3, <3>2, <3>3
    <2> QED
      BY <1>10, <2>2, <2>3 DEF AssertOwner, Check
  <1>11. CASE CheckRole(r)
    <2>1. t.pc = "checkRole"
      BY <1>11 DEF CheckRole, At
    <2>2. CASE Finish(r)
      BY <1>3, <2>2
    <2>3. CASE GoTo(r, "setRole")
      <3>1. ASSUME NEW k \in Tasks, k.pc = "setRole", k.user = t.user,
                   k.target = t.target, k.role = t.role
            PROVE  Warrants(k) = Warrants(t)
        BY <2>1, <3>1 DEF Warrants
      <3>2. "setRole" \in Awaits
        BY DEF Awaits
      <3> QED
        BY <1>4, <2>3, <3>1, <3>2
    <2> QED
      BY <1>11, <2>2, <2>3 DEF CheckRole, Check
  <1>12. CASE AssertAdmin(r)
    <2>1. CASE Finish(r)
      BY <1>3, <2>1
    <2>2. CASE GoTo(r, "saveSettings") /\ HasRole(t.user, ADMIN_ROLES)
      <3>1. t.user \in Users /\ Standing[t.user] \in {"admin", "owner"}
        BY <2>2, <1>5 DEF HasRole, Active, ADMIN_ROLES, Roles
      <3>2. ASSUME NEW k \in Tasks, k.pc = "saveSettings", k.user = t.user,
                   NEW w \in Warrants(k)
            PROVE  /\ w \in Rules!Acts \X Users \X Users
                   /\ Rules!Entitled(w[1], w[2], w[3])
        <4>1. w = <<"settings", t.user, t.user>>
          BY <3>2 DEF Warrants
        <4> QED
          BY <3>1, <4>1 DEF Rules!Acts, Rules!Entitled, Rules!Admins
      <3>3. "saveSettings" \in Awaits
        BY DEF Awaits
      <3> QED
        BY <1>4, <2>2, <3>2, <3>3
    <2> QED
      BY <1>12, <2>1, <2>2 DEF AssertAdmin, Check
  <1>13. CASE AssertOpener(r)
    BY <1>3, <1>13 DEF AssertOpener
  <1> QED
    BY <1>6, <1>7, <1>8, <1>9, <1>10, <1>11, <1>12, <1>13

(* Requests that arrive bring the warrant to leave, or the invitation that *)
(* is anybody's while adding is open to all; the others bring none.        *)
LEMMA RequestsEntitle ==
  ASSUME IInv, NEW r \in Requests, NEW u \in Users, Request(r, u)
  PROVE  Rules!RulesNext
  <1>1. ASSUME NEW k \in Tasks, Begin(r, k),
               \A w \in Warrants(k) : /\ w \in Rules!Acts \X Users \X Users
                                     /\ Rules!Entitled(w[1], w[2], w[3])
        PROVE  Rules!RulesNext
    <2>1. task'[r] = k /\ \A x \in Requests \ {r} : task'[x] = task[x]
      BY <1>1, HandlerStep DEF Begin
    <2>2. UNCHANGED <<kind, row, group.strict>>
      BY <1>1 DEF Begin
    <2> QED
      BY <1>1, <2>1, <2>2, ObtainStep
  <1>2. group \in Groups
    BY DEF IInv, TypeOK
  <1>3. ASSUME NEW ids \in SUBSET Users, AddMembers(r, u, ids)
        PROVE  Rules!RulesNext
    <2> DEFINE k == [NoTask EXCEPT !.op = "add", !.pc = "assertAdder", !.user = u,
                                   !.ids = ids, !.seen = group.memberCount,
                                   !.strict = group.strict]
    <2>1. /\ k \in Tasks /\ k.pc = "assertAdder" /\ k.user = u /\ k.ids = ids
          /\ k.strict = group.strict
      BY <1>2 DEF NoTask, Tasks, Awaits, Roles, Groups
    <2>2. kind = "group" /\ Begin(r, k)
      BY <1>3 DEF AddMembers
    <2>3. Warrants(k) = IF group.strict THEN {} ELSE {"invite"} \X {u} \X ids
      BY <2>1 DEF Warrants
    <2> HIDE DEF k
    <2>4. \A w \in Warrants(k) : /\ w \in Rules!Acts \X Users \X Users
                                 /\ Rules!Entitled(w[1], w[2], w[3])
      <3> SUFFICES ASSUME NEW w \in Warrants(k)
                   PROVE  /\ w \in Rules!Acts \X Users \X Users
                          /\ Rules!Entitled(w[1], w[2], w[3])
        OBVIOUS
      <3>1. PICK v \in ids : w = <<"invite", u, v>> /\ ~group.strict
        BY <2>3
      <3> QED
        BY <2>2, <3>1 DEF Rules!Acts, Rules!Entitled
    <2> QED
      BY <1>1, <2>1, <2>2, <2>4
  <1>4. ASSUME NEW v \in Users, RemoveMember(r, u, v)
        PROVE  Rules!RulesNext
    <2> DEFINE k == [NoTask EXCEPT !.op = "remove", !.user = u, !.target = v,
                                   !.pc = IF u = v THEN "checkSelf"
                                          ELSE "assertRemover",
                                   !.seen = group.memberCount]
    <2>1. k \in Tasks /\ k.pc \in {"checkSelf", "assertRemover"}
      BY <1>2 DEF NoTask, Tasks, Awaits, Roles, Groups
    <2>2. Warrants(k) = {}
      BY <2>1 DEF Warrants
    <2>3. Begin(r, k)
      BY <1>4 DEF RemoveMember
    <2> HIDE DEF k
    <2> QED
      BY <1>1, <2>1, <2>2, <2>3
  <1>5. ASSUME NEW v \in Users, NEW role \in {"admin", "member"},
               UpdateRole(r, u, v, role)
        PROVE  Rules!RulesNext
    <2> DEFINE k == [NoTask EXCEPT !.op = "role", !.pc = "assertOwner", !.user = u,
                                   !.target = v, !.role = role]
    <2>1. k \in Tasks /\ k.pc = "assertOwner"
      BY DEF NoTask, Tasks, Awaits, Roles
    <2>2. Warrants(k) = {}
      BY <2>1 DEF Warrants
    <2> QED
      BY <1>1, <1>5, <2>1, <2>2 DEF UpdateRole
  <1>6. CASE UpdateSettings(r, u)
    <2> DEFINE k == [NoTask EXCEPT !.op = "settings", !.pc = "assertAdmin",
                                   !.user = u, !.strict = group.strict]
    <2>1. k \in Tasks /\ k.pc = "assertAdmin"
      BY <1>2 DEF NoTask, Tasks, Awaits, Roles, Groups
    <2>2. Warrants(k) = {}
      BY <2>1 DEF Warrants
    <2> QED
      BY <1>1, <1>6, <2>1, <2>2 DEF UpdateSettings
  <1>7. CASE LeaveRoute(r, u)
    <2> DEFINE k == [NoTask EXCEPT !.op = "leave", !.pc = "leave", !.user = u,
                                   !.target = u]
    <2>1. /\ k \in Tasks /\ k.op = "leave" /\ k.target = u
          /\ k.pc = "leave" /\ k.user = u
      BY DEF NoTask, Tasks, Awaits, Roles
    <2>2. Warrants(k) = {<<"leave", u, u>>}
      BY <2>1 DEF Warrants
    <2>3. Rules!Entitled("leave", u, u)
      BY <1>7, RoleIsStanding DEF LeaveRoute, Rules!Entitled, Rules!Inside
    <2> QED
      BY <1>1, <1>7, <2>1, <2>2, <2>3 DEF LeaveRoute, Rules!Acts
  <1>8. CASE OpenDirect(r, u)
    <2> DEFINE k == [NoTask EXCEPT !.op = "open", !.user = u,
                                   !.pc = IF kind = "direct" THEN "assertOpener"
                                          ELSE "create"]
    <2>1. k \in Tasks /\ k.pc \in {"assertOpener", "create"}
      BY DEF NoTask, Tasks, Awaits, Roles
    <2>2. Warrants(k) = {}
      BY <2>1 DEF Warrants
    <2>3. Begin(r, k)
      BY <1>8 DEF OpenDirect
    <2> HIDE DEF k
    <2> QED
      BY <1>1, <2>1, <2>2, <2>3
  <1> QED
    BY <1>3, <1>4, <1>5, <1>6, <1>7, <1>8 DEF Request


(* A user who is not the owner comes in, and the request is closer to its  *)
(* end.                                                                    *)
LEMMA JoinStep ==
  ASSUME IInv, OneOwner, NEW r \in Requests,
         \A x \in Requests \ {r} : task'[x] = task[x],
         Warrants(task'[r]) \subseteq Warrants(task[r]),
         UNCHANGED <<kind, group.strict>>, task[r].user \in Users,
         NEW S \in SUBSET Users,
         \A u \in S : <<"join", task[r].user, u>> \in Warrants(task[r]),
         \A u \in S : Standing[u] # "owner",
         \A u \in Users : row'[u] = IF u \in S THEN RowOf("member") ELSE row[u]
  PROVE  Rules!RulesNext
  <1>1. StandingOf(RowOf("member")) = "member"
    BY DEF StandingOf, RowOf
  <1>2. \A u \in Users : StandingOf(row'[u]) = IF u \in S THEN "member"
                                               ELSE StandingOf(row[u])
    BY <1>1
  <1>3. Rules!Become(S, "member")
    BY <1>2, EffectStep
  <1>4. Warrants(task[r]) \subseteq Outstanding
    BY DEF Outstanding
  <1>5. Rules!Join(task[r].user, S)
    BY <1>3, <1>4 DEF Rules!Join
  <1> QED
    BY <1>5 DEF Rules!RulesNext

(* Members are added. *)
LEMMA UpsertJoins ==
  ASSUME IInv, OneOwner, NEW r \in Requests, Upsert(r)
  PROVE  Rules!RulesNext
  <1> DEFINE t == task[r]
  <1>1. /\ t.pc = "upsert" /\ TaskOK(t) /\ SparesOwner(t) /\ t \in Tasks
        /\ t.op = "add" /\ row \in [Users -> Rows]
        /\ UNCHANGED <<kind, group.strict>>
    BY DEF IInv, TypeOK, TaskOK, AwaitOK, Upsert, At
  <1>2. PICK u \in t.ids :
          /\ row' = [row EXCEPT ![u] = RowOf("member")]
          /\ task' = [task EXCEPT ![r].ids = @ \ {u},
                                  ![r].pc = IF task[r].ids = {u} THEN "saveCount"
                                            ELSE "upsert"]
    BY DEF Upsert
  <1>3. /\ task'[r].ids = t.ids \ {u} /\ task'[r].user = t.user
        /\ task'[r].pc \in {"saveCount", "upsert"}
        /\ \A x \in Requests \ {r} : task'[x] = task[x]
    BY <1>1, <1>2 DEF IInv, TypeOK, Tasks
  <1>4. Warrants(t) = {"join"} \X {t.user} \X t.ids
    BY <1>1 DEF Warrants
  <1>5. Warrants(task'[r]) \subseteq Warrants(t)
    <2>1. CASE task'[r].pc = "saveCount"
      BY <2>1 DEF Warrants
    <2>2. CASE task'[r].pc = "upsert"
      <3>1. Warrants(task'[r]) = {"join"} \X {t.user} \X (t.ids \ {u})
        BY <1>3, <2>2 DEF Warrants
      <3> QED
        BY <1>4, <3>1
    <2> QED
      BY <1>3, <2>1, <2>2
  <1>6. u \in Users /\ \A v \in Users : row'[v] = IF v \in {u} THEN RowOf("member")
                                               ELSE row[v]
    BY <1>1, <1>2 DEF Tasks
  <1>7. Standing[u] # "owner"
    BY <1>1, <1>6, OwnerIsOwned DEF SparesOwner
  <1>8. t.user \in Users /\ <<"join", t.user, u>> \in Warrants(t)
    BY <1>1, <1>4 DEF TaskOK
  <1>9. PICK S \in SUBSET Users : S = {u}
    BY <1>6
  <1>10. /\ \A v \in S : <<"join", t.user, v>> \in Warrants(t)
         /\ \A v \in S : Standing[v] # "owner"
         /\ \A v \in Users : row'[v] = IF v \in S THEN RowOf("member") ELSE row[v]
    BY <1>6, <1>7, <1>8, <1>9
  <1> QED
    BY <1>1, <1>3, <1>5, <1>8, <1>10, JoinStep


(* Rows are inserted into a thread. *)
LEMMA InsertsJoin ==
  ASSUME IInv, OneOwner, NEW r \in Requests, InsertOpener(r) \/ InsertOther(r)
  PROVE  Rules!RulesNext
  <1> DEFINE t == task[r]
  <1>1. /\ t \in Tasks /\ t.op = "open" /\ t.user \in Pair /\ t.user \in Users
        /\ kind # "group" /\ UNCHANGED <<kind, group.strict>>
        /\ row \in [Users -> Rows]
    BY ConstantsAssumption
       DEF IInv, TypeOK, TaskOK, AwaitOK, InsertOpener, InsertOther, At
  <1>2. \A u \in Users : Standing[u] # "owner"
    BY <1>1, OwnerIsOwned
  <1>3. CASE InsertOpener(r)
    <2>1. PICK k : k = [t EXCEPT !.pc = "insertOther"]
      OBVIOUS
    <2>2. /\ k \in Tasks /\ k.pc = "insertOther" /\ k.user = t.user
          /\ task' = [task EXCEPT ![r] = k]
      BY <1>3, <2>1, GoesOn DEF InsertOpener, Awaits
    <2>3. task'[r] = k /\ \A x \in Requests \ {r} : task'[x] = task[x]
      BY <2>2, HandlerStep
    <2>4. /\ Warrants(t) = {"join"} \X {t.user} \X Pair
          /\ Warrants(k) = {"join"} \X {t.user} \X (Pair \ {t.user})
      BY <1>3, <2>2 DEF InsertOpener, At, Warrants
    <2>5. PICK S \in SUBSET Users : S = {t.user}
      BY <1>1
    <2>6. \A u \in Users : row'[u] = IF u \in S THEN RowOf("member") ELSE row[u]
      BY <1>1, <1>3, <2>5 DEF InsertOpener
    <2>7. /\ \A u \in S : <<"join", t.user, u>> \in Warrants(t)
          /\ Warrants(task'[r]) \subseteq Warrants(t)
      BY <1>1, <2>3, <2>4, <2>5
    <2> QED
      BY <1>1, <1>2, <2>3, <2>6, <2>7, JoinStep
  <1>4. CASE InsertOther(r)
    <2>1. PICK k : k = [t EXCEPT !.pc = "assertOpener"]
      OBVIOUS
    <2>2. /\ k \in Tasks /\ k.pc = "assertOpener"
          /\ task' = [task EXCEPT ![r] = k]
      BY <1>4, <2>1, GoesOn DEF InsertOther, Awaits
    <2>3. task'[r] = k /\ \A x \in Requests \ {r} : task'[x] = task[x]
      BY <2>2, HandlerStep
    <2>4. /\ Warrants(t) = {"join"} \X {t.user} \X (Pair \ {t.user})
          /\ Warrants(k) = {}
      BY <1>4, <2>2 DEF InsertOther, At, Warrants
    <2>5. PICK S \in SUBSET Users : S = Pair \ {t.user}
      BY ConstantsAssumption
    <2>6. \A u \in Users : row'[u] = IF u \in S THEN RowOf("member") ELSE row[u]
      BY <1>4, <2>5 DEF InsertOther
    <2>7. /\ \A u \in S : <<"join", t.user, u>> \in Warrants(t)
          /\ Warrants(task'[r]) \subseteq Warrants(t)
      BY <2>3, <2>4, <2>5
    <2> QED
      BY <1>1, <1>2, <2>3, <2>6, <2>7, JoinStep
  <1> QED
    BY <1>3, <1>4

(* The founder of a thread is to enter both. *)
LEMMA ThreadFounded ==
  ASSUME IInv, NEW r \in Requests, CreateDirect(r)
  PROVE  Rules!RulesNext
  <1> DEFINE t == task[r]
  <1>1. /\ t \in Tasks /\ t.op = "open" /\ t.user \in Pair
        /\ UNCHANGED <<row, group.strict>> /\ t.pc = "create"
    BY DEF IInv, TypeOK, TaskOK, AwaitOK, CreateDirect, At
  <1>2. ASSUME NEW pc \in {"insertOpener", "assertOpener"}, GoTo(r, pc)
        PROVE  /\ \A x \in Requests \ {r} : task'[x] = task[x]
               /\ Warrants(task'[r]) = IF pc = "insertOpener"
                                       THEN {"join"} \X {t.user} \X Pair ELSE {}
    <2>1. PICK k : k = [t EXCEPT !.pc = pc]
      OBVIOUS
    <2>2. /\ k \in Tasks /\ k.pc = pc /\ k.user = t.user
          /\ task' = [task EXCEPT ![r] = k]
      BY <1>2, <2>1, GoesOn DEF Awaits
    <2>3. task'[r] = k /\ \A x \in Requests \ {r} : task'[x] = task[x]
      BY <2>2, HandlerStep
    <2> QED
      BY <2>2, <2>3 DEF Warrants
  <1>3. CASE kind = "none"
    <2>1. kind' = "direct" /\ GoTo(r, "insertOpener")
      BY <1>3 DEF CreateDirect
    <2>2. Outstanding' \subseteq Outstanding \cup ({"join"} \X {t.user} \X Pair)
      BY <1>2, <2>1, WarrantsKept
    <2>3. Standing' = Standing
      BY <1>1 DEF Standing
    <2>4. Rules!FoundThread(t.user)
      BY <1>1, <1>3, <2>1, <2>2, <2>3 DEF Rules!FoundThread
    <2> QED
      BY <1>1, <2>4 DEF Rules!RulesNext
  <1>4. CASE kind # "none"
    <2>1. UNCHANGED kind /\ GoTo(r, "assertOpener")
      BY <1>4 DEF CreateDirect
    <2> QED
      BY <1>1, <1>2, <2>1, ObtainStep
  <1> QED
    BY <1>3, <1>4

(* A member goes: put out on somebody's warrant, or of his own accord. *)
LEMMA LeaveGoes ==
  ASSUME IInv, OneOwner, NEW r \in Requests, Leave(r)
  PROVE  Rules!RulesNext
  <1> DEFINE t == task[r]
             v == task[r].target
  <1>1. /\ t.pc = "leave" /\ TaskOK(t) /\ SparesOwner(t) /\ t \in Tasks
        /\ v \in Users /\ t.user \in Users /\ t.op \in {"remove", "leave"}
        /\ row \in [Users -> Rows] /\ UNCHANGED <<kind, group.strict>>
    BY DEF IInv, TypeOK, TaskOK, AwaitOK, Leave, At
  <1>2. /\ task'[r].pc \in {"saveCount", "idle"}
        /\ \A x \in Requests \ {r} : task'[x] = task[x]
    <2>1. CASE Counting(r)
      <3>1. PICK k : k = [t EXCEPT !.pc = "saveCount"]
        OBVIOUS
      <3>2. k \in Tasks /\ k.pc = "saveCount" /\ task' = [task EXCEPT ![r] = k]
        BY <2>1, <3>1, GoesOn DEF Leave, Awaits
      <3> QED
        BY <3>2, HandlerStep
    <2>2. CASE ~Counting(r)
      BY <2>2, NoTaskOK, HandlerStep DEF Leave, Finish
    <2> QED
      BY <2>1, <2>2
  <1>3. /\ Warrants(task'[r]) = {} /\ Warrants(t) = {<<t.op, t.user, v>>}
    BY <1>1, <1>2 DEF Warrants
  <1>4. CASE v \notin Active
    <2>1. row' = row
      BY <1>1, <1>4 DEF Leave, Active, Rows
    <2> QED
      BY <1>1, <1>2, <1>3, <2>1, ObtainStep
  <1>5. CASE v \in Active
    <2>1. row[v].state = "active"
      BY <1>5 DEF Active
    <2>2. row' = [row EXCEPT ![v].state = "left"]
      BY <2>1 DEF Leave
    <2>3. /\ row'[v].state = "left" /\ \A u \in Users \ {v} : row'[u] = row[u]
      BY <1>1, <2>2 DEF Rows
    <2>4. StandingOf(row'[v]) = "left"
      BY <2>3 DEF StandingOf
    <2>5. PICK S \in SUBSET Users : S = {v}
      BY <1>1
    <2>6. \A u \in Users : StandingOf(row'[u]) = IF u \in S THEN "left"
                                                 ELSE StandingOf(row[u])
      BY <2>3, <2>4, <2>5
    <2>7. Rules!Become({v}, "left")
      BY <1>1, <1>2, <1>3, <2>5, <2>6, EffectStep
    <2>8. <<t.op, t.user, v>> \in Outstanding
      BY <1>3 DEF Outstanding
    <2>9. Standing[v] \in {"member", "admin", "owner"}
      BY <1>1, <1>5, RoleIsStanding
    <2>10. CASE t.op = "leave"
      <3>1. Rules!WalkOut(v)
        BY <1>1, <2>7, <2>8, <2>9, <2>10 DEF TaskOK, Rules!WalkOut, Rules!Inside
      <3> QED
        BY <1>1, <3>1 DEF Rules!RulesNext
    <2>11. CASE t.op = "remove"
      <3>1. Standing[v] # "owner"
        BY <1>1, <2>11, OwnerIsOwned DEF SparesOwner
      <3>2. Rules!PutOut(t.user, v)
        BY <2>7, <2>8, <2>9, <2>11, <3>1 DEF Rules!PutOut
      <3> QED
        BY <1>1, <3>2 DEF Rules!RulesNext
    <2> QED
      BY <1>1, <2>10, <2>11
  <1> QED
    BY <1>4, <1>5

(* A member gets the role that an owner gave him. *)
LEMMA SetRoleAppoints ==
  ASSUME IInv, OneOwner, NEW r \in Requests, SetRole(r)
  PROVE  Rules!RulesNext
  <1> DEFINE t == task[r]
             v == task[r].target
  <1>1. /\ t.pc = "setRole" /\ t.op = "role" /\ SparesOwner(t)
        /\ v \in Users /\ t.user \in Users /\ t.role \in {"admin", "member"}
        /\ row \in [Users -> Rows] /\ UNCHANGED <<kind, group.strict>>
    BY DEF IInv, TypeOK, TaskOK, AwaitOK, SetRole, At, Tasks, Roles
  <1>2. task'[r] = NoTask /\ \A x \in Requests \ {r} : task'[x] = task[x]
    BY NoTaskOK, HandlerStep DEF SetRole, Finish
  <1>3. /\ Warrants(task'[r]) = {} /\ Warrants(t) = {<<t.role, t.user, v>>}
    BY <1>1, <1>2, NoWarrants DEF Warrants
  <1>4. CASE v \notin Active
    <2>1. row' = row
      BY <1>4 DEF SetRole
    <2> QED
      BY <1>1, <1>2, <1>3, <2>1, ObtainStep
  <1>5. CASE v \in Active
    <2>1. row' = [row EXCEPT ![v].role = t.role] /\ row[v].state = "active"
      BY <1>5 DEF SetRole, Active
    <2>2. /\ row'[v].state = "active" /\ row'[v].role = t.role
          /\ \A u \in Users \ {v} : row'[u] = row[u]
      BY <1>1, <2>1 DEF Rows
    <2>3. StandingOf(row'[v]) = t.role
      BY <2>2 DEF StandingOf
    <2>4. PICK S \in SUBSET Users : S = {v}
      BY <1>1
    <2>5. \A u \in Users : StandingOf(row'[u]) = IF u \in S THEN t.role
                                                 ELSE StandingOf(row[u])
      BY <2>2, <2>3, <2>4
    <2>6. Rules!Become({v}, t.role)
      BY <1>1, <1>2, <1>3, <2>4, <2>5, EffectStep
    <2>7. <<t.role, t.user, v>> \in Outstanding
      BY <1>3 DEF Outstanding
    <2>8. Standing[v] \in {"member", "admin"}
      BY <1>1, <1>5, RoleIsStanding, OwnerIsOwned DEF SparesOwner
    <2>9. Rules!Appoint(t.user, v, t.role)
      BY <2>6, <2>7, <2>8 DEF Rules!Appoint
    <2> QED
      BY <1>1, <2>9 DEF Rules!RulesNext
  <1> QED
    BY <1>4, <1>5


(* Lists and counts concern nobody's row. *)
LEMMA QuietWrites ==
  ASSUME IInv, NEW r \in Requests,
         ListMembers(r) \/ SaveCount(r)
  PROVE  Rules!RulesNext
  <1> DEFINE t == task[r]
  <1>1. t \in Tasks /\ UNCHANGED <<kind, row, group.strict>>
    BY DEF IInv, TypeOK, Groups, ListMembers, SaveCount
  <1>2. ASSUME Finish(r) PROVE Rules!RulesNext
    <2>1. task'[r] = NoTask /\ \A x \in Requests \ {r} : task'[x] = task[x]
      BY <1>2, NoTaskOK, HandlerStep DEF Finish
    <2> QED
      BY <1>1, <2>1, NoWarrants, ObtainStep
  <1>3. CASE ListMembers(r) /\ ~Finish(r)
    <2> DEFINE newIds == t.ids \ Active
    <2>1. PICK k : k = [t EXCEPT !.pc = "upsert", !.ids = newIds,
                                 !.added = Cardinality(newIds)]
      OBVIOUS
    <2>2. task' = [task EXCEPT ![r] = k] /\ t.pc = "listMembers"
      BY <1>1, <1>3, <2>1 DEF ListMembers, At, IInv, TypeOK, Tasks
    <2>3. k.pc = "upsert" /\ k.user = t.user /\ k.ids = newIds
      BY <1>1, <2>1 DEF Tasks
    <2>4. task'[r] = k /\ \A x \in Requests \ {r} : task'[x] = task[x]
      BY <2>2 DEF IInv, TypeOK
    <2>5. /\ Warrants(t) = {"join"} \X {t.user} \X t.ids
          /\ Warrants(k) = {"join"} \X {t.user} \X newIds
      BY <2>2, <2>3 DEF Warrants
    <2>6. \A w \in Warrants(task'[r]) : w \in Warrants(t)
      BY <2>4, <2>5
    <2> QED
      BY <1>1, <2>4, <2>6, ObtainStep
  <1> QED
    BY <1>2, <1>3 DEF SaveCount

(* An admin decides who may add members, or saves what is saved already. *)
LEMMA SettingsDecided ==
  ASSUME IInv, NEW r \in Requests, SaveSettings(r)
  PROVE  Rules!RulesNext
  <1> DEFINE t == task[r]
  <1>1. /\ t.pc = "saveSettings" /\ t.user \in Users /\ group'.strict \in BOOLEAN
        /\ UNCHANGED <<kind, row>>
    BY DEF IInv, TypeOK, TaskOK, AwaitOK, Tasks, Groups, SaveSettings, At
  <1>2. task'[r] = NoTask /\ \A x \in Requests \ {r} : task'[x] = task[x]
    BY NoTaskOK, HandlerStep DEF SaveSettings, Finish
  <1>3. Outstanding' \subseteq Outstanding
    BY <1>2, NoWarrants, WarrantsKept
  <1>4. <<"settings", t.user, t.user>> \in Outstanding
    BY <1>1 DEF Outstanding, Warrants
  <1>5. Rules!Decide(t.user)
    BY <1>1, <1>3, <1>4 DEF Rules!Decide, Standing
  <1> QED
    BY <1>1, <1>5 DEF Rules!RulesNext

(* The founder of a group is its owner. *)
LEMMA GroupFounded ==
  ASSUME IInv, NEW owner \in Users, NEW memberIds \in SUBSET Users,
         CreateGroup(owner, memberIds)
  PROVE  Rules!RulesNext
  <1>1. kind = "none" /\ kind' = "group" /\ group'.strict = FALSE /\ UNCHANGED task
    BY DEF CreateGroup
  <1>2. /\ StandingOf(RowOf("owner")) = "owner"
        /\ StandingOf(RowOf("member")) = "member"
        /\ StandingOf(NoRow) = "outside"
    BY DEF StandingOf, RowOf, NoRow
  <1>3. \A u \in Users : row'[u] = IF u = owner THEN RowOf("owner")
                                   ELSE IF u \in memberIds THEN RowOf("member")
                                   ELSE NoRow
    BY DEF CreateGroup
  <1>4. \A u \in Users : StandingOf(row'[u]) = IF u = owner THEN "owner"
                                               ELSE IF u \in memberIds THEN "member"
                                               ELSE "outside"
    BY <1>2, <1>3
  <1>5. Standing' = [u \in Users |-> IF u = owner THEN "owner"
                                    ELSE IF u \in memberIds THEN "member"
                                    ELSE "outside"]
    <2>1. Standing' = [u \in Users |-> StandingOf(row'[u])]
      BY DEF Standing, StandingOf
    <2> QED
      BY <1>4, <2>1
  <1>6. Outstanding' = Outstanding
    BY <1>1 DEF Outstanding, Warrants
  <1>7. Rules!FoundGroup(owner, memberIds)
    BY <1>1, <1>5, <1>6 DEF Rules!FoundGroup
  <1> QED
    BY <1>7 DEF Rules!RulesNext

(* Handlers that die hold no warrants any more. *)
LEMMA FaultsForgo ==
  ASSUME IInv, Crash \/ \E r \in Requests : Abort(r)
  PROVE  Rules!RulesNext
  <1>1. UNCHANGED <<kind, row, group.strict>>
    BY DEF Crash, Abort
  <1>2. \A x \in Requests : task'[x] = task[x] \/ task'[x] = NoTask
    BY DEF Crash, Abort, Finish, IInv, TypeOK
  <1>3. \A x \in Requests : Warrants(task'[x]) \subseteq Warrants(task[x])
    BY <1>2, NoWarrants
  <1>4. Outstanding' = UNION {Warrants(task'[x]) : x \in Requests}
    BY DEF Outstanding, Warrants
  <1>5. Outstanding' \subseteq Outstanding
    BY <1>3, <1>4 DEF Outstanding
  <1>6. Rules!Obtain
    BY <1>1, <1>5 DEF Rules!Obtain, Standing
  <1> QED
    BY <1>6 DEF Rules!RulesNext

(* Initially there is no conversation, and nobody holds a warrant. *)
LEMMA InitRules == Init => Rules!RulesInit
  <1> SUFFICES ASSUME Init PROVE Rules!RulesInit
    OBVIOUS
  <1>1. Standing = [u \in Users |-> "outside"]
    BY DEF Init, Standing, StandingOf, NoRow
  <1>2. Outstanding = {}
    BY NoWarrants DEF Init, Outstanding
  <1> QED
    BY <1>1, <1>2 DEF Init, NoGroup, Rules!RulesInit

(* The handlers of groups.service.ts and conversations.service.ts keep the *)
(* rules of MembershipRules, although each of them decides on what it      *)
(* read round trips ago: every change of a row rests on a check that its   *)
(* requester passed with the role for it, nobody becomes owner after the   *)
(* creation of the group, and only an owner's own departure ends that.     *)
(* Who is no admin adds members only if his request arrived when that was  *)
(* open to all, which admins decide.                                       *)
THEOREM ImplementsRules == Spec => RulesSpec
  <1>1. IInv /\ OneOwner /\ [Next]_vars => [Rules!RulesNext]_(Rules!rvars)
    <2> SUFFICES ASSUME IInv, OneOwner, [Next]_vars
                 PROVE  Rules!RulesNext \/ UNCHANGED Rules!rvars
      OBVIOUS
    <2>1. ASSUME NEW u \in Users, NEW ids \in SUBSET Users, CreateGroup(u, ids)
          PROVE  Rules!RulesNext
      BY <2>1, GroupFounded
    <2>2. ASSUME NEW r \in Requests, NEW u \in Users, Request(r, u)
          PROVE  Rules!RulesNext
      BY <2>2, RequestsEntitle
    <2>3. ASSUME NEW r \in Requests, Step(r) PROVE Rules!RulesNext
      BY <2>3, ChecksEntitle, UpsertJoins, InsertsJoin, ThreadFounded, LeaveGoes,
         SetRoleAppoints, QuietWrites, SettingsDecided DEF Step
    <2>4. CASE Crash \/ \E r \in Requests : Abort(r)
      BY <2>4, FaultsForgo
    <2>5. CASE UNCHANGED vars
      <3>1. UNCHANGED <<kind, row, group.strict, task>>
        BY <2>5 DEF vars
      <3> QED
        BY <3>1 DEF Rules!rvars, Standing, Outstanding, Warrants
    <2> QED
      BY <2>1, <2>2, <2>3, <2>4, <2>5 DEF Next
  <1> QED
    BY <1>1, InitRules, Invariance, OwnerIsUnique, PTL
       DEF Spec, RulesSpec, Rules!RulesSpec

==============================================================================
