------------------------- MODULE CallSignalingProofs -------------------------
(* Proofs about CallSignaling. *)
EXTENDS CallSignaling, TLAPS

(* The inductive invariant holds initially. *)
LEMMA InitIInv == Init => IInv
  <1> SUFFICES ASSUME Init PROVE IInv
    OBVIOUS
  <1> USE ConstantsAssumption DEF Init
  <1>1. TypeOK
    BY DEF TypeOK, CallDocs, NoCall, Statuses, Ended, Tasks, NoTask, Handlers,
       Awaits
  <1>2. DocsOK /\ TasksOK
    BY DEF DocsOK, DocOK, TasksOK, TaskOK, NoCall, NoTask
  <1>3. ReliancesOK /\ MapOK /\ FreshOK
    BY DEF ReliancesOK, MapOK, FreshOK, NoTask
  <1>4. SingleClaim /\ BusyNamesOwnCall /\ RingingIsOwned
    BY DEF SingleClaim, Holds, BusyNamesOwnCall, RingingIsOwned, NoTask, NoCall
  <1> QED
    BY <1>1, <1>2, <1>3, <1>4 DEF IInv

------------------------------------------------------------------------------
(* Preservation of the inductive invariant, one lemma per action. *)
LEMMA ConnectStep ==
  ASSUME IInv, NEW u \in Users, Connect(u)
  PROVE  IInv'
  <1> USE ConstantsAssumption DEF IInv, Connect
  <1>1. TypeOK'
    BY DEF TypeOK, Awaits, Statuses
  <1>2. DocsOK'
    BY DEF DocsOK, DocOK
  <1>3. TasksOK'
    BY DEF TasksOK
  <1>4. ReliancesOK'
    BY DEF ReliancesOK, FreshOK, SingleClaim, CallDocs, DocsOK
  <1>5. MapOK'
    BY DEF MapOK, Holds, ReliesOn
  <1>6. FreshOK'
    BY DEF FreshOK, ReliancesOK
  <1>7. SingleClaim'
    BY DEF SingleClaim, Holds
  <1>8. BusyNamesOwnCall'
    BY DEF BusyNamesOwnCall, ReliancesOK, Parties
  <1>9. RingingIsOwned'
    BY DEF RingingIsOwned, Holds, ReliancesOK, CallDocs
  <1> QED
    BY <1>1, <1>2, <1>3, <1>4, <1>5, <1>6, <1>7, <1>8, <1>9 DEF IInv

(* Initiate preserves the inductive invariant. *)
LEMMA InitiateStep ==
  ASSUME IInv, NEW r \in Requests, NEW u \in Users, NEW v \in Users,
         NEW c \in CallIds, Initiate(r, u, v, c)
  PROVE  IInv'
  <1> USE ConstantsAssumption DEF IInv
  <1> DEFINE k == [h |-> "initiate", pc |-> "isBusy", user |-> u, peer |-> v,
                   call |-> c, out |-> "none", owns |-> TRUE]
  <1>a. /\ r \in Procs /\ task[r] = NoTask
        /\ task' = [task EXCEPT ![r] = k]
        /\ call[c].status = "absent"
        /\ \A t \in Procs : task[t].call # c
        /\ UNCHANGED <<call, busy, ringing, conn, told, faults>>
    BY DEF Initiate, Idle, Unused, Procs, TypeOK, TasksOK, TaskOK, NoTask
  <1>b. /\ task'[r] = k /\ k \in Tasks
        /\ \A t \in Procs : t # r => task'[t] = task[t]
    BY <1>a DEF TypeOK, Tasks, Handlers, Awaits
  <1>1. TypeOK'
    BY <1>a, <1>b DEF TypeOK
  <1>2. DocsOK'
    BY <1>a DEF DocsOK, DocOK
  <1>3. TasksOK'
    <2>1. TaskOK(k)
      BY DEF TaskOK
    <2> QED
      BY <1>b, <2>1 DEF TasksOK
  <1>4. ReliancesOK'
    <2>1. ReliesOn(k, call[c])
      BY <1>a DEF ReliesOn, DocsOK, DocOK, NoCall
    <2> QED
      BY <1>a, <1>b, <2>1 DEF ReliancesOK
  <1>5. MapOK'
    BY <1>a DEF MapOK
  <1>6. FreshOK'
    BY <1>a, <1>b DEF FreshOK
  <1>7. SingleClaim'
    BY <1>a, <1>b DEF SingleClaim, Holds, MapOK
  <1>8. BusyNamesOwnCall'
    BY <1>a DEF BusyNamesOwnCall, Parties
  <1>9. RingingIsOwned'
    BY <1>a, <1>b DEF RingingIsOwned, Holds, NoTask
  <1> QED
    BY <1>1, <1>2, <1>3, <1>4, <1>5, <1>6, <1>7, <1>8, <1>9 DEF IInv

(* IsBusy preserves the inductive invariant. *)
LEMMA IsBusyStep ==
  ASSUME IInv, NEW t \in Procs, IsBusy(t)
  PROVE  IInv'
  <1> USE ConstantsAssumption DEF IInv
  <1>a. /\ task[t].h = "initiate" /\ task[t].user \in Users
        /\ task[t].peer \in Users /\ task[t].call \in CallIds
        /\ task[t].out = "none" /\ task[t].owns
        /\ task[t].pc = "isBusy" /\ task[t] \in Tasks
    BY DEF IsBusy, TypeOK, TasksOK, TaskOK, NoTask
  <1>b. UNCHANGED <<call, busy, ringing, conn, told, faults>>
    BY DEF IsBusy
  <1>c. \/ task' = [task EXCEPT ![t] = NoTask]
        \/ task' = [task EXCEPT ![t].pc = "create"]
    BY DEF IsBusy, GoTo, Finish
  <1>d. \A s \in Procs : s # t => task'[s] = task[s]
    BY <1>c DEF TypeOK
  <1>e. /\ task'[t] \in Tasks /\ TaskOK(task'[t])
        /\ \/ task'[t] = NoTask
           \/ /\ task'[t].call = task[t].call /\ task'[t].owns
              /\ task'[t].h = "initiate" /\ task'[t].pc = "create"
              /\ task'[t].out = "none"
    <2>1. CASE task' = [task EXCEPT ![t] = NoTask]
      BY <2>1 DEF TypeOK, TaskOK, NoTask, Tasks, Handlers, Awaits
    <2>2. CASE task' = [task EXCEPT ![t].pc = "create"]
      BY <1>a, <2>2 DEF TypeOK, TaskOK, Tasks, Awaits
    <2> QED
      BY <1>c, <2>1, <2>2
  <1>f. call[task[t].call].status = "absent"
    BY <1>a DEF ReliancesOK, ReliesOn
  <1>1. TypeOK'
    BY <1>b, <1>c, <1>e DEF TypeOK
  <1>2. DocsOK'
    BY <1>b DEF DocsOK, DocOK
  <1>3. TasksOK'
    BY <1>d, <1>e DEF TasksOK
  <1>4. ReliancesOK'
    BY <1>a, <1>b, <1>d, <1>e, <1>f DEF ReliancesOK, ReliesOn, NoTask
  <1>5. MapOK'
    BY <1>b DEF MapOK
  <1>6. FreshOK'
    <2>1. \A s \in Procs : task[s].pc \in {"isBusy", "create"} => task[s].call # Nil
      BY DEF TasksOK, TaskOK, NoTask
    <2>2. task'[t].call = Nil \/ task'[t].call = task[t].call
      BY <1>e DEF NoTask
    <2>3. task'[t].pc \in {"isBusy", "create"} => task'[t].call = task[t].call
      BY <1>e DEF NoTask
    <2> QED
      BY <1>a, <1>d, <2>1, <2>2, <2>3 DEF FreshOK
  <1>7. SingleClaim'
    BY <1>a, <1>b, <1>d, <1>e DEF SingleClaim, Holds, NoTask
  <1>8. BusyNamesOwnCall'
    BY <1>b DEF BusyNamesOwnCall, Parties
  <1>9. RingingIsOwned'
    BY <1>a, <1>b, <1>d, <1>f DEF RingingIsOwned, Holds
  <1> QED
    BY <1>1, <1>2, <1>3, <1>4, <1>5, <1>6, <1>7, <1>8, <1>9 DEF IInv

(* CreateCall preserves the inductive invariant. *)
LEMMA CreateCallStep ==
  ASSUME IInv, NEW t \in Procs, CreateCall(t)
  PROVE  IInv'
  <1> USE ConstantsAssumption DEF IInv, CreateCall, GoTo
  <1>1. TypeOK'
    BY DEF TypeOK, TasksOK, TaskOK, NoTask, Tasks, Awaits, CallDocs, Statuses
  <1>2. DocsOK'
    BY DEF DocsOK, DocOK, TypeOK, TasksOK, TaskOK, NoTask, Tasks, CallDocs,
       ReliancesOK, ReliesOn, Ended, NoCall
  <1>3. TasksOK'
    <2>1. TaskOK(task'[t])
      BY DEF TasksOK, TaskOK, NoTask, DocOK, ReliesOn
    <2>2. QED
      BY <2>1 DEF TypeOK, TasksOK
  <1>4. ReliancesOK'
    BY DEF TypeOK, TasksOK, TaskOK, NoTask, ReliancesOK, ReliesOn, FreshOK,
       SingleClaim, CallDocs, DocsOK
  <1>5. MapOK'
    BY DEF MapOK, Holds, ReliesOn
  <1>6. FreshOK'
    BY DEF FreshOK, ReliancesOK
  <1>7. SingleClaim'
    BY DEF SingleClaim, Holds
  <1>8. BusyNamesOwnCall'
    BY DEF BusyNamesOwnCall, ReliancesOK, ReliesOn, Parties
  <1>9. RingingIsOwned'
    BY DEF TasksOK, TaskOK, NoTask, RingingIsOwned, Holds, ReliancesOK,
       CallDocs
  <1> QED
    BY <1>1, <1>2, <1>3, <1>4, <1>5, <1>6, <1>7, <1>8, <1>9 DEF IInv

(* Register preserves the inductive invariant. *)
LEMMA RegisterStep ==
  ASSUME IInv, NEW t \in Procs, Register(t)
  PROVE  IInv'
  <1> USE ConstantsAssumption DEF IInv, Register, Finish
  <1>1. TypeOK'
    BY DEF TypeOK, TasksOK, TaskOK, NoTask, Tasks, Handlers, Awaits, Statuses
  <1>2. DocsOK'
    BY DEF DocsOK, DocOK
  <1>3. TasksOK'
    <2>1. TaskOK(task'[t])
      BY DEF TypeOK, TaskOK, DocOK, ReliesOn
    <2>2. QED
      BY <2>1 DEF TypeOK, TasksOK
  <1>4. ReliancesOK'
    BY DEF NoTask, ReliancesOK, FreshOK, SingleClaim, CallDocs, DocsOK
  <1>5. MapOK'
    BY DEF TasksOK, TaskOK, NoTask, MapOK, SingleClaim, ReliancesOK, ReliesOn
  <1>6. FreshOK'
    BY DEF TasksOK, TaskOK, NoTask, FreshOK, ReliancesOK
  <1>7. SingleClaim'
    BY DEF TypeOK, TasksOK, TaskOK, NoTask, SingleClaim, Holds
  <1>8. BusyNamesOwnCall'
    BY DEF BusyNamesOwnCall, ReliancesOK, Parties
  <1>9. RingingIsOwned'
    BY DEF RingingIsOwned, Holds, ReliancesOK, CallDocs
  <1> QED
    BY <1>1, <1>2, <1>3, <1>4, <1>5, <1>6, <1>7, <1>8, <1>9 DEF IInv

(* Whoever takes an entry out of the map: accept, reject, cancel, timer. *)
LEMMA ClaimStep ==
  ASSUME IInv, NEW t \in Procs, NEW handler, NEW pc, NEW u, NEW c, NEW out,
         Claim(t, handler, pc, u, c, out),
         pc \in {"markActive", "endRead"}, out # "completed",
         LET k == [h |-> handler, pc |-> pc, user |-> u, peer |-> Nil,
                   call |-> c, out |-> out, owns |-> TRUE]
         IN  k \in Tasks /\ TaskOK(k)
  PROVE  IInv'
  <1> USE ConstantsAssumption DEF IInv
  <1> DEFINE k == [h |-> handler, pc |-> pc, user |-> u, peer |-> Nil,
                   call |-> c, out |-> out, owns |-> TRUE]
  <1>a. /\ c \in ringing /\ c \in CallIds /\ ringing' = ringing \ {c}
        /\ task' = [task EXCEPT ![t] = k]
        /\ UNCHANGED <<call, busy, conn, told, faults>>
    BY DEF Claim, Start, TypeOK
  <1>b. task[t] = NoTask
    BY DEF Claim, Idle, TasksOK, TaskOK
  <1>c. /\ task' \in [Procs -> Tasks] /\ TaskOK(task'[t])
        /\ task'[t].pc = pc /\ task'[t].call = c /\ task'[t].owns
        /\ task'[t].out = out
        /\ \A s \in Procs : s # t => task'[s] = task[s]
    BY <1>a DEF TypeOK
  <1>1. TypeOK'
    BY <1>a, <1>c DEF TypeOK
  <1>2. DocsOK'
    BY <1>a DEF DocsOK, DocOK
  <1>3. TasksOK'
    BY <1>c DEF TasksOK
  <1>4. ReliancesOK'
    <2>1. ReliesOn(task'[t], call[c])
      BY <1>a, <1>c DEF MapOK, ReliesOn
    <2> QED
      BY <1>a, <1>c, <2>1 DEF ReliancesOK
  <1>5. MapOK'
    BY <1>a DEF MapOK
  <1>6. FreshOK'
    <2>1. \A s \in Procs :
            task[s].pc \in {"isBusy", "create"} => task[s].call \notin ringing
      BY DEF TasksOK, TaskOK, NoTask, ReliancesOK, ReliesOn, MapOK
    <2> QED
      BY <1>a, <1>c, <2>1 DEF FreshOK
  <1>7. SingleClaim'
    BY <1>a, <1>c DEF SingleClaim, Holds
  <1>8. BusyNamesOwnCall'
    BY <1>a DEF BusyNamesOwnCall, Parties
  <1>9. RingingIsOwned'
    <2>1. \A s \in Procs, d \in CallIds : Holds(s, d) => Holds(s, d)'
      BY <1>b, <1>c DEF Holds, NoTask
    <2>2. Holds(t, c)'
      BY <1>c DEF Holds
    <2> QED
      BY <1>a, <2>1, <2>2 DEF RingingIsOwned
  <1> QED
    BY <1>1, <1>2, <1>3, <1>4, <1>5, <1>6, <1>7, <1>8, <1>9 DEF IInv

(* The four handlers that claim a ring: accept, reject, cancel, timeout. *)
LEMMA SettlingSteps ==
  ASSUME IInv, NEW c \in CallIds,
         \/ RingTimeout(c)
         \/ \E r \in Requests, u \in Users :
              Accept(r, u, c) \/ Reject(r, u, c) \/ Cancel(r, u, c)
  PROVE  IInv'
  <1> USE DEF Procs, Tasks, Handlers, Awaits, Ended, TaskOK
  <1>1. CASE RingTimeout(c)
    BY <1>1, ClaimStep DEF RingTimeout
  <1>2. ASSUME NEW r \in Requests, NEW u \in Users, Accept(r, u, c)
        PROVE  IInv'
    BY <1>2, ClaimStep DEF Accept
  <1>3. ASSUME NEW r \in Requests, NEW u \in Users, Reject(r, u, c)
        PROVE  IInv'
    BY <1>3, ClaimStep DEF Reject
  <1>4. ASSUME NEW r \in Requests, NEW u \in Users, Cancel(r, u, c)
        PROVE  IInv'
    BY <1>4, ClaimStep DEF Cancel
  <1> QED
    BY <1>1, <1>2, <1>3, <1>4

(* MarkActive preserves the inductive invariant. *)
LEMMA MarkActiveStep ==
  ASSUME IInv, NEW t \in Procs, MarkActive(t)
  PROVE  IInv'
  <1> USE ConstantsAssumption DEF IInv
  <1> DEFINE c == task[t].call
  <1>a. /\ task[t].h = "accept" /\ task[t].pc = "markActive"
        /\ task[t].user \in Users /\ task[t].out = "none"
        /\ task[t].owns /\ c \in CallIds /\ task[t] \in Tasks
    BY DEF MarkActive, TypeOK, TasksOK, TaskOK, NoTask
  <1>b. /\ task' = [task EXCEPT ![t].pc = "busyCaller"]
        /\ UNCHANGED <<busy, ringing, conn, told, faults>>
    BY DEF MarkActive, GoTo
  <1>c. /\ call[c].status # "absent" /\ c \notin ringing
        /\ \A s \in Procs : Holds(s, c) => s = t
    BY <1>a DEF ReliancesOK, ReliesOn, SingleClaim, Holds
  <1>d. \A s \in Procs : s # t => task'[s] = task[s]
    BY <1>b DEF TypeOK
  <1>e. /\ task'[t].h = "accept" /\ task'[t].pc = "busyCaller"
        /\ task'[t].user \in Users /\ task'[t].out = "none"
        /\ task'[t].owns /\ task'[t].call = c /\ task'[t] \in Tasks
    BY <1>a, <1>b DEF TypeOK, Tasks, Awaits
  <1>f. /\ call' \in [CallIds -> CallDocs]
        /\ \A d \in CallIds : d # c => call'[d] = call[d]
        /\ call'[c].caller = call[c].caller /\ call'[c].callee = call[c].callee
        /\ \/ call'[c] = call[c] /\ call[c].status # "ringing"
           \/ /\ call[c].status = "ringing"
              /\ call'[c].status = "active" /\ call'[c].answered
    <2>1. CASE call[c].status = "ringing"
      <3>1. call' = [call EXCEPT ![c].status = "active", ![c].answered = TRUE]
        BY <2>1 DEF MarkActive
      <3> QED
        BY <1>a, <2>1, <3>1 DEF TypeOK, CallDocs, Statuses
    <2>2. CASE call[c].status # "ringing"
      BY <2>2 DEF MarkActive, TypeOK
    <2> QED
      BY <2>1, <2>2
  <1>1. TypeOK'
    BY <1>b, <1>d, <1>e, <1>f DEF TypeOK
  <1>2. DocsOK'
    BY <1>a, <1>c, <1>f DEF DocsOK, DocOK
  <1>3. TasksOK'
    <2>1. TaskOK(task'[t])
      BY <1>a, <1>e DEF TaskOK
    <2> QED
      BY <1>d, <2>1 DEF TasksOK
  <1>4. ReliancesOK'
    <2> SUFFICES ASSUME NEW s \in Procs, task'[s].call # Nil
                 PROVE  ReliesOn(task'[s], call'[task'[s].call])
      BY DEF ReliancesOK
    <2>0. task'[s].call \in CallIds
      BY <1>d, <1>e DEF TypeOK, Tasks
    <2>1. CASE s = t
      BY <1>c, <1>e, <1>f, <2>1 DEF ReliesOn
    <2>2. CASE s # t /\ task[s].call = c
      <3>1. ~task[s].owns /\ ReliesOn(task[s], call[c])
        BY <1>a, <1>c, <2>2 DEF Holds, ReliancesOK
      <3>2. /\ call'[c].status \notin {"absent", "ringing"}
            /\ call[c].status \in Ended => call'[c].status \in Ended
            /\ call[c].answered => call'[c].answered
        BY <1>c, <1>f DEF Ended
      <3>3. ReliesOn(task[s], call'[c])
        BY <1>c, <3>1, <3>2 DEF ReliesOn
      <3> QED
        BY <1>d, <2>2, <3>3
    <2>3. CASE s # t /\ task[s].call # c
      BY <1>d, <1>f, <2>0, <2>3 DEF ReliancesOK
    <2> QED
      BY <2>1, <2>2, <2>3
  <1>5. MapOK'
    BY <1>b, <1>c, <1>f DEF MapOK, TypeOK
  <1>6. FreshOK'
    BY <1>a, <1>d, <1>e DEF FreshOK
  <1>7. SingleClaim'
    BY <1>a, <1>b, <1>d, <1>e DEF SingleClaim, Holds
  <1>8. BusyNamesOwnCall'
    BY <1>b, <1>f DEF BusyNamesOwnCall, Parties, TypeOK
  <1>9. RingingIsOwned'
    BY <1>a, <1>b, <1>d, <1>e, <1>f DEF RingingIsOwned, Holds
  <1> QED
    BY <1>1, <1>2, <1>3, <1>4, <1>5, <1>6, <1>7, <1>8, <1>9 DEF IInv

(* SetBusyCaller preserves the inductive invariant. *)
LEMMA SetBusyCallerStep ==
  ASSUME IInv, NEW t \in Procs, SetBusyCaller(t)
  PROVE  IInv'
  <1> USE ConstantsAssumption DEF IInv, SetBusyCaller, GoTo
  <1>1. TypeOK'
    <2>1. call' \in [CallIds -> CallDocs]
      BY DEF TypeOK
    <2>2. busy' \in [Users -> CallIds \cup {Nil}]
      BY DEF TypeOK, Tasks
    <2>3. told' \in [CallIds -> SUBSET Users]
      BY DEF TypeOK
    <2>4. task'[t] \in Tasks
      BY DEF TypeOK, Tasks, Awaits
    <2>5. task' \in [Procs -> Tasks]
      BY <2>4 DEF TypeOK
    <2>6. ringing' \in SUBSET CallIds /\ conn' \in [Users -> 0..MaxSockets] /\ faults' \in 0..MaxFaults
      BY DEF TypeOK
    <2> QED
      BY <2>1, <2>2, <2>3, <2>5, <2>6 DEF TypeOK
  <1>2. DocsOK'
    BY DEF DocsOK, DocOK
  <1>3. TasksOK'
    <2>1. TaskOK(task'[t])
      BY DEF TasksOK, TaskOK, NoTask, DocOK, ReliesOn
    <2>2. QED
      BY <2>1 DEF TypeOK, TasksOK
  <1>4. ReliancesOK'
    BY DEF ReliancesOK, ReliesOn, FreshOK, SingleClaim, CallDocs, DocsOK
  <1>5. MapOK'
    BY DEF MapOK, Holds, ReliesOn
  <1>6. FreshOK'
    BY DEF FreshOK, ReliancesOK
  <1>7. SingleClaim'
    BY DEF SingleClaim, Holds
  <1>8. BusyNamesOwnCall'
    BY DEF BusyNamesOwnCall, ReliancesOK, ReliesOn, Parties
  <1>9. RingingIsOwned'
    BY DEF RingingIsOwned, Holds, ReliancesOK, CallDocs
  <1> QED
    BY <1>1, <1>2, <1>3, <1>4, <1>5, <1>6, <1>7, <1>8, <1>9 DEF IInv

(* SetBusyCallee preserves the inductive invariant. *)
LEMMA SetBusyCalleeStep ==
  ASSUME IInv, NEW t \in Procs, SetBusyCallee(t)
  PROVE  IInv'
  <1> USE ConstantsAssumption DEF IInv, SetBusyCallee, Finish, Reached, OtherParty, Parties
  <1>1. TypeOK'
    <2>1. call' \in [CallIds -> CallDocs]
      BY DEF TypeOK
    <2>2. busy' \in [Users -> CallIds \cup {Nil}]
      BY DEF TypeOK, Tasks
    <2>3. told' \in [CallIds -> SUBSET Users]
      BY DEF DocsOK, DocOK, ReliancesOK, ReliesOn, TypeOK, TasksOK, TaskOK,
         NoTask, Tasks
    <2>4. task'[t] \in Tasks
      BY DEF TypeOK, TasksOK, NoTask, Tasks, Handlers, Awaits
    <2>5. task' \in [Procs -> Tasks]
      BY <2>4 DEF TypeOK
    <2>6. ringing' \in SUBSET CallIds /\ conn' \in [Users -> 0..MaxSockets] /\ faults' \in 0..MaxFaults
      BY DEF TypeOK
    <2> QED
      BY <2>1, <2>2, <2>3, <2>5, <2>6 DEF TypeOK
  <1>2. DocsOK'
    BY DEF DocsOK, DocOK
  <1>3. TasksOK'
    <2>1. TaskOK(task'[t])
      BY DEF TypeOK, TaskOK, DocOK, ReliesOn
    <2>2. QED
      BY <2>1 DEF TypeOK, TasksOK
  <1>4. ReliancesOK'
    BY DEF NoTask, ReliancesOK, FreshOK, SingleClaim, CallDocs, DocsOK
  <1>5. MapOK'
    BY DEF MapOK, Holds, ReliesOn
  <1>6. FreshOK'
    BY DEF TasksOK, TaskOK, NoTask, FreshOK, ReliancesOK
  <1>7. SingleClaim'
    BY DEF NoTask, SingleClaim, Holds
  <1>8. BusyNamesOwnCall'
    BY DEF BusyNamesOwnCall, ReliancesOK, ReliesOn, Parties
  <1>9. RingingIsOwned'
    BY DEF RingingIsOwned, Holds, ReliancesOK, ReliesOn, CallDocs
  <1> QED
    BY <1>1, <1>2, <1>3, <1>4, <1>5, <1>6, <1>7, <1>8, <1>9 DEF IInv

(* EndRead preserves the inductive invariant. *)
LEMMA EndReadStep ==
  ASSUME IInv, NEW t \in Procs, EndRead(t)
  PROVE  IInv'
  <1> USE ConstantsAssumption DEF IInv
  <1> DEFINE c == task[t].call
             o == IF call[c].status = task[t].out THEN "none" ELSE task[t].out
  <1>a. /\ task[t] \in Tasks /\ task[t].pc = "endRead" /\ c \in CallIds
        /\ task[t].out # "none" /\ TaskOK(task[t])
    BY DEF EndRead, TypeOK, TasksOK, TaskOK, NoTask
  <1>b. UNCHANGED <<call, busy, ringing, conn, told, faults>>
    BY DEF EndRead
  <1>c. task' = [task EXCEPT ![t] = [task[t] EXCEPT !.pc = "endSave", !.out = o]]
    BY DEF EndRead, TypeOK
  <1>d. \A s \in Procs : s # t => task'[s] = task[s]
    BY <1>c DEF TypeOK
  <1>e. /\ task'[t] \in Tasks
        /\ task'[t].h = task[t].h /\ task'[t].pc = "endSave"
        /\ task'[t].user = task[t].user /\ task'[t].peer = task[t].peer
        /\ task'[t].call = c /\ task'[t].owns = task[t].owns /\ task'[t].out = o
    BY <1>a, <1>c DEF TypeOK, Tasks, Awaits
  <1>f. /\ task[t].out \in Ended
        /\ o = "none" => call[c].status \in Ended
        /\ o # "none" => o = task[t].out
    BY <1>a DEF Tasks
  <1>1. TypeOK'
    BY <1>b, <1>c, <1>e DEF TypeOK
  <1>2. DocsOK'
    BY <1>b DEF DocsOK, DocOK
  <1>3. TasksOK'
    <2>1. TaskOK(task'[t])
      BY <1>a, <1>e, <1>f DEF TaskOK, NoTask
    <2> QED
      BY <1>d, <2>1 DEF TasksOK
  <1>4. ReliancesOK'
    <2>1. ReliesOn(task'[t], call[c])
      BY <1>a, <1>e, <1>f DEF ReliancesOK, ReliesOn
    <2> QED
      BY <1>b, <1>d, <1>e, <2>1 DEF ReliancesOK
  <1>5. MapOK'
    BY <1>b DEF MapOK
  <1>6. FreshOK'
    BY <1>a, <1>d, <1>e DEF FreshOK
  <1>7. SingleClaim'
    BY <1>b, <1>d, <1>e DEF SingleClaim, Holds
  <1>8. BusyNamesOwnCall'
    BY <1>b DEF BusyNamesOwnCall, Parties
  <1>9. RingingIsOwned'
    BY <1>b, <1>d, <1>e DEF RingingIsOwned, Holds
  <1> QED
    BY <1>1, <1>2, <1>3, <1>4, <1>5, <1>6, <1>7, <1>8, <1>9 DEF IInv

(* What markEnded's save does to the documents: it ends the call, touches   *)
(* nothing but its status, and leaves an ended call ended.                 *)
LEMMA SaveEffect ==
  ASSUME IInv, NEW t \in Procs, Save(t)
  PROVE  /\ task[t].call \in CallIds
         /\ call' \in [CallIds -> CallDocs]
         /\ DocsOK'
         /\ \A c \in CallIds : c # task[t].call => call'[c] = call[c]
         /\ call'[task[t].call].status \in Ended
         /\ \A c \in CallIds : /\ call'[c].caller = call[c].caller
                               /\ call'[c].callee = call[c].callee
                               /\ call'[c].answered = call[c].answered
                               /\ call'[c].status = "absent"
                                    <=> call[c].status = "absent"
                               /\ call'[c].status = "ringing"
                                    => call[c].status = "ringing"
                               /\ call[c].status \in Ended
                                    => call'[c].status \in Ended
  <1> USE ConstantsAssumption DEF IInv
  <1> DEFINE c == task[t].call
             o == task[t].out
  <1>1. /\ c \in CallIds /\ task[t].pc = "endSave" /\ TaskOK(task[t])
        /\ o \in Ended \cup {"none"}
    BY DEF Save, TypeOK, TasksOK, TaskOK, NoTask, Tasks
  <1>2. /\ call[c].status # "absent" /\ ReliesOn(task[t], call[c])
    BY <1>1 DEF ReliancesOK, ReliesOn
  <1>3. CASE o = "none"
    BY <1>1, <1>2, <1>3 DEF Save, ReliesOn, DocsOK, DocOK, TypeOK
  <1>4. CASE o # "none"
    <2>1. call' = [call EXCEPT ![c].status = o]
      BY <1>4 DEF Save
    <2>2. /\ call' \in [CallIds -> CallDocs]
          /\ \A d \in CallIds : d # c => call'[d] = call[d]
          /\ call'[c].status = o /\ call'[c].caller = call[c].caller
          /\ call'[c].callee = call[c].callee
          /\ call'[c].answered = call[c].answered
      BY <1>1, <1>4, <2>1 DEF TypeOK, CallDocs, Statuses
    <2>3. /\ o \in {"missed", "rejected"} => ~call[c].answered
          /\ o = "completed" => call[c].answered
      BY <1>1, <1>2 DEF TaskOK, ReliesOn, NoTask
    <2>4. /\ c \in CallIds /\ o \in Ended
          /\ call[c].caller \in Users /\ call[c].callee \in Users
      BY <1>1, <1>2, <1>4 DEF DocsOK, DocOK
    <2>5. DocsOK'
      BY <2>2, <2>3, <2>4 DEF DocsOK, DocOK, Ended
    <2> QED
      BY <1>1, <1>2, <1>4, <2>2, <2>5 DEF Ended
  <1> QED
    BY <1>3, <1>4

(* RingSettled preserves the inductive invariant. *)
LEMMA RingSettledStep ==
  ASSUME IInv, NEW t \in Procs, RingSettled(t)
  PROVE  IInv'
  <1> USE ConstantsAssumption DEF IInv
  <1> DEFINE c == task[t].call
  <1>a. /\ Save(t) /\ task[t].owns /\ TaskOK(task[t])
        /\ task[t].h = "timeout" \/ task[t].user \in Users
    BY DEF RingSettled, Save, TasksOK, TaskOK, NoTask
  <1>b. /\ task' = [task EXCEPT ![t] = NoTask]
        /\ told' = [told EXCEPT ![c] = @ \cup Reached(t)]
        /\ UNCHANGED <<busy, ringing, conn, faults>>
    BY DEF RingSettled, Finish
  <1>c. /\ task'[t] = NoTask
        /\ \A s \in Procs : s # t => task'[s] = task[s]
    BY <1>b DEF TypeOK
  <1>1. TypeOK'
    <2>1. Parties(c) \subseteq Users
      <3>1. c \in CallIds /\ c # Nil /\ task[t].pc = "endSave"
        <4>1. c \in CallIds
          BY <1>a, SaveEffect
        <4> QED
          BY <4>1, <1>a DEF Save
      <3>2. call[c].status # "absent"
        BY <3>1 DEF ReliancesOK, ReliesOn
      <3> QED
        BY <3>1, <3>2 DEF DocsOK, DocOK, Parties
    <2>2. Reached(t) \subseteq Users
      BY <1>a, <2>1 DEF Reached, OtherParty, Parties
    <2>3. NoTask \in Tasks
      BY DEF NoTask, Tasks, Handlers, Awaits
    <2> QED
      BY <1>a, <1>b, <2>2, <2>3, SaveEffect DEF TypeOK
  <1>2. DocsOK'
    BY <1>a, SaveEffect
  <1>3. TasksOK'
    BY <1>c DEF TasksOK, TaskOK
  <1>4. ReliancesOK'
    <2> SUFFICES ASSUME NEW s \in Procs, s # t, task[s].call # Nil
                 PROVE  ReliesOn(task[s], call'[task[s].call])
      BY <1>c DEF ReliancesOK, NoTask
    <2>1. task[s].call \in CallIds /\ ReliesOn(task[s], call[task[s].call])
      BY DEF ReliancesOK, TypeOK, Tasks
    <2> QED
      BY <1>a, <2>1, SaveEffect DEF ReliesOn
  <1>5. MapOK'
    BY <1>a, <1>b, SaveEffect DEF MapOK, TypeOK
  <1>6. FreshOK'
    <2>1. \A s \in Procs : task[s].pc \in {"isBusy", "create"} => task[s].call # Nil
      BY DEF TasksOK, TaskOK, NoTask
    <2> QED
      BY <1>c, <2>1 DEF FreshOK, NoTask
  <1>7. SingleClaim'
    BY <1>b, <1>c DEF SingleClaim, Holds, NoTask
  <1>8. BusyNamesOwnCall'
    BY <1>a, <1>b, SaveEffect DEF BusyNamesOwnCall, Parties, TypeOK, Ended
  <1>9. RingingIsOwned'
    BY <1>a, <1>b, <1>c, SaveEffect DEF RingingIsOwned, Holds, Ended
  <1> QED
    BY <1>1, <1>2, <1>3, <1>4, <1>5, <1>6, <1>7, <1>8, <1>9 DEF IInv

(* CallEnded preserves the inductive invariant. *)
LEMMA CallEndedStep ==
  ASSUME IInv, NEW t \in Procs, CallEnded(t)
  PROVE  IInv'
  <1> USE ConstantsAssumption DEF IInv
  <1> DEFINE c == task[t].call
  <1>s. Save(t) /\ task[t].pc = "endSave" /\ task[t].h \in {"end", "drop"}
    BY DEF CallEnded, Save
  <1>a. /\ Save(t) /\ task[t].pc = "endSave" /\ task[t].h \in {"end", "drop"}
        /\ task[t] \in Tasks /\ TaskOK(task[t]) /\ ReliesOn(task[t], call[c])
    <2>1. c \in CallIds
      BY <1>s, SaveEffect
    <2> QED
      BY <1>s, <2>1 DEF TypeOK, TasksOK, ReliancesOK
  <1>b. /\ task' = [task EXCEPT ![t].pc = "clearCaller"]
        /\ UNCHANGED <<busy, ringing, conn, told, faults>>
    BY DEF CallEnded, GoTo
  <1>c. \A s \in Procs : s # t => task'[s] = task[s]
    BY <1>b DEF TypeOK
  <1>d. /\ task'[t] \in Tasks
        /\ task'[t].h = task[t].h /\ task'[t].pc = "clearCaller"
        /\ task'[t].user = task[t].user /\ task'[t].call = c
        /\ task'[t].owns = task[t].owns /\ task'[t].out = task[t].out
    BY <1>a, <1>b DEF TypeOK, Tasks, Awaits
  <1>1. TypeOK'
    BY <1>a, <1>b, <1>d, SaveEffect DEF TypeOK
  <1>2. DocsOK'
    BY <1>a, SaveEffect
  <1>3. TasksOK'
    <2>1. TaskOK(task'[t])
      BY <1>a, <1>d DEF TaskOK, NoTask
    <2> QED
      BY <1>c, <2>1 DEF TasksOK
  <1>4. ReliancesOK'
    <2>1. ReliesOn(task'[t], call'[c])
      BY <1>a, <1>d, SaveEffect DEF ReliesOn, Ended
    <2> SUFFICES ASSUME NEW s \in Procs, s # t, task[s].call # Nil
                 PROVE  ReliesOn(task[s], call'[task[s].call])
      BY <1>c, <1>d, <2>1 DEF ReliancesOK
    <2>2. task[s].call \in CallIds /\ ReliesOn(task[s], call[task[s].call])
      BY DEF ReliancesOK, TypeOK, Tasks
    <2> QED
      BY <1>a, <2>2, SaveEffect DEF ReliesOn
  <1>5. MapOK'
    BY <1>a, <1>b, SaveEffect DEF MapOK, TypeOK
  <1>6. FreshOK'
    BY <1>a, <1>c, <1>d DEF FreshOK
  <1>7. SingleClaim'
    BY <1>b, <1>c, <1>d DEF SingleClaim, Holds
  <1>8. BusyNamesOwnCall'
    BY <1>a, <1>b, SaveEffect DEF BusyNamesOwnCall, Parties, TypeOK, Ended
  <1>9. RingingIsOwned'
    BY <1>a, <1>b, <1>c, <1>d, SaveEffect DEF RingingIsOwned, Holds, Ended
  <1> QED
    BY <1>1, <1>2, <1>3, <1>4, <1>5, <1>6, <1>7, <1>8, <1>9 DEF IInv

(* End preserves the inductive invariant. *)
LEMMA EndStep ==
  ASSUME IInv, NEW r \in Requests, NEW u \in Users, NEW c \in CallIds,
         End(r, u, c)
  PROVE  IInv'
  <1> USE ConstantsAssumption DEF IInv
  <1> DEFINE k == [h |-> "end", pc |-> "find", user |-> u, peer |-> Nil,
                   call |-> c, out |-> "none", owns |-> c \in ringing]
  <1>a. /\ r \in Procs /\ task[r] = NoTask
        /\ ringing' = ringing \ {c}
        /\ task' = [task EXCEPT ![r] = k]
        /\ UNCHANGED <<call, busy, conn, told, faults>>
    BY DEF End, Start, Idle, Procs, TypeOK, TasksOK, TaskOK, NoTask
  <1>b. /\ task'[r] = k /\ k \in Tasks
        /\ \A t \in Procs : t # r => task'[t] = task[t]
    BY <1>a DEF TypeOK, Tasks, Handlers, Awaits
  <1>d. /\ task'[r].call = c
        /\ c \in ringing => task'[r].owns
        /\ c \notin ringing => ~task'[r].owns
    <2>1. task'[r] = k
      BY <1>b
    <2>2. CASE c \in ringing
      <3>1. k.owns /\ k.call = c
        BY <2>2, Zenon
      <3> QED
        BY <2>1, <2>2, <3>1
    <2>3. CASE c \notin ringing
      <3>1. ~k.owns /\ k.call = c
        BY <2>3, Zenon
      <3> QED
        BY <2>1, <2>3, <3>1
    <2> QED
      BY <2>2, <2>3
  <1>c. call[c].status # "absent"
    BY DEF End, Parties, DocsOK, DocOK, NoCall
  <1>1. TypeOK'
    BY <1>a, <1>b DEF TypeOK
  <1>2. DocsOK'
    BY <1>a DEF DocsOK, DocOK
  <1>3. TasksOK'
    <2>1. TaskOK(k)
      BY DEF TaskOK
    <2> QED
      BY <1>b, <2>1 DEF TasksOK
  <1>4. ReliancesOK'
    <2>1. ReliesOn(k, call[c])
      BY <1>c DEF ReliesOn, MapOK
    <2> QED
      BY <1>a, <1>b, <2>1 DEF ReliancesOK
  <1>5. MapOK'
    BY <1>a DEF MapOK
  <1>6. FreshOK'
    <2>1. \A t \in Procs :
            task[t].pc \in {"isBusy", "create"} => task[t].call # c
      BY <1>c DEF ReliancesOK, ReliesOn
    <2> QED
      BY <1>b, <2>1 DEF FreshOK
  <1>7. SingleClaim'
    <2>1. \A t \in Procs : t # r => task'[t] = task[t]
      BY <1>b
    <2> QED
      BY <1>a, <1>d, <2>1 DEF SingleClaim, Holds
  <1>8. BusyNamesOwnCall'
    BY <1>a DEF BusyNamesOwnCall, Parties
  <1>9. RingingIsOwned'
    <2>1. c \in ringing => Holds(r, c)'
      BY <1>d DEF Holds
    <2>2. \A t \in Procs, d \in CallIds : Holds(t, d) => Holds(t, d)'
      BY <1>a, <1>b DEF Holds, NoTask
    <2> QED
      BY <1>a, <2>1, <2>2 DEF RingingIsOwned
  <1> QED
    BY <1>1, <1>2, <1>3, <1>4, <1>5, <1>6, <1>7, <1>8, <1>9 DEF IInv

(* GetBusyCall preserves the inductive invariant. *)
LEMMA GetBusyCallStep ==
  ASSUME IInv, NEW t \in Procs, GetBusyCall(t)
  PROVE  IInv'
  <1> USE ConstantsAssumption DEF IInv
  <1> DEFINE c == busy[task[t].user]
  <1>a. /\ task[t] \in Tasks /\ task[t].pc = "getBusy" /\ task[t].h = "drop"
        /\ task[t].user \in Users /\ task[t].call = Nil /\ ~task[t].owns
        /\ task[t].out = "none"
    BY DEF GetBusyCall, TypeOK, TasksOK, TaskOK, NoTask
  <1>b. /\ UNCHANGED <<call, busy, ringing, conn, told, faults>>
        /\ \/ c = Nil /\ task' = [task EXCEPT ![t] = NoTask]
           \/ c # Nil /\ task' = [task EXCEPT ![t] =
                                    [task[t] EXCEPT !.pc = "find", !.call = c]]
    BY DEF GetBusyCall, Finish, TypeOK
  <1>c. \A s \in Procs : s # t => task'[s] = task[s]
    BY <1>b DEF TypeOK
  <1>d. /\ task'[t] \in Tasks /\ ~task'[t].owns
        /\ \/ task'[t] = NoTask
           \/ /\ task'[t].h = "drop" /\ task'[t].pc = "find"
              /\ task'[t].user \in Users /\ task'[t].call = c /\ c \in CallIds
              /\ task'[t].out = task[t].out
    <2>1. CASE c = Nil
      <3>1. task'[t] = NoTask
        BY <1>b, <2>1 DEF TypeOK
      <3> QED
        BY <3>1 DEF NoTask, Tasks, Handlers, Awaits
    <2>2. CASE c # Nil
      <3>1. c \in CallIds
        BY <1>a, <2>2 DEF TypeOK
      <3>2. task'[t] = [task[t] EXCEPT !.pc = "find", !.call = c]
        BY <1>b, <2>2 DEF TypeOK
      <3> QED
        BY <1>a, <3>1, <3>2 DEF Tasks, Awaits
    <2> QED
      BY <2>1, <2>2
  <1>1. TypeOK'
    BY <1>b, <1>d DEF TypeOK
  <1>2. DocsOK'
    BY <1>b DEF DocsOK, DocOK
  <1>3. TasksOK'
    <2>1. TaskOK(task'[t])
      BY <1>a, <1>d DEF TaskOK
    <2> QED
      BY <1>c, <2>1 DEF TasksOK
  <1>4. ReliancesOK'
    <2>1. c # Nil => call[c].status # "absent"
      BY <1>a DEF BusyNamesOwnCall
    <2>2. task'[t].call # Nil => ReliesOn(task'[t], call[task'[t].call])
      BY <1>a, <1>d, <2>1 DEF ReliesOn, NoTask
    <2> QED
      BY <1>b, <1>c, <2>2 DEF ReliancesOK
  <1>5. MapOK'
    BY <1>b DEF MapOK
  <1>6. FreshOK'
    <2>1. \A s \in Procs :
            task[s].pc \in {"isBusy", "create"} /\ c # Nil => task[s].call # c
      BY <1>a DEF BusyNamesOwnCall, ReliancesOK, ReliesOn
    <2>2. \A s \in Procs :
            task[s].pc \in {"isBusy", "create"} => task[s].call # Nil
      BY DEF TasksOK, TaskOK, NoTask
    <2> QED
      BY <1>a, <1>c, <1>d, <2>1, <2>2 DEF FreshOK, NoTask
  <1>7. SingleClaim'
    BY <1>b, <1>c, <1>d DEF SingleClaim, Holds
  <1>8. BusyNamesOwnCall'
    BY <1>b DEF BusyNamesOwnCall, Parties
  <1>9. RingingIsOwned'
    <2>1. \A s \in Procs, d \in CallIds : Holds(s, d) => Holds(s, d)'
      BY <1>a, <1>c DEF Holds
    <2> QED
      BY <1>b, <2>1 DEF RingingIsOwned
  <1> QED
    BY <1>1, <1>2, <1>3, <1>4, <1>5, <1>6, <1>7, <1>8, <1>9 DEF IInv

(* FindCall preserves the inductive invariant. *)
LEMMA FindCallStep ==
  ASSUME IInv, NEW t \in Procs, FindCall(t)
  PROVE  IInv'
  <1> USE ConstantsAssumption DEF IInv
  <1> DEFINE c == task[t].call
             o == IF call[c].status = "active" THEN "completed" ELSE "cancelled"
  <1>a. /\ task[t] \in Tasks /\ task[t].pc = "find" /\ TaskOK(task[t])
        /\ task[t].h \in {"end", "drop"} /\ task[t].user \in Users
        /\ c \in CallIds
    BY DEF FindCall, TypeOK, TasksOK, TaskOK, NoTask
  <1>b. call[c].status # "absent" /\ ReliesOn(task[t], call[c])
    BY <1>a DEF ReliancesOK, ReliesOn
  <1>c. /\ task' = [task EXCEPT ![t] = [task[t] EXCEPT !.pc = "endRead", !.out = o]]
        /\ UNCHANGED <<call, busy, ringing, conn, told, faults>>
    BY <1>b DEF FindCall, TypeOK
  <1>d. \A s \in Procs : s # t => task'[s] = task[s]
    BY <1>c DEF TypeOK
  <1>e. /\ task'[t] \in Tasks
        /\ task'[t].h = task[t].h /\ task'[t].pc = "endRead"
        /\ task'[t].user = task[t].user /\ task'[t].call = c
        /\ task'[t].owns = task[t].owns /\ task'[t].out = o
    BY <1>a, <1>c DEF TypeOK, Tasks, Awaits, Ended
  <1>1. TypeOK'
    BY <1>c, <1>e DEF TypeOK
  <1>2. DocsOK'
    BY <1>c DEF DocsOK, DocOK
  <1>3. TasksOK'
    <2>1. TaskOK(task'[t])
      BY <1>a, <1>e DEF TaskOK
    <2> QED
      BY <1>d, <2>1 DEF TasksOK
  <1>4. ReliancesOK'
    <2>1. o = "completed" => call[c].answered
      BY <1>a DEF DocsOK, DocOK
    <2>2. ReliesOn(task'[t], call[c])
      BY <1>b, <1>e, <2>1 DEF ReliesOn
    <2> QED
      BY <1>c, <1>d, <1>e, <2>2 DEF ReliancesOK
  <1>5. MapOK'
    BY <1>c DEF MapOK
  <1>6. FreshOK'
    BY <1>a, <1>d, <1>e DEF FreshOK
  <1>7. SingleClaim'
    BY <1>c, <1>d, <1>e DEF SingleClaim, Holds
  <1>8. BusyNamesOwnCall'
    BY <1>c DEF BusyNamesOwnCall, Parties
  <1>9. RingingIsOwned'
    BY <1>c, <1>d, <1>e DEF RingingIsOwned, Holds
  <1> QED
    BY <1>1, <1>2, <1>3, <1>4, <1>5, <1>6, <1>7, <1>8, <1>9 DEF IInv

(* ClearCaller preserves the inductive invariant. *)
LEMMA ClearCallerStep ==
  ASSUME IInv, NEW t \in Procs, ClearCaller(t)
  PROVE  IInv'
  <1> USE ConstantsAssumption DEF IInv, ClearCaller, GoTo
  <1>1. TypeOK'
    <2>1. call' \in [CallIds -> CallDocs]
      BY DEF TypeOK
    <2>2. busy' \in [Users -> CallIds \cup {Nil}]
      BY DEF TypeOK
    <2>3. told' \in [CallIds -> SUBSET Users]
      BY DEF TypeOK
    <2>4. task'[t] \in Tasks
      BY DEF TypeOK, Tasks, Awaits
    <2>5. task' \in [Procs -> Tasks]
      BY <2>4 DEF TypeOK
    <2>6. ringing' \in SUBSET CallIds /\ conn' \in [Users -> 0..MaxSockets] /\ faults' \in 0..MaxFaults
      BY DEF TypeOK
    <2> QED
      BY <2>1, <2>2, <2>3, <2>5, <2>6 DEF TypeOK
  <1>2. DocsOK'
    BY DEF DocsOK, DocOK
  <1>3. TasksOK'
    <2>1. TaskOK(task'[t])
      BY DEF TasksOK, TaskOK, NoTask, DocOK, ReliesOn
    <2>2. QED
      BY <2>1 DEF TypeOK, TasksOK
  <1>4. ReliancesOK'
    BY DEF ReliancesOK, ReliesOn, FreshOK, SingleClaim, CallDocs, DocsOK
  <1>5. MapOK'
    BY DEF MapOK, Holds, ReliesOn
  <1>6. FreshOK'
    BY DEF FreshOK, ReliancesOK
  <1>7. SingleClaim'
    BY DEF SingleClaim, Holds
  <1>8. BusyNamesOwnCall'
    BY DEF BusyNamesOwnCall, ReliancesOK, Parties
  <1>9. RingingIsOwned'
    BY DEF RingingIsOwned, Holds, ReliancesOK, CallDocs
  <1> QED
    BY <1>1, <1>2, <1>3, <1>4, <1>5, <1>6, <1>7, <1>8, <1>9 DEF IInv

(* ClearCallee preserves the inductive invariant. *)
LEMMA ClearCalleeStep ==
  ASSUME IInv, NEW t \in Procs, ClearCallee(t)
  PROVE  IInv'
  <1> USE ConstantsAssumption DEF IInv, ClearCallee, Finish, Reached, OtherParty, Parties
  <1>1. TypeOK'
    <2>1. call' \in [CallIds -> CallDocs]
      BY DEF TypeOK
    <2>2. busy' \in [Users -> CallIds \cup {Nil}]
      BY DEF TypeOK
    <2>3. told' \in [CallIds -> SUBSET Users]
      BY DEF DocsOK, DocOK, ReliancesOK, ReliesOn, TypeOK, TasksOK, TaskOK,
         NoTask, Tasks
    <2>4. task'[t] \in Tasks
      BY DEF TypeOK, TasksOK, NoTask, Tasks, Handlers, Awaits
    <2>5. task' \in [Procs -> Tasks]
      BY <2>4 DEF TypeOK
    <2>6. ringing' \in SUBSET CallIds /\ conn' \in [Users -> 0..MaxSockets] /\ faults' \in 0..MaxFaults
      BY DEF TypeOK
    <2> QED
      BY <2>1, <2>2, <2>3, <2>5, <2>6 DEF TypeOK
  <1>2. DocsOK'
    BY DEF DocsOK, DocOK
  <1>3. TasksOK'
    <2>1. TaskOK(task'[t])
      BY DEF TypeOK, TaskOK, DocOK, ReliesOn
    <2>2. QED
      BY <2>1 DEF TypeOK, TasksOK
  <1>4. ReliancesOK'
    BY DEF NoTask, ReliancesOK, FreshOK, SingleClaim, CallDocs, DocsOK
  <1>5. MapOK'
    BY DEF MapOK, Holds, ReliesOn
  <1>6. FreshOK'
    BY DEF TasksOK, TaskOK, NoTask, FreshOK, ReliancesOK
  <1>7. SingleClaim'
    BY DEF NoTask, SingleClaim, Holds
  <1>8. BusyNamesOwnCall'
    BY DEF BusyNamesOwnCall, ReliancesOK, Parties
  <1>9. RingingIsOwned'
    BY DEF RingingIsOwned, Holds, ReliancesOK, ReliesOn, Ended
  <1> QED
    BY <1>1, <1>2, <1>3, <1>4, <1>5, <1>6, <1>7, <1>8, <1>9 DEF IInv

(* ExpireBusy preserves the inductive invariant. *)
LEMMA ExpireBusyStep ==
  ASSUME IInv, NEW u \in Users, ExpireBusy(u)
  PROVE  IInv'
  <1> USE ConstantsAssumption DEF IInv, ExpireBusy
  <1>1. TypeOK'
    BY DEF TypeOK, Awaits, Statuses
  <1>2. DocsOK'
    BY DEF DocsOK, DocOK
  <1>3. TasksOK'
    BY DEF TasksOK
  <1>4. ReliancesOK'
    BY DEF ReliancesOK, FreshOK, SingleClaim, CallDocs, DocsOK
  <1>5. MapOK'
    BY DEF MapOK, Holds, ReliesOn
  <1>6. FreshOK'
    BY DEF FreshOK, ReliancesOK
  <1>7. SingleClaim'
    BY DEF SingleClaim, Holds
  <1>8. BusyNamesOwnCall'
    BY DEF BusyNamesOwnCall, ReliancesOK, Parties
  <1>9. RingingIsOwned'
    BY DEF TypeOK, RingingIsOwned, ReliancesOK, CallDocs
  <1> QED
    BY <1>1, <1>2, <1>3, <1>4, <1>5, <1>6, <1>7, <1>8, <1>9 DEF IInv

(* One turn of the disconnect loop: the handler either holds a fresh entry  *)
(* of the map, or is done with the map.                                    *)
LEMMA NextRing ==
  ASSUME IInv, NEW t \in Procs, NEW u \in Users, DropNext(t, u)
  PROVE  /\ task' \in [Procs -> Tasks]
         /\ TaskOK(task'[t])
         /\ \A s \in Procs : s # t => task'[s] = task[s]
         /\ task'[t].out # "completed"
         /\ \/ /\ task'[t].call \in ringing /\ task'[t].owns
               /\ task'[t].pc = "endRead"
               /\ ringing' = ringing \ {task'[t].call}
            \/ /\ task'[t].call = Nil /\ ~task'[t].owns
               /\ task'[t].pc = "getBusy"
               /\ ringing' = ringing
  <1> USE ConstantsAssumption DEF IInv
  <1>1. CASE RingsOf(u) = {}
    <2> DEFINE k == [h |-> "drop", pc |-> "getBusy", user |-> u, peer |-> Nil,
                     call |-> Nil, out |-> "none", owns |-> FALSE]
    <2>1. ringing' = ringing /\ task' = [task EXCEPT ![t] = k]
      BY <1>1 DEF DropNext, Start
    <2>2. k \in Tasks /\ TaskOK(k)
      BY DEF Tasks, Handlers, Awaits, TaskOK
    <2> QED
      BY <2>1, <2>2 DEF TypeOK
  <1>2. CASE RingsOf(u) # {}
    <2>1. PICK c \in RingsOf(u) :
            /\ ringing' = ringing \ {c}
            /\ Start(t, "dropRing", "endRead", u, c, "cancelled", TRUE)
      BY <1>2 DEF DropNext
    <2> DEFINE k == [h |-> "dropRing", pc |-> "endRead", user |-> u,
                     peer |-> Nil, call |-> c, out |-> "cancelled", owns |-> TRUE]
    <2>2. c \in ringing /\ c \in CallIds /\ task' = [task EXCEPT ![t] = k]
      BY <2>1 DEF RingsOf, Start, TypeOK
    <2>3. k \in Tasks /\ TaskOK(k)
      BY <2>2 DEF Tasks, Handlers, Awaits, Ended, TaskOK
    <2> QED
      BY <2>1, <2>2, <2>3 DEF TypeOK
  <1> QED
    BY <1>1, <1>2

(* Disconnect preserves the inductive invariant. *)
LEMMA DisconnectStep ==
  ASSUME IInv, NEW r \in Requests, NEW u \in Users, Disconnect(r, u)
  PROVE  IInv'
  <1> USE ConstantsAssumption DEF IInv
  <1>a. /\ r \in Procs /\ task[r] = NoTask /\ DropNext(r, u)
        /\ UNCHANGED <<call, busy, told, faults>>
    BY DEF Disconnect, Idle, Procs, TypeOK, TasksOK, TaskOK, NoTask
  <1>b. /\ task' \in [Procs -> Tasks]
        /\ TaskOK(task'[r])
        /\ \A s \in Procs : s # r => task'[s] = task[s]
        /\ task'[r].out # "completed"
        /\ \/ /\ task'[r].call \in ringing /\ task'[r].owns
              /\ task'[r].pc = "endRead"
              /\ ringing' = ringing \ {task'[r].call}
           \/ /\ task'[r].call = Nil /\ ~task'[r].owns
              /\ task'[r].pc = "getBusy"
              /\ ringing' = ringing
    BY <1>a, NextRing
  <1>1. TypeOK'
    <2>1. conn' \in [Users -> 0..MaxSockets]
      BY DEF Disconnect, TypeOK
    <2> QED
      BY <1>a, <1>b, <2>1 DEF TypeOK
  <1>2. DocsOK'
    BY <1>a DEF DocsOK, DocOK
  <1>3. TasksOK'
    BY <1>b DEF TasksOK
  <1>4. ReliancesOK'
    <2>1. task'[r].call # Nil => ReliesOn(task'[r], call[task'[r].call])
      BY <1>b DEF MapOK, ReliesOn
    <2> QED
      BY <1>a, <1>b, <2>1 DEF ReliancesOK
  <1>5. MapOK'
    BY <1>a, <1>b DEF MapOK
  <1>6. FreshOK'
    <2>1. \A s \in Procs : task[s].pc \in {"isBusy", "create"} =>
                             task[s].call # Nil /\ task[s].call \notin ringing
      BY DEF TasksOK, TaskOK, NoTask, ReliancesOK, ReliesOn, MapOK
    <2> QED
      BY <1>b, <2>1 DEF FreshOK
  <1>7. SingleClaim'
    BY <1>b DEF SingleClaim, Holds
  <1>8. BusyNamesOwnCall'
    BY <1>a DEF BusyNamesOwnCall, Parties
  <1>9. RingingIsOwned'
    <2>1. \A s \in Procs, d \in CallIds : Holds(s, d) => Holds(s, d)'
      BY <1>a, <1>b DEF Holds, NoTask
    <2>2. \A d \in ringing : d \in ringing' \/ Holds(r, d)'
      BY <1>b DEF Holds
    <2> QED
      BY <1>a, <2>1, <2>2 DEF RingingIsOwned
  <1> QED
    BY <1>1, <1>2, <1>3, <1>4, <1>5, <1>6, <1>7, <1>8, <1>9 DEF IInv

(* RingDropped preserves the inductive invariant. *)
LEMMA RingDroppedStep ==
  ASSUME IInv, NEW t \in Procs, RingDropped(t)
  PROVE  IInv'
  <1> USE ConstantsAssumption DEF IInv
  <1> DEFINE c == task[t].call
  <1>a. /\ Save(t) /\ task[t].owns /\ task[t].user \in Users
        /\ DropNext(t, task[t].user)
        /\ told' = [told EXCEPT ![c] = @ \cup Reached(t)]
        /\ UNCHANGED <<busy, conn, faults>>
    BY DEF RingDropped, Save, TasksOK, TaskOK, NoTask
  <1>b. /\ task' \in [Procs -> Tasks]
        /\ TaskOK(task'[t])
        /\ \A s \in Procs : s # t => task'[s] = task[s]
        /\ task'[t].out # "completed"
        /\ \/ /\ task'[t].call \in ringing /\ task'[t].owns
              /\ task'[t].pc = "endRead"
              /\ ringing' = ringing \ {task'[t].call}
           \/ /\ task'[t].call = Nil /\ ~task'[t].owns
              /\ task'[t].pc = "getBusy"
              /\ ringing' = ringing
    BY <1>a, NextRing
  <1>1. TypeOK'
    <2>1. Parties(c) \subseteq Users
      <3>1. c \in CallIds /\ c # Nil /\ task[t].pc = "endSave"
        <4>1. c \in CallIds
          BY <1>a, SaveEffect
        <4> QED
          BY <4>1, <1>a DEF Save
      <3>2. call[c].status # "absent"
        BY <3>1 DEF ReliancesOK, ReliesOn
      <3> QED
        BY <3>1, <3>2 DEF DocsOK, DocOK, Parties
    <2>2. Reached(t) \subseteq Users
      BY <1>a, <2>1 DEF Reached, OtherParty, Parties
    <2> QED
      BY <1>a, <1>b, <2>2, SaveEffect DEF TypeOK
  <1>2. DocsOK'
    BY <1>a, SaveEffect
  <1>3. TasksOK'
    BY <1>b DEF TasksOK
  <1>4. ReliancesOK'
    <2>1. task'[t].call # Nil => ReliesOn(task'[t], call'[task'[t].call])
      BY <1>a, <1>b, SaveEffect DEF MapOK, ReliesOn, TypeOK
    <2> SUFFICES ASSUME NEW s \in Procs, s # t, task[s].call # Nil
                 PROVE  ReliesOn(task[s], call'[task[s].call])
      BY <1>b, <2>1 DEF ReliancesOK
    <2>2. task[s].call \in CallIds /\ ReliesOn(task[s], call[task[s].call])
      BY DEF ReliancesOK, TypeOK, Tasks
    <2> QED
      BY <1>a, <2>2, SaveEffect DEF ReliesOn
  <1>5. MapOK'
    BY <1>a, <1>b, SaveEffect DEF MapOK, TypeOK
  <1>6. FreshOK'
    <2>1. \A s \in Procs : task[s].pc \in {"isBusy", "create"} =>
                             task[s].call # Nil /\ task[s].call \notin ringing
      BY DEF TasksOK, TaskOK, NoTask, ReliancesOK, ReliesOn, MapOK
    <2> QED
      BY <1>b, <2>1 DEF FreshOK
  <1>7. SingleClaim'
    BY <1>b DEF SingleClaim, Holds
  <1>8. BusyNamesOwnCall'
    BY <1>a, SaveEffect DEF BusyNamesOwnCall, Parties, TypeOK, Ended
  <1>9. RingingIsOwned'
    <2>1. \A s \in Procs, d \in CallIds :
            Holds(s, d) => d = c \/ Holds(s, d)'
      BY <1>a, <1>b DEF Holds
    <2>2. \A d \in ringing : d \in ringing' \/ Holds(t, d)'
      BY <1>b DEF Holds
    <2> QED
      BY <1>a, <2>1, <2>2, SaveEffect DEF RingingIsOwned, Ended
  <1> QED
    BY <1>1, <1>2, <1>3, <1>4, <1>5, <1>6, <1>7, <1>8, <1>9 DEF IInv

(* Crash preserves the inductive invariant. *)
LEMMA CrashStep ==
  ASSUME IInv, Crash
  PROVE  IInv'
  <1> USE ConstantsAssumption DEF IInv, Crash
  <1>1. TypeOK'
    BY DEF TypeOK, TasksOK, NoTask, Tasks, Handlers, Awaits, Statuses
  <1>2. DocsOK'
    BY DEF DocsOK, DocOK
  <1>3. TasksOK'
    BY DEF TasksOK, TaskOK
  <1>4. ReliancesOK'
    BY DEF NoTask, ReliancesOK, FreshOK, SingleClaim, CallDocs, DocsOK
  <1>5. MapOK'
    BY DEF MapOK, Holds, ReliesOn
  <1>6. FreshOK'
    BY DEF NoTask, FreshOK, ReliancesOK
  <1>7. SingleClaim'
    BY DEF NoTask, SingleClaim, Holds
  <1>8. BusyNamesOwnCall'
    BY DEF BusyNamesOwnCall, ReliancesOK, Parties
  <1>9. RingingIsOwned'
    BY DEF TypeOK, RingingIsOwned, ReliancesOK, CallDocs
  <1> QED
    BY <1>1, <1>2, <1>3, <1>4, <1>5, <1>6, <1>7, <1>8, <1>9 DEF IInv

(* Abort preserves the inductive invariant. *)
LEMMA AbortStep ==
  ASSUME IInv, NEW r \in Requests, Abort(r)
  PROVE  IInv'
  <1> USE ConstantsAssumption DEF IInv, Abort, Finish, Procs
  <1>1. TypeOK'
    BY DEF TypeOK, TasksOK, NoTask, Tasks, Handlers, Awaits, Statuses
  <1>2. DocsOK'
    BY DEF DocsOK, DocOK
  <1>3. TasksOK'
    <2>1. TaskOK(task'[r])
      BY DEF TypeOK, TaskOK, DocOK, ReliesOn
    <2>2. QED
      BY <2>1 DEF TypeOK, TasksOK
  <1>4. ReliancesOK'
    BY DEF NoTask, ReliancesOK, FreshOK, SingleClaim, CallDocs, DocsOK
  <1>5. MapOK'
    BY DEF MapOK, Holds, ReliesOn
  <1>6. FreshOK'
    BY DEF TasksOK, TaskOK, NoTask, FreshOK, ReliancesOK
  <1>7. SingleClaim'
    BY DEF NoTask, SingleClaim, Holds
  <1>8. BusyNamesOwnCall'
    BY DEF BusyNamesOwnCall, ReliancesOK, Parties
  <1>9. RingingIsOwned'
    BY DEF TypeOK, RingingIsOwned, ReliancesOK, CallDocs
  <1> QED
    BY <1>1, <1>2, <1>3, <1>4, <1>5, <1>6, <1>7, <1>8, <1>9 DEF IInv

(* A step that changes nothing keeps the invariant. *)
LEMMA StutterStep ==
  ASSUME IInv, UNCHANGED vars
  PROVE  IInv'
  BY DEF vars, IInv, TypeOK, DocsOK, DocOK, TasksOK, TaskOK, ReliancesOK,
     ReliesOn, MapOK, FreshOK, SingleClaim, Holds, BusyNamesOwnCall, Parties,
     RingingIsOwned, Procs

(* The invariant is inductive. *)
LEMMA NextIInv == IInv /\ [Next]_vars => IInv'
  <1> SUFFICES ASSUME IInv, [Next]_vars PROVE IInv'
    OBVIOUS
  <1>1. CASE UNCHANGED vars
    BY <1>1, StutterStep
  <1>2. CASE \E u \in Users : Connect(u) \/ ExpireBusy(u)
    BY <1>2, ConnectStep, ExpireBusyStep
  <1>3. CASE \E r \in Requests, u \in Users : Event(r, u)
    BY <1>3, DisconnectStep, InitiateStep, SettlingSteps, EndStep DEF Event
  <1>4. CASE \E c \in CallIds : RingTimeout(c)
    BY <1>4, SettlingSteps
  <1>5. CASE \E t \in Procs : Step(t)
    BY <1>5, IsBusyStep, CreateCallStep, RegisterStep, MarkActiveStep,
       SetBusyCallerStep, SetBusyCalleeStep, EndReadStep, RingSettledStep,
       RingDroppedStep, CallEndedStep, GetBusyCallStep, FindCallStep,
       ClearCallerStep, ClearCalleeStep DEF Step
  <1>6. CASE Crash
    BY <1>6, CrashStep
  <1>7. CASE \E r \in Requests : Abort(r)
    BY <1>7, AbortStep
  <1> QED
    BY <1>1, <1>2, <1>3, <1>4, <1>5, <1>6, <1>7 DEF Next

(* The inductive invariant holds in every reachable state. *)
LEMMA Invariance == Spec => []IInv
  BY InitIInv, NextIInv, PTL DEF Spec

------------------------------------------------------------------------------
(* The state always has its type: in particular busy keys hold call ids    *)
(* and users told of a ring are accounts (calls.service.ts:94-114).        *)
THEOREM TypeCorrect == Spec => []TypeOK
  <1>1. IInv => TypeOK
    BY DEF IInv
  <1> QED
    BY <1>1, Invariance, PTL

(* However many requests, timers, users and calls: a ring is settled by at *)
(* most one handler (call.gateway.ts:167-224, 277-281, 303-306).           *)
THEOREM RingSettledOnce == Spec => []SingleClaim
  <1>1. IInv => SingleClaim
    BY DEF IInv
  <1> QED
    BY <1>1, Invariance, PTL

(* A call recorded as missed or rejected was never answered, one recorded  *)
(* as completed was (calls.service.ts:50-74).                              *)
THEOREM HistoryIsTruthful == Spec => []OutcomeMatchesAnswer
  <1>1. IInv => OutcomeMatchesAnswer
    BY DEF IInv, DocsOK, DocOK, OutcomeMatchesAnswer
  <1> QED
    BY <1>1, Invariance, PTL

(* Without faults no call is left ringing with nobody to stop it           *)
(* (call.gateway.ts:143-153, 303-308).                                     *)
THEOREM NoAbandonedRing == Spec => []RingingIsOwned
  <1>1. IInv => RingingIsOwned
    BY DEF IInv
  <1> QED
    BY <1>1, Invariance, PTL

(* A busy key names a call of its own user that is past ringing, so a      *)
(* disconnect ends no other (call.gateway.ts:101-114).                     *)
THEOREM BusyKeysAreOwn == Spec => []BusyNamesOwnCall
  <1>1. IInv => BusyNamesOwnCall
    BY DEF IInv
  <1> QED
    BY <1>1, Invariance, PTL

------------------------------------------------------------------------------
(* The three actions that write call documents. *)
LEMMA DocumentWriters ==
  ASSUME [Next]_vars
  PROVE  \/ call' = call
         \/ \E t \in Procs : CreateCall(t) \/ MarkActive(t) \/ Save(t)
  <1>1. CASE UNCHANGED vars
    BY <1>1 DEF vars
  <1>2. CASE \E u \in Users : Connect(u) \/ ExpireBusy(u)
    BY <1>2 DEF Connect, ExpireBusy
  <1>3. CASE \E r \in Requests, u \in Users : Event(r, u)
    <2>1. PICK r \in Requests, u \in Users : Event(r, u)
      BY <1>3
    <2>2. Disconnect(r, u) => call' = call
      BY DEF Disconnect
    <2>3. \A v \in Users, c \in CallIds : Initiate(r, u, v, c) => call' = call
      BY DEF Initiate
    <2>4. \A c \in CallIds : Accept(r, u, c) => call' = call
      BY DEF Accept, Claim
    <2>5. \A c \in CallIds :
            Reject(r, u, c) \/ Cancel(r, u, c) \/ End(r, u, c) => call' = call
      BY DEF Reject, Cancel, Claim, End
    <2> QED
      BY <2>1, <2>2, <2>3, <2>4, <2>5 DEF Event
  <1>4. CASE \E c \in CallIds : RingTimeout(c)
    BY <1>4 DEF RingTimeout, Claim
  <1>5. CASE \E t \in Procs : Step(t)
    BY <1>5 DEF Step, IsBusy, Register, SetBusyCaller, SetBusyCallee, EndRead,
       RingSettled, RingDropped, CallEnded, GetBusyCall, FindCall, ClearCaller,
       ClearCallee
  <1>6. CASE Crash \/ \E r \in Requests : Abort(r)
    BY <1>6 DEF Crash, Abort
  <1> QED
    BY <1>1, <1>2, <1>3, <1>4, <1>5, <1>6 DEF Next

(* Who puts a call into the map: the handler that created it. *)
LEMMA MapWriters ==
  ASSUME [Next]_vars, NEW c \in CallIds, c \notin ringing, c \in ringing'
  PROVE  \E t \in Procs : Register(t) /\ task[t].call = c
  <1>1. CASE UNCHANGED vars
    BY <1>1 DEF vars
  <1>2. CASE \E u \in Users : Connect(u) \/ ExpireBusy(u)
    BY <1>2 DEF Connect, ExpireBusy
  <1>3. CASE \E r \in Requests, u \in Users : Event(r, u)
    <2>1. PICK r \in Requests, u \in Users : Event(r, u)
      BY <1>3
    <2>2. Disconnect(r, u) => ringing' \subseteq ringing
      BY DEF Disconnect, DropNext
    <2>3. \A v \in Users, d \in CallIds :
            Initiate(r, u, v, d) => ringing' \subseteq ringing
      BY DEF Initiate
    <2>4. \A d \in CallIds : Accept(r, u, d) => ringing' \subseteq ringing
      BY DEF Accept, Claim
    <2>5. \A d \in CallIds : Reject(r, u, d) \/ Cancel(r, u, d) \/ End(r, u, d)
                              => ringing' \subseteq ringing
      BY DEF Reject, Cancel, Claim, End
    <2> QED
      BY <2>1, <2>2, <2>3, <2>4, <2>5 DEF Event
  <1>4. CASE \E d \in CallIds : RingTimeout(d)
    BY <1>4 DEF RingTimeout, Claim
  <1>5. CASE \E t \in Procs : Step(t)
    BY <1>5 DEF Step, IsBusy, CreateCall, Register, MarkActive, SetBusyCaller,
       SetBusyCallee, EndRead, RingSettled, RingDropped, DropNext, CallEnded,
       GetBusyCall, FindCall, ClearCaller, ClearCallee
  <1>6. CASE Crash \/ \E r \in Requests : Abort(r)
    BY <1>6 DEF Crash, Abort
  <1> QED
    BY <1>1, <1>2, <1>3, <1>4, <1>5, <1>6 DEF Next

(* Nobody gets hold of a lost ring. *)
LEMMA NoNewHolder ==
  ASSUME IInv, [Next]_vars, NEW c \in CallIds, Orphan(c)
  PROVE  \A t \in Procs : ~Holds(t, c)'
  <1> USE DEF IInv
  <1>0. /\ task \in [Procs -> Tasks]
        /\ \A t \in Procs : ~(task[t].owns /\ task[t].call = c)
        /\ c \notin ringing /\ call[c].status = "ringing"
        /\ ~NoTask.owns
    BY DEF TypeOK, Orphan, Holds, NoTask
  <1>1. SUFFICES \A t \in Procs : ~(task'[t].owns /\ task'[t].call = c)
    BY DEF Holds
  <1>2. ASSUME task' = task PROVE \A t \in Procs : ~(task'[t].owns /\ task'[t].call = c)
    BY <1>0, <1>2
  (* A handler that takes an entry out of the map. *)
  <1>3. ASSUME NEW t \in Procs, NEW u \in Users, DropNext(t, u)
        PROVE  \A s \in Procs : ~(task'[s].owns /\ task'[s].call = c)
    BY <1>0, <1>3, NextRing
  <1>4. ASSUME NEW t \in Procs, NEW handler, NEW pc, NEW u, NEW d, NEW out,
               Claim(t, handler, pc, u, d, out)
        PROVE  \A s \in Procs : ~(task'[s].owns /\ task'[s].call = c)
    BY <1>0, <1>4 DEF Claim, Start
  (* A handler that moves on, or stops. *)
  <1>5. ASSUME NEW t \in Procs, NEW k, task' = [task EXCEPT ![t] = k],
               k.owns => k.call # c
        PROVE  \A s \in Procs : ~(task'[s].owns /\ task'[s].call = c)
    BY <1>0, <1>5
  <1>6. ASSUME NEW t \in Procs, NEW pc, GoTo(t, pc)
        PROVE  \A s \in Procs : ~(task'[s].owns /\ task'[s].call = c)
    BY <1>0, <1>6 DEF GoTo, Tasks
  <1>7. ASSUME NEW t \in Procs, Finish(t)
        PROVE  \A s \in Procs : ~(task'[s].owns /\ task'[s].call = c)
    BY <1>0, <1>7 DEF Finish
  <1>8. CASE UNCHANGED vars \/ \E u \in Users : Connect(u) \/ ExpireBusy(u)
    BY <1>2, <1>8 DEF vars, Connect, ExpireBusy
  <1>9. CASE \E r \in Requests, u \in Users : Event(r, u)
    <2>1. PICK r \in Requests, u \in Users : Event(r, u)
      BY <1>9
    <2>2. r \in Procs
      BY DEF Procs
    <2>3. CASE Disconnect(r, u)
      BY <1>3, <2>2, <2>3 DEF Disconnect
    <2>4. ASSUME NEW v \in Users, NEW d \in CallIds, Initiate(r, u, v, d)
          PROVE  \A s \in Procs : ~(task'[s].owns /\ task'[s].call = c)
      BY <1>0, <2>2, <2>4 DEF Initiate, Unused
    <2>5. ASSUME NEW d \in CallIds, Accept(r, u, d) \/ Reject(r, u, d) \/ Cancel(r, u, d)
          PROVE  \A s \in Procs : ~(task'[s].owns /\ task'[s].call = c)
      BY <1>4, <2>2, <2>5 DEF Accept, Reject, Cancel
    <2>6. ASSUME NEW d \in CallIds, End(r, u, d)
          PROVE  \A s \in Procs : ~(task'[s].owns /\ task'[s].call = c)
      BY <1>0, <2>2, <2>6 DEF End, Start
    <2> QED
      BY <2>1, <2>3, <2>4, <2>5, <2>6 DEF Event
  <1>10. CASE \E d \in CallIds : RingTimeout(d)
    BY <1>4, <1>10 DEF RingTimeout, Procs
  <1>11. CASE \E t \in Procs : Step(t)
    <2>1. PICK t \in Procs : Step(t)
      BY <1>11
    <2>2. TaskOK(task[t])
      BY DEF TasksOK
    <2>3. CASE IsBusy(t) \/ CreateCall(t) \/ Register(t) \/ MarkActive(t)
               \/ SetBusyCaller(t) \/ SetBusyCallee(t) \/ RingSettled(t)
               \/ CallEnded(t) \/ ClearCaller(t) \/ ClearCallee(t)
      BY <1>6, <1>7, <2>3 DEF IsBusy, CreateCall, Register, MarkActive,
         SetBusyCaller, SetBusyCallee, RingSettled, CallEnded, ClearCaller,
         ClearCallee
    <2>4. CASE RingDropped(t)
      <3>1. task[t].user \in Users
        BY <2>2, <2>4 DEF RingDropped, TaskOK, NoTask
      <3> QED
        BY <1>3, <2>4, <3>1 DEF RingDropped
    <2>5. CASE EndRead(t) \/ FindCall(t)
      BY <1>0, <1>7, <2>5 DEF EndRead, FindCall, Tasks
    <2>6. CASE GetBusyCall(t)
      <3>1. ~task[t].owns
        BY <2>2, <2>6 DEF GetBusyCall, TaskOK, NoTask
      <3> QED
        BY <1>0, <1>7, <2>6, <3>1 DEF GetBusyCall, Tasks
    <2> QED
      BY <2>1, <2>3, <2>4, <2>5, <2>6 DEF Step
  <1>12. CASE Crash \/ \E r \in Requests : Abort(r)
    BY <1>0, <1>7, <1>12 DEF Crash, Abort, Procs
  <1> QED
    BY <1>8, <1>9, <1>10, <1>11, <1>12 DEF Next

(* A ring lost to a crash or a failed round trip is never taken up again:  *)
(* the call neither rings nor is settled by anything but a call:end, which *)
(* records it as cancelled (call.gateway.ts:36-40, 172-173, 282-292).      *)
THEOREM OrphansAreNotAnswered == Spec => OrphansStayUnanswered
  <1>1. IInv /\ [Next]_vars =>
          [\A c \in CallIds :
             Orphan(c) => /\ c \notin ringing'
                          /\ Orphan(c)' \/ call'[c].status = "cancelled"]_vars
    <2> SUFFICES ASSUME IInv, [Next]_vars, NEW c \in CallIds, Orphan(c)
                 PROVE  /\ c \notin ringing'
                        /\ Orphan(c)' \/ call'[c].status = "cancelled"
      OBVIOUS
    <2> USE DEF IInv
    <2>1. c \notin ringing'
      <3> SUFFICES ASSUME c \in ringing' PROVE FALSE
        OBVIOUS
      <3>1. PICK t \in Procs : Register(t) /\ task[t].call = c
        BY MapWriters DEF Orphan
      <3>2. Holds(t, c)
        BY <3>1 DEF Register, Holds, TasksOK, TaskOK, NoTask
      <3> QED
        BY <3>2 DEF Orphan
    <2>2. SUFFICES call'[c].status \in {"ringing", "cancelled"}
      BY <2>1, NoNewHolder DEF Orphan
    <2>3. CASE call' = call
      BY <2>3 DEF Orphan
    <2>4. ASSUME NEW t \in Procs, CreateCall(t)
          PROVE  call'[c].status = "ringing"
      BY <2>4 DEF CreateCall, Orphan, TypeOK, CallDocs
    <2>5. ASSUME NEW t \in Procs, MarkActive(t)
          PROVE  call'[c].status = "ringing"
      <3>1. Holds(t, task[t].call)
        BY <2>5 DEF MarkActive, Holds, TasksOK, TaskOK, NoTask
      <3>2. task[t].call # c
        BY <3>1 DEF Orphan
      <3> QED
        BY <2>5, <3>2 DEF MarkActive, Orphan, TypeOK, CallDocs
    <2>6. ASSUME NEW t \in Procs, Save(t)
          PROVE  call'[c].status \in {"ringing", "cancelled"}
      <3>1. CASE task[t].call = c /\ task[t].out # "none"
        (* The handler is a call:end or a disconnect that does not hold the *)
        (* ring, and the call was never answered.                           *)
        <4>1. ~task[t].owns /\ ~call[c].answered
          BY <3>1 DEF Orphan, Holds, DocsOK, DocOK
        <4>2. task[t].out \notin {"missed", "rejected"}
          BY <2>6, <4>1 DEF Save, TasksOK, TaskOK, NoTask
        <4>3. task[t].out # "completed"
          BY <3>1, <4>1, ConstantsAssumption DEF ReliancesOK, ReliesOn
        <4>4. task[t].out = "cancelled"
          BY <3>1, <4>2, <4>3 DEF TypeOK, Tasks, Ended
        <4> QED
          BY <2>6, <3>1, <4>4 DEF Save, TypeOK, CallDocs
      <3>2. CASE task[t].call # c \/ task[t].out = "none"
        BY <2>6, <3>2 DEF Save, Orphan, TypeOK, CallDocs
      <3> QED
        BY <3>1, <3>2
    <2> QED
      BY <2>3, <2>4, <2>5, <2>6, DocumentWriters
  <1> QED
    BY <1>1, Invariance, PTL DEF Spec, OrphansStayUnanswered

------------------------------------------------------------------------------
(* Every call document follows CallLifecycle (calls.service.ts:31-74): each*)
(* step of the detailed system is a step of one call's life or none at all.*)
THEOREM ImplementsLifecycle == Spec => LifecycleSpec
  <1> DEFINE life == [c \in CallIds |-> Stage(call[c])]
  <1>1. Init => Lifecycle!LifeInit
    BY DEF Init, Lifecycle!LifeInit, Stage, NoCall
  <1>2. IInv /\ [Next]_vars => [Lifecycle!LifeNext]_life
    <2> SUFFICES ASSUME IInv, [Next]_vars
                 PROVE  Lifecycle!LifeNext \/ life' = life
      OBVIOUS
    <2> USE DEF IInv
    <2>1. CASE call' = call
      BY <2>1
    <2>2. ASSUME NEW t \in Procs, CreateCall(t)
          PROVE  Lifecycle!LifeNext
      <3> DEFINE c == task[t].call
      <3>0. c \in CallIds /\ call[c].status = "absent"
        BY <2>2, ConstantsAssumption DEF CreateCall, TypeOK, TasksOK, TaskOK,
           NoTask, ReliancesOK, ReliesOn
      <3>1. c \in CallIds /\ Stage(call[c]) = "none"
        BY <3>0 DEF Stage
      <3>2. /\ Stage(call'[c]) = "ringing"
            /\ \A d \in CallIds : d # c => call'[d] = call[d]
        BY <2>2, <3>1 DEF CreateCall, Stage, TypeOK
      <3>3. life' = [life EXCEPT ![c] = "ringing"]
        BY <3>1, <3>2
      <3>4. Lifecycle!Place(c)
        BY <3>1, <3>3 DEF Lifecycle!Place, Lifecycle!Move
      <3> QED
        BY <3>1, <3>4 DEF Lifecycle!LifeNext
    <2>3. ASSUME NEW t \in Procs, MarkActive(t)
          PROVE  Lifecycle!LifeNext \/ life' = life
      <3> DEFINE c == task[t].call
      <3>0. c \in CallIds
        BY <2>3 DEF MarkActive, TypeOK, TasksOK, TaskOK, NoTask
      <3>1. CASE call[c].status = "ringing"
        <4>1. call' = [call EXCEPT ![c].status = "active", ![c].answered = TRUE]
          BY <2>3, <3>1 DEF MarkActive
        <4>2. /\ call'[c].status = "active"
              /\ \A d \in CallIds : d # c => call'[d] = call[d]
          BY <3>0, <4>1 DEF TypeOK, CallDocs
        <4>3. Stage(call[c]) = "ringing" /\ Stage(call'[c]) = "live"
          BY <3>1, <4>2 DEF Stage
        <4>4. life' = [life EXCEPT ![c] = "live"]
          BY <3>0, <4>2, <4>3
        <4>5. Lifecycle!Answer(c)
          BY <3>0, <4>3, <4>4 DEF Lifecycle!Answer, Lifecycle!Move
        <4> QED
          BY <3>0, <4>5 DEF Lifecycle!LifeNext
      <3>2. CASE call[c].status # "ringing"
        BY <2>3, <3>2 DEF MarkActive
      <3> QED
        BY <3>1, <3>2
    <2>4. ASSUME NEW t \in Procs, Save(t)
          PROVE  Lifecycle!LifeNext \/ life' = life
      <3> DEFINE c == task[t].call
      <3>1. /\ c \in CallIds /\ call[c].status # "absent"
            /\ call[c].status \in Statuses
            /\ call'[c].status \in Ended
            /\ call'[c].answered = call[c].answered
            /\ \A d \in CallIds : d # c => call'[d] = call[d]
        BY <2>4, SaveEffect DEF Ended, TypeOK, CallDocs
      <3>2. Stage(call'[c]) = IF call[c].answered THEN "answered" ELSE "unanswered"
        BY <3>1 DEF Stage, Ended
      <3>3. life' = [life EXCEPT ![c] = Stage(call'[c])]
        BY <3>1
      <3>4. CASE call[c].status = "ringing"
        <4>1. Stage(call[c]) = "ringing" /\ Stage(call'[c]) = "unanswered"
          BY <3>1, <3>2, <3>4 DEF Stage, DocsOK, DocOK
        <4>2. Lifecycle!GiveUp(c)
          BY <3>1, <3>3, <4>1 DEF Lifecycle!GiveUp, Lifecycle!Move
        <4> QED
          BY <3>1, <4>2 DEF Lifecycle!LifeNext
      <3>5. CASE call[c].status = "active"
        <4>1. Stage(call[c]) = "live" /\ Stage(call'[c]) = "answered"
          BY <3>1, <3>2, <3>5 DEF Stage, DocsOK, DocOK
        <4>2. Lifecycle!HangUp(c)
          BY <3>1, <3>3, <4>1 DEF Lifecycle!HangUp, Lifecycle!Move
        <4> QED
          BY <3>1, <4>2 DEF Lifecycle!LifeNext
      <3>6. CASE call[c].status \in Ended
        <4>1. Stage(call[c]) = Stage(call'[c])
          BY <3>1, <3>2, <3>6 DEF Stage, Ended
        <4> QED
          BY <3>1, <3>3, <4>1
      <3> QED
        BY <3>1, <3>4, <3>5, <3>6 DEF Statuses
    <2> QED
      BY <2>1, <2>2, <2>3, <2>4, DocumentWriters
  <1> QED
    BY <1>1, <1>2, Invariance, PTL DEF Spec, LifecycleSpec, Lifecycle!LifeSpec
==============================================================================
