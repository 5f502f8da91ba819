--------------------------- MODULE AccountsProofs ---------------------------
(* Proofs about Accounts. *)
EXTENDS Accounts, FiniteSetTheorems, SequenceTheorems, TLAPS

------------------------------------------------------------------------------
(* Preservation of the inductive invariant.                                *)

(* The inductive invariant holds initially. *)
LEMMA InitIInv == Init => IInv
  <1> SUFFICES ASSUME Init PROVE IInv
    OBVIOUS
  <1>1. TypeOK
    BY ConstantsAssumption DEF Init, TypeOK, Tasks, NoTask, Awaits, Signed, Tokens
  <1>2. \A r \in Requests : TaskOK(task[r])
    BY DEF Init, TaskOK, NoTask
  <1>3. NamesUnique
    BY DEF Init, NamesUnique
  <1>4. SessionsOK
    BY DEF Init, SessionsOK, TokensBalance, Signed
  <1>5. DevicesOK
    BY DEF Init, DevicesOK, DeviceKnown, NoTask, Registering, At
  <1> QED
    BY <1>1, <1>2, <1>3, <1>4, <1>5 DEF IInv

(* Tokens and handlers of a session can be counted. *)
LEMMA SessionsFinite ==
  ASSUME TypeOK, NEW s
  PROVE  /\ IsFiniteSet(LiveOf(s)) /\ Cardinality(LiveOf(s)) \in Nat
         /\ IsFiniteSet(Carrying(s)) /\ Cardinality(Carrying(s)) \in Nat
  <1>1. IsFiniteSet(Tokens)
    BY ConstantsAssumption, FS_Interval DEF Tokens
  <1>2. LiveOf(s) \in SUBSET Tokens /\ Carrying(s) \in SUBSET Requests
    BY DEF TypeOK, LiveOf, Carrying, Signed
  <1> QED
    BY <1>1, <1>2, ConstantsAssumption, FS_Subset, FS_CardinalityType

(* Handler r goes on as k. *)
LEMMA HandlerStep ==
  ASSUME IInv, NEW r \in Requests, NEW k \in Tasks,
         task' = [task EXCEPT ![r] = k],
         TaskOK(k), k.token \in Signed \cup {0}, Signed \subseteq Signed'
  PROVE  /\ task' \in [Requests -> Tasks]
         /\ task'[r] = k
         /\ \A x \in Requests \ {r} : task'[x] = task[x]
         /\ \A x \in Requests : task'[x].token \in Signed' \cup {0}
         /\ \A x \in Requests : TaskOK(task'[x])
  BY DEF IInv, TypeOK

(* Sessions that lose and gain nothing stay balanced. *)
LEMMA SessionsKept ==
  ASSUME IInv, UNCHANGED <<root, live, doubles>>, ended \subseteq ended',
         \A s \in Tokens : Carrying(s)' = Carrying(s)
  PROVE  SessionsOK'
  <1>1. \A s \in Tokens : LiveOf(s)' = LiveOf(s)
    BY DEF LiveOf
  <1> QED
    BY <1>1 DEF IInv, SessionsOK, TokensBalance, Signed

(* A handler that registers no device disturbs no registration. *)
LEMMA DevicesKept ==
  ASSUME IInv, NEW r \in Requests, NEW k \in Tasks,
         task' = [task EXCEPT ![r] = k],
         ~Registering(r), k.pc \notin {"update", "push"},
         UNCHANGED <<devices, latest, alone>>
  PROVE  DevicesOK'
  <1>1. task'[r] = k /\ \A x \in Requests \ {r} : task'[x] = task[x]
    BY DEF IInv, TypeOK
  <1>2. \A x \in Requests : /\ Registering(x)' <=> Registering(x)
                            /\ At(x, "push")' => x # r /\ At(x, "push")
    BY <1>1 DEF Registering, At
  <1> QED
    BY <1>1, <1>2 DEF IInv, DevicesOK, DeviceKnown

(* A step of a handler that neither exchanges a token nor registers a      *)
(* device.                                                                 *)
LEMMA PlainStep ==
  ASSUME IInv, NEW r \in Requests, NEW k \in Tasks,
         task' = [task EXCEPT ![r] = k],
         TaskOK(k), k.token \in Signed \cup {0},
         ~Registering(r), k.pc \notin {"update", "push"},
         At(r, "set") => task[r].token = 0,
         k.pc = "set" => k.token = 0,
         accounts' \in SUBSET Users, NamesUnique', ops' \in 0..MaxOps,
         UNCHANGED <<root, live, handed, expired, devices, history, faults>>
  PROVE  IInv'
  <1>1. Signed' = Signed
    BY DEF Signed
  <1>2. UNCHANGED <<doubles, ended, latest, alone>>
    BY DEF history
  <1>3. TypeOK'
    BY <1>1, <1>2, HandlerStep DEF IInv, TypeOK
  <1>4. \A s \in Tokens : Carrying(s)' = Carrying(s)
    BY <1>1, HandlerStep DEF Carrying, At
  <1>5. SessionsOK'
    BY <1>2, <1>4, SessionsKept
  <1>6. DevicesOK'
    BY <1>2, DevicesKept
  <1> QED
    BY <1>1, <1>3, <1>5, <1>6, HandlerStep DEF IInv

(* A handler that starts is one of an idle slot, and has done nothing yet. *)
LEMMA BeginStep ==
  ASSUME IInv, NEW r \in Requests, NEW k \in Tasks, Begin(r, k),
         TaskOK(k), k.token \in Signed \cup {0},
         k.pc \notin {"update", "push"}, k.pc = "set" => k.token = 0,
         UNCHANGED <<stored, history, faults>>
  PROVE  IInv'
  <1>1. ~Registering(r) /\ ~At(r, "set")
    BY DEF Begin, Idle, Registering, At
  <1>2. ops' \in 0..MaxOps
    BY ConstantsAssumption DEF IInv, TypeOK, Begin
  <1>3. accounts' \in SUBSET Users /\ NamesUnique'
    BY DEF IInv, TypeOK, stored, NamesUnique
  <1> QED
    BY <1>1, <1>2, <1>3, PlainStep DEF Begin, stored

(* Registration, login, refresh and logout arrive. *)
LEMMA RequestSteps ==
  ASSUME IInv, NEW r \in Requests,
         \/ \E u \in Users : Register(r, u)
         \/ Login(r)
         \/ \E t \in Tokens : Refresh(r, t) \/ Logout(r, t)
  PROVE  IInv'
  <1>1. NoTask \in Tasks /\ 0 \notin Tokens
    BY DEF NoTask, Tasks, Awaits, Tokens
  <1>2. ASSUME NEW u \in Users, Register(r, u) PROVE IInv'
    <2> DEFINE k == [NoTask EXCEPT !.pc = "insertUser", !.user = u]
    <2>1. k \in Tasks /\ TaskOK(k) /\ k.pc = "insertUser" /\ k.token = 0
      BY DEF NoTask, Tasks, Awaits, TaskOK
    <2> QED
      BY <1>2, <2>1, BeginStep DEF Register
  <1>3. CASE Login(r)
    <2> DEFINE k == [NoTask EXCEPT !.pc = "set"]
    <2>1. k \in Tasks /\ TaskOK(k) /\ k.pc = "set" /\ k.token = 0
      BY DEF NoTask, Tasks, Awaits, TaskOK
    <2> QED
      BY <1>3, <2>1, BeginStep DEF Login
  <1>4. ASSUME NEW t \in Tokens, NEW pc \in {"get", "revoke"}, t \in Signed,
               Begin(r, [NoTask EXCEPT !.pc = pc, !.token = t]),
               UNCHANGED <<stored, history, faults>>
        PROVE  IInv'
    <2> DEFINE k == [NoTask EXCEPT !.pc = pc, !.token = t]
    <2>1. k \in Tasks /\ TaskOK(k) /\ k.pc = pc /\ k.token = t
      BY <1>1 DEF NoTask, Tasks, Awaits, TaskOK
    <2> QED
      BY <1>4, <2>1, BeginStep
  <1>5. handed \subseteq Signed
    BY DEF IInv, TypeOK
  <1> QED
    BY <1>2, <1>3, <1>4, <1>5 DEF Refresh, Logout

(* A handler that goes on to an await keeps the rest of what it knows. *)
LEMMA GoesOn ==
  ASSUME IInv, NEW r \in Requests, NEW pc \in Awaits
  PROVE  /\ [task[r] EXCEPT !.pc = pc] \in Tasks
         /\ [task[r] EXCEPT !.pc = pc].pc = pc
         /\ [task[r] EXCEPT !.pc = pc].token = task[r].token
         /\ [task[r] EXCEPT !.pc = pc].pushToken = task[r].pushToken
         /\ task[r].token \in Signed \cup {0}
         /\ GoTo(r, pc) => task' = [task EXCEPT ![r] = [task[r] EXCEPT !.pc = pc]]
  BY DEF IInv, TypeOK, Tasks, GoTo

(* What a handler that is done knows. *)
LEMMA NoTaskOK ==
  /\ NoTask \in Tasks /\ TaskOK(NoTask)
  /\ NoTask.pc = "idle" /\ NoTask.token = 0
  BY DEF Tasks, NoTask, TaskOK, Awaits

(* Two accounts never share a name or an address: the insert looks again. *)
LEMMA InsertUserStep ==
  ASSUME IInv, NEW r \in Requests, InsertUser(r)
  PROVE  IInv'
  <1>1. /\ task[r].pc = "insertUser" /\ task[r].token = 0
        /\ task[r].user \in Users /\ ~Registering(r) /\ ~At(r, "set")
    BY DEF IInv, TaskOK, InsertUser, At, Registering
  <1>2. accounts' \in SUBSET Users /\ NamesUnique' /\ ops' \in 0..MaxOps
    BY <1>1 DEF IInv, TypeOK, InsertUser, NamesUnique, Taken
  <1>3. UNCHANGED <<root, live, handed, expired, devices, history, faults>>
    BY DEF InsertUser
  <1>4. CASE Finish(r)
    BY <1>1, <1>2, <1>3, <1>4, NoTaskOK, PlainStep DEF Finish
  <1>5. CASE GoTo(r, "set")
    <2>1. TaskOK([task[r] EXCEPT !.pc = "set"])
      BY <1>1, GoesOn DEF TaskOK, Awaits
    <2> QED
      BY <1>1, <1>2, <1>3, <1>5, <2>1, GoesOn, PlainStep DEF Awaits
  <1> QED
    BY <1>4, <1>5 DEF InsertUser

(* The look-up of a key changes nothing. *)
LEMMA GetKeyStep ==
  ASSUME IInv, NEW r \in Requests, GetKey(r)
  PROVE  IInv'
  <1>1. task[r].pc = "get" /\ task[r].token # 0 /\ ~Registering(r) /\ ~At(r, "set")
    BY DEF IInv, TaskOK, GetKey, At, Registering
  <1>2. accounts' \in SUBSET Users /\ NamesUnique' /\ ops' \in 0..MaxOps
    BY DEF IInv, TypeOK, GetKey, stored, NamesUnique
  <1>3. UNCHANGED <<root, live, handed, expired, devices, history, faults>>
    BY DEF GetKey, stored
  <1>4. CASE Finish(r)
    BY <1>1, <1>2, <1>3, <1>4, NoTaskOK, PlainStep DEF Finish
  <1>5. CASE GoTo(r, "del")
    <2>1. TaskOK([task[r] EXCEPT !.pc = "del"])
      BY <1>1, GoesOn DEF TaskOK, Awaits
    <2> QED
      BY <1>1, <1>2, <1>3, <1>5, <2>1, GoesOn, PlainStep DEF Awaits
  <1> QED
    BY <1>4, <1>5 DEF GetKey

(* The session moves from its key to the handler, or is doubled. *)
LEMMA DeleteKeyStep ==
  ASSUME IInv, NEW r \in Requests, DeleteKey(r)
  PROVE  IInv'
  <1> DEFINE t == task[r].token
             k == [task[r] EXCEPT !.pc = "set"]
  <1>1. /\ task[r].pc = "del" /\ ~Registering(r) /\ ~At(r, "set")
        /\ t \in Signed /\ root[t] \in Signed /\ root[t] \in Tokens
    BY DEF IInv, TypeOK, TaskOK, SessionsOK, DeleteKey, At, Registering, Signed
  <1>2. k \in Tasks /\ task' = [task EXCEPT ![r] = k] /\ TaskOK(k) /\ k.token = t
        /\ k.pc = "set"
    BY <1>1, GoesOn DEF DeleteKey, TaskOK, Awaits
  <1>3. Signed' = Signed /\ UNCHANGED <<root, ended, devices, latest, alone>>
    BY DEF DeleteKey, Signed
  <1>4. TypeOK'
    BY <1>1, <1>2, <1>3, HandlerStep DEF IInv, TypeOK, DeleteKey
  <1>5. SessionsOK'
    <2>1. \A s \in Tokens : Carrying(s)' = IF s = root[t] THEN Carrying(s) \cup {r}
                                           ELSE Carrying(s)
      <3> SUFFICES ASSUME NEW s \in Tokens, NEW x \in Requests
                   PROVE  x \in Carrying(s)' <=>
                            x \in Carrying(s) \/ (x = r /\ s = root[t])
        BY DEF Carrying
      <3>1. CASE x = r
        <4>1. t # 0
          BY <1>1 DEF Signed, Tokens
        <4>2. task'[r].pc = "set" /\ task'[r].token = t
          BY <1>1, <1>2, <1>3, HandlerStep
        <4> QED
          BY <1>3, <3>1, <4>1, <4>2 DEF Carrying, At
      <3>2. CASE x # r
        BY <1>2, <1>3, <3>2, HandlerStep DEF Carrying, At
      <3> QED
        BY <3>1, <3>2
    <2>2. r \notin Carrying(root[t])
      BY <1>1 DEF Carrying, At
    <2>3. \A s \in Tokens : LiveOf(s)' = IF s = root[t] THEN LiveOf(s) \ {t}
                                         ELSE LiveOf(s)
      BY <1>3 DEF LiveOf, DeleteKey
    <2>4. t \in live <=> t \in LiveOf(root[t])
      BY DEF LiveOf
    <2>5. \A s \in Tokens \ Signed : doubles'[s] = 0
      BY <1>1 DEF IInv, SessionsOK, TypeOK, DeleteKey
    <2>6. TokensBalance'
      <3> SUFFICES ASSUME NEW s \in Signed, root[s] = s
                   PROVE  LET n == Cardinality(LiveOf(s)') + Cardinality(Carrying(s)') IN
                            /\ n <= 1 + doubles'[s]
                            /\ s \notin ended => n = 1 + doubles'[s]
        BY <1>3 DEF TokensBalance
      <3>1. LET n == Cardinality(LiveOf(s)) + Cardinality(Carrying(s)) IN
              /\ n <= 1 + doubles[s]
              /\ s \notin ended => n = 1 + doubles[s]
        BY DEF IInv, SessionsOK, TokensBalance
      <3>2. /\ IsFiniteSet(LiveOf(s)) /\ Cardinality(LiveOf(s)) \in Nat
            /\ IsFiniteSet(Carrying(s)) /\ Cardinality(Carrying(s)) \in Nat
            /\ doubles \in [Tokens -> Nat] /\ s \in Tokens
        BY SessionsFinite DEF IInv, TypeOK, Signed
      <3>3. CASE s # root[t]
        <4>1. doubles'[s] = doubles[s]
          BY <3>2, <3>3 DEF DeleteKey
        <4> QED
          BY <2>1, <2>3, <3>1, <3>2, <3>3, <4>1
      <3>4. CASE s = root[t] /\ t \in live
        <4>1. Cardinality(LiveOf(s) \ {t}) = Cardinality(LiveOf(s)) - 1
          BY <2>4, <3>2, <3>4, FS_RemoveElement
        <4>2. Cardinality(Carrying(s) \cup {r}) = Cardinality(Carrying(s)) + 1
          BY <2>2, <3>2, <3>4, FS_AddElement
        <4>3. doubles' = doubles
          BY <3>4 DEF DeleteKey
        <4>4. LiveOf(s)' = LiveOf(s) \ {t} /\ Carrying(s)' = Carrying(s) \cup {r}
          BY <2>1, <2>3, <3>2, <3>4
        <4> QED
          BY <3>1, <3>2, <4>1, <4>2, <4>3, <4>4
      <3>5. CASE s = root[t] /\ t \notin live
        <4>1. LiveOf(s) \ {t} = LiveOf(s)
          BY <2>4, <3>5
        <4>2. Cardinality(Carrying(s) \cup {r}) = Cardinality(Carrying(s)) + 1
          BY <2>2, <3>2, <3>5, FS_AddElement
        <4>3. doubles'[s] = doubles[s] + 1
          BY <3>2, <3>5 DEF DeleteKey
        <4>4. LiveOf(s)' = LiveOf(s) /\ Carrying(s)' = Carrying(s) \cup {r}
          BY <2>1, <2>3, <3>2, <3>5, <4>1
        <4> QED
          BY <3>1, <3>2, <4>2, <4>3, <4>4
      <3> QED
        BY <3>3, <3>4, <3>5
    <2> QED
      BY <1>3, <2>5, <2>6 DEF IInv, SessionsOK
  <1>6. DevicesOK'
    BY <1>1, <1>2, <1>3, DevicesKept
  <1>7. NamesUnique'
    BY DEF IInv, DeleteKey, NamesUnique
  <1> QED
    BY <1>1, <1>2, <1>3, <1>4, <1>5, <1>6, <1>7, HandlerStep DEF IInv

(* The session moves from the handler to a new key, or starts with it. *)
LEMMA SetKeyStep ==
  ASSUME IInv, NEW r \in Requests, SetKey(r)
  PROVE  IInv'
  <1> DEFINE t == task[r].token
             s0 == root[t]
  <1>1. task[r].pc = "set" /\ ~Registering(r) /\ t \in Signed \cup {0}
    BY DEF IInv, TypeOK, SetKey, At, Registering
  <1>2. PICK n \in Tokens \ Signed :
          /\ root' = [root EXCEPT ![n] = IF t = 0 THEN n ELSE root[t]]
          /\ live' = live \cup {n}
          /\ handed' \in {handed, handed \cup {n}}
    BY DEF SetKey
  <1>3. /\ NoTask \in Tasks /\ TaskOK(NoTask) /\ NoTask.token = 0
        /\ NoTask.pc = "idle" /\ task' = [task EXCEPT ![r] = NoTask]
    BY NoTaskOK DEF SetKey, Finish
  <1>4. UNCHANGED <<accounts, expired, devices, doubles, ended, latest, alone, ops, faults>>
    BY DEF SetKey, history
  <1>5. /\ root \in [Tokens -> Tokens \cup {0}] /\ 0 \notin Tokens
        /\ \A x \in Tokens : root[x] \in Signed \cup {0}
        /\ live \subseteq Signed /\ root[n] = 0
    BY <1>2 DEF IInv, TypeOK, SessionsOK, Tokens, Signed
  <1>6. /\ root'[n] = IF t = 0 THEN n ELSE root[t]
        /\ \A x \in Tokens \ {n} : root'[x] = root[x]
        /\ t # 0 => root[t] \in Signed
    BY <1>1, <1>2, <1>5 DEF Signed
  <1>7. Signed' = Signed \cup {n}
    BY <1>2, <1>5, <1>6 DEF Signed
  <1>8. /\ task' \in [Requests -> Tasks] /\ task'[r] = NoTask
        /\ \A x \in Requests \ {r} : task'[x] = task[x]
        /\ \A x \in Requests : task'[x].token \in Signed' \cup {0}
        /\ \A x \in Requests : TaskOK(task'[x])
    BY <1>3, <1>7, HandlerStep
  <1>9. TypeOK'
    <2>1. root' \in [Tokens -> Tokens \cup {0}]
      <3>1. (IF t = 0 THEN n ELSE root[t]) \in Tokens
        BY <1>6 DEF Signed
      <3> QED
        BY <1>2, <1>5, <3>1
    <2>2. /\ live' \subseteq Signed' /\ handed' \subseteq Signed'
          /\ expired' \subseteq Signed'
      BY <1>2, <1>4, <1>7 DEF IInv, TypeOK
    <2> QED
      BY <1>4, <1>8, <2>1, <2>2 DEF IInv, TypeOK
  <1>10. SessionsOK'
    <2>1. \A x \in Tokens : root'[x] \in Signed' \cup {0}
      BY <1>2, <1>5, <1>6, <1>7
    <2>2. \A x \in Tokens \ Signed' : doubles'[x] = 0
      BY <1>4, <1>7 DEF IInv, SessionsOK
    <2>3. \A x \in Requests \ {r} : task'[x] = task[x] /\ task[x].token # n
      BY <1>2, <1>5, <1>8 DEF IInv, TypeOK, Signed
    <2>4. \A s \in Tokens : Carrying(s)' = Carrying(s) \ {r}
      <3> SUFFICES ASSUME NEW s \in Tokens, NEW x \in Requests
                   PROVE  x \in Carrying(s)' <=> x \in Carrying(s) \ {r}
        BY DEF Carrying
      <3>1. CASE x = r
        BY <1>8, <3>1 DEF Carrying, At, NoTask
      <3>2. CASE x # r
        <4>1. task[x].token # 0 => task[x].token \in Tokens \ {n}
          BY <2>3, <3>2 DEF IInv, TypeOK, Signed
        <4> QED
          BY <1>6, <2>3, <3>2, <4>1 DEF Carrying, At
      <3> QED
        BY <3>1, <3>2
    <2>5. \A s \in Tokens : LiveOf(s)' = IF root'[n] = s THEN LiveOf(s) \cup {n}
                                         ELSE LiveOf(s)
      BY <1>2, <1>5, <1>6 DEF LiveOf, Signed
    <2>6. n \notin live
      BY <1>2, <1>5
    <2>7. TokensBalance'
      <3> SUFFICES ASSUME NEW s \in Signed', root'[s] = s
                   PROVE  LET k == Cardinality(LiveOf(s)') + Cardinality(Carrying(s)') IN
                            /\ k <= 1 + doubles[s]
                            /\ s \notin ended => k = 1 + doubles[s]
        BY <1>4 DEF TokensBalance
      <3>1. /\ IsFiniteSet(LiveOf(s)) /\ Cardinality(LiveOf(s)) \in Nat
            /\ IsFiniteSet(Carrying(s)) /\ Cardinality(Carrying(s)) \in Nat
            /\ doubles \in [Tokens -> Nat] /\ s \in Tokens
        BY SessionsFinite DEF IInv, TypeOK, Signed
      <3>2. s \in Signed /\ root[s] = s =>
              LET k == Cardinality(LiveOf(s)) + Cardinality(Carrying(s)) IN
                /\ k <= 1 + doubles[s]
                /\ s \notin ended => k = 1 + doubles[s]
        BY DEF IInv, SessionsOK, TokensBalance
      <3>3. CASE s = n
        <4>1. t = 0
          BY <1>2, <1>6, <3>3
        <4>2. LiveOf(n) = {} /\ Carrying(n) \subseteq {}
          BY <1>2, <1>5 DEF LiveOf, Carrying, Signed, IInv, TypeOK
        <4>3. LiveOf(n)' = {n} /\ Carrying(n)' = {}
          BY <1>2, <1>6, <2>4, <2>5, <4>1, <4>2
        <4>4. doubles[n] = 0
          BY <1>2 DEF IInv, SessionsOK
        <4> QED
          BY <3>3, <4>3, <4>4, FS_Singleton, FS_EmptySet
      <3>4. CASE s # n /\ t # 0 /\ s = root[t]
        <4>1. s \in Signed /\ root[s] = s /\ root'[n] = s
          BY <1>6, <1>7, <3>4, <3>1
        <4>2. r \in Carrying(s)
          BY <1>1, <3>4 DEF Carrying, At
        <4>3. Cardinality(Carrying(s) \ {r}) = Cardinality(Carrying(s)) - 1
          BY <3>1, <4>2, FS_RemoveElement
        <4>4. Cardinality(LiveOf(s) \cup {n}) = Cardinality(LiveOf(s)) + 1
          BY <2>6, <3>1, FS_AddElement DEF LiveOf
        <4>5. LiveOf(s)' = LiveOf(s) \cup {n} /\ Carrying(s)' = Carrying(s) \ {r}
          BY <2>4, <2>5, <3>1, <4>1
        <4> QED
          BY <3>1, <3>2, <4>1, <4>3, <4>4, <4>5
      <3>5. CASE s # n /\ ~(t # 0 /\ s = root[t])
        <4>1. s \in Signed /\ root[s] = s /\ root'[n] # s
          BY <1>6, <1>7, <3>5, <3>1
        <4>2. r \notin Carrying(s)
          BY <3>5 DEF Carrying
        <4>3. LiveOf(s)' = LiveOf(s) /\ Carrying(s)' = Carrying(s)
          BY <2>4, <2>5, <3>1, <4>1, <4>2
        <4> QED
          BY <3>1, <3>2, <4>1, <4>3
      <3> QED
        BY <3>3, <3>4, <3>5
    <2> QED
      BY <2>1, <2>2, <2>7 DEF SessionsOK
  <1>11. DevicesOK'
    BY <1>1, <1>3, <1>4, DevicesKept
  <1>12. NamesUnique'
    BY <1>4 DEF IInv, NamesUnique
  <1> QED
    BY <1>8, <1>9, <1>10, <1>11, <1>12 DEF IInv

(* A key that goes away otherwise than by a refresh ends or shrinks its    *)
(* session.                                                                *)
LEMMA KeyLost ==
  ASSUME IInv, NEW t \in Tokens,
         live' = live \ {t},
         ended' = IF t \in live THEN ended \cup {root[t]} ELSE ended,
         UNCHANGED <<root, doubles>>,
         \A s \in Tokens : Carrying(s)' = Carrying(s)
  PROVE  SessionsOK'
  <1>1. Signed' = Signed
    BY DEF Signed
  <1>2. \A s \in Tokens : LiveOf(s)' = IF t \in live /\ s = root[t]
                                       THEN LiveOf(s) \ {t} ELSE LiveOf(s)
    BY DEF LiveOf
  <1>3. TokensBalance'
    <2> SUFFICES ASSUME NEW s \in Signed, root[s] = s
                 PROVE  LET n == Cardinality(LiveOf(s)') + Cardinality(Carrying(s)') IN
                          /\ n <= 1 + doubles[s]
                          /\ s \notin ended' => n = 1 + doubles[s]
      BY <1>1 DEF TokensBalance
    <2>1. LET n == Cardinality(LiveOf(s)) + Cardinality(Carrying(s)) IN
            /\ n <= 1 + doubles[s]
            /\ s \notin ended => n = 1 + doubles[s]
      BY DEF IInv, SessionsOK, TokensBalance
    <2>2. /\ IsFiniteSet(LiveOf(s)) /\ Cardinality(LiveOf(s)) \in Nat
          /\ Cardinality(Carrying(s)) \in Nat
          /\ doubles \in [Tokens -> Nat] /\ s \in Tokens
      BY SessionsFinite DEF IInv, TypeOK, Signed
    <2>3. Carrying(s)' = Carrying(s)
      BY <2>2
    <2>4. CASE t \in live /\ s = root[t]
      <3>1. LiveOf(s)' = LiveOf(s) \ {t} /\ t \in LiveOf(s) /\ s \in ended'
        BY <1>2, <2>2, <2>4 DEF LiveOf
      <3>2. Cardinality(LiveOf(s) \ {t}) = Cardinality(LiveOf(s)) - 1
        BY <2>2, <3>1, FS_RemoveElement
      <3> QED
        BY <2>1, <2>2, <2>3, <3>1, <3>2
    <2>5. CASE ~(t \in live /\ s = root[t])
      <3>1. LiveOf(s)' = LiveOf(s) /\ (s \in ended' <=> s \in ended)
        BY <1>2, <2>2, <2>5
      <3> QED
        BY <2>1, <2>2, <2>3, <3>1
    <2> QED
      BY <2>4, <2>5
  <1> QED
    BY <1>1, <1>3 DEF IInv, SessionsOK

(* Logout takes a key away. *)
LEMMA RevokeStep ==
  ASSUME IInv, NEW r \in Requests, Revoke(r)
  PROVE  IInv'
  <1> DEFINE t == task[r].token
  <1>1. /\ task[r].pc = "revoke" /\ ~Registering(r) /\ ~At(r, "set")
        /\ t \in Signed /\ t \in Tokens
    BY DEF IInv, TypeOK, TaskOK, Revoke, At, Registering, Signed
  <1>2. task' = [task EXCEPT ![r] = NoTask] /\ Signed' = Signed
    BY DEF Revoke, Finish, Signed
  <1>3. /\ task' \in [Requests -> Tasks] /\ task'[r] = NoTask
        /\ \A x \in Requests \ {r} : task'[x] = task[x]
        /\ \A x \in Requests : task'[x].token \in Signed' \cup {0}
        /\ \A x \in Requests : TaskOK(task'[x])
    BY <1>2, NoTaskOK, HandlerStep
  <1>4. UNCHANGED <<root, devices, doubles, latest, alone>>
    BY DEF Revoke
  <1>5. TypeOK'
    <2>1. live' \subseteq Signed' /\ handed' \subseteq Signed' /\ expired' \subseteq Signed'
      BY <1>2 DEF IInv, TypeOK, Revoke
    <2>2. root[t] \in Tokens
      BY <1>1 DEF IInv, TypeOK, Signed
    <2>3. ended' \in SUBSET Tokens
      BY <2>2 DEF IInv, TypeOK, Revoke
    <2> QED
      BY <1>2, <1>3, <2>1, <2>3 DEF IInv, TypeOK, Revoke
  <1>6. \A s \in Tokens : Carrying(s)' = Carrying(s)
    BY <1>1, <1>3, <1>4, NoTaskOK DEF Carrying, At
  <1>7. SessionsOK'
    BY <1>1, <1>4, <1>6, KeyLost DEF Revoke
  <1>8. DevicesOK'
    BY <1>1, <1>2, <1>4, NoTaskOK, DevicesKept
  <1>9. NamesUnique'
    BY DEF IInv, Revoke, NamesUnique
  <1> QED
    BY <1>3, <1>5, <1>7, <1>8, <1>9 DEF IInv

(* Tokens and keys expire. *)
LEMMA ExpirySteps ==
  ASSUME IInv, NEW t \in Tokens, ExpireToken(t) \/ ExpireKey(t)
  PROVE  IInv'
  <1>1. UNCHANGED <<root, accounts, handed, devices, task, doubles, latest, alone,
                    ops, faults>>
    BY DEF ExpireToken, ExpireKey, history
  <1>2. Signed' = Signed
    BY <1>1 DEF Signed
  <1>3. /\ live' \subseteq Signed' /\ expired' \subseteq Signed'
        /\ ended' \in SUBSET Tokens
    BY <1>2 DEF IInv, TypeOK, SessionsOK, ExpireToken, ExpireKey, history, Signed
  <1>4. TypeOK'
    BY <1>1, <1>2, <1>3 DEF IInv, TypeOK
  <1>5. \A s \in Tokens : Carrying(s)' = Carrying(s)
    BY <1>1 DEF Carrying, At
  <1>6. SessionsOK'
    <2>1. CASE ExpireToken(t)
      BY <1>1, <1>5, <2>1, SessionsKept DEF ExpireToken, history
    <2>2. CASE ExpireKey(t)
      BY <1>1, <1>5, <2>2, KeyLost DEF ExpireKey
    <2> QED
      BY <2>1, <2>2
  <1>7. DevicesOK' /\ NamesUnique' /\ \A r \in Requests : TaskOK(task[r])'
    BY <1>1 DEF IInv, DevicesOK, DeviceKnown, Registering, At, NamesUnique, TaskOK
  <1> QED
    BY <1>4, <1>6, <1>7 DEF IInv

(* A session that loses the handler it hangs on has ended. *)
LEMMA DropStep ==
  ASSUME IInv, NEW rs \in SUBSET Requests, Drop(rs)
  PROVE  IInv'
  <1>1. UNCHANGED <<accounts, root, live, handed, expired, devices, doubles, ops>>
    BY DEF Drop, stored
  <1>2. Signed' = Signed
    BY <1>1 DEF Signed
  <1>3. /\ task' \in [Requests -> Tasks]
        /\ \A x \in Requests : /\ TaskOK(task'[x])
                               /\ task'[x].token \in Signed' \cup {0}
                               /\ task'[x] = IF x \in rs THEN NoTask ELSE task[x]
    BY <1>2, NoTaskOK DEF IInv, TypeOK, Drop
  <1>4. TypeOK'
    <2>1. latest' \in PushTokens \cup {Nil}
      BY DEF IInv, TypeOK, Drop
    <2>2. alone' \in BOOLEAN
      BY DEF IInv, TypeOK, Drop
    <2>3. ended' \in SUBSET Tokens /\ faults' \in 0..MaxFaults
      BY ConstantsAssumption DEF IInv, TypeOK, Drop
    <2> QED
      BY <1>1, <1>2, <1>3, <2>1, <2>2, <2>3 DEF IInv, TypeOK
  <1>5. \A s \in Tokens : /\ Carrying(s)' = Carrying(s) \ rs
                          /\ s \notin ended' => Carrying(s)' = Carrying(s)
    <2>1. \A s \in Tokens : Carrying(s)' = Carrying(s) \ rs
      BY <1>1, <1>3, NoTaskOK DEF Carrying, At
    <2> QED
      BY <2>1 DEF Drop
  <1>6. SessionsOK'
    <2>1. \A s \in Tokens : LiveOf(s)' = LiveOf(s)
      BY <1>1 DEF LiveOf
    <2>2. TokensBalance'
      <3> SUFFICES ASSUME NEW s \in Signed, root[s] = s
                   PROVE  LET n == Cardinality(LiveOf(s)') + Cardinality(Carrying(s)') IN
                            /\ n <= 1 + doubles[s]
                            /\ s \notin ended' => n = 1 + doubles[s]
        BY <1>1, <1>2 DEF TokensBalance
      <3>1. LET n == Cardinality(LiveOf(s)) + Cardinality(Carrying(s)) IN
              /\ n <= 1 + doubles[s]
              /\ s \notin ended => n = 1 + doubles[s]
        BY DEF IInv, SessionsOK, TokensBalance
      <3>2. /\ Cardinality(LiveOf(s)) \in Nat
            /\ IsFiniteSet(Carrying(s)) /\ Cardinality(Carrying(s)) \in Nat
            /\ doubles \in [Tokens -> Nat] /\ s \in Tokens
        BY SessionsFinite DEF IInv, TypeOK, Signed
      <3>3. /\ Carrying(s)' = Carrying(s) \ rs
            /\ s \notin ended' => Carrying(s)' = Carrying(s)
            /\ LiveOf(s)' = LiveOf(s)
        BY <1>5, <2>1, <3>2
      <3>4. /\ Cardinality(Carrying(s)') <= Cardinality(Carrying(s))
            /\ Cardinality(Carrying(s)') \in Nat
        <4>1. Carrying(s) \ rs \in SUBSET Carrying(s)
          OBVIOUS
        <4> QED
          BY <3>2, <3>3, <4>1, FS_Subset, FS_CardinalityType
      <3>5. ended \subseteq ended'
        BY DEF Drop
      <3>6. Cardinality(LiveOf(s)') = Cardinality(LiveOf(s))
        BY <3>3
      <3>7. CASE s \in ended'
        BY <3>1, <3>2, <3>4, <3>6, <3>7
      <3>8. CASE s \notin ended'
        <4>1. Cardinality(Carrying(s)') = Cardinality(Carrying(s))
          BY <3>3, <3>8
        <4> QED
          BY <3>1, <3>2, <3>5, <3>6, <3>8, <4>1
      <3> QED
        BY <3>7, <3>8
    <2> QED
      BY <1>1, <1>2, <2>2 DEF IInv, SessionsOK
  <1>7. DevicesOK'
    <2>1. \A x \in Requests : /\ Registering(x)' <=> Registering(x) /\ x \notin rs
                              /\ At(x, "push")' => x \notin rs /\ At(x, "push")
      BY <1>3, NoTaskOK DEF Registering, At
    <2>2. CASE \E x \in rs : Registering(x)
      <3>1. latest' = Nil /\ ~alone'
        BY <2>2 DEF Drop
      <3> QED
        BY <1>1, <3>1 DEF IInv, DevicesOK, DeviceKnown
    <2>3. CASE ~\E x \in rs : Registering(x)
      <3>1. UNCHANGED <<latest, alone>>
        BY <2>3 DEF Drop
      <3>2. \A x \in Requests : Registering(x)' <=> Registering(x)
        BY <2>1, <2>3
      <3> QED
        BY <1>1, <1>3, <2>1, <3>1, <3>2 DEF IInv, DevicesOK, DeviceKnown
    <2> QED
      BY <2>2, <2>3
  <1>8. NamesUnique'
    BY <1>1 DEF IInv, NamesUnique
  <1> QED
    BY <1>3, <1>4, <1>6, <1>7, <1>8 DEF IInv

(* An entry of the device list is replaced by another. *)
LEMMA ReplaceOnly ==
  ASSUME NEW S, NEW d \in Seq(S), Len(d) <= 1, d # <<>>, NEW p \in S
  PROVE  [d EXCEPT ![1] = p] = <<p>>
  <1>1. Len(d) \in Nat \ {0}
    BY EmptySeq
  <1>2. \A n \in Nat \ {0} : n <= 1 => n = 1
    OBVIOUS
  <1>3. d \in [1..1 -> S]
    BY <1>1, <1>2, LenProperties
  <1>4. [d EXCEPT ![1] = p] = [i \in 1..1 |-> p]
    <2>1. \A i \in 1..1 : i = 1
      OBVIOUS
    <2>2. DOMAIN [d EXCEPT ![1] = p] = 1..1
      BY <1>3
    <2>3. \A i \in 1..1 : [d EXCEPT ![1] = p][i] = p
      BY <1>3, <2>1
    <2> QED
      BY <1>3, <2>2, <2>3
  <1>5. <<p>> = [i \in 1..1 |-> p]
    OBVIOUS
  <1> QED
    BY <1>4, <1>5

(* A step of a registration: the list keeps at most one entry, and the     *)
(* claims on it hold afterwards.                                           *)
LEMMA DeviceStep ==
  ASSUME IInv, NEW r \in Requests, NEW k \in Tasks,
         task' = [task EXCEPT ![r] = k],
         TaskOK(k), k.token \in Signed \cup {0},
         ~At(r, "set"), k.pc # "set",
         UNCHANGED <<accounts, root, live, handed, expired, doubles, ended, faults>>,
         devices' \in Seq(PushTokens), latest' \in PushTokens \cup {Nil},
         alone' \in BOOLEAN, ops' \in 0..MaxOps,
         DevicesOK'
  PROVE  IInv'
  <1>1. Signed' = Signed
    BY DEF Signed
  <1>2. TypeOK'
    BY <1>1, HandlerStep DEF IInv, TypeOK
  <1>3. \A s \in Tokens : Carrying(s)' = Carrying(s)
    BY <1>1, HandlerStep DEF Carrying, At
  <1>4. SessionsOK'
    BY <1>3, SessionsKept
  <1>5. NamesUnique'
    BY DEF IInv, NamesUnique
  <1> QED
    BY <1>1, <1>2, <1>4, <1>5, HandlerStep DEF IInv

(* A registration that starts finds out whether it is alone. *)
LEMMA RegisterDeviceStep ==
  ASSUME IInv, NEW r \in Requests, NEW p \in PushTokens, RegisterDevice(r, p)
  PROVE  IInv'
  <1> DEFINE k == [NoTask EXCEPT !.pc = "update", !.pushToken = p]
  <1>1. /\ k \in Tasks /\ TaskOK(k) /\ k.token = 0 /\ k.pc = "update"
        /\ task' = [task EXCEPT ![r] = k]
    BY DEF NoTask, Tasks, Awaits, TaskOK, RegisterDevice, Begin
  <1>2. ~Registering(r) /\ ~At(r, "set")
    BY DEF RegisterDevice, Begin, Idle, Registering, At
  <1>3. UNCHANGED <<accounts, root, live, handed, expired, devices, doubles,
                    ended, latest, faults>>
    BY DEF RegisterDevice, stored
  <1>4. ops' \in 0..MaxOps /\ alone' \in BOOLEAN
    BY ConstantsAssumption DEF IInv, TypeOK, RegisterDevice, Begin
  <1>5. task'[r] = k /\ \A x \in Requests \ {r} : task'[x] = task[x]
    BY <1>1 DEF IInv, TypeOK
  <1>6. DevicesOK'
    <2>1. Registering(r)' /\ ~At(r, "push")'
      BY <1>1, <1>5 DEF Registering, At
    <2>2. alone' => \A x \in Requests \ {r} : ~Registering(x)' /\ ~At(x, "push")'
      BY <1>5 DEF RegisterDevice, Registering, At
    <2>3. Len(devices') <= 1
      BY <1>3 DEF IInv, DevicesOK, DeviceKnown
    <2> QED
      BY <2>1, <2>2, <2>3 DEF DevicesOK, DeviceKnown
  <1>7. devices' \in Seq(PushTokens) /\ latest' \in PushTokens \cup {Nil}
    BY <1>3 DEF IInv, TypeOK
  <1> QED
    BY <1>1, <1>2, <1>3, <1>4, <1>6, <1>7, DeviceStep

(* The first update finds the device, or leaves it to the second. *)
LEMMA UpdateDeviceStep ==
  ASSUME IInv, NEW r \in Requests, UpdateDevice(r)
  PROVE  IInv'
  <1> DEFINE k == [task[r] EXCEPT !.pc = "push"]
             p == task[r].pushToken
  <1>1. task[r].pc = "update" /\ p \in PushTokens /\ ~At(r, "set")
    BY DEF IInv, TaskOK, UpdateDevice, At
  <1>2. /\ k \in Tasks /\ k.token \in Signed \cup {0} /\ k.pc = "push"
        /\ k.pushToken = p /\ task' = [task EXCEPT ![r] = k]
    BY GoesOn DEF UpdateDevice, Awaits
  <1>3. TaskOK(k)
    BY <1>1, <1>2 DEF TaskOK
  <1>4. UNCHANGED <<accounts, root, live, handed, expired, doubles,
                    ended, latest, alone, ops, faults>>
    BY DEF UpdateDevice, history
  <1>5. task'[r] = k /\ \A x \in Requests \ {r} : task'[x] = task[x]
    BY <1>2 DEF IInv, TypeOK
  <1>6. devices \in Seq(PushTokens) /\ Len(devices) <= 1
    BY DEF IInv, TypeOK, DevicesOK, DeviceKnown
  <1>7. devices' \in {<<>>, <<p>>}
    BY <1>1, <1>6, ReplaceOnly DEF UpdateDevice
  <1>8. devices' \in Seq(PushTokens) /\ Len(devices') <= 1
    <2>1. CASE devices' = <<>>
      BY <2>1
    <2>2. CASE devices' = <<p>>
      BY <1>1, <2>2
    <2> QED
      BY <1>7, <2>1, <2>2
  <1>9. DevicesOK'
    <2>1. Registering(r)' /\ Registering(r)
      BY <1>1, <1>2, <1>5 DEF Registering
    <2>2. \A x \in Requests \ {r} : /\ Registering(x)' <=> Registering(x)
                                    /\ At(x, "push")' => Registering(x)
      BY <1>5 DEF Registering, At
    <2>3. alone => \A x \in Requests \ {r} : ~Registering(x)
      BY <2>1 DEF IInv, DevicesOK
    <2>4. task'[r].pushToken = p
      BY <1>2, <1>5
    <2> QED
      BY <1>4, <1>7, <1>8, <2>1, <2>2, <2>3, <2>4 DEF DevicesOK, DeviceKnown
  <1>10. latest' \in PushTokens \cup {Nil} /\ alone' \in BOOLEAN /\ ops' \in 0..MaxOps
    BY <1>4 DEF IInv, TypeOK
  <1> QED
    BY <1>1, <1>2, <1>3, <1>4, <1>8, <1>9, <1>10, DeviceStep

(* The second update adds the device only if it is not there. *)
LEMMA PushDeviceStep ==
  ASSUME IInv, NEW r \in Requests, PushDevice(r)
  PROVE  IInv'
  <1> DEFINE p == task[r].pushToken
  <1>1. task[r].pc = "push" /\ p \in PushTokens /\ ~At(r, "set")
    BY DEF IInv, TaskOK, PushDevice, At
  <1>2. task' = [task EXCEPT ![r] = NoTask]
    BY DEF PushDevice, Finish
  <1>3. UNCHANGED <<accounts, root, live, handed, expired, doubles,
                    ended, alone, ops, faults>>
    BY DEF PushDevice
  <1>4. task'[r] = NoTask /\ \A x \in Requests \ {r} : task'[x] = task[x]
    BY <1>2, NoTaskOK DEF IInv, TypeOK
  <1>5. devices \in Seq(PushTokens) /\ Len(devices) <= 1
    BY DEF IInv, TypeOK, DevicesOK, DeviceKnown
  <1>6. devices' \in Seq(PushTokens) /\ Len(devices') <= 1
    BY <1>1, <1>5 DEF PushDevice
  <1>7. alone => devices' = <<p>>
    BY <1>1 DEF IInv, DevicesOK, PushDevice, At
  <1>8. DevicesOK'
    <2>1. ~Registering(r)' /\ Registering(r) /\ ~At(r, "push")'
      BY <1>1, <1>4, NoTaskOK DEF Registering, At
    <2>2. \A x \in Requests \ {r} : /\ Registering(x)' <=> Registering(x)
                                    /\ At(x, "push")' => Registering(x)
      BY <1>4 DEF Registering, At
    <2>3. alone => \A x \in Requests \ {r} : ~Registering(x)
      BY <2>1 DEF IInv, DevicesOK
    <2>4. latest' # Nil => alone /\ latest' = p
      BY DEF PushDevice
    <2> QED
      BY <1>3, <1>6, <1>7, <2>1, <2>2, <2>3, <2>4 DEF DevicesOK, DeviceKnown
  <1>9. latest' \in PushTokens \cup {Nil}
    BY <1>1 DEF PushDevice
  <1>10. alone' \in BOOLEAN /\ ops' \in 0..MaxOps
    BY <1>3 DEF IInv, TypeOK
  <1> QED
    BY <1>1, <1>2, <1>3, <1>6, <1>8, <1>9, <1>10, NoTaskOK, DeviceStep

(* Every step preserves the inductive invariant. *)
LEMMA NextIInv == IInv /\ [Next]_vars => IInv'
  <1> SUFFICES ASSUME IInv, [Next]_vars PROVE IInv'
    OBVIOUS
  <1>1. ASSUME NEW r \in Requests, Request(r) PROVE IInv'
    BY <1>1, RequestSteps, RegisterDeviceStep DEF Request
  <1>2. ASSUME NEW r \in Requests, Step(r) PROVE IInv'
    BY <1>2, InsertUserStep, GetKeyStep, DeleteKeyStep, SetKeyStep, RevokeStep,
       UpdateDeviceStep, PushDeviceStep DEF Step
  <1>3. ASSUME NEW r \in Requests, Abort(r) PROVE IInv'
    BY <1>3, DropStep DEF Abort
  <1>4. CASE Crash
    BY <1>4, DropStep DEF Crash
  <1>5. CASE UNCHANGED vars
    <2>1. UNCHANGED <<accounts, root, live, handed, expired, devices, task,
                      doubles, ended, latest, alone, ops, faults>>
      BY <1>5 DEF vars, stored, history
    <2>2. TypeOK'
      BY <2>1 DEF IInv, TypeOK, Signed
    <2>3. \A s \in Tokens : Carrying(s)' = Carrying(s)
      BY <2>1 DEF Carrying, At
    <2>4. SessionsOK'
      BY <2>1, <2>3, SessionsKept
    <2> QED
      BY <2>1, <2>2, <2>4 DEF IInv, NamesUnique, DevicesOK, DeviceKnown, Registering, At
  <1> QED
    BY <1>1, <1>2, <1>3, <1>4, <1>5, ExpirySteps DEF Next

(* The inductive invariant holds in every reachable state. *)
THEOREM Invariance == Spec => []IInv
  BY InitIInv, NextIInv, PTL DEF Spec

------------------------------------------------------------------------------
(* Properties.                                                             *)

(* Documents, keys and handlers have the states their types name, and only *)
(* tokens that were signed are stored, handed out or presented             *)
(* (auth.service.ts:33-123).                                               *)
THEOREM TypeCorrect == Spec => []TypeOK
  <1>1. IInv => TypeOK
    BY DEF IInv
  <1> QED
    BY <1>1, Invariance, PTL

(* However many registrations overlap, no two accounts share a name or an  *)
(* address (users.service.ts:22-40, user.schema.ts:34-38).                 *)
THEOREM IdentifiersAreUnique == Spec => []NamesUnique
  <1>1. IInv => NamesUnique
    BY DEF IInv
  <1> QED
    BY <1>1, Invariance, PTL

(* A session has one token, one more for each refresh that overtook        *)
(* another one, and fewer only after a logout, an expiry or a fault        *)
(* (auth.service.ts:68-82).                                                *)
THEOREM SessionsBalance == Spec => []TokensBalance
  <1>1. IInv => TokensBalance
    BY DEF IInv, SessionsOK
  <1> QED
    BY <1>1, Invariance, PTL

(* However the registrations of a device overlap, it has one entry, and if *)
(* none overlapped the last, that one's token (users.service.ts:93-112).   *)
THEOREM DevicesAreKnown == Spec => []DeviceKnown
  <1>1. IInv => DeviceKnown
    BY DEF IInv, DevicesOK
  <1> QED
    BY <1>1, Invariance, PTL

(* The same of the handler's successor, without its name. *)
LEMMA Successor ==
  ASSUME IInv, NEW r \in Requests, NEW pc \in Awaits, GoTo(r, pc)
  PROVE  \E k \in Tasks : /\ task' = [task EXCEPT ![r] = k]
                          /\ k.pc = pc /\ k.token = task[r].token
  <1> DEFINE k == [task[r] EXCEPT !.pc = pc]
  <1>1. /\ k \in Tasks /\ k.pc = pc /\ k.token = task[r].token
        /\ task' = [task EXCEPT ![r] = k]
    BY GoesOn
  <1> HIDE DEF k
  <1> QED
    BY <1>1

(* No step brings back a session that is over: only a handler that saw a   *)
(* key of the session sets one.                                            *)
LEMMA StaysOver ==
  ASSUME IInv, [Next]_vars, NEW s \in Tokens, Over(s)
  PROVE  Over(s)'
  <1>1. /\ s \in Signed /\ LiveOf(s) = {}
        /\ \A r \in Requests : task[r].pc \in {"del", "set"} =>
             task[r].token = 0 \/ root[task[r].token] # s
    BY DEF Over, At
  <1>2. /\ task \in [Requests -> Tasks] /\ root \in [Tokens -> Tokens \cup {0}]
        /\ \A r \in Requests : task[r].token \in Signed \cup {0}
        /\ NoTask.pc = "idle"
    BY NoTaskOK DEF IInv, TypeOK
  <1>3. ASSUME root' = root, live' \subseteq live,
               \A r \in Requests : task'[r].pc \in {"del", "set"} =>
                 \/ task'[r].token = 0
                 \/ root[task'[r].token] # s
        PROVE  Over(s)'
    BY <1>1, <1>3 DEF Over, LiveOf, Signed, At
  <1>4. ASSUME NEW r \in Requests, NEW k \in Tasks,
               task' = [task EXCEPT ![r] = k],
               k.pc \in {"del", "set"} => k.token = 0 \/ root[k.token] # s,
               root' = root, live' \subseteq live
        PROVE  Over(s)'
    <2>1. \A x \in Requests : task'[x] = IF x = r THEN k ELSE task[x]
      BY <1>2, <1>4
    <2> QED
      BY <1>1, <1>3, <1>4, <2>1
  <1>5. ASSUME NEW r \in Requests, Request(r) PROVE Over(s)'
    <2>1. PICK k \in Tasks : /\ task' = [task EXCEPT ![r] = k]
                             /\ k.pc # "del"
                             /\ k.pc = "set" => k.token = 0
      <3>1. ASSUME NEW u \in Users, Register(r, u)
            PROVE  \E k \in Tasks : /\ task' = [task EXCEPT ![r] = k]
                                    /\ k.pc = "insertUser"
        <4>1. [NoTask EXCEPT !.pc = "insertUser", !.user = u] \in Tasks
          BY DEF NoTask, Tasks, Awaits
        <4> QED
          BY <3>1, <4>1 DEF Register, Begin, NoTask
      <3>2. CASE Login(r)
        <4>1. [NoTask EXCEPT !.pc = "set"] \in Tasks
          BY DEF NoTask, Tasks, Awaits
        <4> QED
          BY <3>2, <4>1 DEF Login, Begin, NoTask
      <3>3. ASSUME NEW t \in Tokens, Refresh(r, t) \/ Logout(r, t)
            PROVE  \E k \in Tasks : /\ task' = [task EXCEPT ![r] = k]
                                    /\ k.pc \in {"get", "revoke"}
        <4>1. \A pc \in {"get", "revoke"} :
                [NoTask EXCEPT !.pc = pc, !.token = t] \in Tasks
          BY DEF NoTask, Tasks, Awaits
        <4> QED
          BY <3>3, <4>1 DEF Refresh, Logout, Begin, NoTask
      <3>4. ASSUME NEW p \in PushTokens, RegisterDevice(r, p)
            PROVE  \E k \in Tasks : /\ task' = [task EXCEPT ![r] = k]
                                    /\ k.pc = "update"
        <4>1. [NoTask EXCEPT !.pc = "update", !.pushToken = p] \in Tasks
          BY DEF NoTask, Tasks, Awaits
        <4> QED
          BY <3>4, <4>1 DEF RegisterDevice, Begin, NoTask
      <3> QED
        BY <1>5, <3>1, <3>2, <3>3, <3>4 DEF Request
    <2>2. UNCHANGED <<root, live>>
      BY <1>5 DEF Request, Register, Login, Refresh, Logout, RegisterDevice, stored
    <2> QED
      BY <1>4, <2>1, <2>2
  <1>6. ASSUME NEW r \in Requests, InsertUser(r) \/ GetKey(r) PROVE Over(s)'
    <2>1. UNCHANGED <<root, live>>
      BY <1>6 DEF InsertUser, GetKey, stored
    <2>2. CASE Finish(r)
      BY <1>2, <1>4, <2>1, <2>2, NoTaskOK DEF Finish
    <2>3. CASE InsertUser(r) /\ GoTo(r, "set")
      <3>1. task[r].token = 0
        BY <2>3 DEF IInv, TaskOK, InsertUser, At
      <3>2. PICK k \in Tasks : /\ task' = [task EXCEPT ![r] = k]
                               /\ k.token = task[r].token
        BY <2>3, Successor DEF Awaits
      <3> QED
        BY <1>4, <2>1, <3>1, <3>2
    <2>4. CASE GetKey(r) /\ GoTo(r, "del") /\ task[r].token \in live
      <3>1. root[task[r].token] # s
        BY <1>1, <2>4 DEF LiveOf
      <3>2. PICK k \in Tasks : /\ task' = [task EXCEPT ![r] = k]
                               /\ k.token = task[r].token
        BY <2>4, Successor DEF Awaits
      <3> QED
        BY <1>4, <2>1, <3>1, <3>2
    <2> QED
      BY <1>6, <2>2, <2>3, <2>4 DEF InsertUser, GetKey
  <1>7. ASSUME NEW r \in Requests, DeleteKey(r) PROVE Over(s)'
    <2>1. root' = root /\ live' \subseteq live /\ GoTo(r, "set") /\ task[r].pc = "del"
      BY <1>7 DEF DeleteKey, At
    <2>2. PICK k \in Tasks : /\ task' = [task EXCEPT ![r] = k]
                             /\ k.token = task[r].token
      BY <2>1, Successor DEF Awaits
    <2> QED
      BY <1>1, <1>4, <2>1, <2>2
  <1>8. ASSUME NEW r \in Requests, Revoke(r) \/ PushDevice(r) PROVE Over(s)'
    BY <1>4, <1>8, NoTaskOK DEF Revoke, PushDevice, Finish
  <1>9. ASSUME NEW r \in Requests, UpdateDevice(r) PROVE Over(s)'
    <2>1. PICK k \in Tasks : /\ task' = [task EXCEPT ![r] = k]
                             /\ k.pc = "push"
      BY <1>9, Successor DEF UpdateDevice, Awaits
    <2> QED
      BY <1>4, <1>9, <2>1 DEF UpdateDevice
  <1>10. ASSUME NEW r \in Requests, SetKey(r) PROVE Over(s)'
    <2> DEFINE t == task[r].token
    <2>1. PICK n \in Tokens \ Signed :
            /\ root' = [root EXCEPT ![n] = IF t = 0 THEN n ELSE root[t]]
            /\ live' = live \cup {n}
      BY <1>10 DEF SetKey
    <2>2. /\ task[r].pc = "set" /\ task' = [task EXCEPT ![r] = NoTask]
      BY <1>10 DEF SetKey, At, Finish
    <2>3. /\ root'[n] = IF t = 0 THEN n ELSE root[t]
          /\ \A x \in Tokens \ {n} : root'[x] = root[x]
      BY <1>2, <2>1
    <2>4. root'[n] # s /\ s # n
      BY <1>1, <2>1, <2>2, <2>3
    <2>5. s \in Signed'
      BY <1>1, <2>1, <2>3, <2>4 DEF Signed
    <2>6. LiveOf(s)' = {}
      <3>1. live \subseteq Tokens
        BY DEF IInv, TypeOK, Signed
      <3> QED
        BY <1>1, <2>1, <2>3, <2>4, <3>1 DEF LiveOf
    <2>7. ASSUME NEW x \in Requests, task'[x].pc \in {"del", "set"}
          PROVE  task'[x].token = 0 \/ root'[task'[x].token] # s
      <3>1. task'[x] = task[x]
        BY <1>2, <2>2, <2>7
      <3>2. task[x].token # 0 => task[x].token \in Tokens \ {n}
        BY <1>2, <2>1 DEF Signed
      <3> QED
        BY <1>1, <2>3, <2>7, <3>1, <3>2
    <2> QED
      BY <2>5, <2>6, <2>7 DEF Over, At
  <1>11. ASSUME NEW rs \in SUBSET Requests, Drop(rs) PROVE Over(s)'
    <2>1. \A x \in Requests : task'[x] = IF x \in rs THEN NoTask ELSE task[x]
      BY <1>11 DEF Drop
    <2> QED
      BY <1>1, <1>2, <1>3, <1>11, <2>1 DEF Drop, stored
  <1>12. ASSUME NEW t \in Tokens, ExpireToken(t) \/ ExpireKey(t) PROVE Over(s)'
    BY <1>1, <1>3, <1>12 DEF ExpireToken, ExpireKey
  <1>13. CASE UNCHANGED vars
    BY <1>1, <1>3, <1>13 DEF vars, stored
  <1> QED
    BY <1>5, <1>6, <1>7, <1>8, <1>9, <1>10, <1>11, <1>12, <1>13
       DEF Next, Step, Abort, Crash

(* Once a session is over, by logout, expiry or a fault, no token that was *)
(* ever handed out brings it back (auth.service.ts:69-72, 94-96).          *)
THEOREM SessionsEnd == Spec => OverIsOver
  <1>1. IInv /\ [Next]_vars => [\A s \in Tokens : Over(s) => Over(s)']_vars
    BY StaysOver
  <1> QED
    BY <1>1, Invariance, PTL DEF Spec, OverIsOver

------------------------------------------------------------------------------
(* Accounts implements SessionTokens.                                      *)

(* The handlers after a step of handler r. *)
LEMMA Steps ==
  ASSUME IInv, NEW r \in Requests, Step(r)
  PROVE  /\ \A x \in Requests \ {r} : task'[x] = task[x]
         /\ task'[r].pc \in {"del", "set"} =>
              /\ task'[r].token = task[r].token
              /\ task'[r].pc = "del" => At(r, "get") /\ task[r].token \in live
              /\ task'[r].pc = "set" =>
                   \/ At(r, "insertUser") /\ task[r].token = 0
                   \/ At(r, "del") /\ live' = live \ {task[r].token}
  <1>1. /\ task \in [Requests -> Tasks] /\ task[r] \in Tasks
        /\ At(r, "insertUser") => task[r].token = 0
    BY DEF IInv, TypeOK, TaskOK, At
  <1>2. ASSUME Finish(r)
        PROVE  /\ \A x \in Requests \ {r} : task'[x] = task[x]
               /\ task'[r].pc = "idle"
    BY <1>1, <1>2, NoTaskOK DEF Finish
  <1>3. ASSUME NEW pc \in Awaits, GoTo(r, pc)
        PROVE  /\ \A x \in Requests \ {r} : task'[x] = task[x]
               /\ task'[r].pc = pc /\ task'[r].token = task[r].token
    BY <1>1, <1>3 DEF GoTo, Tasks
  <1>4. {"set", "del", "push"} \subseteq Awaits
    BY DEF Awaits
  <1>5. CASE SetKey(r) \/ Revoke(r) \/ PushDevice(r)
    BY <1>2, <1>5 DEF SetKey, Revoke, PushDevice
  <1>6. CASE InsertUser(r)
    BY <1>1, <1>2, <1>3, <1>4, <1>6 DEF InsertUser
  <1>7. CASE GetKey(r)
    BY <1>2, <1>3, <1>4, <1>7 DEF GetKey
  <1>8. CASE DeleteKey(r)
    BY <1>3, <1>4, <1>8 DEF DeleteKey
  <1>9. CASE UpdateDevice(r)
    BY <1>3, <1>4, <1>9 DEF UpdateDevice
  <1> QED
    BY <1>5, <1>6, <1>7, <1>8, <1>9 DEF Step

(* A request that arrives has no key of a token yet. *)
LEMMA Requested ==
  ASSUME IInv, NEW r \in Requests, Request(r)
  PROVE  /\ \A x \in Requests \ {r} : task'[x] = task[x]
         /\ task[r].pc = "idle"
         /\ task'[r].pc # "del" /\ (task'[r].pc = "set" => task'[r].token = 0)
         /\ UNCHANGED <<root, live>>
  <1>1. task \in [Requests -> Tasks] /\ NoTask \in Tasks
    BY NoTaskOK DEF IInv, TypeOK
  <1>2. ASSUME NEW k, Begin(r, k)
        PROVE  /\ \A x \in Requests \ {r} : task'[x] = task[x]
               /\ task[r].pc = "idle" /\ task'[r] = k
    BY <1>1, <1>2 DEF Begin, Idle
  <1>3. UNCHANGED <<root, live>>
    BY DEF Request, Register, Login, Refresh, Logout, RegisterDevice, stored
  <1>4. \E k : Begin(r, k) /\ k.pc # "del" /\ (k.pc = "set" => k.token = 0)
    <2>1. /\ \A u : [NoTask EXCEPT !.pc = "insertUser", !.user = u].pc = "insertUser"
          /\ [NoTask EXCEPT !.pc = "set"].pc = "set"
          /\ [NoTask EXCEPT !.pc = "set"].token = 0
          /\ \A t : /\ [NoTask EXCEPT !.pc = "get", !.token = t].pc = "get"
                    /\ [NoTask EXCEPT !.pc = "revoke", !.token = t].pc = "revoke"
          /\ \A p : [NoTask EXCEPT !.pc = "update", !.pushToken = p].pc = "update"
      BY DEF NoTask
    <2> QED
      BY <2>1 DEF Request, Register, Login, Refresh, Logout, RegisterDevice
  <1> QED
    BY <1>2, <1>3, <1>4

(* A token that is about to be replaced is valid no more. *)
LEMMA RotatedKept == IInv /\ Rotated /\ [Next]_vars => Rotated'
  <1> SUFFICES ASSUME IInv, Rotated, [Next]_vars,
                      NEW x \in Requests, task'[x].pc = "set", task'[x].token \in live'
               PROVE  FALSE
    BY DEF Rotated, At
  <1>1. live \subseteq Signed /\ task[x].token \in Signed \cup {0} /\ 0 \notin Tokens
    BY DEF IInv, TypeOK, Tokens
  <1>2. ASSUME task'[x] = task[x], live' \subseteq live PROVE FALSE
    BY <1>2 DEF Rotated, At
  <1>3. ASSUME NEW r \in Requests, Request(r) PROVE FALSE
    <2>1. live' = live /\ \A y \in Requests \ {r} : task'[y] = task[y]
      BY <1>3, Requested
    <2>2. CASE x = r
      BY <1>1, <1>3, <2>1, <2>2, Requested DEF Signed
    <2> QED
      BY <1>2, <2>1, <2>2
  <1>4. ASSUME NEW r \in Requests, Step(r) PROVE FALSE
    <2>1. \A y \in Requests \ {r} : task'[y] = task[y]
      BY <1>4, Steps
    <2>2. CASE SetKey(r)
      <3>1. x # r /\ task'[x] = task[x]
        BY <2>1, <2>2, NoTaskOK DEF SetKey, Finish, IInv, TypeOK
      <3>2. PICK n \in Tokens \ Signed : live' = live \cup {n}
        BY <2>2 DEF SetKey
      <3>3. task[x].token # n
        BY <1>1, <3>2
      <3> QED
        BY <3>1, <3>2, <3>3 DEF Rotated, At
    <2>3. CASE ~SetKey(r)
      <3>1. live' \subseteq live
        BY <1>4, <2>3 DEF Step, InsertUser, GetKey, DeleteKey, Revoke, UpdateDevice,
           PushDevice, stored
      <3>2. CASE x = r
        BY <1>1, <1>4, <3>1, <3>2, Steps DEF Signed
      <3> QED
        BY <1>2, <2>1, <3>1, <3>2
    <2> QED
      BY <2>2, <2>3
  <1>5. ASSUME NEW rs \in SUBSET Requests, Drop(rs) PROVE FALSE
    BY <1>2, <1>5, NoTaskOK DEF Drop, stored
  <1>6. ASSUME NEW t \in Tokens, ExpireToken(t) \/ ExpireKey(t) PROVE FALSE
    BY <1>2, <1>6 DEF ExpireToken, ExpireKey
  <1>7. CASE UNCHANGED vars
    BY <1>2, <1>7 DEF vars, stored
  <1> QED
    BY <1>3, <1>4, <1>5, <1>6, <1>7 DEF Next, Abort, Crash

(* Handler r carries out an exchange. *)
Exchanging(r) == task[r].pc \in {"del", "set"} /\ task[r].token # 0

(* An exchange is that of its handler. *)
LEMMA ExchangeOf ==
  /\ \A r \in Requests : Exchanging(r) => <<r, task[r].token>> \in Exchanges
  /\ \A x \in Exchanges : \E r \in Requests : Exchanging(r) /\ x = <<r, task[r].token>>
  BY DEF Exchanging, Exchanges

(* The same after a step. *)
LEMMA ExchangeOfNext ==
  /\ \A r \in Requests : Exchanging(r)' => <<r, task'[r].token>> \in Exchanges'
  /\ \A x \in Exchanges' : \E r \in Requests : Exchanging(r)' /\ x = <<r, task'[r].token>>
  BY DEF Exchanging, Exchanges

(* A step of handler r changes only its own exchange. *)
LEMMA ExchangesAfter ==
  ASSUME NEW r \in Requests, \A x \in Requests \ {r} : task'[x] = task[x]
  PROVE  /\ \A x \in Exchanges : x[1] = r => Exchanging(r) /\ x = <<r, task[r].token>>
         /\ Exchanges' = {x \in Exchanges : x[1] # r}
              \cup (IF Exchanging(r)' THEN {<<r, task'[r].token>>} ELSE {})
  <1>1. \A x \in Exchanges : x[1] = r => Exchanging(r) /\ x = <<r, task[r].token>>
    BY ExchangeOf
  <1>2. ASSUME NEW x \in Exchanges'
        PROVE  (x \in Exchanges /\ x[1] # r) \/ (Exchanging(r)' /\ x = <<r, task'[r].token>>)
    <2>1. PICK y \in Requests : Exchanging(y)' /\ x = <<y, task'[y].token>>
      BY ExchangeOfNext
    <2>2. CASE y = r
      BY <2>1, <2>2
    <2>3. CASE y # r
      <3>1. task'[y] = task[y]
        BY <2>3
      <3>2. Exchanging(y) /\ x = <<y, task[y].token>>
        BY <2>1, <3>1 DEF Exchanging
      <3> QED
        BY <2>3, <3>2, ExchangeOf
    <2> QED
      BY <2>2, <2>3
  <1>3. ASSUME NEW x \in Exchanges, x[1] # r PROVE x \in Exchanges'
    <2>1. PICK y \in Requests : Exchanging(y) /\ x = <<y, task[y].token>>
      BY ExchangeOf
    <2>2. task'[y] = task[y]
      BY <1>3, <2>1
    <2>3. Exchanging(y)' /\ x = <<y, task'[y].token>>
      BY <2>1, <2>2 DEF Exchanging
    <2> QED
      BY <2>3, ExchangeOfNext
  <1>4. Exchanging(r)' => <<r, task'[r].token>> \in Exchanges'
    BY ExchangeOfNext
  <1> QED
    BY <1>1, <1>2, <1>3, <1>4

(* A handler that takes up no exchange, and no change of the tokens. *)
LEMMA NothingExchanged ==
  ASSUME NEW r \in Requests, \A x \in Requests \ {r} : task'[x] = task[x],
         ~Exchanging(r)', UNCHANGED <<root, live>>
  PROVE  Sessions!SessionNext
  <1>1. Exchanges' \subseteq Exchanges
    BY ExchangesAfter
  <1> QED
    BY <1>1 DEF Sessions!SessionNext, Sessions!Forgo

(* A refresh finds its key. *)
LEMMA KeyShown ==
  ASSUME IInv, NEW r \in Requests, GetKey(r)
  PROVE  Sessions!SessionNext
  <1>1. /\ \A x \in Requests \ {r} : task'[x] = task[x]
        /\ task'[r].pc \in {"del", "set"} =>
             task'[r].pc = "del" /\ task'[r].token = task[r].token
        /\ UNCHANGED <<root, live>> /\ ~Exchanging(r)
    <2>1. task[r].pc = "get" /\ UNCHANGED <<root, live>>
      BY DEF GetKey, At, stored
    <2> QED
      BY <2>1, Steps DEF Step, Exchanging, At
  <1>2. CASE ~Exchanging(r)'
    BY <1>1, <1>2, NothingExchanged
  <1>3. CASE Exchanging(r)'
    <2>1. task'[r].token = task[r].token /\ task[r].token \in live
      BY <1>1, <1>3, Steps DEF Step, Exchanging
    <2>2. task[r].token \in Tokens
      BY <2>1 DEF IInv, TypeOK, Signed
    <2>3. \A x \in Exchanges : x[1] # r
      BY <1>1, ExchangesAfter
    <2>4. Exchanges' = Exchanges \cup {<<r, task[r].token>>}
      BY <1>1, <1>3, <2>1, <2>3, ExchangesAfter
    <2>5. Sessions!Show(r, task[r].token)
      BY <1>1, <2>1, <2>3, <2>4 DEF Sessions!Show
    <2> QED
      BY <2>2, <2>5 DEF Sessions!SessionNext
  <1> QED
    BY <1>2, <1>3

(* Exchanges go on as they were while keys are spent. *)
LEMMA KeySpent ==
  ASSUME NEW t \in Tokens, live' = live \ {t}, root' = root, Exchanges' = Exchanges
  PROVE  Sessions!SessionNext
  BY DEF Sessions!SessionNext, Sessions!Spend

(* A refresh or a logout deletes a key. *)
LEMMA KeyDeleted ==
  ASSUME IInv, NEW r \in Requests, DeleteKey(r) \/ Revoke(r)
  PROVE  Sessions!SessionNext
  <1>1. /\ \A x \in Requests \ {r} : task'[x] = task[x]
        /\ task[r].token \in Tokens /\ task[r] \in Tasks /\ task \in [Requests -> Tasks]
    BY Steps DEF Step, IInv, TypeOK, TaskOK, DeleteKey, Revoke, At, Signed
  <1>2. live' = live \ {task[r].token} /\ root' = root
    BY DEF DeleteKey, Revoke
  <1>3. CASE DeleteKey(r)
    <2>1. task[r].pc = "del" /\ task'[r].pc = "set" /\ task'[r].token = task[r].token
      BY <1>1, <1>3 DEF DeleteKey, GoTo, At, Tasks
    <2>2. Exchanging(r) /\ Exchanging(r)'
      BY <1>1, <2>1 DEF Exchanging, Tokens
    <2>3. Exchanges' = Exchanges
      <3> DEFINE e == <<r, task[r].token>>
      <3>1. e \in Exchanges /\ e[1] = r
        BY <2>2, ExchangeOf
      <3>2. \A x \in Exchanges : x[1] = r => x = e
        BY <1>1, ExchangesAfter
      <3>3. Exchanges' = {x \in Exchanges : x[1] # r} \cup {e}
        BY <1>1, <2>1, <2>2, ExchangesAfter
      <3> QED
        BY <3>1, <3>2, <3>3
    <2> QED
      BY <1>1, <1>2, <2>3, KeySpent
  <1>4. CASE Revoke(r)
    <2>1. task[r].pc = "revoke" /\ task'[r].pc = "idle"
      BY <1>1, <1>4, NoTaskOK DEF Revoke, Finish, At
    <2>2. ~Exchanging(r) /\ ~Exchanging(r)'
      BY <2>1 DEF Exchanging
    <2>3. Exchanges' = Exchanges
      BY <1>1, <2>2, ExchangesAfter
    <2> QED
      BY <1>1, <1>2, <2>3, KeySpent
  <1> QED
    BY <1>3, <1>4

(* A new token opens a session, or takes the place of one that was shown   *)
(* and is valid no more.                                                   *)
LEMMA KeySet ==
  ASSUME IInv, Rotated, NEW r \in Requests, SetKey(r)
  PROVE  Sessions!SessionNext
  <1> DEFINE t == task[r].token
  <1>1. /\ \A x \in Requests \ {r} : task'[x] = task[x]
        /\ task[r].pc = "set" /\ task'[r].pc = "idle" /\ t \notin live
    BY NoTaskOK DEF IInv, TypeOK, Rotated, SetKey, Finish, At
  <1>2. PICK n \in Tokens \ Signed :
          /\ root' = [root EXCEPT ![n] = IF t = 0 THEN n ELSE root[t]]
          /\ live' = live \cup {n}
    BY DEF SetKey
  <1>3. root[n] = 0
    BY <1>2 DEF Signed
  <1>4. ~Exchanging(r)'
    BY <1>1 DEF Exchanging
  <1>5. CASE t = 0
    <2>1. Exchanges' = Exchanges
      <3>1. ~Exchanging(r)
        BY <1>5 DEF Exchanging
      <3>2. \A x \in Exchanges : x[1] # r
        BY <1>1, <3>1, ExchangesAfter
      <3>3. Exchanges' = {x \in Exchanges : x[1] # r}
        BY <1>1, <1>4, ExchangesAfter
      <3> QED
        BY <3>2, <3>3
    <2>2. root' = [root EXCEPT ![n] = n]
      BY <1>2, <1>5
    <2>3. Sessions!Open(n)
      BY <1>2, <1>3, <2>1, <2>2 DEF Sessions!Open, Sessions!Issue
    <2> QED
      BY <1>2, <2>3 DEF Sessions!SessionNext
  <1>6. CASE t # 0
    <2>1. <<r, t>> \in Exchanges
      BY <1>1, <1>6, ExchangeOf DEF Exchanging
    <2>2. Exchanges' = Exchanges \ {<<r, t>>}
      <3>1. Exchanges' = {x \in Exchanges : x[1] # r}
        BY <1>1, <1>4, ExchangesAfter
      <3>2. \A x \in Exchanges : x[1] = r <=> x = <<r, t>>
        BY <1>1, ExchangesAfter
      <3> QED
        BY <3>1, <3>2
    <2>3. root' = [root EXCEPT ![n] = root[t]]
      BY <1>2, <1>6
    <2>4. Sessions!Exchange(<<r, t>>, n)
      BY <1>1, <1>2, <1>3, <2>1, <2>2, <2>3 DEF Sessions!Exchange, Sessions!Issue
    <2> QED
      BY <1>2, <2>1, <2>4 DEF Sessions!SessionNext
  <1> QED
    BY <1>5, <1>6

(* Every step of a handler is one of the abstract specification. *)
LEMMA StepRotates ==
  ASSUME IInv, Rotated, NEW r \in Requests, Step(r)
  PROVE  Sessions!SessionNext
  <1>1. CASE InsertUser(r) \/ UpdateDevice(r) \/ PushDevice(r)
    <2>1. /\ \A x \in Requests \ {r} : task'[x] = task[x]
          /\ UNCHANGED <<root, live>>
      BY <1>1, Steps DEF Step, InsertUser, UpdateDevice, PushDevice
    <2>2. ~At(r, "get") /\ ~At(r, "del")
      BY <1>1 DEF InsertUser, UpdateDevice, PushDevice, At
    <2>3. ~Exchanging(r)'
      BY <2>2, Steps DEF Exchanging
    <2> QED
      BY <2>1, <2>3, NothingExchanged
  <1> QED
    BY <1>1, KeyShown, KeyDeleted, KeySet DEF Step

(* A token is replaced only by a refresh that found it valid, after it was *)
(* taken out; none becomes valid twice (auth.service.ts:68-82).            *)
THEOREM ImplementsSessions == Spec => SessionSpec
  <1>1. Init => Sessions!SessionInit /\ Rotated
    <2> SUFFICES ASSUME Init PROVE Sessions!SessionInit /\ Rotated
      OBVIOUS
    <2>1. \A r \in Requests : task[r].pc = "idle"
      BY NoTaskOK DEF Init
    <2>2. Exchanges = {}
      BY <2>1, ExchangeOf DEF Exchanging
    <2> QED
      BY <2>1, <2>2 DEF Init, Rotated, At, Sessions!SessionInit
  <1>2. ASSUME IInv, Rotated, [Next]_vars
        PROVE  [Sessions!SessionNext]_(Sessions!svars)
    <2>1. ASSUME NEW r \in Requests, Request(r) PROVE Sessions!SessionNext
      <3>1. ~Exchanging(r)'
        BY <1>2, <2>1, Requested DEF Exchanging
      <3> QED
        BY <1>2, <2>1, <3>1, Requested, NothingExchanged
    <2>2. ASSUME NEW r \in Requests, Step(r) PROVE Sessions!SessionNext
      BY <1>2, <2>2, StepRotates
    <2>3. ASSUME NEW rs \in SUBSET Requests, Drop(rs) PROVE Sessions!SessionNext
      <3>1. \A x \in Requests : task'[x] = task[x] \/ task'[x].pc = "idle"
        BY <2>3, NoTaskOK DEF Drop
      <3>2. Exchanges' \subseteq Exchanges
        BY <3>1, ExchangeOf, ExchangeOfNext DEF Exchanging
      <3> QED
        BY <2>3, <3>2 DEF Drop, stored, Sessions!SessionNext, Sessions!Forgo
    <2>4. ASSUME NEW t \in Tokens, ExpireToken(t) \/ ExpireKey(t)
          PROVE  [Sessions!SessionNext]_(Sessions!svars)
      <3>1. root' = root /\ Exchanges' = Exchanges
        BY <2>4 DEF ExpireToken, ExpireKey, Exchanges
      <3> QED
        BY <2>4, <3>1, KeySpent DEF ExpireToken, ExpireKey, Sessions!svars
    <2>5. CASE UNCHANGED vars
      BY <2>5 DEF vars, stored, Exchanges, Sessions!svars
    <2> QED
      BY <1>2, <2>1, <2>2, <2>3, <2>4, <2>5 DEF Next, Abort, Crash
  <1> QED
    BY Invariance, RotatedKept, <1>1, <1>2, PTL
       DEF Spec, SessionSpec, Sessions!SessionSpec
==============================================================================
