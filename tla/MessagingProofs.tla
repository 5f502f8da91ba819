--------------------------- MODULE MessagingProofs ---------------------------
(* Proofs about Messaging. *)
EXTENDS Messaging, FiniteSetTheorems, TLAPS

------------------------------------------------------------------------------
(* Counting messages.                                                      *)

(* Message sets are finite, and a subset has no more elements. *)
LEMMA FewerMessages ==
  ASSUME NEW S \in SUBSET Msgs, NEW T \in SUBSET Msgs, S \subseteq T
  PROVE  /\ Cardinality(S) \in Nat
         /\ Cardinality(T) \in Nat
         /\ Cardinality(S) <= Cardinality(T)
  <1>1. IsFiniteSet(Msgs)
    BY ConstantsAssumption, FS_Interval DEF Msgs
  <1>2. IsFiniteSet(T)
    BY <1>1, FS_Subset
  <1> QED
    BY <1>2, FS_Subset, FS_CardinalityType

(* A set with one message more is larger by one at least. *)
LEMMA OneMoreMessage ==
  ASSUME NEW S \in SUBSET Msgs, NEW T \in SUBSET Msgs, S \subseteq T,
         NEW m \in T, m \notin S
  PROVE  Cardinality(S) + 1 <= Cardinality(T)
  <1>0. IsFiniteSet(Msgs)
    BY ConstantsAssumption, FS_Interval DEF Msgs
  <1>1. IsFiniteSet(S)
    BY <1>0, FS_Subset
  <1>2. Cardinality(S \cup {m}) = Cardinality(S) + 1
    BY <1>1, FS_AddElement
  <1> QED
    BY <1>2, FewerMessages

------------------------------------------------------------------------------
(* Preservation of the inductive invariant.                                *)

(* The inductive invariant holds initially. *)
LEMMA InitIInv == Init => IInv
  <1> SUFFICES ASSUME Init PROVE IInv
    OBVIOUS
  <1> USE ConstantsAssumption DEF Init
  <1>1. TypeOK
    <2>1. NoMsg \in MsgDocs /\ NoTask \in Tasks
      BY DEF NoMsg, MsgDocs, NoTask, Tasks, Awaits
    <2>a. FreshRow \in Rows
      BY DEF FreshRow, Rows
    <2>2. FreshRow \in Rows /\ NoRow \in Rows
      BY <2>a DEF NoRow, Rows
    <2>3. row \in [Users -> Rows]
      BY <2>2
    <2> QED
      BY <2>1, <2>3 DEF TypeOK, ReceiptStatus
  <1>2. \A r \in Requests : TaskOK(r)
    BY DEF TaskOK, Idle, NoTask, SendingAwaits, ReadingAwaits
  <1>3. OneCarrier
    BY DEF OneCarrier, NoTask, SendingAwaits
  <1>4. ShownIsFannedOut
    BY DEF ShownIsFannedOut, Msgs
  <1>5. UnreadIsAccountedFor
    <2> SUFFICES ASSUME NEW u \in Users
                 PROVE  row[u].unread <= Cardinality(Countable(u))
      BY DEF UnreadIsAccountedFor
    <2>1. Countable(u) \in SUBSET Msgs
      BY DEF Countable, Stored
    <2>2. Cardinality(Countable(u)) \in Nat
      BY <2>1, FewerMessages
    <2>3. row[u].unread = 0
      BY DEF FreshRow, NoRow
    <2> QED
      BY <2>2, <2>3
  <1> QED
    BY <1>1, <1>2, <1>3, <1>4, <1>5 DEF IInv

(* A step that stores no message takes none of the counted ones away, and  *)
(* a counter that does not grow stays accounted for.                       *)
LEMMA StillAccountedFor ==
  ASSUME IInv,
         \A u \in Users : /\ Countable(u) \subseteq Countable(u)'
                          /\ row'[u].unread \in Nat
                          /\ row'[u].unread <= row[u].unread
  PROVE  UnreadIsAccountedFor'
  <1> SUFFICES ASSUME NEW u \in Users
               PROVE  row'[u].unread <= Cardinality(Countable(u)')
    BY DEF UnreadIsAccountedFor
  <1>1. Countable(u) \in SUBSET Msgs /\ Countable(u)' \in SUBSET Msgs
    BY DEF Countable, Stored, Msgs
  <1>2. Cardinality(Countable(u)) <= Cardinality(Countable(u)')
    BY <1>1, FewerMessages
  <1>3. row[u].unread <= Cardinality(Countable(u)) /\ row[u].unread \in Nat
    BY DEF IInv, TypeOK, Rows, UnreadIsAccountedFor
  <1> QED
    BY <1>1, <1>2, <1>3, FewerMessages

(* A step of handler r that leaves what the others rely on.                *)
LEMMA OthersStayOK ==
  ASSUME IInv, NEW r \in Requests,
         \A s \in Requests : s # r => task'[s] = task[s],
         \A m \in Msgs :
           /\ msg[m].state = "stored" => msg'[m] = msg[m]
           /\ \A u \in Users : receipt[m][u] # "none" => receipt'[m][u] # "none",
         \A s \in Requests :
           s # r /\ task[s].pc \in SendingAwaits
             => msg'[task[s].msg] = msg[task[s].msg]
  PROVE  /\ \A s \in Requests : s # r => TaskOK(s)'
         /\ \A m \in Msgs : FannedOut(m) => FannedOut(m)'
  <1>1. \A m \in Msgs : FannedOut(m) => FannedOut(m)'
    BY DEF IInv, TypeOK, MsgDocs, FannedOut, Stored
  <1>2. ASSUME NEW s \in Requests, s # r PROVE TaskOK(s)'
    <2>1. TaskOK(s) /\ task'[s] = task[s]
      BY <1>2 DEF IInv
    <2>2. task[s].pc \in {"touch", "increment", "findSender"}
            => task[s].pc \in SendingAwaits
      BY DEF SendingAwaits
    <2>3. Stored \subseteq Stored'
      BY DEF Stored
    <2> QED
      BY <1>1, <1>2, <2>1, <2>2, <2>3 DEF TaskOK, Idle, At
  <1> QED
    BY <1>1, <1>2

(* Handler r goes to an await at which it carries no message, and no       *)
(* document but the participants' changes; the end of message:send, which  *)
(* pushes the message, is one of these.                                    *)
LEMMA CarriesNothing ==
  ASSUME IInv, NEW r \in Requests, NEW k \in Tasks,
         task' = [task EXCEPT ![r] = k],
         k.pc \notin SendingAwaits,
         k.pc # "idle" => k.user \in Users,
         k.pc \in ReadingAwaits => k.msg \in Stored,
         UNCHANGED <<msg, receipt, lastMessage>>,
         pushed' \subseteq Msgs,
         \A m \in pushed' : m \in pushed \/ FannedOut(m),
         row' \in [Users -> Rows],
         \A u \in Users : row'[u].unread <= row[u].unread,
         moves' \in 0..MaxMoves, faults' \in 0..MaxFaults
  PROVE  IInv'
  <1>1. TypeOK'
    BY DEF IInv, TypeOK
  <1>2. /\ task'[r] = k
        /\ \A s \in Requests : s # r => task'[s] = task[s]
    BY DEF IInv, TypeOK
  <1>3. /\ \A s \in Requests : s # r => TaskOK(s)'
        /\ \A m \in Msgs : FannedOut(m) => FannedOut(m)'
    BY <1>2, OthersStayOK
  <1>4. TaskOK(r)'
    BY <1>2 DEF TaskOK, Idle, SendingAwaits, Stored
  <1>5. OneCarrier'
    BY <1>2 DEF IInv, OneCarrier
  <1>6. ShownIsFannedOut'
    BY <1>3 DEF IInv, ShownIsFannedOut
  <1>7. UnreadIsAccountedFor'
    <2>1. ASSUME NEW u \in Users PROVE Countable(u) \subseteq Countable(u)'
      BY <1>2 DEF Countable, Stored, SendingAwaits
    <2>2. \A u \in Users : row'[u].unread \in Nat
      BY DEF Rows
    <2> QED
      BY <2>1, <2>2, StillAccountedFor
  <1> QED
    BY <1>1, <1>3, <1>4, <1>5, <1>6, <1>7 DEF IInv

(* Resetting the counter, or leaving, leaves a row behind. *)
LEMMA ResetRow ==
  ASSUME NEW w \in Rows, NEW m \in 0..MaxMsgs
  PROVE  [w EXCEPT !.unread = 0, !.lastRead = m] \in Rows
  BY DEF Rows

LEMMA LeftRow ==
  ASSUME NEW w \in Rows
  PROVE  [w EXCEPT !.state = "left"] \in Rows
  BY DEF Rows

(* Events, membership checks, resets, leaves, the end of message:send and  *)
(* failures.                                                               *)
LEMMA LightSteps ==
  ASSUME IInv, NEW r \in Requests,
         \/ \E u \in Users : Event(r, u)
         \/ AssertSender(r) \/ AssertReader(r) \/ ResetUnread(r)
         \/ Leave(r) \/ FindSender(r) \/ Abort(r)
  PROVE  IInv'
  <1> USE ConstantsAssumption
  <1>1. /\ TypeOK /\ TaskOK(r) /\ task[r] \in Tasks
        /\ NoTask \in Tasks
        /\ \A u \in Users : row[u].unread \in Nat
    BY DEF IInv, TypeOK, NoTask, Tasks, Awaits, Rows
  <1>0. ASSUME NEW k \in Tasks, task' = [task EXCEPT ![r] = k],
               k.pc \notin SendingAwaits,
               k.pc # "idle" => k.user \in Users,
               k.pc \in ReadingAwaits => k.msg \in Stored,
               UNCHANGED <<msg, receipt, lastMessage, row, pushed, faults>>,
               moves' = moves \/ moves' \in 0..MaxMoves
        PROVE  IInv'
    <2>1. /\ pushed' \subseteq Msgs /\ row' \in [Users -> Rows]
          /\ moves' \in 0..MaxMoves /\ faults' \in 0..MaxFaults
          /\ \A u \in Users : row'[u].unread <= row[u].unread
      BY <1>0, <1>1 DEF TypeOK
    <2> QED
      BY <1>0, <2>1, CarriesNothing
  <1>2. ASSUME NEW u \in Users, Send(r, u) PROVE IInv'
    <2> DEFINE k == [NoTask EXCEPT !.pc = "assertSender", !.user = u]
    <2>1. k \in Tasks /\ k.pc = "assertSender" /\ k.user = u
      BY <1>1 DEF Tasks, Awaits
    <2>2. task' = [task EXCEPT ![r] = k]
      BY <1>2 DEF Send
    <2> QED
      BY <1>0, <1>2, <2>1, <2>2 DEF Send, SendingAwaits, ReadingAwaits
  <1>3. ASSUME NEW u \in Users, AssertLeaver(r, u) PROVE IInv'
    <2> DEFINE k == [NoTask EXCEPT !.pc = "leave", !.user = u]
    <2>1. k \in Tasks /\ k.pc = "leave" /\ k.user = u
      BY <1>1 DEF Tasks, Awaits
    <2>2. task' = [task EXCEPT ![r] = k]
      BY <1>3 DEF AssertLeaver
    <2>3. moves' \in 0..MaxMoves
      BY <1>1, <1>3 DEF AssertLeaver, TypeOK
    <2> QED
      BY <1>0, <1>3, <2>1, <2>2, <2>3
         DEF AssertLeaver, SendingAwaits, ReadingAwaits
  <1>4. ASSUME NEW u \in Users, NEW x \in Msgs, MarkRead(r, u, x) PROVE IInv'
    <2> DEFINE k == [pc |-> "assertReader", user |-> u, msg |-> x, to |-> {}]
    <2>1. k \in Tasks /\ k.pc = "assertReader" /\ k.user = u /\ k.msg = x
      BY DEF Tasks, Awaits, Msgs
    <2>2. task' = [task EXCEPT ![r] = k]
      BY <1>4 DEF MarkRead
    <2> QED
      BY <1>0, <1>4, <2>1, <2>2 DEF MarkRead, SendingAwaits, ReadingAwaits
  <1>5. ASSUME task' = [task EXCEPT ![r] = NoTask],
               UNCHANGED <<msg, receipt, lastMessage>>,
               UNCHANGED <<pushed, moves>>,
               row' \in [Users -> Rows],
               \A u \in Users : row'[u].unread <= row[u].unread,
               faults' \in 0..MaxFaults
        PROVE  IInv'
    BY <1>1, <1>5, CarriesNothing DEF NoTask, TypeOK, SendingAwaits, ReadingAwaits
  <1>6. ASSUME NEW pc \in {"listRecipients", "markReceipts"}, ~Idle(r),
               pc = "markReceipts" => At(r, "assertReader"),
               task' = [task EXCEPT ![r].pc = pc],
               UNCHANGED <<msg, receipt, lastMessage, row, pushed, moves, faults>>
        PROVE  IInv'
    <2> DEFINE k == [task[r] EXCEPT !.pc = pc]
    <2>1. k \in Tasks /\ task' = [task EXCEPT ![r] = k]
      BY <1>1, <1>6 DEF Tasks, Awaits, TypeOK
    <2>2. k.pc = pc /\ k.user = task[r].user /\ k.msg = task[r].msg
      BY <1>1 DEF Tasks
    <2>3. k.user \in Users /\ (pc = "markReceipts" => k.msg \in Stored)
      BY <1>1, <1>6, <2>2 DEF TaskOK, At, ReadingAwaits
    <2> QED
      BY <1>0, <1>6, <2>1, <2>2, <2>3 DEF SendingAwaits, ReadingAwaits
  <1>7. CASE AssertSender(r)
    BY <1>1, <1>5, <1>6, <1>7 DEF AssertSender, At, Idle, GoTo, Finish, TypeOK
  <1>8. CASE AssertReader(r)
    BY <1>1, <1>5, <1>6, <1>8 DEF AssertReader, At, Idle, GoTo, Finish, TypeOK
  <1>9. CASE ResetUnread(r)
    <2> DEFINE v == task[r].user
    <2> DEFINE w == [row[v] EXCEPT !.unread = 0, !.lastRead = task[r].msg]
    <2>a. task[r].msg \in 0..MaxMsgs
      BY <1>1 DEF Tasks
    <2>b. v \in Users => w \in Rows
      BY <1>1, <2>a, ResetRow DEF TypeOK
    <2>c. row' = [row EXCEPT ![v] = w]
      BY <1>1, <1>9 DEF ResetUnread, TypeOK
    <2>1. row' \in [Users -> Rows]
      BY <1>1, <2>b, <2>c DEF TypeOK
    <2>2. \A u \in Users : row'[u].unread <= row[u].unread
      BY <1>1, <1>9 DEF ResetUnread, TypeOK, Rows
    <2> QED
      BY <1>1, <1>5, <1>9, <2>1, <2>2 DEF ResetUnread, Finish, TypeOK
  <1>10. CASE Leave(r)
    <2> DEFINE v == task[r].user
               w == [row[v] EXCEPT !.state = "left"]
    <2>b. v \in Users => w \in Rows
      BY <1>1, LeftRow DEF TypeOK
    <2>c. row' = [row EXCEPT ![v] = w]
      BY <1>1, <1>10 DEF Leave, TypeOK
    <2>1. row' \in [Users -> Rows]
      BY <1>1, <2>b, <2>c DEF TypeOK
    <2>2. \A u \in Users : row'[u].unread <= row[u].unread
      BY <1>1, <1>10 DEF Leave, TypeOK, Rows
    <2> QED
      BY <1>1, <1>5, <1>10, <2>1, <2>2 DEF Leave, Finish, TypeOK
  <1>11. CASE FindSender(r)
    <2>1. task[r].msg \in Msgs /\ FannedOut(task[r].msg)
      BY <1>1, <1>11 DEF FindSender, At, TaskOK, SendingAwaits
    <2>2. NoTask.pc = "idle" /\ "idle" \notin SendingAwaits \cup ReadingAwaits
      BY DEF NoTask, SendingAwaits, ReadingAwaits
    <2>3. /\ task' = [task EXCEPT ![r] = NoTask]
          /\ pushed' \subseteq Msgs /\ row' \in [Users -> Rows]
          /\ UNCHANGED <<msg, receipt, lastMessage, row>>
          /\ moves' \in 0..MaxMoves /\ faults' \in 0..MaxFaults
          /\ \A u \in Users : row'[u].unread <= row[u].unread
          /\ \A m \in pushed' : m \in pushed \/ FannedOut(m)
      BY <1>1, <1>11, <2>1 DEF FindSender, Finish, TypeOK
    <2> QED
      BY <1>1, <2>2, <2>3, CarriesNothing
  <1>12. CASE Abort(r)
    <2>1. faults' \in 0..MaxFaults
      BY <1>1, <1>12 DEF Abort, TypeOK
    <2> QED
      BY <1>1, <1>5, <1>12, <2>1 DEF Abort, Finish, TypeOK
  <1> QED
    BY <1>2, <1>3, <1>4, <1>7, <1>8, <1>9, <1>10, <1>11, <1>12 DEF Event

(* A new message gets a number nobody else carries. *)
LEMMA StampStep ==
  ASSUME IInv, NEW r \in Requests, NEW to \in SUBSET Users,
         task[r].user \in Users, Stamp(r, to),
         UNCHANGED <<receipt, lastMessage, row, pushed, moves, faults>>
  PROVE  IInv'
  <1> USE ConstantsAssumption
  <1>1. PICK m \in Msgs :
          /\ NextNumber(m)
          /\ msg' = [msg EXCEPT ![m] = [state |-> "stamped", to |-> to,
                                        sender |-> task[r].user]]
          /\ task' = [task EXCEPT ![r].pc = "insertMessage", ![r].msg = m,
                                  ![r].to = to]
    BY DEF Stamp
  <1>2. /\ msg[m].state = "none"
        /\ msg'[m].state = "stamped" /\ msg'[m].to = to
        /\ msg'[m].sender = task[r].user
        /\ msg' \in [Msgs -> MsgDocs]
        /\ \A k \in Msgs : k # m => msg'[k] = msg[k]
    BY <1>1 DEF NextNumber, IInv, TypeOK, MsgDocs
  <1>3. /\ task'[r].pc = "insertMessage" /\ task'[r].msg = m
        /\ task'[r].to = to /\ task'[r].user = task[r].user
        /\ task' \in [Requests -> Tasks]
        /\ \A s \in Requests : s # r => task'[s] = task[s]
    <2> DEFINE k == [task[r] EXCEPT !.pc = "insertMessage", !.msg = m, !.to = to]
    <2>1. /\ k \in Tasks /\ k.pc = "insertMessage" /\ k.msg = m
          /\ k.to = to /\ k.user = task[r].user
      <3>1. task[r] \in Tasks
        BY DEF IInv, TypeOK
      <3>2. m \in 0..MaxMsgs
        BY DEF Msgs
      <3>3. k \in Tasks
        BY <3>1, <3>2 DEF Tasks, Awaits
      <3> QED
        BY <3>1, <3>3 DEF Tasks
    <2>2. task' = [task EXCEPT ![r] = k]
      BY <1>1 DEF IInv, TypeOK
    <2> QED
      BY <2>1, <2>2 DEF IInv, TypeOK
  <1>4. \A s \in Requests : task[s].pc \in SendingAwaits => task[s].msg # m
    BY <1>2 DEF IInv, TaskOK
  <1>5. TypeOK'
    BY <1>2, <1>3 DEF IInv, TypeOK
  <1>6. /\ \A s \in Requests : s # r => TaskOK(s)'
        /\ \A k \in Msgs : FannedOut(k) => FannedOut(k)'
    <2>1. \A s \in Requests :
            s # r /\ task[s].pc \in SendingAwaits
              => msg'[task[s].msg] = msg[task[s].msg]
      BY <1>2, <1>4 DEF IInv, TaskOK
    <2> QED
      BY <1>2, <1>3, <2>1, OthersStayOK
  <1>7. TaskOK(r)'
    BY <1>2, <1>3 DEF TaskOK, Idle, At, SendingAwaits, ReadingAwaits
  <1>8. OneCarrier'
    BY <1>3, <1>4 DEF IInv, OneCarrier
  <1>9. ShownIsFannedOut'
    BY <1>6 DEF IInv, ShownIsFannedOut
  <1>10. UnreadIsAccountedFor'
    <2>1. ASSUME NEW u \in Users PROVE Countable(u) \subseteq Countable(u)'
      BY <1>2, <1>3 DEF Countable, Stored
    <2> QED
      BY <2>1, StillAccountedFor DEF IInv, TypeOK, Rows
  <1> QED
    BY <1>5, <1>6, <1>7, <1>8, <1>9, <1>10 DEF IInv

(* ListRecipients and IsBlocked, which end in the stamping of a message. *)
LEMMA RecipientSteps ==
  ASSUME IInv, NEW r \in Requests, ListRecipients(r) \/ IsBlocked(r)
  PROVE  IInv'
  <1>1. /\ TypeOK /\ task[r] \in Tasks /\ task[r].user \in Users
        /\ task[r].to \in SUBSET Users
    BY DEF IInv, TypeOK, TaskOK, Tasks, ListRecipients, IsBlocked, At, Idle
  <1>0. ASSUME NEW k \in Tasks, task' = [task EXCEPT ![r] = k],
               k.pc \notin SendingAwaits \cup ReadingAwaits,
               k.pc # "idle" => k.user \in Users,
               UNCHANGED <<msg, receipt, lastMessage, row, pushed, moves, faults>>
        PROVE  IInv'
    <2>1. /\ pushed' \subseteq Msgs /\ row' \in [Users -> Rows]
          /\ moves' \in 0..MaxMoves /\ faults' \in 0..MaxFaults
          /\ \A u \in Users : row'[u].unread <= row[u].unread
      BY <1>0, <1>1 DEF TypeOK, Rows
    <2> QED
      BY <1>0, <2>1, CarriesNothing
  <1>2. CASE /\ ListRecipients(r)
             /\ Cardinality(Active \ {task[r].user}) = 1
    <2> DEFINE k == [task[r] EXCEPT !.pc = "isBlocked",
                                    !.to = Active \ {task[r].user}]
    <2>1. k \in Tasks /\ k.pc = "isBlocked" /\ k.user = task[r].user
      BY <1>1 DEF Tasks, Awaits, Active
    <2>2. task' = [task EXCEPT ![r] = k] /\ UNCHANGED msg
      BY <1>1, <1>2 DEF ListRecipients, TypeOK, Tasks
    <2>3. k.pc \notin SendingAwaits \cup ReadingAwaits /\ k.user \in Users
      BY <1>1, <2>1 DEF SendingAwaits, ReadingAwaits
    <2>4. UNCHANGED <<msg, receipt, lastMessage, row, pushed, moves, faults>>
      BY <1>2, <2>2 DEF ListRecipients
    <2> QED
      BY <1>0, <2>1, <2>2, <2>3, <2>4
  <1>3. CASE /\ ListRecipients(r)
             /\ Cardinality(Active \ {task[r].user}) # 1
    BY <1>1, <1>3, StampStep DEF ListRecipients, Active
  <1>4. CASE IsBlocked(r) /\ Finish(r) /\ UNCHANGED msg
    <2>1. /\ NoTask \in Tasks /\ NoTask.pc = "idle"
          /\ "idle" \notin SendingAwaits \cup ReadingAwaits
      BY ConstantsAssumption
         DEF NoTask, Tasks, Awaits, SendingAwaits, ReadingAwaits
    <2> QED
      BY <1>0, <1>4, <2>1 DEF IsBlocked, Finish
  <1>5. CASE IsBlocked(r) /\ Stamp(r, task[r].to)
    BY <1>1, <1>5, StampStep DEF IsBlocked
  <1> QED
    BY <1>2, <1>3, <1>4, <1>5 DEF IsBlocked

(* Handler r goes from one await of message:send to the next.              *)
LEMMA NextAwait ==
  ASSUME IInv, NEW r \in Requests, task[r].pc \in SendingAwaits,
         NEW pc \in SendingAwaits, task' = [task EXCEPT ![r].pc = pc]
  PROVE  /\ task' \in [Requests -> Tasks]
         /\ task'[r].pc = pc /\ task'[r].user = task[r].user
         /\ task'[r].msg = task[r].msg /\ task'[r].to = task[r].to
         /\ \A s \in Requests : s # r => task'[s] = task[s]
         /\ \A s \in Requests : s # r /\ task[s].pc \in SendingAwaits
                              => task[s].msg # task[r].msg
         /\ OneCarrier'
  <1> DEFINE k == [task[r] EXCEPT !.pc = pc]
  <1>1. task[r] \in Tasks
    BY DEF IInv, TypeOK
  <1>2. /\ k \in Tasks /\ k.pc = pc /\ k.user = task[r].user
        /\ k.msg = task[r].msg /\ k.to = task[r].to
    BY <1>1 DEF Tasks, Awaits, SendingAwaits
  <1>3. task' = [task EXCEPT ![r] = k]
    BY DEF IInv, TypeOK
  <1>4. /\ task' \in [Requests -> Tasks] /\ task'[r] = k
        /\ \A s \in Requests : s # r => task'[s] = task[s]
    BY <1>2, <1>3 DEF IInv, TypeOK
  <1>5. \A s \in Requests : s # r /\ task[s].pc \in SendingAwaits
                           => task[s].msg # task[r].msg
    BY DEF IInv, OneCarrier
  <1>6. OneCarrier'
    BY <1>2, <1>4, <1>5 DEF IInv, OneCarrier
  <1> QED
    BY <1>2, <1>4, <1>5, <1>6

(* InsertMessage preserves the inductive invariant. *)
LEMMA InsertMessageStep ==
  ASSUME IInv, NEW r \in Requests, InsertMessage(r)
  PROVE  IInv'
  <1> DEFINE m == task[r].msg
             pc == IF task[r].to = {} THEN "touch" ELSE "insertReceipts"
  <1>1. /\ TypeOK /\ TaskOK(r) /\ task[r].pc = "insertMessage"
        /\ task[r].pc \in SendingAwaits /\ pc \in SendingAwaits
        /\ task' = [task EXCEPT ![r].pc = pc]
    BY DEF IInv, InsertMessage, At, GoTo, SendingAwaits
  <1>2. /\ m \in Msgs /\ msg[m].state = "stamped" /\ msg[m].to = task[r].to
        /\ msg[m].sender = task[r].user /\ task[r].user \in Users
    BY <1>1 DEF TaskOK, At, Idle
  <1>3. /\ msg'[m].state = "stored" /\ msg'[m].to = msg[m].to
        /\ msg'[m].sender = msg[m].sender
        /\ msg' \in [Msgs -> MsgDocs]
        /\ \A k \in Msgs : k # m => msg'[k] = msg[k]
    BY <1>1, <1>2 DEF InsertMessage, TypeOK, MsgDocs
  <1>4. /\ task' \in [Requests -> Tasks]
        /\ task'[r].pc = pc /\ task'[r].user = task[r].user
        /\ task'[r].msg = m /\ task'[r].to = task[r].to
        /\ \A s \in Requests : s # r => task'[s] = task[s]
        /\ \A s \in Requests : s # r /\ task[s].pc \in SendingAwaits
                             => task[s].msg # m
        /\ OneCarrier'
    BY <1>1, NextAwait
  <1>5. /\ \A s \in Requests : s # r => TaskOK(s)'
        /\ \A k \in Msgs : FannedOut(k) => FannedOut(k)'
    <2>1. \A s \in Requests :
            s # r /\ task[s].pc \in SendingAwaits
              => msg'[task[s].msg] = msg[task[s].msg]
      BY <1>3, <1>4 DEF IInv, TaskOK
    <2> QED
      BY <1>2, <1>3, <1>4, <2>1, OthersStayOK DEF InsertMessage
  <1>6. TypeOK'
    BY <1>1, <1>3, <1>4 DEF InsertMessage, TypeOK
  <1>7. TaskOK(r)'
    <2>1. task[r].to = {} => FannedOut(m)'
      BY <1>2, <1>3, <1>4 DEF FannedOut, Stored
    <2> QED
      BY <1>2, <1>3, <1>4, <2>1 DEF TaskOK, Idle, At, SendingAwaits, ReadingAwaits
  <1>8. ShownIsFannedOut'
    BY <1>5 DEF InsertMessage, IInv, ShownIsFannedOut
  <1>9. UnreadIsAccountedFor'
    <2>1. ASSUME NEW u \in Users PROVE Countable(u) \subseteq Countable(u)'
      BY <1>2, <1>3, <1>4 DEF Countable, Stored
    <2> QED
      BY <1>1, <2>1, StillAccountedFor DEF InsertMessage, TypeOK, Rows
  <1> QED
    BY <1>4, <1>5, <1>6, <1>7, <1>8, <1>9 DEF IInv

(* InsertReceipts preserves the inductive invariant. *)
LEMMA InsertReceiptsStep ==
  ASSUME IInv, NEW r \in Requests, InsertReceipts(r)
  PROVE  IInv'
  <1> DEFINE m == task[r].msg
             Missing == {u \in task[r].to : receipt[m][u] = "none"}
  <1>1. PICK v \in Missing :
          /\ receipt' = [receipt EXCEPT ![m][v] = "sent"]
          /\ GoTo(r, IF Missing = {v} THEN "touch" ELSE "insertReceipts")
    BY DEF InsertReceipts
  <1> DEFINE pc == IF Missing = {v} THEN "touch" ELSE "insertReceipts"
  <1>2. /\ TypeOK /\ TaskOK(r) /\ task[r].pc = "insertReceipts"
        /\ task[r].pc \in SendingAwaits /\ pc \in SendingAwaits
        /\ task' = [task EXCEPT ![r].pc = pc]
        /\ UNCHANGED <<msg, lastMessage, row, pushed, moves, faults>>
    BY <1>1 DEF IInv, InsertReceipts, At, GoTo, SendingAwaits
  <1>3. /\ m \in Msgs /\ msg[m].state = "stored" /\ msg[m].to = task[r].to
        /\ msg[m].sender = task[r].user /\ task[r].user \in Users
        /\ v \in Users /\ task[r].to \subseteq Users
    BY <1>1, <1>2 DEF TaskOK, At, Idle, TypeOK, MsgDocs
  <1>4. /\ receipt' \in [Msgs -> [Users -> ReceiptStatus]]
        /\ \A k \in Msgs, u \in Users :
             receipt'[k][u] = IF k = m /\ u = v THEN "sent" ELSE receipt[k][u]
    BY <1>1, <1>2, <1>3 DEF TypeOK, ReceiptStatus
  <1>5. /\ task' \in [Requests -> Tasks]
        /\ task'[r].pc = pc /\ task'[r].user = task[r].user
        /\ task'[r].msg = m /\ task'[r].to = task[r].to
        /\ \A s \in Requests : s # r => task'[s] = task[s]
        /\ OneCarrier'
    BY <1>2, NextAwait
  <1>6. /\ \A s \in Requests : s # r => TaskOK(s)'
        /\ \A k \in Msgs : FannedOut(k) => FannedOut(k)'
    <2>1. \A k \in Msgs, u \in Users :
            receipt[k][u] # "none" => receipt'[k][u] # "none"
      BY <1>4
    <2> QED
      BY <1>2, <1>5, <2>1, OthersStayOK
  <1>7. TypeOK'
    BY <1>2, <1>4, <1>5 DEF TypeOK
  <1>8. TaskOK(r)'
    <2>1. pc = "touch" => FannedOut(m)'
      BY <1>2, <1>3, <1>4 DEF FannedOut, Stored
    <2> QED
      BY <1>2, <1>3, <1>5, <2>1 DEF TaskOK, Idle, At, SendingAwaits, ReadingAwaits
  <1>9. ShownIsFannedOut'
    BY <1>2, <1>6 DEF IInv, ShownIsFannedOut
  <1>10. UnreadIsAccountedFor'
    <2>1. ASSUME NEW u \in Users PROVE Countable(u) \subseteq Countable(u)'
      BY <1>2, <1>5 DEF Countable, Stored
    <2> QED
      BY <1>2, <2>1, StillAccountedFor DEF TypeOK, Rows
  <1> QED
    BY <1>5, <1>6, <1>7, <1>8, <1>9, <1>10 DEF IInv

(* TouchLastMessage preserves the inductive invariant. *)
LEMMA TouchStep ==
  ASSUME IInv, NEW r \in Requests, TouchLastMessage(r)
  PROVE  IInv'
  <1> DEFINE m == task[r].msg
  <1>1. /\ TypeOK /\ TaskOK(r) /\ task[r].pc = "touch"
        /\ task[r].pc \in SendingAwaits /\ "increment" \in SendingAwaits
        /\ task' = [task EXCEPT ![r].pc = "increment"]
        /\ lastMessage' = m
        /\ UNCHANGED <<msg, receipt, row, pushed, moves, faults>>
    BY DEF IInv, TouchLastMessage, At, GoTo, SendingAwaits
  <1>2. /\ m \in Msgs /\ FannedOut(m) /\ msg[m].to = task[r].to
        /\ msg[m].sender = task[r].user /\ task[r].user \in Users
        /\ msg[m].state = "stored"
    BY <1>1 DEF TaskOK, At, Idle
  <1>3. /\ task' \in [Requests -> Tasks]
        /\ task'[r].pc = "increment" /\ task'[r].user = task[r].user
        /\ task'[r].msg = m /\ task'[r].to = task[r].to
        /\ \A s \in Requests : s # r => task'[s] = task[s]
        /\ OneCarrier'
    BY <1>1, NextAwait
  <1>4. /\ \A s \in Requests : s # r => TaskOK(s)'
        /\ \A k \in Msgs : FannedOut(k) => FannedOut(k)'
    BY <1>1, <1>3, OthersStayOK
  <1>5. TypeOK'
    BY <1>1, <1>2, <1>3 DEF TypeOK, Msgs
  <1>6. TaskOK(r)'
    BY <1>1, <1>2, <1>3, <1>4 DEF TaskOK, Idle, At, SendingAwaits, ReadingAwaits
  <1>7. ShownIsFannedOut'
    BY <1>1, <1>2, <1>4 DEF IInv, ShownIsFannedOut
  <1>8. UnreadIsAccountedFor'
    <2>1. ASSUME NEW u \in Users PROVE Countable(u) \subseteq Countable(u)'
      BY <1>1, <1>3 DEF Countable, Stored
    <2> QED
      BY <1>1, <2>1, StillAccountedFor DEF TypeOK, Rows
  <1> QED
    BY <1>3, <1>4, <1>5, <1>6, <1>7, <1>8 DEF IInv

(* Setting the flag of a row leaves it a row with the same counter. *)
LEMMA HiddenRow ==
  ASSUME NEW w \in Rows, NEW b \in BOOLEAN
  PROVE  /\ [w EXCEPT !.hidden = b] \in Rows
         /\ [w EXCEPT !.hidden = b].unread = w.unread
  BY DEF Rows

(* Counting a message leaves a row whose counter is larger by one. *)
LEMMA CountedRow ==
  ASSUME NEW w \in Rows
  PROVE  /\ [w EXCEPT !.unread = @ + 1, !.hidden = FALSE] \in Rows
         /\ [w EXCEPT !.unread = @ + 1, !.hidden = FALSE].unread = w.unread + 1
  <1> DEFINE v == [w EXCEPT !.unread = @ + 1]
  <1>1. v \in Rows /\ v.unread = w.unread + 1
    BY DEF Rows
  <1>2. [w EXCEPT !.unread = @ + 1, !.hidden = FALSE] = [v EXCEPT !.hidden = FALSE]
    OBVIOUS
  <1> QED
    BY <1>1, <1>2, HiddenRow

(* IncrementUnread preserves the inductive invariant. *)
LEMMA IncrementStep ==
  ASSUME IInv, NEW r \in Requests, IncrementUnread(r)
  PROVE  IInv'
  <1> DEFINE m == task[r].msg
  <1>1. /\ TypeOK /\ TaskOK(r) /\ task[r].pc = "increment"
        /\ task[r].pc \in SendingAwaits /\ "findSender" \in SendingAwaits
        /\ UNCHANGED <<msg, receipt, lastMessage, moves, faults>>
    BY DEF IInv, IncrementUnread, At, SendingAwaits
  <1>2. /\ m \in Msgs /\ FannedOut(m) /\ msg[m].to = task[r].to
        /\ msg[m].sender = task[r].user /\ task[r].user \in Users
        /\ msg[m].state = "stored"
    BY <1>1 DEF TaskOK, At, Idle
  <1>3. /\ row' \in [Users -> Rows]
        /\ \A u \in Users :
             row'[u].unread =
               IF u \in Active \ {task[r].user} THEN row[u].unread + 1
                                                 ELSE row[u].unread
    <2> DEFINE more(w) == [w EXCEPT !.unread = @ + 1, !.hidden = FALSE]
    <2>0. ASSUME NEW w \in Rows
          PROVE  more(w) \in Rows /\ more(w).unread = w.unread + 1
      BY CountedRow
    <2>1. \A u \in Users : more(row[u]) \in Rows
      BY <1>1, <2>0 DEF TypeOK
    <2>2. \A u \in Users : more(row[u]).unread = row[u].unread + 1
      BY <1>1, <2>0 DEF TypeOK
    <2>3. row \in [Users -> Rows]
      BY <1>1 DEF TypeOK
    <2> QED
      BY <2>1, <2>2, <2>3 DEF IncrementUnread
  <1>4. /\ task' \in [Requests -> Tasks]
        /\ task'[r] = NoTask
             \/ /\ task'[r].pc = "findSender" /\ task'[r].user = task[r].user
                /\ task'[r].msg = m /\ task'[r].to = task[r].to
        /\ \A s \in Requests : s # r => task'[s] = task[s]
        /\ OneCarrier'
        /\ pushed' = pushed \/ pushed' = pushed \cup {m}
    <2>1. CASE Finish(r) /\ pushed' = pushed \cup {m}
      <3>1. NoTask \in Tasks /\ NoTask.pc \notin SendingAwaits
        BY ConstantsAssumption DEF NoTask, Tasks, Awaits, SendingAwaits
      <3>2. /\ task' \in [Requests -> Tasks] /\ task'[r] = NoTask
            /\ \A s \in Requests : s # r => task'[s] = task[s]
        BY <1>1, <2>1, <3>1 DEF Finish, TypeOK
      <3>3. OneCarrier'
        BY <3>1, <3>2 DEF IInv, OneCarrier
      <3> QED
        BY <2>1, <3>2, <3>3
    <2>2. CASE GoTo(r, "findSender") /\ UNCHANGED pushed
      BY <1>1, <2>2, NextAwait DEF GoTo
    <2> QED
      BY <2>1, <2>2 DEF IncrementUnread
  <1>5. NoTask.pc = "idle"
    BY DEF NoTask
  <1>6. /\ \A s \in Requests : s # r => TaskOK(s)'
        /\ \A k \in Msgs : FannedOut(k) => FannedOut(k)'
    BY <1>1, <1>4, OthersStayOK
  <1>7. TypeOK'
    BY <1>1, <1>2, <1>3, <1>4 DEF TypeOK
  <1>8. TaskOK(r)'
    <2>1. FannedOut(task[r].msg)
      BY <1>2
    <2>2. /\ \A k \in Msgs : FannedOut(k)' <=> FannedOut(k)
      BY <1>1 DEF FannedOut, Stored
    <2> QED
      BY <1>1, <1>2, <1>4, <1>5, <2>2
         DEF TaskOK, Idle, At, SendingAwaits, ReadingAwaits
  <1>9. ShownIsFannedOut'
    BY <1>1, <1>2, <1>4, <1>6 DEF IInv, ShownIsFannedOut
  <1>10. UnreadIsAccountedFor'
    <2> SUFFICES ASSUME NEW u \in Users
                 PROVE  row'[u].unread <= Cardinality(Countable(u)')
      BY DEF UnreadIsAccountedFor
    <2>1. /\ Countable(u) \in SUBSET Msgs /\ Countable(u)' \in SUBSET Msgs
          /\ row[u].unread \in Nat
          /\ row[u].unread <= Cardinality(Countable(u))
      BY <1>1 DEF Countable, Stored, Msgs, TypeOK, Rows, IInv,
                  UnreadIsAccountedFor
    <2>2. Countable(u) \subseteq Countable(u)'
      BY <1>1, <1>4, <1>5 DEF Countable, Stored
    <2>3. CASE u \in Active \ {task[r].user}
      <3>1. m \notin Countable(u)
        BY <1>1 DEF Countable
      <3>2. ASSUME NEW s \in Requests,
                   task'[s].pc \in {"insertReceipts", "touch", "increment"}
            PROVE  task'[s].msg # m
        <4>1. s # r /\ task'[s] = task[s] /\ task[s].pc \in SendingAwaits
          BY <1>4, <1>5, <3>2 DEF SendingAwaits
        <4> QED
          BY <1>1, <4>1 DEF IInv, OneCarrier
      <3>3. m \in Stored' /\ msg'[m].sender # u
        BY <1>1, <1>2, <2>3 DEF Stored
      <3>4. \E k \in Countable(u)' : k \notin Countable(u)
        BY <3>1, <3>2, <3>3 DEF Countable
      <3>5. Cardinality(Countable(u)) + 1 <= Cardinality(Countable(u)')
        BY <2>1, <2>2, <3>4, OneMoreMessage
      <3> QED
        BY <1>3, <2>1, <2>2, <2>3, <3>5, FewerMessages
    <2>4. CASE u \notin Active \ {task[r].user}
      BY <1>3, <2>1, <2>2, <2>4, FewerMessages
    <2> QED
      BY <2>3, <2>4
  <1> QED
    BY <1>4, <1>6, <1>7, <1>8, <1>9, <1>10 DEF IInv

(* message:delivered and message:read change statuses and nothing else the *)
(* invariant looks at.                                                     *)
LEMMA StatusSteps ==
  ASSUME IInv,
         receipt' \in [Msgs -> [Users -> ReceiptStatus]],
         \A m \in Msgs, u \in Users :
           receipt[m][u] # "none" => receipt'[m][u] # "none",
         UNCHANGED <<msg, lastMessage, row, pushed, task, moves, faults>>
  PROVE  IInv'
  <1>1. \A m \in Msgs : FannedOut(m) => FannedOut(m)'
    BY DEF IInv, TypeOK, MsgDocs, FannedOut, Stored
  <1>2. TypeOK'
    BY DEF IInv, TypeOK
  <1>3. \A r \in Requests : TaskOK(r)'
    BY <1>1 DEF IInv, TaskOK, Idle, At, SendingAwaits, Stored
  <1>4. OneCarrier' /\ ShownIsFannedOut'
    BY <1>1 DEF IInv, OneCarrier, ShownIsFannedOut
  <1>5. UnreadIsAccountedFor'
    BY DEF IInv, UnreadIsAccountedFor, Countable, Stored
  <1> QED
    BY <1>2, <1>3, <1>4, <1>5 DEF IInv

(* What message:read does to the receipts. *)
LEMMA MarkReceiptsEffect ==
  ASSUME IInv, NEW r \in Requests, MarkReceipts(r)
  PROVE  /\ task[r].user \in Users /\ task[r].msg \in Stored
         /\ receipt' \in [Msgs -> [Users -> ReceiptStatus]]
         /\ \A m \in Msgs, u \in Users :
              receipt[m][u] # "none" => receipt'[m][u] # "none"
  <1>1. /\ task[r].user \in Users /\ task[r].msg \in Stored
        /\ receipt \in [Msgs -> [Users -> ReceiptStatus]]
    BY DEF IInv, TypeOK, MarkReceipts, At, TaskOK, Idle, ReadingAwaits
  <1>2. \A m \in Msgs : [receipt[m] EXCEPT ![task[r].user] = "read"]
                          \in [Users -> ReceiptStatus]
    BY <1>1 DEF ReceiptStatus
  <1>3. ASSUME NEW m \in Msgs
        PROVE  /\ receipt'[m] \in [Users -> ReceiptStatus]
               /\ \A u \in Users :
                    receipt[m][u] # "none" => receipt'[m][u] # "none"
    BY <1>1, <1>2, <1>3 DEF MarkReceipts
  <1>4. receipt' = [m \in Msgs |-> receipt'[m]]
    BY DEF MarkReceipts
  <1> QED
    BY <1>1, <1>3, <1>4

(* The steps that move receipts forward preserve the inductive invariant. *)
LEMMA ReceiptSteps ==
  ASSUME IInv,
         \/ \E m \in Msgs, u \in Users : MarkDelivered(m, u)
         \/ \E r \in Requests : MarkReceipts(r)
  PROVE  IInv'
  <1>1. ASSUME NEW m \in Msgs, NEW u \in Users, MarkDelivered(m, u) PROVE IInv'
    <2>1. receipt \in [Msgs -> [Users -> ReceiptStatus]]
      BY DEF IInv, TypeOK
    <2>2. receipt' \in [Msgs -> [Users -> ReceiptStatus]]
      BY <1>1, <2>1 DEF MarkDelivered, ReceiptStatus
    <2>3. \A k \in Msgs, v \in Users :
            receipt[k][v] # "none" => receipt'[k][v] # "none"
      BY <1>1, <2>1 DEF MarkDelivered
    <2> QED
      BY <1>1, <2>2, <2>3, StatusSteps DEF MarkDelivered
  <1>2. ASSUME NEW r \in Requests, MarkReceipts(r) PROVE IInv'
    <2> DEFINE k == [task[r] EXCEPT !.pc = "resetUnread"]
    <2>1. /\ TypeOK /\ task[r] \in Tasks /\ task' = [task EXCEPT ![r] = k]
          /\ UNCHANGED <<msg, lastMessage, row, pushed, moves, faults>>
      BY <1>2 DEF IInv, TypeOK, MarkReceipts, GoTo
    <2>2. k \in Tasks /\ k.pc = "resetUnread" /\ k.user = task[r].user
          /\ k.msg = task[r].msg
      BY <2>1 DEF Tasks, Awaits
    <2>3. /\ task' \in [Requests -> Tasks] /\ task'[r] = k
          /\ \A s \in Requests : s # r => task'[s] = task[s]
      BY <2>1, <2>2 DEF TypeOK
    <2>4. /\ \A s \in Requests : s # r => TaskOK(s)'
          /\ \A m \in Msgs : FannedOut(m) => FannedOut(m)'
      BY <1>2, <2>1, <2>3, MarkReceiptsEffect, OthersStayOK
    <2>5. TypeOK'
      BY <1>2, <2>1, <2>3, MarkReceiptsEffect DEF TypeOK
    <2>6. TaskOK(r)'
      BY <1>2, <2>1, <2>2, <2>3, MarkReceiptsEffect
         DEF TaskOK, Idle, At, SendingAwaits, Stored
    <2>7. OneCarrier' /\ ShownIsFannedOut'
      BY <2>1, <2>2, <2>3, <2>4
         DEF IInv, OneCarrier, ShownIsFannedOut, SendingAwaits
    <2>8. UnreadIsAccountedFor'
      <3>1. ASSUME NEW u \in Users PROVE Countable(u) \subseteq Countable(u)'
        BY <2>1, <2>2, <2>3 DEF Countable, Stored
      <3> QED
        BY <2>1, <3>1, StillAccountedFor DEF TypeOK, Rows
    <2> QED
      BY <2>4, <2>5, <2>6, <2>7, <2>8 DEF IInv
  <1> QED
    BY <1>1, <1>2

(* Joining and hiding change a row, and leave its counter or start it at 0.*)
LEMMA RowSteps ==
  ASSUME IInv, NEW u \in Users, AddParticipant(u) \/ Hide(u)
  PROVE  IInv'
  <1>1. TypeOK /\ row \in [Users -> Rows]
    BY DEF IInv, TypeOK
  <1>2. PICK w \in Rows : row' = [row EXCEPT ![u] = w] /\ w.unread <= row[u].unread
    <2>1. CASE Hide(u)
      <3> DEFINE w == [row[u] EXCEPT !.hidden = TRUE]
      <3>a. row[u] \in Rows
        BY <1>1
      <3>1. w \in Rows /\ w.unread <= row[u].unread
        <4>1. row[u].unread \in Nat
          BY <3>a DEF Rows
        <4>2. w \in Rows /\ w.unread = row[u].unread
          BY <3>a, HiddenRow
        <4> QED
          BY <4>1, <4>2
      <3> QED
        BY <2>1, <3>1 DEF Hide
    <2>2. CASE AddParticipant(u) /\ row[u].state = "absent"
      <3>1. FreshRow \in Rows /\ FreshRow.unread <= row[u].unread
        BY <1>1, ConstantsAssumption DEF FreshRow, Rows
      <3>2. row' = [row EXCEPT ![u] = FreshRow]
        BY <1>1, <2>2 DEF AddParticipant
      <3> QED
        BY <3>1, <3>2
    <2>3. CASE AddParticipant(u) /\ row[u].state # "absent"
      <3> DEFINE w == [row[u] EXCEPT !.state = "active"]
      <3>1. w \in Rows /\ w.unread <= row[u].unread
        BY <1>1 DEF Rows
      <3>2. row' = [row EXCEPT ![u] = w]
        BY <1>1, <2>3 DEF AddParticipant
      <3> QED
        BY <3>1, <3>2
    <2> QED
      BY <2>1, <2>2, <2>3
  <1>3. /\ row' \in [Users -> Rows]
        /\ \A v \in Users : row'[v].unread \in Nat
                          /\ row'[v].unread <= row[v].unread
    BY <1>1, <1>2 DEF Rows
  <1>4. /\ UNCHANGED <<msg, receipt, lastMessage, pushed, task, faults>>
        /\ moves' \in 0..MaxMoves
    BY <1>1, ConstantsAssumption DEF AddParticipant, Hide, TypeOK
  <1>5. TypeOK'
    BY <1>1, <1>3, <1>4 DEF TypeOK
  <1>6. \A r \in Requests : TaskOK(r)'
    BY <1>4 DEF IInv, TaskOK, Idle, At, FannedOut, Stored
  <1>7. OneCarrier' /\ ShownIsFannedOut'
    BY <1>4 DEF IInv, OneCarrier, ShownIsFannedOut, FannedOut, Stored
  <1>8. UnreadIsAccountedFor'
    <2>1. \A v \in Users : Countable(v) \subseteq Countable(v)'
      BY <1>4 DEF Countable, Stored
    <2> QED
      BY <1>3, <2>1, StillAccountedFor
  <1> QED
    BY <1>5, <1>6, <1>7, <1>8 DEF IInv

(* Crash preserves the inductive invariant. *)
LEMMA CrashStep ==
  ASSUME IInv, Crash
  PROVE  IInv'
  <1>1. /\ NoTask \in Tasks /\ NoTask.pc = "idle"
        /\ "idle" \notin SendingAwaits \cup ReadingAwaits
    BY ConstantsAssumption DEF NoTask, Tasks, Awaits, SendingAwaits, ReadingAwaits
  <1>2. /\ \A r \in Requests : task'[r] = NoTask
        /\ UNCHANGED <<msg, receipt, lastMessage, row, pushed, moves>>
        /\ task' \in [Requests -> Tasks]
    BY <1>1 DEF Crash
  <1>3. TypeOK'
    BY <1>2, ConstantsAssumption DEF IInv, TypeOK, Crash
  <1>4. \A r \in Requests : TaskOK(r)'
    BY <1>1, <1>2 DEF TaskOK, Idle, SendingAwaits
  <1>5. OneCarrier' /\ ShownIsFannedOut'
    BY <1>1, <1>2 DEF IInv, OneCarrier, ShownIsFannedOut, FannedOut, Stored
  <1>6. UnreadIsAccountedFor'
    <2>1. \A u \in Users : Countable(u) \subseteq Countable(u)'
      BY <1>1, <1>2 DEF Countable, Stored
    <2> QED
      BY <1>2, <2>1, StillAccountedFor DEF IInv, TypeOK, Rows
  <1> QED
    BY <1>3, <1>4, <1>5, <1>6 DEF IInv

(* Every step preserves the inductive invariant. *)
LEMMA NextIInv == IInv /\ [Next]_vars => IInv'
  <1> SUFFICES ASSUME IInv, [Next]_vars PROVE IInv'
    OBVIOUS
  <1>1. ASSUME NEW r \in Requests, Step(r) \/ Abort(r) PROVE IInv'
    BY <1>1, LightSteps, RecipientSteps, InsertMessageStep, InsertReceiptsStep,
       TouchStep, IncrementStep, ReceiptSteps DEF Step
  <1>2. CASE UNCHANGED vars
    BY <1>2, StatusSteps DEF vars, IInv, TypeOK
  <1> QED
    BY <1>1, <1>2, LightSteps, ReceiptSteps, RowSteps, CrashStep DEF Next

(* IInv holds in every reachable state. *)
THEOREM Invariance == Spec => []IInv
  BY InitIInv, NextIInv, PTL DEF Spec

------------------------------------------------------------------------------
(* The properties.                                                         *)

(* The documents keep their shapes. *)
THEOREM TypeCorrect == Spec => []TypeOK
  <1>1. IInv => TypeOK
    BY DEF IInv
  <1> QED
    BY <1>1, Invariance, PTL

(* Nothing is previewed or pushed before each recipient has a receipt,     *)
(* wherever a crash or a failure cuts the chain of writes of               *)
(* MessagesService.create.                                                 *)
THEOREM ShownAfterFanOut == Spec => []ShownIsFannedOut
  <1>1. IInv => ShownIsFannedOut
    BY DEF IInv
  <1> QED
    BY <1>1, Invariance, PTL

(* No unread counter exceeds the messages of others, over concurrent sends,*)
(* resets, leaves and returns.                                             *)
THEOREM CountersAreAccountedFor == Spec => []UnreadIsAccountedFor
  <1>1. IInv => UnreadIsAccountedFor
    BY DEF IInv
  <1> QED
    BY <1>1, Invariance, PTL

------------------------------------------------------------------------------
(* No send stops half-way.                                                 *)

(* No step takes a receipt away or changes a stored document. *)
LEMMA FanOutStays ==
  ASSUME IInv, [Next]_vars
  PROVE  \A m \in Msgs : FannedOut(m) => FannedOut(m)'
  <1>0. ASSUME \A m \in Msgs : msg[m].state = "stored" => msg'[m] = msg[m],
               \A m \in Msgs, u \in Users :
                 receipt[m][u] # "none" => receipt'[m][u] # "none"
        PROVE  \A m \in Msgs : FannedOut(m) => FannedOut(m)'
    BY <1>0 DEF IInv, TypeOK, MsgDocs, FannedOut, Stored
  <1>1. ASSUME UNCHANGED <<msg, receipt>>
        PROVE  \A m \in Msgs : FannedOut(m) => FannedOut(m)'
    BY <1>0, <1>1
  <1>2. ASSUME NEW r \in Requests, NEW to, Stamp(r, to), UNCHANGED receipt
        PROVE  \A m \in Msgs : FannedOut(m) => FannedOut(m)'
    <2>1. \A m \in Msgs : msg[m].state = "stored" => msg'[m] = msg[m]
      BY <1>2 DEF Stamp, NextNumber, IInv, TypeOK
    <2> QED
      BY <1>0, <1>2, <2>1
  <1>3. ASSUME NEW r \in Requests, InsertMessage(r)
        PROVE  \A m \in Msgs : FannedOut(m) => FannedOut(m)'
    <2>1. /\ task[r].msg \in Msgs /\ msg[task[r].msg].state = "stamped"
          /\ msg \in [Msgs -> MsgDocs]
          /\ msg' = [msg EXCEPT ![task[r].msg].state = "stored"]
          /\ UNCHANGED receipt
      BY <1>3 DEF IInv, TaskOK, InsertMessage, At, SendingAwaits, TypeOK
    <2>2. \A m \in Msgs : msg[m].state = "stored" => msg'[m] = msg[m]
      BY <2>1
    <2> QED
      BY <1>0, <2>1, <2>2
  <1>4. ASSUME NEW m \in Msgs, NEW v \in Users, NEW x \in ReceiptStatus \ {"none"},
               receipt' = [receipt EXCEPT ![m][v] = x], UNCHANGED msg
        PROVE  \A k \in Msgs : FannedOut(k) => FannedOut(k)'
    <2>1. \A k \in Msgs, u \in Users :
            receipt[k][u] # "none" => receipt'[k][u] # "none"
      BY <1>4 DEF IInv, TypeOK
    <2> QED
      BY <1>0, <1>4, <2>1
  <1>5. ASSUME NEW r \in Requests, InsertReceipts(r)
        PROVE  \A m \in Msgs : FannedOut(m) => FannedOut(m)'
    <2>1. /\ task[r].msg \in Msgs /\ task[r].to \subseteq Users
          /\ "sent" \in ReceiptStatus \ {"none"}
      BY <1>5 DEF IInv, TypeOK, Tasks, TaskOK, InsertReceipts, At,
                  SendingAwaits, ReceiptStatus
    <2>2. PICK v \in task[r].to :
            receipt' = [receipt EXCEPT ![task[r].msg][v] = "sent"]
      BY <1>5 DEF InsertReceipts
    <2> QED
      BY <1>4, <1>5, <2>1, <2>2 DEF InsertReceipts
  <1>6. ASSUME NEW m \in Msgs, NEW u \in Users, MarkDelivered(m, u)
        PROVE  \A k \in Msgs : FannedOut(k) => FannedOut(k)'
    BY <1>4, <1>6 DEF MarkDelivered, ReceiptStatus
  <1>7. ASSUME NEW r \in Requests, MarkReceipts(r)
        PROVE  \A m \in Msgs : FannedOut(m) => FannedOut(m)'
    BY <1>0, <1>7, MarkReceiptsEffect DEF MarkReceipts
  <1>8. ASSUME NEW r \in Requests, Step(r) \/ Abort(r)
        PROVE  \A m \in Msgs : FannedOut(m) => FannedOut(m)'
    BY <1>1, <1>2, <1>3, <1>5, <1>7, <1>8
       DEF Step, Abort, AssertSender, ListRecipients, IsBlocked,
           TouchLastMessage, IncrementUnread, FindSender, AssertReader,
           ResetUnread, Leave
  <1>9. ASSUME NEW r \in Requests, NEW u \in Users, Event(r, u)
        PROVE  \A m \in Msgs : FannedOut(m) => FannedOut(m)'
    BY <1>1, <1>9 DEF Event, Send, AssertLeaver, MarkRead
  <1>10. CASE Crash \/ UNCHANGED vars
               \/ \E u \in Users : AddParticipant(u) \/ Hide(u)
    BY <1>1, <1>10 DEF Crash, vars, AddParticipant, Hide
  <1> QED
    BY <1>6, <1>8, <1>9, <1>10 DEF Next

(* What a step may do to the messages the handlers in R carry. *)
LEMMA StillNotLost ==
  ASSUME IInv, NothingLost, [Next]_vars,
         NEW R \in SUBSET Requests,
         \A s \in Requests \ R : task'[s] = task[s],
         pushed \subseteq pushed',
         lastMessage # 0 => lastMessage' # 0,
         \A r \in R : task'[r].pc \in {"increment", "findSender"}
                        => lastMessage' # 0,
         faults' = 0 =>
           /\ faults = 0
           /\ \A m \in Stored' \ Stored : \E r \in R : Carries(r, m)'
           /\ \A r \in R : \A m \in Stored :
                Carries(r, m) => Carries(r, m)' \/ Whole(m)'
  PROVE  NothingLost'
  <1>1. \A r \in Requests :
          task'[r].pc \in {"increment", "findSender"} => lastMessage' # 0
    BY DEF NothingLost
  <1>2. ASSUME faults' = 0, NEW m \in Stored'
        PROVE  Whole(m)' \/ \E r \in Requests : Carries(r, m)'
    <2>1. CASE m \notin Stored
      BY <1>2, <2>1
    <2>2. CASE m \in Stored /\ Whole(m)
      <3>1. m \in Msgs
        BY <2>2 DEF Stored
      <3> QED
        BY <2>2, <3>1, FanOutStays DEF Whole
    <2>3. ASSUME m \in Stored, NEW r \in Requests, Carries(r, m)
          PROVE  Whole(m)' \/ Carries(r, m)'
      BY <1>2, <2>3 DEF Carries
    <2> QED
      BY <1>2, <2>1, <2>2, <2>3 DEF NothingLost
  <1> QED
    BY <1>1, <1>2 DEF NothingLost

(* Steps of handlers that carry no stored message, before or after. *)
LEMMA LightStepsLoseNothing ==
  ASSUME IInv, NothingLost, [Next]_vars, NEW r \in Requests,
         task'[r].pc \notin {"increment", "findSender"},
         task[r].pc \notin {"insertReceipts", "touch", "increment", "findSender"},
         \A s \in Requests : s # r => task'[s] = task[s],
         Stored' = Stored,
         UNCHANGED <<lastMessage, pushed, faults>>
  PROVE  NothingLost'
  <1>1. \A m \in Stored : ~Carries(r, m)
    BY DEF Carries
  <1> QED
    BY <1>1, StillNotLost, {r} \in SUBSET Requests

(* A step of message:send before the receipts are there. *)
LEMMA SendingLosesNothing ==
  ASSUME IInv, NothingLost, [Next]_vars, NEW r \in Requests,
         InsertMessage(r) \/ InsertReceipts(r) \/ TouchLastMessage(r)
  PROVE  NothingLost'
  <1> DEFINE m == task[r].msg
  <1>1. /\ TypeOK /\ TaskOK(r) /\ task[r].pc \in SendingAwaits
        /\ m \in Msgs /\ m # 0
    BY DEF IInv, TaskOK, InsertMessage, InsertReceipts, TouchLastMessage, At,
           SendingAwaits, Msgs
  <1>2. PICK pc \in {"insertReceipts", "touch", "increment"} :
          /\ task' = [task EXCEPT ![r].pc = pc]
          /\ pc = "increment" => lastMessage' = m
    BY DEF InsertMessage, InsertReceipts, TouchLastMessage, GoTo
  <1>3. /\ task'[r].pc = pc /\ task'[r].msg = m
        /\ \A s \in Requests \ {r} : task'[s] = task[s]
    BY <1>1, <1>2, NextAwait DEF SendingAwaits
  <1>4. \A k \in Stored' \ Stored : k = m
    BY <1>1 DEF InsertMessage, InsertReceipts, TouchLastMessage, Stored, TypeOK
  <1>5. \A k \in Msgs : Carries(r, k)' <=> k = m
    BY <1>2, <1>3 DEF Carries
  <1>6. /\ UNCHANGED <<pushed, faults>>
        /\ lastMessage' = lastMessage \/ lastMessage' = m
    BY DEF InsertMessage, InsertReceipts, TouchLastMessage
  <1>7. \A k \in Stored : Carries(r, k) => k = m
    BY DEF Carries
  <1>8. Stored' \subseteq Msgs /\ Stored \subseteq Msgs
    BY DEF Stored
  <1>9. /\ \A k \in Stored' \ Stored : Carries(r, k)'
        /\ \A k \in Stored : Carries(r, k) => Carries(r, k)'
    BY <1>4, <1>5, <1>7, <1>8
  <1>10. /\ lastMessage # 0 => lastMessage' # 0
         /\ task'[r].pc \in {"increment", "findSender"} => lastMessage' # 0
    BY <1>1, <1>2, <1>3, <1>6
  <1>11. {r} \in SUBSET Requests
    OBVIOUS
  <1> QED
    BY <1>3, <1>6, <1>9, <1>10, <1>11, StillNotLost

(* The last segments of message:send push the message. *)
LEMMA PushingLosesNothing ==
  ASSUME IInv, NothingLost, [Next]_vars, NEW r \in Requests,
         IncrementUnread(r) \/ FindSender(r)
  PROVE  NothingLost'
  <1>0. PICK m \in Msgs : m = task[r].msg
    BY DEF IInv, TaskOK, IncrementUnread, FindSender, At, SendingAwaits
  <1>1. /\ TypeOK /\ TaskOK(r) /\ task[r].pc \in SendingAwaits
        /\ FannedOut(m) /\ lastMessage # 0
    BY <1>0 DEF IInv, TaskOK, IncrementUnread, FindSender, At, SendingAwaits,
                NothingLost
  <1>2. UNCHANGED <<msg, receipt, lastMessage, faults>> /\ Stored' = Stored
    BY DEF IncrementUnread, FindSender, Stored
  <1>3. FannedOut(m)'
    BY <1>1, FanOutStays
  <1>4. \A k \in Stored : Carries(r, k) => k = m
    BY <1>0 DEF Carries
  <1>5. CASE Finish(r) /\ pushed' = pushed \cup {m}
    <2>1. /\ Whole(m)'
          /\ \A s \in Requests \ {r} : task'[s] = task[s]
      BY <1>1, <1>2, <1>3, <1>5 DEF Whole, Finish, TypeOK
    <2> QED
      BY <1>1, <1>2, <1>4, <1>5, <2>1, StillNotLost, {r} \in SUBSET Requests
  <1>6. CASE GoTo(r, "findSender") /\ UNCHANGED pushed
    <2>1. /\ task'[r].pc = "findSender" /\ task'[r].msg = m
          /\ \A s \in Requests \ {r} : task'[s] = task[s]
      BY <1>0, <1>1, <1>6, NextAwait DEF GoTo, SendingAwaits
    <2>2. Carries(r, m)'
      BY <2>1 DEF Carries
    <2> QED
      BY <1>1, <1>2, <1>4, <1>6, <2>1, <2>2, StillNotLost,
         {r} \in SUBSET Requests
  <1> QED
    BY <1>0, <1>5, <1>6 DEF IncrementUnread, FindSender

(* Every step preserves NothingLost. *)
LEMMA NextLosesNothing ==
  ASSUME IInv, NothingLost, [Next]_vars
  PROVE  NothingLost'
  <1>0. NoTask.pc = "idle" /\ TypeOK
    BY DEF NoTask, IInv
  <1>1. ASSUME NEW r \in Requests, NEW u \in Users, Event(r, u)
        PROVE  NothingLost'
    <2>1. /\ task[r].pc = "idle"
          /\ UNCHANGED <<msg, lastMessage, pushed, faults>>
      BY <1>1 DEF Event, Send, AssertLeaver, MarkRead, Idle
    <2>2. /\ task'[r].pc \in {"assertSender", "assertReader", "leave"}
          /\ \A s \in Requests : s # r => task'[s] = task[s]
      <3>1. ASSUME Send(r, u)
            PROVE  /\ task'[r].pc = "assertSender"
                   /\ \A s \in Requests : s # r => task'[s] = task[s]
        BY <1>0, <3>1 DEF Send, NoTask, TypeOK
      <3>2. ASSUME AssertLeaver(r, u)
            PROVE  /\ task'[r].pc = "leave"
                   /\ \A s \in Requests : s # r => task'[s] = task[s]
        BY <1>0, <3>2 DEF AssertLeaver, NoTask, TypeOK
      <3>3. ASSUME NEW x \in Msgs, MarkRead(r, u, x)
            PROVE  /\ task'[r].pc = "assertReader"
                   /\ \A s \in Requests : s # r => task'[s] = task[s]
        BY <1>0, <3>3 DEF MarkRead, TypeOK
      <3> QED
        BY <1>1, <3>1, <3>2, <3>3 DEF Event
    <2>3. Stored' = Stored
      BY <2>1 DEF Stored
    <2> QED
      BY <2>1, <2>2, <2>3, LightStepsLoseNothing
  <1>2. ASSUME NEW r \in Requests,
               \/ AssertSender(r) \/ AssertReader(r) \/ MarkReceipts(r)
               \/ ResetUnread(r) \/ Leave(r)
        PROVE  NothingLost'
    <2>1. /\ task[r].pc \in {"assertSender", "assertReader", "markReceipts",
                             "resetUnread", "leave"}
          /\ Stored' = Stored /\ UNCHANGED <<lastMessage, pushed, faults>>
      BY <1>2 DEF AssertSender, AssertReader, MarkReceipts, ResetUnread,
                  Leave, At, Stored
    <2>2. /\ task'[r].pc \in {"idle", "listRecipients", "markReceipts",
                              "resetUnread"}
          /\ \A s \in Requests : s # r => task'[s] = task[s]
      BY <1>0, <1>2 DEF AssertSender, AssertReader, MarkReceipts, ResetUnread,
                        Leave, GoTo, Finish, TypeOK, Tasks
    <2> QED
      BY <2>1, <2>2, LightStepsLoseNothing
  <1>3. ASSUME NEW r \in Requests, ListRecipients(r) \/ IsBlocked(r)
        PROVE  NothingLost'
    <2>1. /\ task[r].pc \in {"listRecipients", "isBlocked"}
          /\ UNCHANGED <<lastMessage, pushed, faults>>
      BY <1>3 DEF ListRecipients, IsBlocked, At
    <2>2. /\ task'[r].pc \in {"idle", "isBlocked", "insertMessage"}
          /\ \A s \in Requests : s # r => task'[s] = task[s]
      <3>1. ASSUME NEW to, Stamp(r, to)
            PROVE  /\ task'[r].pc = "insertMessage"
                   /\ \A s \in Requests : s # r => task'[s] = task[s]
        BY <1>0, <3>1 DEF Stamp, TypeOK, Tasks
      <3>2. CASE ListRecipients(r)
        BY <1>0, <3>1, <3>2 DEF ListRecipients, TypeOK, Tasks
      <3>3. CASE IsBlocked(r)
        BY <1>0, <3>1, <3>3 DEF IsBlocked, Finish, TypeOK
      <3> QED
        BY <1>3, <3>2, <3>3
    <2>3. Stored' = Stored
      <3>1. ASSUME NEW to, Stamp(r, to) PROVE Stored' = Stored
        BY <1>0, <3>1 DEF Stamp, NextNumber, Stored, TypeOK
      <3>2. ASSUME UNCHANGED msg PROVE Stored' = Stored
        BY <3>2 DEF Stored
      <3> QED
        BY <1>3, <3>1, <3>2 DEF ListRecipients, IsBlocked
    <2> QED
      BY <2>1, <2>2, <2>3, LightStepsLoseNothing
  <1>4. ASSUME NEW r \in Requests, Step(r) PROVE NothingLost'
    BY <1>2, <1>3, <1>4, SendingLosesNothing, PushingLosesNothing DEF Step
  <1>5. CASE Crash \/ \E r \in Requests : Abort(r)
    <2>1. /\ faults' # 0 /\ UNCHANGED <<lastMessage, pushed>>
          /\ \A r \in Requests : task'[r] = task[r] \/ task'[r] = NoTask
      BY <1>0, <1>5 DEF Crash, Abort, Finish, TypeOK
    <2> QED
      BY <1>0, <2>1 DEF NothingLost
  <1>6. CASE \/ \E m \in Msgs, u \in Users : MarkDelivered(m, u)
             \/ \E u \in Users : AddParticipant(u) \/ Hide(u)
             \/ UNCHANGED vars
    <2>1. UNCHANGED <<msg, lastMessage, pushed, task, faults>>
      BY <1>6 DEF MarkDelivered, AddParticipant, Hide, vars
    <2>2. Stored' = Stored
      BY <2>1 DEF Stored
    <2> QED
      BY <2>1, <2>2, StillNotLost, {} \in SUBSET Requests
  <1> QED
    BY <1>1, <1>4, <1>5, <1>6 DEF Next

(* Where nothing failed and nothing is in flight, no message was left      *)
(* half-way through MessagesService.create: each has its receipts, was     *)
(* pushed, and the conversation has a preview.                             *)
THEOREM NothingIsStuck == Spec => []NothingStuck
  <1>1. Init => NothingLost
    BY DEF Init, NothingLost, NoTask, NoMsg, Stored
  <1>2. IInv /\ NothingLost /\ [Next]_vars => NothingLost'
    BY NextLosesNothing
  <1>3. NothingLost => NothingStuck
    BY DEF NothingLost, NothingStuck, Quiet, Idle, Carries, Whole
  <1> QED
    BY <1>1, <1>2, <1>3, Invariance, PTL DEF Spec

------------------------------------------------------------------------------
(* Refinement.                                                             *)

(* Initial states are initial states of MessageDelivery. *)
LEMMA InitRefines == Init => Delivery!DeliveryInit
  BY DEF Init, Delivery!DeliveryInit, NoMsg, Stored

(* The mapped variables of a step that stores nothing. *)
LEMMA SameStored ==
  ASSUME \A m \in Msgs : /\ msg'[m].state = "stored" <=> msg[m].state = "stored"
                         /\ msg[m].state = "stored" => msg'[m].to = msg[m].to
  PROVE  /\ Stored' = Stored
         /\ [m \in Msgs |-> IF m \in Stored THEN msg[m].to ELSE {}]'
              = [m \in Msgs |-> IF m \in Stored THEN msg[m].to ELSE {}]
  <1>1. Stored' = Stored
    BY DEF Stored
  <1> QED
    BY <1>1 DEF Stored

(* A stamped message is not stored yet: nothing changes for MessageDelivery. *)
LEMMA StampRefines ==
  ASSUME IInv, NEW r \in Requests, NEW to, Stamp(r, to),
         UNCHANGED <<receipt, lastMessage, pushed>>
  PROVE  UNCHANGED Delivery!dvars
  <1>1. PICK m \in Msgs :
          /\ NextNumber(m)
          /\ msg' = [msg EXCEPT ![m] = [state |-> "stamped", to |-> to,
                                        sender |-> task[r].user]]
    BY DEF Stamp
  <1>2. /\ msg[m].state = "none" /\ msg'[m].state = "stamped"
        /\ \A k \in Msgs : k # m => msg'[k] = msg[k]
    BY <1>1 DEF NextNumber, IInv, TypeOK
  <1> QED
    BY <1>2, SameStored DEF Delivery!dvars

(* The insert is MessageDelivery's StoreMessage. *)
LEMMA InsertMessageRefines ==
  ASSUME IInv, NEW r \in Requests, InsertMessage(r)
  PROVE  Delivery!DeliveryNext
  <1> DEFINE m == task[r].msg
             aud == [k \in Msgs |-> IF k \in Stored THEN msg[k].to ELSE {}]
             aud2 == [k \in Msgs |-> IF k \in Stored' THEN msg'[k].to ELSE {}]
  <1>1. /\ m \in Msgs /\ msg[m].state = "stamped"
        /\ msg \in [Msgs -> MsgDocs]
        /\ msg' = [msg EXCEPT ![m].state = "stored"]
        /\ UNCHANGED <<receipt, lastMessage, pushed>>
    BY DEF IInv, TaskOK, InsertMessage, At, SendingAwaits, TypeOK
  <1>2. /\ msg[m].to \in SUBSET Users
        /\ msg'[m].state = "stored" /\ msg'[m].to = msg[m].to
        /\ \A k \in Msgs : k # m => msg'[k] = msg[k]
    BY <1>1 DEF MsgDocs
  <1>3. m \notin Stored /\ Stored' = Stored \cup {m}
    BY <1>1, <1>2 DEF Stored
  <1>4. aud2 = [aud EXCEPT ![m] = msg[m].to]
    BY <1>1, <1>2, <1>3
  <1>5. PICK k \in Msgs, A \in SUBSET Users : k = m /\ A = msg[m].to
    BY <1>1, <1>2
  <1>6. Delivery!StoreMessage(k, A)
    BY <1>1, <1>3, <1>4, <1>5 DEF Delivery!StoreMessage
  <1> QED
    BY <1>6 DEF Delivery!DeliveryNext

(* A message that is fanned out may be shown. *)
LEMMA FannedOutIsFanned ==
  ASSUME NEW m \in Msgs, FannedOut(m)
  PROVE  Delivery!Fanned(m)
  BY DEF FannedOut, Delivery!Fanned

(* Every step is a step of MessageDelivery or leaves its state alone. *)
LEMMA StepRefines ==
  ASSUME IInv, [Next]_vars
  PROVE  [Delivery!DeliveryNext]_(Delivery!dvars)
  <1>1. ASSUME UNCHANGED <<msg, receipt, lastMessage, pushed>>
        PROVE  UNCHANGED Delivery!dvars
    BY <1>1, SameStored DEF Delivery!dvars
  <1>2. ASSUME NEW r \in Requests, NEW u \in Users, Event(r, u)
        PROVE  UNCHANGED Delivery!dvars
    BY <1>1, <1>2 DEF Event, Send, AssertLeaver, MarkRead
  <1>3. ASSUME NEW r \in Requests,
               \/ AssertSender(r) \/ AssertReader(r) \/ ResetUnread(r)
               \/ Leave(r) \/ Abort(r)
        PROVE  UNCHANGED Delivery!dvars
    BY <1>1, <1>3 DEF AssertSender, AssertReader, ResetUnread, Leave, Abort
  <1>4. ASSUME NEW r \in Requests, ListRecipients(r) \/ IsBlocked(r)
        PROVE  UNCHANGED Delivery!dvars
    BY <1>1, <1>4, StampRefines DEF ListRecipients, IsBlocked
  <1>5. ASSUME NEW r \in Requests, InsertReceipts(r)
        PROVE  Delivery!DeliveryNext
    <2> DEFINE m == task[r].msg
    <2>1. /\ m \in Msgs /\ m \in Stored /\ msg[m].to = task[r].to
          /\ msg \in [Msgs -> MsgDocs]
      BY <1>5 DEF IInv, TaskOK, InsertReceipts, At, SendingAwaits, Stored, TypeOK
    <2>2. PICK v \in task[r].to : /\ receipt[m][v] = "none"
                                  /\ receipt' = [receipt EXCEPT ![m][v] = "sent"]
      BY <1>5 DEF InsertReceipts
    <2>3. v \in Users
      BY <2>1, <2>2 DEF MsgDocs
    <2>4. /\ UNCHANGED <<msg, lastMessage, pushed>>
      BY <1>5 DEF InsertReceipts
    <2>5. Delivery!HandOut(m, v)
      BY <2>1, <2>2, <2>4, SameStored DEF Delivery!HandOut
    <2> QED
      BY <2>1, <2>3, <2>5 DEF Delivery!DeliveryNext
  <1>6. ASSUME NEW r \in Requests, TouchLastMessage(r)
        PROVE  Delivery!DeliveryNext
    <2>1. task[r].msg \in Msgs /\ FannedOut(task[r].msg)
      BY <1>6 DEF IInv, TaskOK, TouchLastMessage, At, SendingAwaits
    <2>2. UNCHANGED <<msg, receipt, pushed>> /\ lastMessage' = task[r].msg
      BY <1>6 DEF TouchLastMessage
    <2>3. Delivery!Preview(task[r].msg)
      BY <2>1, <2>2, FannedOutIsFanned, SameStored DEF Delivery!Preview
    <2> QED
      BY <2>1, <2>3 DEF Delivery!DeliveryNext
  <1>7. ASSUME NEW r \in Requests, IncrementUnread(r) \/ FindSender(r)
        PROVE  [Delivery!DeliveryNext]_(Delivery!dvars)
    <2>1. task[r].msg \in Msgs /\ FannedOut(task[r].msg)
      BY <1>7 DEF IInv, TaskOK, IncrementUnread, FindSender, At, SendingAwaits
    <2>2. UNCHANGED <<msg, receipt, lastMessage>>
      BY <1>7 DEF IncrementUnread, FindSender
    <2>3. CASE UNCHANGED pushed
      BY <1>1, <2>2, <2>3
    <2>4. CASE pushed' = pushed \cup {task[r].msg}
      <3>1. Delivery!Push(task[r].msg)
        BY <2>1, <2>2, <2>4, FannedOutIsFanned, SameStored DEF Delivery!Push
      <3> QED
        BY <2>1, <3>1 DEF Delivery!DeliveryNext
    <2> QED
      BY <1>7, <2>3, <2>4 DEF IncrementUnread, FindSender
  <1>8. ASSUME NEW m \in Msgs, NEW u \in Users, MarkDelivered(m, u)
        PROVE  Delivery!DeliveryNext
    <2>1. Delivery!Acknowledge(m, u)
      BY <1>8, SameStored DEF MarkDelivered, Delivery!Acknowledge
    <2> QED
      BY <2>1 DEF Delivery!DeliveryNext
  <1>9. ASSUME NEW r \in Requests, MarkReceipts(r)
        PROVE  Delivery!DeliveryNext
    <2>1. task[r].user \in Users /\ task[r].msg \in Stored /\ task[r].msg \in Msgs
      BY <1>9, MarkReceiptsEffect DEF Stored
    <2>2. UNCHANGED <<msg, lastMessage, pushed>>
      BY <1>9 DEF MarkReceipts
    <2>3. Delivery!ReadUpTo(task[r].msg, task[r].user)
      BY <1>9, <2>1, <2>2, SameStored DEF MarkReceipts, Delivery!ReadUpTo
    <2> QED
      BY <2>1, <2>3 DEF Delivery!DeliveryNext
  <1>10. ASSUME NEW u \in Users, AddParticipant(u) \/ Hide(u)
         PROVE  UNCHANGED Delivery!dvars
    BY <1>1, <1>10 DEF AddParticipant, Hide
  <1>11. CASE Crash
    BY <1>1, <1>11 DEF Crash
  <1>12. CASE UNCHANGED vars
    BY <1>1, <1>12 DEF vars
  <1>13. ASSUME NEW r \in Requests, Step(r) \/ Abort(r)
         PROVE  [Delivery!DeliveryNext]_(Delivery!dvars)
    BY <1>3, <1>4, <1>5, <1>6, <1>7, <1>9, <1>13, InsertMessageRefines DEF Step
  <1> QED
    BY <1>2, <1>8, <1>10, <1>11, <1>12, <1>13 DEF Next

(* Receipts, previews and pushes follow MessageDelivery: no receipt goes   *)
(* back however message:delivered and message:read race, and a message is  *)
(* shown only when its fan-out is complete.                                *)
THEOREM ImplementsDelivery == Spec => DeliverySpec
  BY InitRefines, StepRefines, Invariance, PTL
     DEF Spec, DeliverySpec, Delivery!DeliverySpec
==============================================================================
