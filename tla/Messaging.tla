------------------------------ MODULE Messaging ------------------------------
(***************************************************************************)
(* Messages, receipts and unread counters of one conversation:             *)
(* MessagesService.create, markDelivered and markRead with the             *)
(* ConversationsService operations they call, and the membership changes   *)
(* that run beside them.                                                   *)
(*                                                                         *)
(* All state is in MongoDB.  Sending a message is a chain of round trips   *)
(* without a transaction -- membership check, recipients, block check,     *)
(* message, receipts, preview, counters, sender, push -- and any other     *)
(* handler may run between two of them.  Messages are numbered by their    *)
(* createdAt, which the process assigns before the insert: messages may    *)
(* reach the database, and be previewed and counted, in another order.     *)
(* Two messages with the same createdAt are not considered.                *)
(***************************************************************************)
EXTENDS Naturals, FiniteSets

CONSTANTS
    Users,        \* accounts
    Requests,     \* slots for socket events whose handler is in flight
    Blocked,      \* pairs <<blocker, blocked>> of users
    Muted,        \* users who may not send: members of an admins-only group
    MaxMsgs,      \* bound: messages created in the conversation
    MaxMoves,     \* bound: times anybody leaves or hides the chat
    MaxFaults,    \* bound: crashes and failed round trips
    Nil           \* "no user"

ASSUME ConstantsAssumption ==
    /\ Blocked \subseteq Users \X Users
    /\ Muted \subseteq Users
    /\ MaxMsgs \in Nat
    /\ MaxMoves \in Nat
    /\ MaxFaults \in Nat
    /\ Nil \notin Users

VARIABLES
    msg,          \* message documents, from the moment they have a createdAt
    receipt,      \* receipt[m][u]: status of u's receipt for m
    lastMessage,  \* the conversation's lastMessage snapshot, 0: null
    row,          \* row[u]: u's participant document
    pushed,       \* messages emitted as message:new
    task,         \* handlers in flight
    moves,        \* number of moves so far (for the bound only)
    faults        \* number of faults so far (for the bound only)

vars == <<msg, receipt, lastMessage, row, pushed, task, moves, faults>>

Msgs == 1..MaxMsgs

------------------------------------------------------------------------------
(* Types.                                                                  *)

(* "stamped": the document exists in the process and is being inserted.    *)
(* to: the recipients the sending handler computed; the document itself    *)
(* does not keep them.                                                     *)
MsgDocs == [state  : {"none", "stamped", "stored"},
            sender : Users \cup {Nil},
            to     : SUBSET Users]

NoMsg == [state |-> "none", sender |-> Nil, to |-> {}]

ReceiptStatus == {"none", "sent", "delivered", "read"}

Rows == [state    : {"absent", "active", "left"},   \* left: leftAt is set
         unread   : Nat,
         lastRead : 0..MaxMsgs,                      \* 0: null
         hidden   : BOOLEAN]                         \* isDeletedForUser

FreshRow == [state |-> "active", unread |-> 0, lastRead |-> 0,
             hidden |-> FALSE]

NoRow == [FreshRow EXCEPT !.state = "absent"]

(* A handler in flight: the round trip it waits for, whose event it is,    *)
(* the message it creates or reads up to, and the recipients it computed.  *)
Awaits == {"idle", "assertSender", "listRecipients", "isBlocked",
           "insertMessage", "insertReceipts", "touch", "increment",
           "findSender", "assertReader", "markReceipts", "resetUnread",
           "leave"}

Tasks == [pc  : Awaits, user : Users \cup {Nil},
          msg : 0..MaxMsgs, to : SUBSET Users]

NoTask == [pc |-> "idle", user |-> Nil, msg |-> 0, to |-> {}]

TypeOK ==
    /\ msg \in [Msgs -> MsgDocs]
    /\ receipt \in [Msgs -> [Users -> ReceiptStatus]]
    /\ lastMessage \in 0..MaxMsgs
    /\ row \in [Users -> Rows]
    /\ pushed \in SUBSET Msgs
    /\ task \in [Requests -> Tasks]
    /\ moves \in 0..MaxMoves
    /\ faults \in 0..MaxFaults

------------------------------------------------------------------------------
(* Vocabulary.                                                             *)

Active == {u \in Users : row[u].state = "active"}

Stored == {m \in Msgs : msg[m].state = "stored"}

Idle(r) == task[r].pc = "idle"

At(r, pc) == task[r].pc = pc

GoTo(r, pc) == task' = [task EXCEPT ![r].pc = pc]

Finish(r) == task' = [task EXCEPT ![r] = NoTask]

(* Messages that will be numbered: the bound leaves them a number. *)
Unnumbered == {r \in Requests :
                 task[r].pc \in {"assertSender", "listRecipients", "isBlocked"}}

(* m is the next number: createdAt follows the clock of the one process. *)
NextNumber(m) ==
    /\ msg[m].state = "none"
    /\ \A k \in Msgs : k < m => msg[k].state # "none"

------------------------------------------------------------------------------
(* The conversation exists with some of the users in it. *)
Init ==
    /\ msg         = [m \in Msgs |-> NoMsg]
    /\ receipt     = [m \in Msgs |-> [u \in Users |-> "none"]]
    /\ lastMessage = 0
    /\ row         \in [Users -> {FreshRow, NoRow}]
    /\ pushed      = {}
    /\ task        = [r \in Requests |-> NoTask]
    /\ moves       = 0
    /\ faults      = 0

------------------------------------------------------------------------------
(* message:send.                                                           *)

Send(r, u) ==
    /\ Idle(r)
    /\ Cardinality(Unnumbered)
         + Cardinality({m \in Msgs : msg[m].state # "none"}) < MaxMsgs
    /\ task' = [task EXCEPT ![r] = [NoTask EXCEPT !.pc = "assertSender",
                                                  !.user = u]]
    /\ UNCHANGED <<msg, receipt, lastMessage, row, pushed, moves, faults>>

AssertSender(r) ==
    /\ At(r, "assertSender")
    /\ IF task[r].user \in Active \ Muted THEN GoTo(r, "listRecipients")
                                          ELSE Finish(r)
    /\ UNCHANGED <<msg, receipt, lastMessage, row, pushed, moves, faults>>

(* The document gets its createdAt and goes to the database. *)
Stamp(r, to) ==
    \E m \in Msgs :
      /\ NextNumber(m)
      /\ msg' = [msg EXCEPT ![m] = [state |-> "stamped", to |-> to,
                                    sender |-> task[r].user]]
      /\ task' = [task EXCEPT ![r].pc = "insertMessage", ![r].msg = m,
                              ![r].to = to]

ListRecipients(r) ==
    /\ At(r, "listRecipients")
    /\ LET to == Active \ {task[r].user} IN
         IF Cardinality(to) = 1
         THEN /\ task' = [task EXCEPT ![r].pc = "isBlocked", ![r].to = to]
              /\ UNCHANGED msg
         ELSE Stamp(r, to)
    /\ UNCHANGED <<receipt, lastMessage, row, pushed, moves, faults>>

IsBlocked(r) ==
    /\ At(r, "isBlocked")
    /\ IF \E v \in task[r].to :
            {<<task[r].user, v>>, <<v, task[r].user>>} \cap Blocked # {}
       THEN /\ Finish(r)
            /\ UNCHANGED msg
       ELSE Stamp(r, task[r].to)
    /\ UNCHANGED <<receipt, lastMessage, row, pushed, moves, faults>>

(* Mutant: a message without recipients ends the handler. *)
InsertMessageStops(r) ==
    /\ At(r, "insertMessage")
    /\ msg' = [msg EXCEPT ![task[r].msg].state = "stored"]
    /\ IF task[r].to = {} THEN Finish(r) ELSE GoTo(r, "insertReceipts")
    /\ UNCHANGED <<receipt, lastMessage, row, pushed, moves, faults>>

(* Without recipients there are no receipts to insert. *)
InsertMessage(r) ==
    /\ At(r, "insertMessage")
    /\ msg' = [msg EXCEPT ![task[r].msg].state = "stored"]
    /\ GoTo(r, IF task[r].to = {} THEN "touch" ELSE "insertReceipts")
    /\ UNCHANGED <<receipt, lastMessage, row, pushed, moves, faults>>

(* Mutant: nobody waits for the receipts after the first. *)
InsertReceiptsUnawaited(r) ==
    /\ At(r, "insertReceipts")
    /\ \E u \in task[r].to :
         receipt' = [receipt EXCEPT ![task[r].msg][u] = "sent"]
    /\ GoTo(r, "touch")
    /\ UNCHANGED <<msg, lastMessage, row, pushed, moves, faults>>

(* insertMany writes one receipt after the other. *)
InsertReceipts(r) ==
    /\ At(r, "insertReceipts")
    /\ LET m       == task[r].msg
           Missing == {u \in task[r].to : receipt[m][u] = "none"}
       IN \E u \in Missing :
            /\ receipt' = [receipt EXCEPT ![m][u] = "sent"]
            /\ GoTo(r, IF Missing = {u} THEN "touch" ELSE "insertReceipts")
    /\ UNCHANGED <<msg, lastMessage, row, pushed, moves, faults>>

TouchLastMessage(r) ==
    /\ At(r, "touch")
    /\ lastMessage' = task[r].msg
    /\ GoTo(r, "increment")
    /\ UNCHANGED <<msg, receipt, row, pushed, moves, faults>>

(* Mutant: the sender is counted like the others. *)
IncrementUnreadForAll(r) ==
    /\ At(r, "increment")
    /\ row' = [u \in Users |->
                 IF u \in Active
                 THEN [row[u] EXCEPT !.unread = @ + 1, !.hidden = FALSE]
                 ELSE row[u]]
    /\ IF task[r].to = {}
       THEN Finish(r) /\ pushed' = pushed \cup {task[r].msg}
       ELSE GoTo(r, "findSender") /\ UNCHANGED pushed
    /\ UNCHANGED <<msg, receipt, lastMessage, moves, faults>>

(* Mutant: the flag of a hidden chat is not cleared. *)
IncrementUnreadOnly(r) ==
    /\ At(r, "increment")
    /\ row' = [u \in Users |->
                 IF u \in Active \ {task[r].user}
                 THEN [row[u] EXCEPT !.unread = @ + 1] ELSE row[u]]
    /\ IF task[r].to = {}
       THEN Finish(r) /\ pushed' = pushed \cup {task[r].msg}
       ELSE GoTo(r, "findSender") /\ UNCHANGED pushed
    /\ UNCHANGED <<msg, receipt, lastMessage, moves, faults>>

(* The emit to the conversation's room ends the handler; before it, and    *)
(* only if there are recipients, the sender is looked up for the push      *)
(* notification.                                                           *)
IncrementUnread(r) ==
    /\ At(r, "increment")
    /\ row' = [u \in Users |->
                 IF u \in Active \ {task[r].user}
                 THEN [row[u] EXCEPT !.unread = @ + 1, !.hidden = FALSE]
                 ELSE row[u]]
    /\ IF task[r].to = {}
       THEN Finish(r) /\ pushed' = pushed \cup {task[r].msg}
       ELSE GoTo(r, "findSender") /\ UNCHANGED pushed
    /\ UNCHANGED <<msg, receipt, lastMessage, moves, faults>>

FindSender(r) ==
    /\ At(r, "findSender")
    /\ pushed' = pushed \cup {task[r].msg}
    /\ Finish(r)
    /\ UNCHANGED <<msg, receipt, lastMessage, row, moves, faults>>

------------------------------------------------------------------------------
(* Mutant: the update is not restricted to receipts that are 'sent'. *)
MarkDeliveredAlways(m, u) ==
    /\ receipt[m][u] # "none"
    /\ receipt' = [receipt EXCEPT ![m][u] = "delivered"]
    /\ UNCHANGED <<msg, lastMessage, row, pushed, task, moves, faults>>

(* message:delivered is a single conditional update. *)
MarkDelivered(m, u) ==
    /\ receipt[m][u] = "sent"
    /\ receipt' = [receipt EXCEPT ![m][u] = "delivered"]
    /\ UNCHANGED <<msg, lastMessage, row, pushed, task, moves, faults>>

------------------------------------------------------------------------------
(* message:read up to message x, which the reader got as message:new or    *)
(* found in the history.                                                   *)

MarkRead(r, u, x) ==
    /\ Idle(r)
    /\ x \in Stored
    /\ task' = [task EXCEPT ![r] = [pc |-> "assertReader", user |-> u,
                                    msg |-> x, to |-> {}]]
    /\ UNCHANGED <<msg, receipt, lastMessage, row, pushed, moves, faults>>

AssertReader(r) ==
    /\ At(r, "assertReader")
    /\ IF task[r].user \in Active THEN GoTo(r, "markReceipts") ELSE Finish(r)
    /\ UNCHANGED <<msg, receipt, lastMessage, row, pushed, moves, faults>>

(* One updateMany over the receipts that exist by now. *)
MarkReceipts(r) ==
    /\ At(r, "markReceipts")
    /\ receipt' =
         [m \in Msgs |->
            IF m <= task[r].msg /\ receipt[m][task[r].user] # "none"
            THEN [receipt[m] EXCEPT ![task[r].user] = "read"] ELSE receipt[m]]
    /\ GoTo(r, "resetUnread")
    /\ UNCHANGED <<msg, lastMessage, row, pushed, moves, faults>>

ResetUnread(r) ==
    /\ At(r, "resetUnread")
    /\ row' = [row EXCEPT ![task[r].user].unread = 0,
                          ![task[r].user].lastRead = task[r].msg]
    /\ Finish(r)
    /\ UNCHANGED <<msg, receipt, lastMessage, pushed, moves, faults>>

------------------------------------------------------------------------------
(* Membership and list state.                                              *)

(* leave: the controller checks the membership first; the update itself    *)
(* is unconditional.                                                       *)
AssertLeaver(r, u) ==
    /\ Idle(r)
    /\ moves < MaxMoves
    /\ moves' = moves + 1
    /\ u \in Active
    /\ task' = [task EXCEPT ![r] = [NoTask EXCEPT !.pc = "leave",
                                                  !.user = u]]
    /\ UNCHANGED <<msg, receipt, lastMessage, row, pushed, faults>>

Leave(r) ==
    /\ At(r, "leave")
    /\ row' = [row EXCEPT ![task[r].user].state = "left"]
    /\ Finish(r)
    /\ UNCHANGED <<msg, receipt, lastMessage, pushed, moves, faults>>

(* Mutant: the upsert has no $setOnInsert. *)
AddParticipantBare(u) ==
    /\ row' = [row EXCEPT ![u] = IF @.state = "absent" THEN [state |-> "active"]
                                 ELSE [@ EXCEPT !.state = "active"]]
    /\ UNCHANGED <<msg, receipt, lastMessage, pushed, task, moves, faults>>

(* A group adds u: an upsert that revives a row that was left, counters    *)
(* and flags included.                                                     *)
AddParticipant(u) ==
    /\ row' = [row EXCEPT ![u] = IF @.state = "absent" THEN FreshRow
                                 ELSE [@ EXCEPT !.state = "active"]]
    /\ UNCHANGED <<msg, receipt, lastMessage, pushed, task, moves, faults>>

(* "Delete chat for me". *)
Hide(u) ==
    /\ moves < MaxMoves
    /\ moves' = moves + 1
    /\ u \in Active
    /\ row' = [row EXCEPT ![u].hidden = TRUE]
    /\ UNCHANGED <<msg, receipt, lastMessage, pushed, task, faults>>

------------------------------------------------------------------------------
(* The environment.                                                        *)

Crash ==
    /\ faults < MaxFaults
    /\ faults' = faults + 1
    /\ task'   = [r \in Requests |-> NoTask]
    /\ UNCHANGED <<msg, receipt, lastMessage, row, pushed, moves>>

(* A round trip of handler r fails, and the handler with it. *)
Abort(r) ==
    /\ faults < MaxFaults
    /\ faults' = faults + 1
    /\ ~Idle(r)
    /\ Finish(r)
    /\ UNCHANGED <<msg, receipt, lastMessage, row, pushed, moves>>

------------------------------------------------------------------------------
(* The next round trip of handler r completes. *)
Step(r) ==
    \/ AssertSender(r) \/ ListRecipients(r) \/ IsBlocked(r)
    \/ InsertMessage(r) \/ InsertReceipts(r) \/ TouchLastMessage(r)
    \/ IncrementUnread(r) \/ FindSender(r)
    \/ AssertReader(r) \/ MarkReceipts(r) \/ ResetUnread(r)
    \/ Leave(r)

Event(r, u) ==
    \/ Send(r, u) \/ AssertLeaver(r, u)
    \/ \E x \in Msgs : MarkRead(r, u, x)

Next ==
    \/ \E r \in Requests, u \in Users : Event(r, u)
    \/ \E r \in Requests : Step(r) \/ Abort(r)
    \/ \E m \in Msgs, u \in Users : MarkDelivered(m, u)
    \/ \E u \in Users : AddParticipant(u) \/ Hide(u)
    \/ Crash

Spec == Init /\ [][Next]_vars

(* Round trips complete as long as the process lives. *)
FairSpec == Spec /\ \A r \in Requests : WF_vars(Step(r))

------------------------------------------------------------------------------
(* Properties.                                                             *)

Quiet == faults = 0 /\ \A r \in Requests : Idle(r)

(* Every recipient has a receipt for m. *)
FannedOut(m) ==
    /\ m \in Stored
    /\ \A u \in msg[m].to : receipt[m][u] # "none"

(* A message becomes the preview of the conversation, or is pushed as      *)
(* message:new, only when each of its recipients has a receipt             *)
(* (messages.service.ts:75-96): listMine finds the status of what it shows *)
(* (conversations.service.ts:131-153), and the message:delivered a client  *)
(* sends back finds a receipt to update -- also if a crash or a failed     *)
(* round trip cuts the chain of writes.                                    *)
ShownIsFannedOut ==
    \A m \in Msgs : lastMessage = m \/ m \in pushed => FannedOut(m)

(* Messages by others that have been counted, or whose handler failed.     *)
Countable(u) ==
    {m \in Stored : /\ msg[m].sender # u
                    /\ \A r \in Requests :
                         task[r].pc \in {"insertReceipts", "touch", "increment"}
                           => task[r].msg # m}

(* The unread badge never shows more than there is: a counter counts no    *)
(* message twice and none of the user's own, over concurrent sends, resets,*)
(* and a leave and a return that revives the old row                       *)
(* (conversations.service.ts:266-291, 322-349).                            *)
UnreadIsAccountedFor ==
    \A u \in Users : row[u].unread <= Cardinality(Countable(u))

(* When nothing failed and nothing is in flight, each stored message has   *)
(* reached each of its recipients and was pushed, and the conversation has *)
(* a preview (messages.service.ts:66-112, chat.gateway.ts:141-154).        *)
NothingStuck ==
    Quiet => \A m \in Stored :
               FannedOut(m) /\ m \in pushed /\ lastMessage # 0

(* conversation-participant.schema.ts:45-49: a chat a user deleted for     *)
(* himself comes back with the next message of somebody else, whatever     *)
(* comes in between, unless he leaves the conversation.                    *)
HiddenChatComesBack ==
    \A r \in Requests, u \in Users :
      /\ task[r].pc \in {"insertMessage", "insertReceipts", "touch", "increment"}
      /\ task[r].user # u
      /\ row[u].hidden
      ~> ~row[u].hidden \/ u \notin Active

------------------------------------------------------------------------------
Delivery == INSTANCE MessageDelivery WITH
              stored   <- Stored,
              audience <- [m \in Msgs |->
                             IF m \in Stored THEN msg[m].to ELSE {}],
              copy     <- receipt,
              preview  <- lastMessage

(* Receipts, previews and pushes follow MessageDelivery: no receipt ever   *)
(* goes back, however message:delivered and message:read race              *)
(* (messages.service.ts:306-342), and nobody is added to a message that is *)
(* already shown.                                                          *)
DeliverySpec == Delivery!DeliverySpec

------------------------------------------------------------------------------
(* What the API says, and what the code does not achieve.                  *)

(* conversations.controller.ts:26: conversations are "sorted by recency",  *)
(* which listMine takes from lastMessageAt.  With nothing in flight and    *)
(* nothing failed, it is the time of the newest message.                   *)
RecencyIsNewest == Quiet => \A m \in Stored : m <= lastMessage

------------------------------------------------------------------------------
(* The inductive invariant behind the safety properties (MessagingProofs). *)

SendingAwaits == {"insertMessage", "insertReceipts", "touch", "increment",
                  "findSender"}

ReadingAwaits == {"assertReader", "markReceipts", "resetUnread"}

(* A handler in flight belongs to somebody.  A sending one agrees with the *)
(* document it carries, which is in the database once it was inserted and  *)
(* fanned out once its receipts were; a reading one names a stored message.*)
TaskOK(r) ==
    /\ ~Idle(r) => task[r].user \in Users
    /\ task[r].pc \in SendingAwaits =>
         /\ task[r].msg \in Msgs
         /\ msg[task[r].msg].to = task[r].to
         /\ msg[task[r].msg].sender = task[r].user
         /\ msg[task[r].msg].state =
              IF At(r, "insertMessage") THEN "stamped" ELSE "stored"
    /\ task[r].pc \in {"touch", "increment", "findSender"}
         => FannedOut(task[r].msg)
    /\ task[r].pc \in ReadingAwaits => task[r].msg \in Stored

(* No two handlers carry the same message. *)
OneCarrier ==
    \A r, s \in Requests :
      /\ task[r].pc \in SendingAwaits
      /\ task[s].pc \in SendingAwaits
      /\ task[r].msg = task[s].msg
      => r = s

IInv ==
    /\ TypeOK
    /\ \A r \in Requests : TaskOK(r)
    /\ OneCarrier
    /\ ShownIsFannedOut
    /\ UnreadIsAccountedFor

(* A second inductive invariant, for NothingStuck: a stored message that   *)
(* is not whole yet is in the hands of a handler, unless a fault struck,   *)
(* and nobody counts or pushes a message before there is a preview.        *)
Whole(m) == FannedOut(m) /\ m \in pushed /\ lastMessage # 0

Carries(r, m) ==
    /\ task[r].pc \in {"insertReceipts", "touch", "increment", "findSender"}
    /\ task[r].msg = m

NothingLost ==
    /\ \A r \in Requests :
         task[r].pc \in {"increment", "findSender"} => lastMessage # 0
    /\ faults = 0 => \A m \in Stored :
                       Whole(m) \/ \E r \in Requests : Carries(r, m)
==============================================================================
