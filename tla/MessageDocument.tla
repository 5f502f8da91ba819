--------------------------- MODULE MessageDocument ---------------------------
(***************************************************************************)
(* One message after it was sent: the requests that edit it, delete it,    *)
(* react to it and forward it (MessagesService, handlers of ChatGateway).  *)
(*                                                                         *)
(* Each of them reads the document, changes its own copy, and saves it a   *)
(* round trip later.  Mongoose saves the paths that changed, not the       *)
(* document; only when an array is replaced as a whole does it ask for the *)
(* version that was read, and every save that touches an array makes a new *)
(* version.  What the members of the conversation are then told is the     *)
(* handler's own copy.                                                     *)
(***************************************************************************)
EXTENDS Naturals, FiniteSets

CONSTANTS
    Users,        \* members of the conversation
    Sender,       \* who sent the message
    Emojis,
    Targets,      \* conversations it may be forwarded to
    Requests,     \* slots for socket events whose handler is in flight
    MaxOps,       \* bound: requests ever made
    MaxFaults,    \* bound: crashes and failed round trips
    Nil           \* "no user", "no conversation"

ASSUME ConstantsAssumption ==
    /\ Sender \in Users
    /\ IsFiniteSet(Targets)
    /\ MaxOps \in Nat
    /\ MaxFaults \in Nat
    /\ Nil \notin Users \cup Targets

VARIABLES
    doc,          \* the message document
    shown,        \* what the last events told the members about it
    copy,         \* copy[c]: how far the copy forwarded to c is
    task,         \* handlers in flight
    raced,        \* history: users two of whose reactions overlapped
    muddled,      \* history: two handlers that announce the message overlapped
    refused,      \* history: targets of a forward that was refused at another
    ops,          \* number of requests so far (for the bound only)
    faults        \* number of faults so far (for the bound only)

history == <<raced, muddled, refused>>

vars == <<doc, shown, copy, task, history, ops, faults>>

------------------------------------------------------------------------------
(* Types and vocabulary.                                                   *)

(* id: the version of the document that the reaction came with; the array  *)
(* is in the order of the ids.                                             *)
Reactions == [id : Nat, user : Users, emoji : Emojis]

(* content is "empty" when all its fields are null; __v is the version.    *)
Documents == [content   : {"sent", "edited", "empty"},
              deleted   : BOOLEAN,
              hiddenFor : SUBSET Users,
              reactions : SUBSET Reactions,
              __v       : Nat]

Events == [content : {"sent", "edited", "empty"}, deleted : BOOLEAN,
           reactions : SUBSET Reactions]

(* What message:edited, with the whole document, says of d. *)
Said(d) == [content |-> d.content, deleted |-> d.deleted, reactions |-> d.reactions]

Fresh == [content |-> "sent", deleted |-> FALSE, hiddenFor |-> {},
          reactions |-> {}, __v |-> 0]

Stages == {"none", "created", "receipts", "touched", "counted", "emitted"}

Awaits == {"idle", "saveEdit", "saveDelete", "saveHidden", "saveReaction",
           "emitEdit", "emitDelete", "emitReaction", "forward", "emitCopies"}

(* mine is the handler's copy of the document; left are the targets still  *)
(* to do, at the one in hand, done the results so far.                     *)
Tasks == [pc : Awaits, user : Users \cup {Nil}, emoji : Emojis \cup {Nil},
          mine : Documents, left : SUBSET Targets, at : Targets \cup {Nil},
          done : SUBSET Targets]

NoTask == [pc |-> "idle", user |-> Nil, emoji |-> Nil, mine |-> Fresh,
           left |-> {}, at |-> Nil, done |-> {}]

(* The last conjuncts: reactions differ in their ids, and a deleted        *)
(* message has lost what was sent.                                         *)
TypeOK ==
    /\ doc \in Documents
    /\ shown \in Events
    /\ copy \in [Targets -> Stages]
    /\ task \in [Requests -> Tasks]
    /\ raced \in SUBSET Users
    /\ muddled \in BOOLEAN
    /\ refused \in SUBSET Targets
    /\ ops \in 0..MaxOps
    /\ faults \in 0..MaxFaults
    /\ \A a, b \in doc.reactions : a.id = b.id => a = b
    /\ doc.deleted => doc.content # "sent"

Idle(r) == task[r].pc = "idle"

At(r, pc) == task[r].pc = pc

Finish(r) == task' = [task EXCEPT ![r] = NoTask]

(* A socket event arrives; findOrThrow is the first round trip. *)
Begin(r, pc, u, e) ==
    /\ Idle(r)
    /\ ops < MaxOps
    /\ ops' = ops + 1
    /\ task' = [task EXCEPT ![r] = [NoTask EXCEPT !.pc = pc, !.user = u,
                                                  !.emoji = e, !.mine = doc]]
    /\ UNCHANGED <<doc, shown, copy, refused, faults>>

(* r will tell the members what it did to the message. *)
Announcing(r) ==
    task[r].pc \in {"saveEdit", "saveDelete", "saveReaction",
                    "emitEdit", "emitDelete", "emitReaction"}

Muddle == muddled' = (muddled \/ \E r \in Requests : Announcing(r))

(* save: the handler's copy is now mine, and the event is next. *)
Saved(r, mine, pc) ==
    task' = [task EXCEPT ![r].mine = mine, ![r].pc = pc]

ReactionsOf(u) == {a \in doc.reactions : a.user = u}

(* findIndex: the user's first reaction, if any. *)
Existing(mine, u) ==
    {a \in mine.reactions : /\ a.user = u
                            /\ \A b \in mine.reactions : b.user = u => a.id <= b.id}

------------------------------------------------------------------------------
Init ==
    /\ doc     = Fresh
    /\ shown   = Said(Fresh)
    /\ copy    = [c \in Targets |-> "none"]
    /\ task    = [r \in Requests |-> NoTask]
    /\ raced   = {}
    /\ muddled = FALSE
    /\ refused = {}
    /\ ops     = 0
    /\ faults  = 0

------------------------------------------------------------------------------
(* Editing.                                                                *)

(* Mutant: a deleted message may be edited. *)
EditDeleted(r) ==
    /\ Begin(r, "saveEdit", Sender, Nil)
    /\ Muddle
    /\ UNCHANGED raced

(* Only the sender gets so far. *)
Edit(r) ==
    /\ ~doc.deleted
    /\ Begin(r, "saveEdit", Sender, Nil)
    /\ Muddle
    /\ UNCHANGED raced

(* The text is the one that was read, and the save has nothing to write in *)
(* the content; or it is another one, and the save is $set of content.text.*)
SaveEdit(r) ==
    /\ At(r, "saveEdit")
    /\ \/ UNCHANGED doc /\ Saved(r, task[r].mine, "emitEdit")
       \/ /\ doc' = [doc EXCEPT !.content = "edited"]
          /\ Saved(r, [task[r].mine EXCEPT !.content = "edited"], "emitEdit")
    /\ UNCHANGED <<shown, copy, history, ops, faults>>

EmitEdit(r) ==
    /\ At(r, "emitEdit")
    /\ shown' = Said(task[r].mine)
    /\ Finish(r)
    /\ UNCHANGED <<doc, copy, history, ops, faults>>

------------------------------------------------------------------------------
(* Deleting.                                                               *)

DeleteForEveryone(r) ==
    /\ Begin(r, "saveDelete", Sender, Nil)
    /\ Muddle
    /\ UNCHANGED raced

(* Mutant: the content stays, only the mark is set. *)
SaveDeleteMarkOnly(r) ==
    /\ At(r, "saveDelete")
    /\ doc' = [doc EXCEPT !.deleted = TRUE]
    /\ Saved(r, [task[r].mine EXCEPT !.deleted = TRUE], "emitDelete")
    /\ UNCHANGED <<shown, copy, history, ops, faults>>

(* $set of the mark and of the whole content, where the copy had others. *)
SaveDelete(r) ==
    /\ At(r, "saveDelete")
    /\ doc' = [doc EXCEPT !.deleted = TRUE,
                          !.content = IF task[r].mine.content = "empty" THEN @
                                      ELSE "empty"]
    /\ Saved(r, [task[r].mine EXCEPT !.deleted = TRUE, !.content = "empty"],
             "emitDelete")
    /\ UNCHANGED <<shown, copy, history, ops, faults>>

(* The event names the message; clients drop what they have of it. *)
EmitDelete(r) ==
    /\ At(r, "emitDelete")
    /\ shown' = [shown EXCEPT !.deleted = TRUE, !.content = "empty"]
    /\ Finish(r)
    /\ UNCHANGED <<doc, copy, history, ops, faults>>

(* If the user is in the list already there is nothing to save. *)
DeleteForMe(r, u) ==
    /\ u \notin doc.hiddenFor
    /\ Begin(r, "saveHidden", u, Nil)
    /\ UNCHANGED <<raced, muddled>>

(* $push, with a new version; only the user's own socket is told. *)
SaveHidden(r) ==
    /\ At(r, "saveHidden")
    /\ doc' = [doc EXCEPT !.hiddenFor = @ \cup {task[r].user}, !.__v = @ + 1]
    /\ Finish(r)
    /\ UNCHANGED <<shown, copy, history, ops, faults>>

------------------------------------------------------------------------------
(* Reacting.                                                               *)

React(r, u, e) ==
    /\ Begin(r, "saveReaction", u, e)
    /\ raced' = IF \E s \in Requests : At(s, "saveReaction") /\ task[s].user = u
                THEN raced \cup {u} ELSE raced
    /\ Muddle

(* Mutant: an emoji that is chosen again stays. *)
PushedAlways(t, existing) ==
    {[id |-> doc.__v + 1, user |-> t.user, emoji |-> t.emoji]}

(* The reaction that is pushed: none if the user had chosen this emoji. *)
Pushed(t, existing) ==
    IF \E a \in existing : a.emoji = t.emoji THEN {}
    ELSE {[id |-> doc.__v + 1, user |-> t.user, emoji |-> t.emoji]}

(* $push alone never fails. *)
PushReaction(r) ==
    LET t == task[r] new == Pushed(t, {}) IN
      /\ doc' = [doc EXCEPT !.reactions = @ \cup new, !.__v = @ + 1]
      /\ Saved(r, [t.mine EXCEPT !.reactions = @ \cup new], "emitReaction")

(* A splice replaces the array, if the version is still the one read. *)
ReplaceReactions(r, existing) ==
    LET t == task[r]
        array == (t.mine.reactions \ existing) \cup Pushed(t, existing) IN
      IF doc.__v = t.mine.__v
      THEN /\ doc' = [doc EXCEPT !.reactions = array, !.__v = @ + 1]
           /\ Saved(r, [t.mine EXCEPT !.reactions = array], "emitReaction")
      ELSE UNCHANGED doc /\ Finish(r)

(* Mutant: the user's earlier reaction is not looked for. *)
SaveReactionAgain(r) ==
    /\ At(r, "saveReaction")
    /\ PushReaction(r)
    /\ UNCHANGED <<shown, copy, history, ops, faults>>

(* Mutant: the array is saved whatever the version. *)
SaveReactionBlind(r) ==
    /\ At(r, "saveReaction")
    /\ LET t == task[r]
           existing == Existing(t.mine, t.user)
           array == (t.mine.reactions \ existing) \cup Pushed(t, existing) IN
         /\ doc' = [doc EXCEPT !.reactions = array, !.__v = @ + 1]
         /\ Saved(r, [t.mine EXCEPT !.reactions = array], "emitReaction")
    /\ UNCHANGED <<shown, copy, history, ops, faults>>

SaveReaction(r) ==
    /\ At(r, "saveReaction")
    /\ LET existing == Existing(task[r].mine, task[r].user) IN
         IF existing = {} THEN PushReaction(r) ELSE ReplaceReactions(r, existing)
    /\ UNCHANGED <<shown, copy, history, ops, faults>>

(* Mutant: the event carries nothing but the user's own reaction. *)
EmitReactionOwn(r) ==
    /\ At(r, "emitReaction")
    /\ shown' = [shown EXCEPT !.reactions =
                   {a \in task[r].mine.reactions : a.user = task[r].user}]
    /\ Finish(r)
    /\ UNCHANGED <<doc, copy, history, ops, faults>>

(* All reactions, as the handler knows them. *)
EmitReaction(r) ==
    /\ At(r, "emitReaction")
    /\ shown' = [shown EXCEPT !.reactions = task[r].mine.reactions]
    /\ Finish(r)
    /\ UNCHANGED <<doc, copy, history, ops, faults>>

------------------------------------------------------------------------------
(* Forwarding: one forward is followed; another one makes other copies.    *)

Forward(r, u, targets) ==
    /\ ~doc.deleted
    /\ \A c \in Targets : copy[c] = "none"
    /\ \A s \in Requests : ~At(s, "forward")
    /\ targets # {}
    /\ Idle(r)
    /\ ops < MaxOps
    /\ ops' = ops + 1
    /\ task' = [task EXCEPT ![r] = [NoTask EXCEPT !.pc = "forward", !.user = u,
                                    !.mine = doc, !.left = targets]]
    /\ UNCHANGED <<doc, shown, copy, history, faults>>

(* The checks on the next target pass and the copy is created, or one of   *)
(* them throws: then nobody is told of the copies made before.             *)
NextTarget(r, c) ==
    /\ At(r, "forward")
    /\ task[r].at = Nil
    /\ c \in task[r].left
    /\ \/ /\ copy' = [copy EXCEPT ![c] = "created"]
          /\ task' = [task EXCEPT ![r].at = c, ![r].left = @ \ {c}]
          /\ UNCHANGED refused
       \/ /\ refused' = refused \cup task[r].done
          /\ Finish(r)
          /\ UNCHANGED copy
    /\ UNCHANGED <<doc, shown, raced, muddled, ops, faults>>

StageAfter(stage) ==
    CASE stage = "created"  -> "receipts"
      [] stage = "receipts" -> "touched"
      [] stage = "touched"  -> "counted"

(* Mutant: the counters are left to a later copy. *)
CopyStepHasty(r) ==
    /\ At(r, "forward")
    /\ task[r].at # Nil
    /\ LET c == task[r].at done == copy[c] = "receipts" IN
         /\ copy' = [copy EXCEPT ![c] = StageAfter(@)]
         /\ task' = [task EXCEPT
              ![r].at = IF done THEN Nil ELSE c,
              ![r].done = IF done THEN @ \cup {c} ELSE @,
              ![r].pc = IF done /\ task[r].left = {} THEN "emitCopies" ELSE @]
    /\ UNCHANGED <<doc, shown, history, ops, faults>>

(* Receipts, last message and counters of the copy in hand, one round trip *)
(* each.                                                                   *)
CopyStep(r) ==
    /\ At(r, "forward")
    /\ task[r].at # Nil
    /\ LET c == task[r].at done == copy[c] = "touched" IN
         /\ copy' = [copy EXCEPT ![c] = StageAfter(@)]
         /\ task' = [task EXCEPT
              ![r].at = IF done THEN Nil ELSE c,
              ![r].done = IF done THEN @ \cup {c} ELSE @,
              ![r].pc = IF done /\ task[r].left = {} THEN "emitCopies" ELSE @]
    /\ UNCHANGED <<doc, shown, history, ops, faults>>

EmitCopies(r) ==
    /\ At(r, "emitCopies")
    /\ copy' = [c \in Targets |-> IF c \in task[r].done THEN "emitted" ELSE copy[c]]
    /\ Finish(r)
    /\ UNCHANGED <<doc, shown, history, ops, faults>>

------------------------------------------------------------------------------
(* The environment.                                                        *)

Drop(rs) ==
    /\ faults < MaxFaults
    /\ faults' = faults + 1
    /\ task' = [r \in Requests |-> IF r \in rs THEN NoTask ELSE task[r]]
    /\ UNCHANGED <<doc, shown, copy, history, ops>>

(* The process dies with its handlers. *)
Crash == Drop(Requests)

(* A round trip of handler r fails, and the handler with it. *)
Abort(r) == ~Idle(r) /\ Drop({r})

------------------------------------------------------------------------------
(* The next round trip, or the event, of handler r. *)
Step(r) ==
    \/ SaveEdit(r) \/ EmitEdit(r) \/ SaveDelete(r) \/ EmitDelete(r)
    \/ SaveHidden(r) \/ SaveReaction(r) \/ EmitReaction(r)
    \/ \E c \in Targets : NextTarget(r, c)
    \/ CopyStep(r) \/ EmitCopies(r)

Request(r) ==
    \/ Edit(r) \/ DeleteForEveryone(r)
    \/ \E u \in Users :
         \/ DeleteForMe(r, u)
         \/ \E e \in Emojis : React(r, u, e)
         \/ \E targets \in SUBSET Targets : Forward(r, u, targets)

Next ==
    \/ \E r \in Requests : Request(r) \/ Step(r) \/ Abort(r)
    \/ Crash

Spec == Init /\ [][Next]_vars

------------------------------------------------------------------------------
(* Properties.                                                             *)

(* Edits in flight.  Once the message is deleted they are the late ones:   *)
(* they read it before.                                                    *)
PendingEdits == {r \in Requests : At(r, "saveEdit")}

(* messages.service.ts:119-124, 150-160: what was deleted for everyone     *)
(* stays marked so, and no further edit is let in.  Only an edit that read *)
(* the message before it was deleted can put a text back, and does so once *)
(* at most.                                                                *)
OnlyLateEditsRestore ==
    [][doc.deleted =>
         /\ doc'.deleted
         /\ PendingEdits' \subseteq PendingEdits
         /\ doc'.content \notin {doc.content, "empty"} =>
              PendingEdits' # PendingEdits]_vars

(* The save that a handler has yet to make.                                *)
ActOf == [saveEdit |-> "edit", saveDelete |-> "delete",
          saveHidden |-> "hide", saveReaction |-> "react"]

Ticket(r) ==
    LET t == task[r] IN
      IF t.pc = "saveReaction"
      THEN [handle |-> r, act |-> "react", user |-> t.user, emoji |-> t.emoji]
      ELSE [handle |-> r, act |-> ActOf[t.pc], user |-> t.user]

Pending == {Ticket(r) : r \in {x \in Requests : task[x].pc \in DOMAIN ActOf}}

Life == INSTANCE MessageLife WITH
    Handles <- Requests, content <- doc.content, deleted <- doc.deleted,
    hiddenFor <- doc.hiddenFor, reactions <- doc.reactions,
    pending <- Pending, rivals <- raced

(* messages.service.ts:119-199: every request works on the copy it read,   *)
(* and yet takes effect as if it were carried out at once on what is       *)
(* stored when it saves, or not at all; the exceptions are those of        *)
(* MessageLife.                                                            *)
LifeSpec == Life!LifeSpec

(* messages.service.ts:138-140, 172-189: no request, however stale the     *)
(* copy it works on, changes the reactions of two users, or shows a        *)
(* message again to a user who deleted it for himself.                     *)
OthersUntouched ==
    [][/\ \E u \in Users : \A w \in Users \ {u} :
            ReactionsOf(w)' = ReactionsOf(w)
       /\ doc.hiddenFor \subseteq doc'.hiddenFor]_vars

(* messages.service.ts:172-188: a user has one reaction to a message,      *)
(* unless two of his own requests overlapped (his two devices).            *)
OneReactionEach ==
    \A u \in Users \ raced : Cardinality(ReactionsOf(u)) <= 1

(* chat.gateway.ts:156-208: when nothing is in flight the members have     *)
(* been told what is stored, although each event carries the handler's own *)
(* copy -- unless two handlers that announce something overlapped, or one  *)
(* failed.  Deletions for one user may overlap with all of them.           *)
ShownIsStored ==
    ~muddled /\ faults = 0 /\ (\A r \in Requests : ~Announcing(r)) =>
      shown = Said(doc)

(* messages.service.ts:210-261, chat.gateway.ts:215-220: a copy is         *)
(* announced with its receipts, last message and counters written; and     *)
(* every copy is announced unless a later target was refused or the        *)
(* handler failed.                                                         *)
CopiesAnnounced ==
    /\ \A r \in Requests : \A c \in task[r].done : copy[c] = "counted"
    /\ faults = 0 /\ (\A r \in Requests : task[r].pc \notin {"forward", "emitCopies"})
         => \A c \in Targets : copy[c] \in {"none", "emitted"} \/ c \in refused

------------------------------------------------------------------------------
(* The inductive invariant behind the properties (MessageDocumentProofs):  *)
(* what a handler's copy is still good for when it is saved or announced.  *)

(* A copy of the current version has the current reactions; a content that *)
(* was read as empty was deleted.                                          *)
MineOK(t) ==
    /\ t.pc \in {"saveHidden", "saveReaction"} => t.user \in Users
    /\ t.pc = "saveReaction" =>
         /\ t.emoji \in Emojis
         /\ t.mine.__v <= doc.__v
         /\ t.mine.__v = doc.__v => t.mine.reactions = doc.reactions
    /\ t.pc = "saveDelete" /\ t.mine.content = "empty" => doc.deleted

DocumentOK ==
    /\ TypeOK
    /\ doc.content = "empty" => doc.deleted
    /\ \A a \in doc.reactions : a.id <= doc.__v
    /\ \A r \in Requests : MineOK(task[r])

Reacting(r, u) == At(r, "saveReaction") /\ task[r].user = u

(* A user whose requests do not overlap sees his own reaction. *)
ReactionsOK ==
    \A u \in Users \ raced :
      /\ \A a, b \in ReactionsOf(u) : a = b
      /\ \A r, s \in Requests : Reacting(r, u) /\ Reacting(s, u) => r = s
      /\ \A r \in Requests : Reacting(r, u) =>
           {a \in task[r].mine.reactions : a.user = u} = ReactionsOf(u)

(* What r is about to announce brings the members up to date. *)
TellsAll(t) ==
    /\ t.pc \in {"saveEdit", "saveDelete", "saveReaction"} =>
         shown = Said(doc) /\ Said(t.mine) = Said(doc)
    /\ t.pc = "emitEdit" => Said(t.mine) = Said(doc)
    /\ t.pc = "emitDelete" => /\ doc.deleted /\ doc.content = "empty"
                              /\ shown.reactions = doc.reactions
    /\ t.pc = "emitReaction" => /\ t.mine.reactions = doc.reactions
                                /\ shown.content = doc.content
                                /\ shown.deleted = doc.deleted

ShownOK ==
    ~muddled /\ faults = 0 =>
      /\ \A r, s \in Requests : Announcing(r) /\ Announcing(s) => r = s
      /\ \A r \in Requests : Announcing(r) => TellsAll(task[r])
      /\ (\A r \in Requests : ~Announcing(r)) => shown = Said(doc)

Forwarding(t) == t.pc \in {"forward", "emitCopies"}

(* The copies there are, are those of the one forward, each at its stage. *)
ForwardOK(t) ==
    /\ ~Forwarding(t) => t.done = {}
    /\ Forwarding(t) =>
         /\ t.at \notin t.done
         /\ t.left \cap (t.done \cup {t.at}) = {}
         /\ \A c \in t.done : copy[c] = "counted"
         /\ t.at # Nil => copy[t.at] \in {"created", "receipts", "touched"}
         /\ \A c \in Targets \ (t.done \cup {t.at}) : copy[c] = "none"
    /\ t.pc = "emitCopies" => t.at = Nil /\ t.done # {}

CopiesOK ==
    /\ \A r, s \in Requests : Forwarding(task[r]) /\ Forwarding(task[s]) => r = s
    /\ \A r \in Requests : ForwardOK(task[r])
    /\ faults = 0 /\ (\A r \in Requests : ~Forwarding(task[r]))
         => \A c \in Targets : copy[c] \in {"none", "emitted"} \/ c \in refused

IInv == DocumentOK /\ ReactionsOK /\ ShownOK /\ CopiesOK
==============================================================================
