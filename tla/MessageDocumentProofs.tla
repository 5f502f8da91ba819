------------------------ MODULE MessageDocumentProofs ------------------------
(* Proofs about MessageDocument. *)
EXTENDS MessageDocument, FiniteSetTheorems, TLAPS

------------------------------------------------------------------------------
(* Documents and what becomes of them.                                     *)

DocOK(d) ==
    /\ d \in Documents
    /\ \A a, b \in d.reactions : a.id = b.id => a = b
    /\ d.deleted => d.content # "sent"
    /\ d.content = "empty" => d.deleted
    /\ \A a \in d.reactions : a.id <= d.__v

(* A new version, or the same reactions; what is deleted stays deleted. *)
Grows(d, e) ==
    /\ d.__v <= e.__v
    /\ e.__v = d.__v => e.reactions = d.reactions
    /\ d.deleted => e.deleted

(* The slot of a handler that is done. *)
LEMMA NoTaskOK ==
  /\ NoTask \in Tasks /\ NoTask.pc = "idle" /\ NoTask.done = {}
  /\ Fresh \in Documents
  /\ MineOK(NoTask) /\ ~Forwarding(NoTask) /\ ForwardOK(NoTask)
  <1>1. Fresh \in Documents
    BY DEF Fresh, Documents
  <1>2. NoTask \in Tasks /\ NoTask.pc = "idle" /\ NoTask.done = {}
    BY <1>1 DEF NoTask, Tasks, Awaits
  <1> QED
    BY <1>1, <1>2 DEF MineOK, Forwarding, ForwardOK

(* Two documents say the same if they agree in the three fields. *)
LEMMA SaidFields ==
  ASSUME NEW a, NEW b
  PROVE  Said(a) = Said(b) <=> /\ a.content = b.content
                               /\ a.deleted = b.deleted
                               /\ a.reactions = b.reactions
  BY DEF Said

(* A document can be announced. *)
LEMMA SaidType ==
  ASSUME NEW d \in Documents
  PROVE  /\ Said(d) \in Events
         /\ Said(d).content = d.content /\ Said(d).deleted = d.deleted
         /\ Said(d).reactions = d.reactions
  BY DEF Said, Documents, Events

(* The type invariant, part by part. *)
LEMMA Types ==
  ASSUME DocumentOK
  PROVE  /\ doc \in Documents /\ shown \in Events
         /\ copy \in [Targets -> Stages] /\ task \in [Requests -> Tasks]
         /\ raced \in SUBSET Users /\ muddled \in BOOLEAN
         /\ refused \in SUBSET Targets /\ ops \in 0..MaxOps
         /\ faults \in 0..MaxFaults /\ DocOK(doc)
  BY DEF DocumentOK, TypeOK, DocOK

(* Handler r goes on as k. *)
LEMMA HandlerStep ==
  ASSUME DocumentOK, NEW r \in Requests, NEW k \in Tasks,
         task' = [task EXCEPT ![r] = k]
  PROVE  /\ task' \in [Requests -> Tasks]
         /\ task'[r] = k
         /\ \A x \in Requests \ {r} : task'[x] = task[x]
  BY DEF DocumentOK, TypeOK

(* What has to be shown of a step of handler r about the document. *)
LEMMA DocumentStep ==
  ASSUME DocumentOK, NEW r \in Requests,
         task' \in [Requests -> Tasks],
         \A x \in Requests \ {r} : task'[x] = task[x],
         MineOK(task[r])', DocOK(doc'), Grows(doc, doc'),
         shown' \in Events, copy' \in [Targets -> Stages],
         raced' \in SUBSET Users, muddled' \in BOOLEAN,
         refused' \in SUBSET Targets,
         ops' \in 0..MaxOps, faults' \in 0..MaxFaults
  PROVE  DocumentOK'
  <1>1. ASSUME NEW x \in Requests \ {r} PROVE MineOK(task[x])'
    <2>1. task'[x] = task[x] /\ MineOK(task[x]) /\ task[x] \in Tasks
      BY DEF DocumentOK, TypeOK
    <2>2. task[x].mine.__v \in Nat /\ doc.__v \in Nat /\ doc'.__v \in Nat
      BY <2>1, Types DEF Tasks, Documents, DocOK
    <2>3. /\ doc.__v <= doc'.__v /\ (doc.deleted => doc'.deleted)
          /\ doc'.__v = doc.__v => doc'.reactions = doc.reactions
      BY DEF Grows
    <2>4. task[x].pc = "saveReaction" =>
            /\ task[x].mine.__v <= doc'.__v
            /\ task[x].mine.__v = doc'.__v => task[x].mine.reactions = doc'.reactions
      BY <2>1, <2>2, <2>3 DEF MineOK
    <2> QED
      BY <2>1, <2>3, <2>4 DEF MineOK
  <1>2. \A x \in Requests : MineOK(task[x])'
    BY <1>1
  <1>3. TypeOK'
    BY DEF TypeOK, DocOK
  <1> QED
    BY <1>2, <1>3 DEF DocumentOK, DocOK

(* A step that saves nothing. *)
LEMMA DocumentSame ==
  ASSUME DocumentOK, doc' = doc
  PROVE  DocOK(doc') /\ Grows(doc, doc')
  <1>1. doc.__v \in Nat
    BY Types DEF Documents
  <1> QED
    BY <1>1, Types DEF Grows

(* The inductive invariant holds initially. *)
LEMMA InitIInv == Init => IInv
  <1> SUFFICES ASSUME Init PROVE IInv
    OBVIOUS
  <1>1. /\ doc = Fresh /\ shown = Said(Fresh) /\ faults = 0 /\ ops = 0
        /\ \A r \in Requests : task[r] = NoTask
        /\ copy = [c \in Targets |-> "none"] /\ task = [r \in Requests |-> NoTask]
        /\ raced = {} /\ muddled = FALSE /\ refused = {}
    BY DEF Init
  <1>2. /\ Fresh.reactions = {} /\ ~Fresh.deleted /\ Fresh.content = "sent"
        /\ Said(Fresh) \in Events
    BY NoTaskOK, SaidType DEF Fresh
  <1>3. TypeOK
    <2>1. 0 \in 0..MaxOps /\ 0 \in 0..MaxFaults
      BY ConstantsAssumption
    <2>2. task \in [Requests -> Tasks] /\ copy \in [Targets -> Stages]
      BY <1>1, NoTaskOK DEF Stages
    <2>3. doc \in Documents /\ shown \in Events
      BY <1>1, <1>2, NoTaskOK
    <2> QED
      BY <1>1, <1>2, <2>1, <2>2, <2>3 DEF TypeOK
  <1>4. DocumentOK
    BY <1>1, <1>2, <1>3, NoTaskOK DEF DocumentOK, MineOK
  <1>5. ReactionsOK
    BY <1>1, <1>2, NoTaskOK DEF ReactionsOK, ReactionsOf, Reacting, At
  <1>6. ShownOK
    BY <1>1, NoTaskOK DEF ShownOK, Announcing
  <1>7. CopiesOK
    BY <1>1, NoTaskOK DEF CopiesOK, Forwarding, ForwardOK
  <1> QED
    BY <1>4, <1>5, <1>6, <1>7 DEF IInv

------------------------------------------------------------------------------
(* The reactions of a user whose requests do not overlap.                  *)

(* No reaction is read or saved. *)
LEMMA ReactionsQuiet ==
  ASSUME ReactionsOK, raced' = raced, doc'.reactions = doc.reactions,
         \A x \in Requests : task'[x] = task[x] \/ task'[x].pc # "saveReaction"
  PROVE  ReactionsOK'
  <1>1. \A u \in Users : ReactionsOf(u)' = ReactionsOf(u)
    BY DEF ReactionsOf
  <1>2. \A x \in Requests, u \in Users :
          Reacting(x, u)' => Reacting(x, u) /\ task'[x] = task[x]
    BY DEF Reacting, At
  <1> SUFFICES ASSUME NEW u \in Users \ raced
               PROVE  /\ \A a, b \in ReactionsOf(u)' : a = b
                      /\ \A r, s \in Requests :
                           Reacting(r, u)' /\ Reacting(s, u)' => r = s
                      /\ \A r \in Requests : Reacting(r, u)' =>
                           {a \in task'[r].mine.reactions : a.user = u}
                             = ReactionsOf(u)'
    BY DEF ReactionsOK
  <1>3. /\ \A a, b \in ReactionsOf(u) : a = b
        /\ \A r, s \in Requests : Reacting(r, u) /\ Reacting(s, u) => r = s
        /\ \A r \in Requests : Reacting(r, u) =>
             {a \in task[r].mine.reactions : a.user = u} = ReactionsOf(u)
    BY DEF ReactionsOK
  <1> QED
    BY <1>1, <1>2, <1>3

------------------------------------------------------------------------------
(* What the members are told.                                              *)

(* Nothing is announced, and nothing saved that would have to be. *)
LEMMA ShownQuiet ==
  ASSUME ShownOK, muddled' = muddled, faults' = faults, shown' = shown,
         doc'.content = doc.content, doc'.deleted = doc.deleted,
         doc'.reactions = doc.reactions,
         \A x \in Requests :
           task'[x] = task[x] \/ (~Announcing(x) /\ ~Announcing(x)')
  PROVE  ShownOK'
  <1>1. Said(doc)' = Said(doc)
    BY DEF Said
  <1>2. \A x \in Requests : /\ Announcing(x)' <=> Announcing(x)
                            /\ Announcing(x) => task'[x] = task[x]
    BY DEF Announcing
  <1> SUFFICES ASSUME ~muddled, faults = 0 PROVE ShownOK'
    BY DEF ShownOK
  <1>3. /\ \A r, s \in Requests : Announcing(r) /\ Announcing(s) => r = s
        /\ \A r \in Requests : Announcing(r) => TellsAll(task[r])
        /\ (\A r \in Requests : ~Announcing(r)) => shown = Said(doc)
    BY DEF ShownOK
  <1>4. ASSUME NEW x \in Requests, Announcing(x) PROVE TellsAll(task[x])'
    <2>1. task'[x] = task[x] /\ TellsAll(task[x])
      BY <1>2, <1>3, <1>4
    <2> QED
      BY <1>1, <2>1 DEF TellsAll
  <1>5. \A r, s \in Requests : Announcing(r)' /\ Announcing(s)' => r = s
    BY <1>2, <1>3
  <1>6. \A r \in Requests : Announcing(r)' => TellsAll(task[r])'
    BY <1>2, <1>4
  <1>7. (\A r \in Requests : ~Announcing(r)') => shown' = Said(doc)'
    BY <1>1, <1>2, <1>3
  <1> QED
    BY <1>5, <1>6, <1>7 DEF ShownOK

(* The one handler that announces something goes on, or has announced it. *)
LEMMA ShownAlone ==
  ASSUME ShownOK, NEW r \in Requests, Announcing(r),
         muddled' = muddled, faults' = faults,
         \A x \in Requests \ {r} : task'[x] = task[x],
         TellsAll(task[r]) => IF Announcing(r)' THEN TellsAll(task[r])'
                              ELSE shown' = Said(doc')
  PROVE  ShownOK'
  <1> SUFFICES ASSUME ~muddled, faults = 0 PROVE ShownOK'
    BY DEF ShownOK
  <1>1. TellsAll(task[r]) /\ \A x \in Requests \ {r} : ~Announcing(x)
    BY DEF ShownOK
  <1>2. \A x \in Requests \ {r} : ~Announcing(x)'
    BY <1>1 DEF Announcing
  <1>3. \A x \in Requests : Announcing(x)' => x = r
    BY <1>2
  <1>4. CASE Announcing(r)'
    BY <1>1, <1>3, <1>4 DEF ShownOK
  <1>5. CASE ~Announcing(r)'
    <2>1. shown' = Said(doc')
      BY <1>1, <1>5
    <2>2. \A x \in Requests : ~Announcing(x)'
      BY <1>3, <1>5
    <2> QED
      BY <2>1, <2>2 DEF ShownOK
  <1> QED
    BY <1>4, <1>5

(* A handler reads the document it will announce. *)
LEMMA ShownBegin ==
  ASSUME ShownOK, NEW r \in Requests, Muddle, faults' = faults,
         shown' = shown, doc' = doc,
         \A x \in Requests \ {r} : task'[x] = task[x],
         task'[r].pc \in {"saveEdit", "saveDelete", "saveReaction"},
         task'[r].mine = doc
  PROVE  ShownOK'
  <1> SUFFICES ASSUME ~muddled', faults = 0 PROVE ShownOK'
    BY DEF ShownOK
  <1>1. ~muddled /\ \A x \in Requests : ~Announcing(x)
    BY DEF Muddle
  <1>2. shown = Said(doc)
    BY <1>1 DEF ShownOK
  <1>3. \A x \in Requests : Announcing(x)' => x = r
    BY <1>1 DEF Announcing
  <1>4. TellsAll(task[r])' /\ Announcing(r)'
    BY <1>2 DEF TellsAll, Announcing
  <1> QED
    BY <1>3, <1>4 DEF ShownOK

------------------------------------------------------------------------------
(* The copies of a forward.                                                *)

(* No copy is made or announced. *)
LEMMA CopiesQuiet ==
  ASSUME CopiesOK, copy' = copy, refused' = refused, faults' = faults,
         \A x \in Requests :
           \/ task'[x] = task[x]
           \/ ~Forwarding(task[x]) /\ ~Forwarding(task'[x]) /\ task'[x].done = {}
  PROVE  CopiesOK'
  <1>1. \A x \in Requests : /\ Forwarding(task'[x]) <=> Forwarding(task[x])
                            /\ Forwarding(task[x]) => task'[x] = task[x]
    BY DEF Forwarding
  <1>2. ASSUME NEW x \in Requests PROVE ForwardOK(task[x])'
    <2>1. CASE task'[x] = task[x]
      BY <2>1 DEF CopiesOK, ForwardOK, Forwarding
    <2>2. CASE ~Forwarding(task'[x]) /\ task'[x].done = {}
      BY <2>2 DEF ForwardOK, Forwarding
    <2> QED
      BY <2>1, <2>2
  <1>3. \A x \in Requests : Forwarding(task[x])' <=> Forwarding(task[x])
    BY <1>1 DEF Forwarding
  <1> QED
    BY <1>2, <1>3 DEF CopiesOK

(* The one forward goes on, or is over. *)
LEMMA CopiesAlone ==
  ASSUME CopiesOK, NEW r \in Requests,
         \A x \in Requests \ {r} : task'[x] = task[x] /\ ~Forwarding(task[x]),
         ForwardOK(task[r])',
         ~Forwarding(task'[r]) /\ faults = 0 =>
           \A c \in Targets : copy'[c] \in {"none", "emitted"} \/ c \in refused',
         faults' = faults
  PROVE  CopiesOK'
  <1>1. \A x \in Requests \ {r} : ~Forwarding(task[x])'
    BY DEF Forwarding
  <1>2. ASSUME NEW x \in Requests \ {r} PROVE ForwardOK(task[x])'
    BY DEF CopiesOK, ForwardOK, Forwarding
  <1>3. Forwarding(task[r])' <=> Forwarding(task'[r])
    BY DEF Forwarding
  <1> QED
    BY <1>1, <1>2, <1>3 DEF CopiesOK

------------------------------------------------------------------------------
(* Requests.                                                               *)

(* What a handler that begins starts with. *)
LEMMA BeginFacts ==
  ASSUME DocumentOK, NEW r \in Requests, NEW u \in Users, NEW pc \in Awaits,
         NEW e \in Emojis \cup {Nil}, Begin(r, pc, u, e)
  PROVE  /\ task' \in [Requests -> Tasks] /\ ops' \in 0..MaxOps
         /\ \A x \in Requests \ {r} : task'[x] = task[x]
         /\ task'[r].pc = pc /\ task'[r].user = u /\ task'[r].emoji = e
         /\ task'[r].mine = doc /\ task'[r].done = {}
         /\ ~Announcing(r) /\ ~Forwarding(task[r])
         /\ UNCHANGED <<doc, shown, copy, refused, faults>>
  <1> DEFINE k == [NoTask EXCEPT !.pc = pc, !.user = u, !.emoji = e, !.mine = doc]
  <1>1. /\ k \in Tasks /\ k.pc = pc /\ k.user = u /\ k.emoji = e /\ k.mine = doc
        /\ k.done = {}
    BY Types DEF NoTask, Tasks
  <1> HIDE DEF k
  <1>2. /\ task' \in [Requests -> Tasks] /\ task'[r] = k
        /\ \A x \in Requests \ {r} : task'[x] = task[x]
    BY <1>1, HandlerStep DEF Begin, k
  <1>3. ops' \in 0..MaxOps
    BY Types, ConstantsAssumption DEF Begin
  <1> QED
    BY <1>1, <1>2, <1>3 DEF Begin, Idle, Announcing, Forwarding

(* A handler reads the document that it will change and announce. *)
LEMMA ReadStep ==
  ASSUME IInv, NEW r \in Requests,
         task' \in [Requests -> Tasks], ops' \in 0..MaxOps,
         \A x \in Requests \ {r} : task'[x] = task[x],
         ~Announcing(r), ~Forwarding(task[r]),
         task'[r].pc \in {"saveEdit", "saveDelete", "saveReaction"},
         task'[r].user \in Users,
         task'[r].pc = "saveReaction" => task'[r].emoji \in Emojis,
         task'[r].mine = doc, task'[r].done = {},
         Muddle, raced' \in SUBSET Users,
         UNCHANGED <<doc, shown, copy, refused, faults>>
  PROVE  DocumentOK' /\ ShownOK' /\ CopiesOK'
  <1>1. DocumentOK
    BY DEF IInv
  <1>2. doc.__v \in Nat
    BY <1>1, Types DEF Documents
  <1>3. MineOK(task[r])'
    BY <1>1, <1>2 DEF MineOK, DocumentOK
  <1>4. muddled' \in BOOLEAN
    BY <1>1, Types DEF Muddle
  <1>5. DocumentOK'
    BY <1>1, <1>3, <1>4, DocumentSame, DocumentStep, Types
  <1>6. ShownOK'
    BY ShownBegin DEF IInv
  <1>7. CopiesOK'
    BY CopiesQuiet DEF IInv, Forwarding
  <1> QED
    BY <1>5, <1>6, <1>7

(* Edits and deletions begin. *)
LEMMA ChangeBegins ==
  ASSUME IInv, NEW r \in Requests, Edit(r) \/ DeleteForEveryone(r)
  PROVE  IInv'
  <1>1. DocumentOK /\ ReactionsOK
    BY DEF IInv
  <1>2. PICK pc \in {"saveEdit", "saveDelete"} :
          Begin(r, pc, Sender, Nil) /\ Muddle /\ raced' = raced
    BY DEF Edit, DeleteForEveryone
  <1>3. /\ task' \in [Requests -> Tasks] /\ ops' \in 0..MaxOps
        /\ \A x \in Requests \ {r} : task'[x] = task[x]
        /\ task'[r].pc = pc /\ task'[r].user = Sender
        /\ task'[r].mine = doc /\ task'[r].done = {}
        /\ ~Announcing(r) /\ ~Forwarding(task[r])
        /\ UNCHANGED <<doc, shown, copy, refused, faults>>
    <2>1. pc \in Awaits /\ Sender \in Users
      BY ConstantsAssumption DEF Awaits
    <2> QED
      BY <1>1, <1>2, <2>1, BeginFacts
  <1>4. DocumentOK' /\ ShownOK' /\ CopiesOK'
    BY <1>1, <1>2, <1>3, ReadStep, Types, ConstantsAssumption
  <1>5. ReactionsOK'
    BY <1>1, <1>2, <1>3, ReactionsQuiet
  <1> QED
    BY <1>4, <1>5 DEF IInv

(* A deletion for oneself begins. *)
LEMMA HideBegins ==
  ASSUME IInv, NEW r \in Requests, NEW u \in Users, DeleteForMe(r, u)
  PROVE  IInv'
  <1>1. DocumentOK /\ ReactionsOK /\ ShownOK /\ CopiesOK
    BY DEF IInv
  <1>2. Begin(r, "saveHidden", u, Nil) /\ UNCHANGED <<raced, muddled>>
    BY DEF DeleteForMe
  <1>3. /\ task' \in [Requests -> Tasks] /\ ops' \in 0..MaxOps
        /\ \A x \in Requests \ {r} : task'[x] = task[x]
        /\ task'[r].pc = "saveHidden" /\ task'[r].user = u
        /\ task'[r].done = {} /\ ~Announcing(r) /\ ~Forwarding(task[r])
        /\ UNCHANGED <<doc, shown, copy, refused, faults>>
    <2>1. "saveHidden" \in Awaits
      BY DEF Awaits
    <2> QED
      BY <1>1, <1>2, <2>1, BeginFacts
  <1>4. MineOK(task[r])' /\ ~Announcing(r)' /\ ~Forwarding(task'[r])
    BY <1>3 DEF MineOK, Announcing, Forwarding
  <1>5. DocumentOK'
    BY <1>1, <1>2, <1>3, <1>4, DocumentSame, DocumentStep, Types
  <1>6. ReactionsOK'
    BY <1>1, <1>2, <1>3, ReactionsQuiet
  <1>7. ShownOK'
    BY <1>1, <1>2, <1>3, <1>4, ShownQuiet
  <1>8. CopiesOK'
    BY <1>1, <1>3, <1>4, CopiesQuiet
  <1> QED
    BY <1>5, <1>6, <1>7, <1>8 DEF IInv

(* A reaction begins: if it overlaps with another of the user this is      *)
(* remembered.                                                             *)
LEMMA ReactBegins ==
  ASSUME IInv, NEW r \in Requests, NEW u \in Users, NEW e \in Emojis, React(r, u, e)
  PROVE  IInv'
  <1>1. DocumentOK /\ ReactionsOK
    BY DEF IInv
  <1>2. /\ task' \in [Requests -> Tasks] /\ ops' \in 0..MaxOps
        /\ \A x \in Requests \ {r} : task'[x] = task[x]
        /\ task'[r].pc = "saveReaction" /\ task'[r].user = u
        /\ task'[r].emoji = e /\ task'[r].mine = doc /\ task'[r].done = {}
        /\ ~Announcing(r) /\ ~Forwarding(task[r])
    BY <1>1, BeginFacts DEF React, Awaits
  <1>3. UNCHANGED <<doc, shown, copy, refused, faults>> /\ Muddle
    BY DEF React, Begin
  <1>4. /\ raced' \in SUBSET Users /\ raced \subseteq raced'
        /\ u \notin raced' => \A s \in Requests : ~Reacting(s, u)
    BY <1>1, Types DEF React, Reacting
  <1>5. DocumentOK' /\ ShownOK' /\ CopiesOK'
    BY <1>2, <1>3, <1>4, ReadStep
  <1>6. ReactionsOK'
    <2> SUFFICES ASSUME NEW v \in Users \ raced'
                 PROVE  /\ \A a, b \in ReactionsOf(v)' : a = b
                        /\ \A x, y \in Requests :
                             Reacting(x, v)' /\ Reacting(y, v)' => x = y
                        /\ \A x \in Requests : Reacting(x, v)' =>
                             {a \in task'[x].mine.reactions : a.user = v}
                               = ReactionsOf(v)'
      BY DEF ReactionsOK
    <2>1. /\ \A a, b \in ReactionsOf(v) : a = b
          /\ \A x, y \in Requests : Reacting(x, v) /\ Reacting(y, v) => x = y
          /\ \A x \in Requests : Reacting(x, v) =>
               {a \in task[x].mine.reactions : a.user = v} = ReactionsOf(v)
      BY <1>1, <1>4 DEF ReactionsOK
    <2>2. ReactionsOf(v)' = {a \in doc.reactions : a.user = v}
      BY <1>3 DEF ReactionsOf
    <2>3. ReactionsOf(v)' = ReactionsOf(v)
      BY <1>3 DEF ReactionsOf
    <2>4. \A x \in Requests \ {r} : Reacting(x, v)' <=> Reacting(x, v)
      BY <1>2 DEF Reacting, At
    <2>5. Reacting(r, v)' <=> v = u
      BY <1>2 DEF Reacting, At
    <2>6. CASE v = u
      <3>1. \A x \in Requests : Reacting(x, v)' => x = r
        BY <1>4, <2>4, <2>6
      <3> QED
        BY <1>2, <2>1, <2>2, <2>3, <3>1
    <2>7. CASE v # u
      <3>1. \A x \in Requests : Reacting(x, v)' => x # r /\ Reacting(x, v)
        BY <2>4, <2>5, <2>7
      <3> QED
        BY <1>2, <2>1, <2>3, <3>1
    <2> QED
      BY <2>6, <2>7
  <1> QED
    BY <1>5, <1>6 DEF IInv

(* A forward begins: there is no other, and no copy yet. *)
LEMMA ForwardBegins ==
  ASSUME IInv, NEW r \in Requests, NEW u \in Users,
         NEW targets \in SUBSET Targets, Forward(r, u, targets)
  PROVE  IInv'
  <1> DEFINE k == [NoTask EXCEPT !.pc = "forward", !.user = u, !.mine = doc,
                                 !.left = targets]
  <1>1. DocumentOK /\ ReactionsOK /\ ShownOK /\ CopiesOK
    BY DEF IInv
  <1>2. /\ k \in Tasks /\ k.pc = "forward" /\ k.left = targets /\ k.at = Nil
        /\ k.done = {}
    BY <1>1, Types DEF NoTask, Tasks, Awaits
  <1>3. task' = [task EXCEPT ![r] = k]
    BY DEF Forward
  <1> HIDE DEF k
  <1>4. /\ task' \in [Requests -> Tasks] /\ task'[r] = k
        /\ \A x \in Requests \ {r} : task'[x] = task[x]
    BY <1>1, <1>2, <1>3, HandlerStep
  <1>5. /\ UNCHANGED <<doc, shown, copy, history, faults>>
        /\ ops' \in 0..MaxOps /\ task[r].pc = "idle"
        /\ \A c \in Targets : copy[c] = "none"
        /\ \A x \in Requests : task[x].pc # "forward"
    BY <1>1, Types, ConstantsAssumption DEF Forward, Idle, At
  <1>6. UNCHANGED <<raced, muddled, refused>>
    BY <1>5 DEF history
  <1>7. DocumentOK'
    <2>1. MineOK(task[r])'
      BY <1>2, <1>4 DEF MineOK
    <2> QED
      BY <1>1, <1>4, <1>5, <1>6, <2>1, DocumentSame, DocumentStep, Types
  <1>8. ReactionsOK'
    BY <1>1, <1>2, <1>4, <1>5, <1>6, ReactionsQuiet
  <1>9. ShownOK'
    <2>1. ~Announcing(r) /\ ~Announcing(r)'
      BY <1>2, <1>4, <1>5 DEF Announcing
    <2> QED
      BY <1>1, <1>4, <1>5, <1>6, <2>1, ShownQuiet
  <1>10. CopiesOK'
    <2>1. \A x \in Requests : ~Forwarding(task[x])
      <3>1. ASSUME NEW x \in Requests, task[x].pc = "emitCopies" PROVE FALSE
        <4>1. ForwardOK(task[x]) /\ task[x].done \subseteq Targets
          BY <1>1, Types DEF CopiesOK, Tasks
        <4> QED
          BY <1>5, <3>1, <4>1 DEF ForwardOK, Forwarding
      <3> QED
        BY <1>5, <3>1 DEF Forwarding
    <2>2. ForwardOK(task[r])' /\ Forwarding(task'[r])
      BY <1>2, <1>4, <1>5, ConstantsAssumption DEF ForwardOK, Forwarding
    <2> QED
      BY <1>1, <1>4, <1>5, <2>1, <2>2, CopiesAlone
  <1> QED
    BY <1>7, <1>8, <1>9, <1>10 DEF IInv

------------------------------------------------------------------------------
(* Saves and events.                                                       *)

(* What a handler that saved goes on with. *)
LEMMA SavedFacts ==
  ASSUME DocumentOK, NEW r \in Requests, NEW mine \in Documents,
         NEW pc \in {"emitEdit", "emitDelete", "emitReaction"}, Saved(r, mine, pc)
  PROVE  /\ task' \in [Requests -> Tasks]
         /\ \A x \in Requests \ {r} : task'[x] = task[x]
         /\ task'[r].pc = pc /\ task'[r].mine = mine /\ task'[r].done = task[r].done
         /\ MineOK(task[r])' /\ Announcing(r)' /\ ~Forwarding(task'[r])
  <1>1. pc \in Awaits /\ task[r] \in Tasks /\ task \in [Requests -> Tasks]
    BY Types DEF Awaits
  <1> DEFINE k == [task[r] EXCEPT !.mine = mine, !.pc = pc]
  <1>2. k \in Tasks /\ k.pc = pc /\ k.mine = mine /\ k.done = task[r].done
    BY <1>1 DEF Tasks
  <1>3. task' = [task EXCEPT ![r] = k]
    BY <1>1 DEF Saved
  <1> HIDE DEF k
  <1>4. /\ task' \in [Requests -> Tasks] /\ task'[r] = k
        /\ \A x \in Requests \ {r} : task'[x] = task[x]
    BY <1>2, <1>3, HandlerStep
  <1> QED
    BY <1>2, <1>4 DEF MineOK, Announcing, Forwarding

(* What is left of a handler that is done. *)
LEMMA FinishFacts ==
  ASSUME DocumentOK, NEW r \in Requests, Finish(r)
  PROVE  /\ task' \in [Requests -> Tasks] /\ task'[r] = NoTask
         /\ \A x \in Requests \ {r} : task'[x] = task[x]
         /\ task'[r].pc = "idle" /\ task'[r].done = {}
         /\ MineOK(task[r])' /\ ~Announcing(r)' /\ ~Forwarding(task'[r])
         /\ ForwardOK(task[r])'
  <1>1. /\ task' \in [Requests -> Tasks] /\ task'[r] = NoTask
        /\ \A x \in Requests \ {r} : task'[x] = task[x]
    BY NoTaskOK, HandlerStep DEF Finish
  <1> QED
    BY <1>1, NoTaskOK DEF MineOK, Announcing, Forwarding, ForwardOK

(* The message after a change of its content or its mark. *)
LEMMA ContentSaved ==
  ASSUME DocumentOK, NEW c \in {"sent", "edited", "empty"}, NEW b \in BOOLEAN,
         doc' = [doc EXCEPT !.content = c, !.deleted = b],
         doc.deleted => b, b => c # "sent", c = "empty" => b
  PROVE  /\ DocOK(doc') /\ Grows(doc, doc')
         /\ doc'.content = c /\ doc'.deleted = b /\ doc'.reactions = doc.reactions
         /\ doc'.hiddenFor = doc.hiddenFor
  <1>1. DocOK(doc) /\ doc \in Documents /\ doc.__v \in Nat
    BY Types DEF DocOK, Documents
  <1>2. /\ doc' \in Documents /\ doc'.content = c /\ doc'.deleted = b
        /\ doc'.reactions = doc.reactions /\ doc'.hiddenFor = doc.hiddenFor
        /\ doc'.__v = doc.__v
    BY <1>1 DEF Documents
  <1> QED
    BY <1>1, <1>2 DEF DocOK, Grows

(* An edit or a deletion is saved: what has to be shown of it. *)
LEMMA ContentStep ==
  ASSUME IInv, NEW r \in Requests, NEW mine \in Documents,
         NEW pc \in {"emitEdit", "emitDelete"}, Saved(r, mine, pc),
         Announcing(r), DocOK(doc'), Grows(doc, doc'),
         doc'.reactions = doc.reactions,
         TellsAll(task[r]) => TellsAll(task[r])',
         UNCHANGED <<shown, copy, history, ops, faults>>
  PROVE  IInv'
  <1>1. DocumentOK /\ ReactionsOK /\ ShownOK /\ CopiesOK
    BY DEF IInv
  <1>2. UNCHANGED <<raced, muddled, refused>>
    BY DEF history
  <1>3. /\ task' \in [Requests -> Tasks]
        /\ \A x \in Requests \ {r} : task'[x] = task[x]
        /\ task'[r].pc = pc /\ task'[r].done = task[r].done
        /\ MineOK(task[r])' /\ Announcing(r)' /\ ~Forwarding(task'[r])
    BY <1>1, SavedFacts
  <1>4. ~Forwarding(task[r]) /\ task[r].done = {}
    BY <1>1 DEF Announcing, Forwarding, CopiesOK, ForwardOK
  <1>5. DocumentOK'
    BY <1>1, <1>2, <1>3, DocumentStep, Types
  <1>6. ReactionsOK'
    BY <1>1, <1>2, <1>3, ReactionsQuiet
  <1>7. ShownOK'
    BY <1>1, <1>2, <1>3, ShownAlone
  <1>8. CopiesOK'
    BY <1>1, <1>2, <1>3, <1>4, CopiesQuiet
  <1> QED
    BY <1>5, <1>6, <1>7, <1>8 DEF IInv

(* An edit: the handler keeps its copy and the document, or changes the    *)
(* content of both.                                                        *)
LEMMA SaveEditFacts ==
  ASSUME DocumentOK, NEW r \in Requests, SaveEdit(r)
  PROVE  /\ task[r].pc = "saveEdit" /\ task[r].mine \in Documents
         /\ \E mine \in Documents :
              /\ Saved(r, mine, "emitEdit")
              /\ mine.deleted = task[r].mine.deleted
              /\ mine.reactions = task[r].mine.reactions
              /\ \/ doc' = doc /\ mine.content = task[r].mine.content
                 \/ /\ doc' = [doc EXCEPT !.content = "edited"]
                    /\ mine.content = "edited"
  <1> DEFINE mine == [task[r].mine EXCEPT !.content = "edited"]
  <1>1. task[r] \in Tasks /\ task[r].pc = "saveEdit" /\ task[r].mine \in Documents
    BY Types DEF SaveEdit, At, Tasks
  <1>2. /\ mine \in Documents /\ mine.content = "edited"
        /\ mine.deleted = task[r].mine.deleted
        /\ mine.reactions = task[r].mine.reactions
    BY <1>1 DEF Documents
  <1>3. \/ doc' = doc /\ Saved(r, task[r].mine, "emitEdit")
        \/ doc' = [doc EXCEPT !.content = "edited"] /\ Saved(r, mine, "emitEdit")
    BY DEF SaveEdit
  <1> HIDE DEF mine
  <1> QED
    BY <1>1, <1>2, <1>3

(* An edit is saved, on whatever became of the message. *)
LEMMA SaveEditStep ==
  ASSUME IInv, NEW r \in Requests, SaveEdit(r)
  PROVE  IInv'
  <1> DEFINE m == task[r].mine
  <1>1. DocumentOK /\ task[r].pc = "saveEdit" /\ m \in Documents
    BY SaveEditFacts DEF IInv
  <1>2. PICK mine \in Documents :
          /\ Saved(r, mine, "emitEdit")
          /\ mine.deleted = m.deleted /\ mine.reactions = m.reactions
          /\ \/ doc' = doc /\ mine.content = m.content
             \/ doc' = [doc EXCEPT !.content = "edited"] /\ mine.content = "edited"
    BY <1>1, SaveEditFacts
  <1>3. doc \in Documents /\ doc.content \in {"sent", "edited", "empty"}
                          /\ doc.deleted \in BOOLEAN
    BY <1>1, Types DEF Documents
  <1>4. /\ DocOK(doc') /\ Grows(doc, doc') /\ doc'.deleted = doc.deleted
        /\ doc'.reactions = doc.reactions
        /\ \/ doc'.content = doc.content /\ mine.content = m.content
           \/ doc'.content = "edited" /\ mine.content = "edited"
    <2>1. CASE doc' = doc /\ mine.content = m.content
      BY <1>1, <2>1, DocumentSame
    <2>2. CASE doc' = [doc EXCEPT !.content = "edited"] /\ mine.content = "edited"
      <3>1. doc' = [doc EXCEPT !.content = "edited", !.deleted = doc.deleted]
        BY <1>3, <2>2 DEF Documents
      <3> QED
        BY <1>1, <1>3, <2>2, <3>1, ContentSaved
    <2> QED
      BY <1>2, <2>1, <2>2
  <1>5. task'[r].pc = "emitEdit" /\ task'[r].mine = mine
    BY <1>1, <1>2, SavedFacts
  <1>6. TellsAll(task[r]) => TellsAll(task[r])'
    <2> SUFFICES ASSUME Said(m) = Said(doc) PROVE TellsAll(task[r])'
      BY <1>1 DEF TellsAll
    <2>1. /\ m.content = doc.content /\ m.deleted = doc.deleted
          /\ m.reactions = doc.reactions
      BY SaidFields
    <2>2. Said(mine) = Said(doc')
      BY <1>2, <1>4, <2>1, SaidFields
    <2> QED
      BY <1>5, <2>2 DEF TellsAll
  <1>7. Announcing(r) /\ UNCHANGED <<shown, copy, history, ops, faults>>
    BY <1>1 DEF Announcing, SaveEdit
  <1> QED
    BY <1>2, <1>4, <1>6, <1>7, ContentStep

(* A deletion is saved: whoever read an empty content read it deleted. *)
LEMMA SaveDeleteStep ==
  ASSUME IInv, NEW r \in Requests, SaveDelete(r)
  PROVE  IInv'
  <1> DEFINE m == task[r].mine
             mine == [task[r].mine EXCEPT !.deleted = TRUE, !.content = "empty"]
             c == IF m.content = "empty" THEN doc.content ELSE "empty"
  <1>1. DocumentOK /\ task[r] \in Tasks /\ task[r].pc = "saveDelete"
    BY Types DEF IInv, SaveDelete, At
  <1>2. m \in Documents /\ mine \in Documents
    BY <1>1 DEF Tasks, Documents
  <1>3. doc \in Documents /\ doc.content \in {"sent", "edited", "empty"}
                          /\ doc.deleted \in BOOLEAN
    BY <1>1, Types DEF Documents
  <1>4. c \in {"sent", "edited", "empty"} /\ c # "sent"
    <2>1. m.content = "empty" => doc.deleted
      BY <1>1 DEF DocumentOK, MineOK
    <2>2. doc.deleted => doc.content # "sent"
      BY <1>1 DEF DocumentOK, TypeOK
    <2> QED
      BY <1>3, <2>1, <2>2
  <1>5. doc' = [doc EXCEPT !.content = c, !.deleted = TRUE]
    BY <1>3 DEF SaveDelete, Documents
  <1> HIDE DEF c
  <1>6. /\ DocOK(doc') /\ Grows(doc, doc') /\ doc'.deleted = TRUE
        /\ doc'.reactions = doc.reactions /\ doc'.content = c
    BY <1>1, <1>4, <1>5, ContentSaved
  <1>7. Saved(r, mine, "emitDelete")
    BY DEF SaveDelete
  <1> HIDE DEF mine
  <1>8. task'[r].pc = "emitDelete"
    BY <1>1, <1>2, <1>7, SavedFacts
  <1>9. TellsAll(task[r]) => TellsAll(task[r])'
    <2> SUFFICES ASSUME Said(m) = Said(doc), shown = Said(doc)
                 PROVE  TellsAll(task[r])'
      BY <1>1 DEF TellsAll
    <2>1. m.content = doc.content
      BY SaidFields
    <2>2. shown'.reactions = doc'.reactions
      BY <1>3, <1>6, SaidType DEF SaveDelete
    <2> QED
      BY <1>6, <1>8, <2>1, <2>2 DEF TellsAll, c
  <1>10. Announcing(r) /\ UNCHANGED <<shown, copy, history, ops, faults>>
    BY <1>1 DEF Announcing, SaveDelete
  <1> QED
    BY <1>2, <1>6, <1>7, <1>9, <1>10, ContentStep

(* An event: what has to be shown of it. *)
LEMMA EmitStep ==
  ASSUME IInv, NEW r \in Requests, Announcing(r), Finish(r),
         shown' \in Events, TellsAll(task[r]) => shown' = Said(doc),
         UNCHANGED <<doc, copy, history, ops, faults>>
  PROVE  IInv'
  <1>1. DocumentOK /\ ReactionsOK /\ ShownOK /\ CopiesOK
    BY DEF IInv
  <1>2. UNCHANGED <<raced, muddled, refused>>
    BY DEF history
  <1>3. /\ task' \in [Requests -> Tasks]
        /\ \A x \in Requests \ {r} : task'[x] = task[x]
        /\ task'[r].pc = "idle" /\ task'[r].done = {}
        /\ MineOK(task[r])' /\ ~Announcing(r)' /\ ~Forwarding(task'[r])
    BY <1>1, FinishFacts
  <1>4. ~Forwarding(task[r])
    BY DEF Announcing, Forwarding
  <1>5. DocumentOK'
    BY <1>1, <1>2, <1>3, DocumentSame, DocumentStep, Types
  <1>6. ReactionsOK'
    BY <1>1, <1>2, <1>3, ReactionsQuiet
  <1>7. ShownOK'
    BY <1>1, <1>2, <1>3, ShownAlone
  <1>8. CopiesOK'
    BY <1>1, <1>2, <1>3, <1>4, CopiesQuiet
  <1> QED
    BY <1>5, <1>6, <1>7, <1>8 DEF IInv

(* Events are equal if they agree in their fields. *)
LEMMA SameEvent ==
  ASSUME NEW a \in Events, NEW b \in Events, a.content = b.content,
         a.deleted = b.deleted, a.reactions = b.reactions
  PROVE  a = b
  BY DEF Events

(* The events. *)
LEMMA EmitSteps ==
  ASSUME IInv, NEW r \in Requests,
         EmitEdit(r) \/ EmitDelete(r) \/ EmitReaction(r)
  PROVE  IInv'
  <1>1. /\ DocumentOK /\ task[r] \in Tasks /\ shown \in Events /\ doc \in Documents
        /\ Said(doc) \in Events /\ Said(doc).content = doc.content
        /\ Said(doc).deleted = doc.deleted /\ Said(doc).reactions = doc.reactions
    BY Types, SaidType DEF IInv
  <1>2. task[r].mine \in Documents /\ task[r].mine.reactions \in SUBSET Reactions
    BY <1>1 DEF Tasks, Documents
  <1>3. CASE EmitEdit(r)
    <2>1. shown' = Said(task[r].mine) /\ task[r].pc = "emitEdit"
      BY <1>3 DEF EmitEdit, At
    <2>2. shown' \in Events /\ Announcing(r)
      BY <1>2, <2>1, SaidType DEF Announcing
    <2>3. TellsAll(task[r]) => shown' = Said(doc)
      BY <2>1 DEF TellsAll
    <2> QED
      BY <1>3, <2>2, <2>3, EmitStep DEF EmitEdit
  <1>4. CASE EmitDelete(r)
    <2>1. /\ shown' = [shown EXCEPT !.deleted = TRUE, !.content = "empty"]
          /\ task[r].pc = "emitDelete"
      BY <1>4 DEF EmitDelete, At
    <2>2. /\ shown' \in Events /\ shown'.content = "empty" /\ shown'.deleted = TRUE
          /\ shown'.reactions = shown.reactions
      BY <1>1, <2>1 DEF Events
    <2>3. TellsAll(task[r]) => shown' = Said(doc)
      <3> SUFFICES ASSUME TellsAll(task[r]) PROVE shown' = Said(doc)
        OBVIOUS
      <3>1. doc.deleted = TRUE
        BY <1>1, <2>1 DEF TellsAll, Documents
      <3>2. doc.content = "empty" /\ shown.reactions = doc.reactions
        BY <2>1 DEF TellsAll
      <3>3. /\ shown'.content = Said(doc).content /\ shown'.deleted = Said(doc).deleted
            /\ shown'.reactions = Said(doc).reactions
        BY <1>1, <2>2, <3>1, <3>2
      <3> QED
        BY <1>1, <2>2, <3>3, SameEvent
    <2>4. Announcing(r)
      BY <2>1 DEF Announcing
    <2> QED
      BY <1>4, <2>2, <2>3, <2>4, EmitStep DEF EmitDelete
  <1>5. CASE EmitReaction(r)
    <2>1. /\ shown' = [shown EXCEPT !.reactions = task[r].mine.reactions]
          /\ task[r].pc = "emitReaction"
      BY <1>5 DEF EmitReaction, At
    <2>2. /\ shown' \in Events /\ shown'.content = shown.content
          /\ shown'.deleted = shown.deleted
          /\ shown'.reactions = task[r].mine.reactions
      BY <1>1, <1>2, <2>1 DEF Events
    <2>3. TellsAll(task[r]) => shown' = Said(doc)
      <3> SUFFICES ASSUME TellsAll(task[r]) PROVE shown' = Said(doc)
        OBVIOUS
      <3>1. /\ task[r].mine.reactions = doc.reactions
            /\ shown.content = doc.content /\ shown.deleted = doc.deleted
        BY <2>1 DEF TellsAll
      <3>2. /\ shown'.content = Said(doc).content /\ shown'.deleted = Said(doc).deleted
            /\ shown'.reactions = Said(doc).reactions
        BY <1>1, <2>2, <3>1
      <3> QED
        BY <1>1, <2>2, <3>2, SameEvent
    <2>4. Announcing(r)
      BY <2>1 DEF Announcing
    <2> QED
      BY <1>5, <2>2, <2>3, <2>4, EmitStep DEF EmitReaction
  <1> QED
    BY <1>3, <1>4, <1>5

(* A deletion for oneself: a new version of the same reactions. *)
LEMMA SaveHiddenStep ==
  ASSUME IInv, NEW r \in Requests, SaveHidden(r)
  PROVE  IInv'
  <1>1. DocumentOK /\ ReactionsOK /\ ShownOK /\ CopiesOK
    BY DEF IInv
  <1>2. /\ task[r].pc = "saveHidden" /\ MineOK(task[r]) /\ doc \in Documents
        /\ DocOK(doc) /\ UNCHANGED <<shown, copy, history, ops, faults>>
    BY <1>1, Types DEF SaveHidden, At, DocumentOK
  <1>3. UNCHANGED <<raced, muddled, refused>>
    BY <1>2 DEF history
  <1>4. /\ task' \in [Requests -> Tasks]
        /\ \A x \in Requests \ {r} : task'[x] = task[x]
        /\ task'[r].pc = "idle" /\ task'[r].done = {}
        /\ MineOK(task[r])' /\ ~Announcing(r)' /\ ~Forwarding(task'[r])
    BY <1>1, FinishFacts DEF SaveHidden
  <1>5. /\ doc' \in Documents /\ doc'.__v = doc.__v + 1 /\ doc.__v \in Nat
        /\ doc'.content = doc.content /\ doc'.deleted = doc.deleted
        /\ doc'.reactions = doc.reactions /\ \A a \in doc.reactions : a.id \in Nat
    <2>1. task[r].user \in Users
      BY <1>2 DEF MineOK
    <2>2. /\ doc.__v \in Nat /\ doc.__v + 1 \in Nat
          /\ doc.hiddenFor \cup {task[r].user} \in SUBSET Users
          /\ \A a \in doc.reactions : a.id \in Nat
      BY <1>2, <2>1 DEF Documents, Reactions
    <2>3. doc' = [doc EXCEPT !.hiddenFor = doc.hiddenFor \cup {task[r].user},
                             !.__v = doc.__v + 1]
      BY DEF SaveHidden
    <2> QED
      BY <1>2, <2>2, <2>3 DEF Documents
  <1>6. DocOK(doc') /\ Grows(doc, doc')
    BY <1>2, <1>5 DEF DocOK, Grows
  <1>7. DocumentOK'
    BY <1>1, <1>2, <1>3, <1>4, <1>6, DocumentStep, Types
  <1>8. ReactionsOK'
    BY <1>1, <1>3, <1>4, <1>5, ReactionsQuiet
  <1>9. ShownOK'
    <2>1. ~Announcing(r)
      BY <1>2 DEF Announcing
    <2> QED
      BY <1>1, <1>2, <1>3, <1>4, <1>5, <2>1, ShownQuiet
  <1>10. CopiesOK'
    <2>1. ~Forwarding(task[r])
      BY <1>2 DEF Forwarding
    <2> QED
      BY <1>1, <1>2, <1>3, <1>4, <2>1, CopiesQuiet
  <1> QED
    BY <1>7, <1>8, <1>9, <1>10 DEF IInv

------------------------------------------------------------------------------
(* A reaction is saved.                                                    *)

(* What the handler of t does to the reactions: gone and new ones, all its *)
(* user's.  If some are gone, the array that replaces the stored one was   *)
(* made from it.                                                           *)
Change(t, gone, new) ==
    /\ gone = Existing(t.mine, t.user)
    /\ gone # {} => t.mine.reactions = doc.reactions
    /\ new = Pushed(t, gone)
    /\ new \in {{}, {[id |-> doc.__v + 1, user |-> t.user, emoji |-> t.emoji]}}
    /\ doc' = [doc EXCEPT !.reactions = (doc.reactions \ gone) \cup new,
                          !.__v = doc.__v + 1]

(* Saving a reaction is such a change, or is refused. *)
LEMMA SaveReactionFacts ==
  ASSUME DocumentOK, NEW r \in Requests, SaveReaction(r)
  PROVE  /\ task[r] \in Tasks /\ task[r].pc = "saveReaction"
         /\ task[r].user \in Users /\ task[r].emoji \in Emojis
         /\ UNCHANGED <<shown, copy, history, ops, faults>>
         /\ \/ doc' = doc /\ Finish(r)
            \/ \E gone, new :
                 LET mine == [task[r].mine EXCEPT
                                !.reactions = (task[r].mine.reactions \ gone) \cup new]
                 IN  /\ Change(task[r], gone, new)
                     /\ Saved(r, mine, "emitReaction")
  <1> DEFINE t == task[r]
             gone == Existing(t.mine, t.user)
             new == Pushed(t, gone)
             mine == [t.mine EXCEPT !.reactions = (t.mine.reactions \ gone) \cup new]
  <1>1. /\ t \in Tasks /\ t.pc = "saveReaction" /\ t.user \in Users
        /\ t.emoji \in Emojis /\ MineOK(t) /\ doc \in Documents
        /\ UNCHANGED <<shown, copy, history, ops, faults>>
    BY Types DEF SaveReaction, At, DocumentOK, MineOK
  <1>2. new \in {{}, {[id |-> doc.__v + 1, user |-> t.user, emoji |-> t.emoji]}}
    BY DEF Pushed
  <1>3. CASE gone = {}
    <2>1. (t.mine.reactions \ gone) \cup new = t.mine.reactions \cup new
      BY <1>3
    <2>2. (doc.reactions \ gone) \cup new = doc.reactions \cup new
      BY <1>3
    <2>3. PushReaction(r)
      BY <1>3 DEF SaveReaction
    <2>4. new = Pushed(t, {})
      BY <1>3
    <2>5. /\ doc' = [doc EXCEPT !.reactions = doc.reactions \cup new,
                                !.__v = doc.__v + 1]
          /\ Saved(r, [t.mine EXCEPT !.reactions = t.mine.reactions \cup new],
                   "emitReaction")
      BY <2>3, <2>4 DEF PushReaction
    <2>6. Change(t, gone, new)
      BY <1>2, <1>3, <2>2, <2>5 DEF Change
    <2> HIDE DEF gone, new
    <2> QED
      BY <1>1, <2>1, <2>5, <2>6
  <1>4. CASE gone # {}
    <2>1. ReplaceReactions(r, gone)
      BY <1>4 DEF SaveReaction
    <2>2. CASE doc.__v # t.mine.__v
      BY <1>1, <2>1, <2>2 DEF ReplaceReactions
    <2>3. CASE doc.__v = t.mine.__v
      <3>1. t.mine.reactions = doc.reactions
        BY <1>1, <2>3 DEF MineOK
      <3>2. /\ doc' = [doc EXCEPT !.reactions = (t.mine.reactions \ gone) \cup new,
                                  !.__v = doc.__v + 1]
            /\ Saved(r, mine, "emitReaction")
        BY <2>1, <2>3 DEF ReplaceReactions
      <3>3. Change(t, gone, new)
        BY <1>2, <3>1, <3>2 DEF Change
      <3> HIDE DEF gone, new
      <3> QED
        BY <1>1, <3>2, <3>3
    <2> QED
      BY <2>2, <2>3
  <1> QED
    BY <1>3, <1>4

(* The document with the change: its reactions are told apart by their     *)
(* ids, and those of the others are what they were.                        *)
LEMMA ChangeFacts ==
  ASSUME DocumentOK, NEW t \in Tasks, t.user \in Users, t.emoji \in Emojis,
         NEW gone, NEW new, Change(t, gone, new)
  PROVE  /\ DocOK(doc') /\ Grows(doc, doc')
         /\ doc'.content = doc.content /\ doc'.deleted = doc.deleted
         /\ doc'.hiddenFor = doc.hiddenFor
         /\ doc'.reactions = (doc.reactions \ gone) \cup new
         /\ new \in SUBSET Reactions /\ \A a \in new : a.user = t.user
         /\ \A a \in gone : a.user = t.user
         /\ \A a, b \in new : a = b
  <1>1. /\ doc \in Documents /\ DocOK(doc) /\ doc.__v \in Nat
        /\ doc.reactions \in SUBSET Reactions
    BY Types DEF Documents
  <1> DEFINE n == [id |-> doc.__v + 1, user |-> t.user, emoji |-> t.emoji]
  <1>2. n \in Reactions /\ n.id = doc.__v + 1 /\ n.user = t.user
    BY <1>1 DEF Reactions
  <1> HIDE DEF n
  <1>3. new = {} \/ new = {n}
    BY DEF Change, n
  <1>4. /\ new \in SUBSET Reactions /\ \A a \in new : a.user = t.user
        /\ \A a, b \in new : a = b /\ a.id = doc.__v + 1
    BY <1>2, <1>3
  <1>5. \A a \in gone : a.user = t.user
    BY DEF Change, Existing
  <1>6. /\ doc' \in Documents /\ doc'.__v = doc.__v + 1
        /\ doc'.content = doc.content /\ doc'.deleted = doc.deleted
        /\ doc'.hiddenFor = doc.hiddenFor
        /\ doc'.reactions = (doc.reactions \ gone) \cup new
    <2>1. /\ (doc.reactions \ gone) \cup new \in SUBSET Reactions
          /\ doc.__v + 1 \in Nat
      BY <1>1, <1>4
    <2>2. doc' = [doc EXCEPT !.reactions = (doc.reactions \ gone) \cup new,
                             !.__v = doc.__v + 1]
      BY DEF Change
    <2> QED
      BY <1>1, <2>1, <2>2 DEF Documents
  <1>7. \A a \in doc.reactions : a.id \in Nat /\ a.id <= doc.__v
    BY <1>1 DEF DocOK, Reactions
  <1>8. \A a, b \in doc'.reactions : a.id = b.id => a = b
    <2>1. \A a, b \in doc.reactions : a.id = b.id => a = b
      BY <1>1 DEF DocOK
    <2>2. \A a \in doc.reactions : a.id # doc.__v + 1
      BY <1>1, <1>7
    <2> QED
      BY <1>4, <1>6, <2>1, <2>2
  <1>9. \A a \in doc'.reactions : a.id <= doc'.__v
    BY <1>1, <1>4, <1>6, <1>7
  <1>10. DocOK(doc')
    BY <1>1, <1>6, <1>8, <1>9 DEF DocOK
  <1>11. Grows(doc, doc')
    BY <1>1, <1>6 DEF Grows
  <1> QED
    BY <1>4, <1>5, <1>6, <1>10, <1>11

(* A user who sees his own reaction replaces it, and has at most one.      *)
LEMMA ReactionsChanged ==
  ASSUME DocumentOK, ReactionsOK, NEW r \in Requests, NEW gone, NEW new,
         task[r] \in Tasks, task[r].pc = "saveReaction",
         Change(task[r], gone, new), raced' = raced,
         doc'.reactions = (doc.reactions \ gone) \cup new,
         \A a \in new : a.user = task[r].user,
         \A a \in gone : a.user = task[r].user,
         \A a, b \in new : a = b,
         \A x \in Requests \ {r} : task'[x] = task[x],
         task'[r].pc # "saveReaction"
  PROVE  ReactionsOK'
  <1> SUFFICES ASSUME NEW v \in Users \ raced
               PROVE  /\ \A a, b \in ReactionsOf(v)' : a = b
                      /\ \A x, y \in Requests :
                           Reacting(x, v)' /\ Reacting(y, v)' => x = y
                      /\ \A x \in Requests : Reacting(x, v)' =>
                           {a \in task'[x].mine.reactions : a.user = v}
                             = ReactionsOf(v)'
    BY DEF ReactionsOK
  <1>1. /\ \A a, b \in ReactionsOf(v) : a = b
        /\ \A x, y \in Requests : Reacting(x, v) /\ Reacting(y, v) => x = y
        /\ \A x \in Requests : Reacting(x, v) =>
             {a \in task[x].mine.reactions : a.user = v} = ReactionsOf(v)
    BY DEF ReactionsOK
  <1>2. \A x \in Requests : Reacting(x, v)' => x # r /\ Reacting(x, v)
    BY DEF Reacting, At
  <1>3. Reacting(r, v) <=> task[r].user = v
    BY DEF Reacting, At
  <1>4. CASE task[r].user # v
    <2>1. ReactionsOf(v)' = ReactionsOf(v)
      BY <1>4 DEF ReactionsOf
    <2> QED
      BY <1>1, <1>2, <2>1
  <1>5. CASE task[r].user = v
    <2>1. {a \in task[r].mine.reactions : a.user = v} = ReactionsOf(v)
      BY <1>1, <1>3, <1>5
    <2>2. ReactionsOf(v) \subseteq gone
      <3> SUFFICES ASSUME NEW a \in ReactionsOf(v) PROVE a \in gone
        OBVIOUS
      <3>1. a \in task[r].mine.reactions /\ a.user = v
        BY <2>1
      <3>2. a.id \in Nat
        BY Types DEF ReactionsOf, Documents, Reactions
      <3>3. \A b \in task[r].mine.reactions : b.user = v => a.id <= b.id
        BY <1>1, <2>1, <3>2
      <3> QED
        BY <1>5, <3>1, <3>3 DEF Change, Existing
    <2>3. ReactionsOf(v)' \subseteq new
      BY <2>2 DEF ReactionsOf
    <2>4. \A x \in Requests : ~Reacting(x, v)'
      BY <1>1, <1>2, <1>3, <1>5
    <2> QED
      BY <2>3, <2>4
  <1> QED
    BY <1>4, <1>5

(* A reaction is saved, or refused since the version read is gone. *)
LEMMA SaveReactionStep ==
  ASSUME IInv, NEW r \in Requests, SaveReaction(r)
  PROVE  IInv'
  <1>1. DocumentOK /\ ReactionsOK /\ ShownOK /\ CopiesOK
    BY DEF IInv
  <1>2. /\ task[r] \in Tasks /\ task[r].pc = "saveReaction"
        /\ task[r].user \in Users /\ task[r].emoji \in Emojis
        /\ UNCHANGED <<shown, copy, history, ops, faults>>
    BY <1>1, SaveReactionFacts
  <1>3. UNCHANGED <<raced, muddled, refused>> /\ Announcing(r) /\ ~Forwarding(task[r])
    BY <1>2 DEF history, Announcing, Forwarding
  <1>4. task[r].done = {}
    BY <1>1, <1>3 DEF CopiesOK, ForwardOK
  <1>5. CASE doc' = doc /\ Finish(r)
    <2>1. TellsAll(task[r]) => shown' = Said(doc)
      BY <1>2 DEF TellsAll
    <2>2. shown' \in Events
      BY <1>1, <1>2, Types
    <2> QED
      BY <1>2, <1>3, <1>5, <2>1, <2>2, EmitStep
  <1>6. ASSUME NEW gone, NEW new, NEW mine,
               mine = [task[r].mine EXCEPT
                         !.reactions = (task[r].mine.reactions \ gone) \cup new],
               Change(task[r], gone, new),
               Saved(r, mine, "emitReaction")
        PROVE  IInv'
    <2>1. /\ DocOK(doc') /\ Grows(doc, doc')
          /\ doc'.content = doc.content /\ doc'.deleted = doc.deleted
          /\ doc'.reactions = (doc.reactions \ gone) \cup new
          /\ new \in SUBSET Reactions /\ \A a \in new : a.user = task[r].user
          /\ \A a \in gone : a.user = task[r].user
          /\ \A a, b \in new : a = b
      <3>1. Change(task[r], gone, new)
        BY <1>6
      <3> QED
        BY <1>1, <1>2, <3>1, ChangeFacts
    <2>2. /\ mine \in Documents
          /\ mine.reactions = (task[r].mine.reactions \ gone) \cup new
      BY <1>2, <1>6, <2>1 DEF Tasks, Documents
    <2>3. /\ task' \in [Requests -> Tasks]
          /\ \A x \in Requests \ {r} : task'[x] = task[x]
          /\ task'[r].pc = "emitReaction" /\ task'[r].mine = mine
          /\ task'[r].done = task[r].done
          /\ MineOK(task[r])' /\ Announcing(r)' /\ ~Forwarding(task'[r])
      BY <1>1, <1>6, <2>2, SavedFacts
    <2>4. DocumentOK'
      BY <1>1, <1>2, <1>3, <2>1, <2>3, DocumentStep, Types
    <2>5. ReactionsOK'
      <3>1. Change(task[r], gone, new) /\ raced' = raced
        BY <1>3, <1>6
      <3>2. task'[r].pc # "saveReaction"
        BY <2>3
      <3> QED
        BY <1>1, <1>2, <2>1, <2>3, <3>1, <3>2, ReactionsChanged
    <2>6. ShownOK'
      <3> SUFFICES ASSUME TellsAll(task[r]) PROVE TellsAll(task[r])'
        BY <1>1, <1>2, <1>3, <2>3, ShownAlone
      <3>1. shown = Said(doc) /\ Said(task[r].mine) = Said(doc)
        BY <1>2 DEF TellsAll
      <3>2. task[r].mine.reactions = doc.reactions
        BY <3>1, SaidFields
      <3>3. shown.content = doc.content /\ shown.deleted = doc.deleted
        BY <1>1, <3>1, Types, SaidType
      <3> QED
        BY <1>2, <2>1, <2>2, <2>3, <3>2, <3>3 DEF TellsAll
    <2>7. CopiesOK'
      BY <1>1, <1>2, <1>3, <1>4, <2>3, CopiesQuiet
    <2> QED
      BY <2>4, <2>5, <2>6, <2>7 DEF IInv
  <1> QED
    BY <1>1, <1>5, <1>6, SaveReactionFacts

------------------------------------------------------------------------------
(* Forwarding.                                                             *)

(* A step of the forward: what has to be shown of it. *)
LEMMA ForwardStep ==
  ASSUME IInv, NEW r \in Requests, Forwarding(task[r]),
         task' \in [Requests -> Tasks],
         \A x \in Requests \ {r} : task'[x] = task[x],
         task'[r].pc \in {"forward", "emitCopies", "idle"},
         copy' \in [Targets -> Stages], refused' \in SUBSET Targets,
         ForwardOK(task[r])',
         ~Forwarding(task'[r]) /\ faults = 0 =>
           \A c \in Targets : copy'[c] \in {"none", "emitted"} \/ c \in refused',
         UNCHANGED <<doc, shown, raced, muddled, ops, faults>>
  PROVE  IInv'
  <1>1. DocumentOK /\ ReactionsOK /\ ShownOK /\ CopiesOK
    BY DEF IInv
  <1>2. MineOK(task[r])'
    BY DEF MineOK
  <1>3. ~Announcing(r) /\ ~Announcing(r)'
    BY DEF Announcing, Forwarding
  <1>4. DocumentOK'
    BY <1>1, <1>2, DocumentSame, DocumentStep, Types
  <1>5. ReactionsOK'
    BY <1>1, ReactionsQuiet
  <1>6. ShownOK'
    BY <1>1, <1>3, ShownQuiet
  <1>7. \A x \in Requests \ {r} : ~Forwarding(task[x])
    BY <1>1 DEF CopiesOK
  <1>8. CopiesOK'
    BY <1>1, <1>7, CopiesAlone
  <1> QED
    BY <1>4, <1>5, <1>6, <1>8 DEF IInv

(* What the forward in hand knows of its copies. *)
LEMMA ForwardFacts ==
  ASSUME IInv, NEW r \in Requests, Forwarding(task[r])
  PROVE  /\ DocumentOK /\ task[r] \in Tasks /\ Nil \notin Targets
         /\ copy \in [Targets -> Stages] /\ refused \in SUBSET Targets
         /\ task[r].done \in SUBSET Targets /\ task[r].left \in SUBSET Targets
         /\ task[r].at \in Targets \cup {Nil}
         /\ task[r].at \notin task[r].done
         /\ task[r].left \cap (task[r].done \cup {task[r].at}) = {}
         /\ \A c \in task[r].done : copy[c] = "counted"
         /\ task[r].at # Nil => copy[task[r].at] \in {"created", "receipts", "touched"}
         /\ \A c \in Targets \ (task[r].done \cup {task[r].at}) : copy[c] = "none"
         /\ task[r].pc = "emitCopies" => task[r].at = Nil /\ task[r].done # {}
  <1>1. DocumentOK /\ CopiesOK /\ Nil \notin Targets
    BY ConstantsAssumption DEF IInv
  <1>2. /\ task[r] \in Tasks /\ copy \in [Targets -> Stages]
        /\ refused \in SUBSET Targets
    BY <1>1, Types
  <1>3. /\ task[r].done \in SUBSET Targets /\ task[r].left \in SUBSET Targets
        /\ task[r].at \in Targets \cup {Nil}
    BY <1>2 DEF Tasks
  <1>4. ForwardOK(task[r])
    BY <1>1 DEF CopiesOK
  <1> QED
    BY <1>1, <1>2, <1>3, <1>4 DEF ForwardOK

(* The next target is taken, or refused. *)
LEMMA NextTargetStep ==
  ASSUME IInv, NEW r \in Requests, NEW c \in Targets, NextTarget(r, c)
  PROVE  IInv'
  <1> DEFINE t == task[r]
             k == [task[r] EXCEPT !.at = c, !.left = task[r].left \ {c}]
  <1>1. /\ t.pc = "forward" /\ t.at = Nil /\ c \in t.left /\ Forwarding(t)
        /\ UNCHANGED <<doc, shown, raced, muddled, ops, faults>>
    BY DEF NextTarget, At, Forwarding
  <1>2. /\ DocumentOK /\ t \in Tasks /\ Nil \notin Targets
        /\ copy \in [Targets -> Stages] /\ refused \in SUBSET Targets
        /\ t.done \in SUBSET Targets /\ t.left \in SUBSET Targets
        /\ t.left \cap t.done = {}
        /\ \A d \in t.done : copy[d] = "counted"
        /\ \A d \in Targets \ t.done : copy[d] = "none"
    BY <1>1, ForwardFacts
  <1>3. CASE /\ copy' = [copy EXCEPT ![c] = "created"]
             /\ task' = [task EXCEPT ![r].at = c, ![r].left = @ \ {c}]
             /\ UNCHANGED refused
    <2>1. /\ k \in Tasks /\ k.pc = "forward" /\ k.at = c /\ k.left = t.left \ {c}
          /\ k.done = t.done
      BY <1>1, <1>2 DEF Tasks
    <2>2. task' = [task EXCEPT ![r] = k]
      BY <1>2, <1>3, Types
    <2> HIDE DEF k
    <2>3. /\ task' \in [Requests -> Tasks] /\ task'[r] = k
          /\ \A x \in Requests \ {r} : task'[x] = task[x]
      BY <1>2, <2>1, <2>2, HandlerStep
    <2>4. /\ copy' \in [Targets -> Stages] /\ copy'[c] = "created"
          /\ \A d \in Targets \ {c} : copy'[d] = copy[d]
      BY <1>2, <1>3 DEF Stages
    <2>5. c \notin t.done /\ k.left \cap (t.done \cup {c}) = {}
      BY <1>1, <1>2, <2>1
    <2>6. /\ \A d \in t.done : copy'[d] = "counted"
          /\ \A d \in Targets \ (t.done \cup {c}) : copy'[d] = "none"
      BY <1>2, <2>4, <2>5
    <2>7. ForwardOK(task[r])' /\ Forwarding(task'[r])
      BY <2>1, <2>3, <2>4, <2>5, <2>6 DEF ForwardOK, Forwarding
    <2> QED
      BY <1>1, <1>2, <1>3, <2>1, <2>3, <2>4, <2>7, ForwardStep
  <1>4. CASE /\ refused' = refused \cup t.done
             /\ Finish(r)
             /\ UNCHANGED copy
    <2>1. /\ task' \in [Requests -> Tasks] /\ task'[r].pc = "idle"
          /\ \A x \in Requests \ {r} : task'[x] = task[x]
          /\ ForwardOK(task[r])' /\ ~Forwarding(task'[r])
      BY <1>2, <1>4, FinishFacts
    <2>2. \A d \in Targets : copy'[d] \in {"none", "emitted"} \/ d \in refused'
      BY <1>2, <1>4
    <2>3. refused' \in SUBSET Targets /\ copy' \in [Targets -> Stages]
      BY <1>2, <1>4
    <2> QED
      BY <1>1, <2>1, <2>2, <2>3, ForwardStep
  <1> QED
    BY <1>3, <1>4 DEF NextTarget

(* The copy in hand takes its next stage. *)
LEMMA CopyStepStep ==
  ASSUME IInv, NEW r \in Requests, CopyStep(r)
  PROVE  IInv'
  <1> DEFINE t == task[r]
             c == task[r].at
             done == copy[c] = "touched"
             k == [task[r] EXCEPT
                     !.at = IF done THEN Nil ELSE c,
                     !.done = IF done THEN t.done \cup {c} ELSE t.done,
                     !.pc = IF done /\ t.left = {} THEN "emitCopies" ELSE "forward"]
  <1>1. /\ t.pc = "forward" /\ c # Nil /\ Forwarding(t)
        /\ UNCHANGED <<doc, shown, raced, muddled, refused, ops, faults>>
    BY DEF CopyStep, At, Forwarding, history
  <1>2. /\ DocumentOK /\ t \in Tasks /\ Nil \notin Targets /\ c \in Targets
        /\ copy \in [Targets -> Stages] /\ refused \in SUBSET Targets
        /\ t.done \in SUBSET Targets /\ t.left \in SUBSET Targets
        /\ c \notin t.done /\ t.left \cap (t.done \cup {c}) = {}
        /\ \A d \in t.done : copy[d] = "counted"
        /\ copy[c] \in {"created", "receipts", "touched"}
        /\ \A d \in Targets \ (t.done \cup {c}) : copy[d] = "none"
    BY <1>1, ForwardFacts
  <1>3. /\ k \in Tasks /\ k.left = t.left
        /\ k.at = IF done THEN Nil ELSE c
        /\ k.done = IF done THEN t.done \cup {c} ELSE t.done
        /\ k.pc = IF done /\ t.left = {} THEN "emitCopies" ELSE "forward"
    BY <1>2 DEF Tasks, Awaits
  <1>4. task' = [task EXCEPT ![r] = k]
    BY <1>1, <1>2, Types DEF CopyStep
  <1> HIDE DEF k
  <1>5. /\ task' \in [Requests -> Tasks] /\ task'[r] = k
        /\ \A x \in Requests \ {r} : task'[x] = task[x]
    BY <1>2, <1>3, <1>4, HandlerStep
  <1>6. /\ copy' \in [Targets -> Stages]
        /\ copy'[c] = IF done THEN "counted"
                      ELSE IF copy[c] = "receipts" THEN "touched" ELSE "receipts"
        /\ \A d \in Targets \ {c} : copy'[d] = copy[d]
    <2>1. StageAfter(copy[c]) = IF done THEN "counted"
                                ELSE IF copy[c] = "receipts" THEN "touched"
                                ELSE "receipts"
      BY <1>2 DEF StageAfter
    <2>2. StageAfter(copy[c]) \in Stages
      BY <2>1 DEF Stages
    <2>3. copy' = [copy EXCEPT ![c] = StageAfter(copy[c])]
      BY DEF CopyStep
    <2> QED
      BY <1>2, <2>1, <2>2, <2>3
  <1>7. ForwardOK(task[r])' /\ Forwarding(task'[r])
    <2>1. CASE done
      <3>1. /\ k.at = Nil /\ k.done = t.done \cup {c}
            /\ k.pc \in {"emitCopies", "forward"}
        BY <1>3, <2>1
      <3>2. k.at \notin k.done /\ k.left \cap (k.done \cup {k.at}) = {}
        BY <1>2, <1>3, <3>1
      <3>3. /\ \A d \in k.done : copy'[d] = "counted"
            /\ \A d \in Targets \ (k.done \cup {k.at}) : copy'[d] = "none"
        BY <1>2, <1>6, <2>1, <3>1
      <3> QED
        BY <1>5, <3>1, <3>2, <3>3 DEF ForwardOK, Forwarding
    <2>2. CASE ~done
      <3>1. k.at = c /\ k.done = t.done /\ k.pc = "forward"
        BY <1>3, <2>2
      <3>2. k.at \notin k.done /\ k.left \cap (k.done \cup {k.at}) = {}
        BY <1>2, <1>3, <3>1
      <3>3. /\ \A d \in k.done : copy'[d] = "counted"
            /\ copy'[k.at] \in {"created", "receipts", "touched"}
            /\ \A d \in Targets \ (k.done \cup {k.at}) : copy'[d] = "none"
        BY <1>2, <1>6, <2>2, <3>1
      <3> QED
        BY <1>5, <3>1, <3>2, <3>3 DEF ForwardOK, Forwarding
    <2> QED
      BY <2>1, <2>2
  <1>8. k.pc \in {"forward", "emitCopies"}
    BY <1>3
  <1> QED
    BY <1>1, <1>2, <1>5, <1>6, <1>7, <1>8, ForwardStep

(* All copies are announced at once. *)
LEMMA EmitCopiesStep ==
  ASSUME IInv, NEW r \in Requests, EmitCopies(r)
  PROVE  IInv'
  <1>1. /\ task[r].pc = "emitCopies" /\ Forwarding(task[r])
        /\ UNCHANGED <<doc, shown, raced, muddled, refused, ops, faults>>
    BY DEF EmitCopies, At, Forwarding, history
  <1>2. /\ DocumentOK /\ Nil \notin Targets /\ task[r].at = Nil
        /\ copy \in [Targets -> Stages] /\ refused \in SUBSET Targets
        /\ \A d \in Targets \ (task[r].done \cup {task[r].at}) : copy[d] = "none"
    BY <1>1, ForwardFacts
  <1>3. /\ task' \in [Requests -> Tasks] /\ task'[r].pc = "idle"
        /\ \A x \in Requests \ {r} : task'[x] = task[x]
        /\ ForwardOK(task[r])' /\ ~Forwarding(task'[r])
    BY <1>2, FinishFacts DEF EmitCopies
  <1>4. /\ copy' \in [Targets -> Stages]
        /\ \A c \in Targets : copy'[c] = IF c \in task[r].done THEN "emitted"
                                         ELSE copy[c]
    BY <1>2 DEF EmitCopies, Stages
  <1>5. \A c \in Targets : copy'[c] \in {"none", "emitted"}
    BY <1>2, <1>4
  <1> QED
    BY <1>1, <1>2, <1>3, <1>4, <1>5, ForwardStep

------------------------------------------------------------------------------
(* Faults, and the invariant.                                              *)

(* Handlers die without having done anything. *)
LEMMA DropStep ==
  ASSUME IInv, NEW rs \in SUBSET Requests, Drop(rs)
  PROVE  IInv'
  <1>1. DocumentOK /\ ReactionsOK /\ CopiesOK
    BY DEF IInv
  <1>2. /\ UNCHANGED <<doc, shown, copy, raced, muddled, refused, ops>>
        /\ faults' = faults + 1 /\ faults < MaxFaults
        /\ task' = [r \in Requests |-> IF r \in rs THEN NoTask ELSE task[r]]
    BY DEF Drop, history
  <1>3. \A x \in Requests : task'[x] = task[x] \/ task'[x] = NoTask
    BY <1>2
  <1>4. faults' \in 0..MaxFaults /\ faults' # 0
    BY <1>1, <1>2, Types, ConstantsAssumption
  <1>5. task' \in [Requests -> Tasks]
    BY <1>1, <1>2, Types, NoTaskOK
  <1>6. DocumentOK'
    <2>1. ASSUME NEW x \in Requests PROVE MineOK(task[x])'
      <3>1. PICK k : k = task'[x] /\ MineOK(k)
        BY <1>1, <1>3, NoTaskOK DEF DocumentOK
      <3> QED
        BY <1>2, <3>1 DEF MineOK
    <2>2. TypeOK'
      BY <1>1, <1>2, <1>4, <1>5 DEF DocumentOK, TypeOK
    <2> QED
      BY <1>1, <1>2, <2>1, <2>2 DEF DocumentOK
  <1>7. ReactionsOK'
    BY <1>1, <1>2, <1>3, NoTaskOK, ReactionsQuiet
  <1>8. ShownOK'
    BY <1>4 DEF ShownOK
  <1>9. CopiesOK'
    <2>1. \A x \in Requests : Forwarding(task'[x]) => task'[x] = task[x]
      BY <1>3, NoTaskOK DEF Forwarding
    <2>2. \A x, y \in Requests : Forwarding(task'[x]) /\ Forwarding(task'[y]) => x = y
      BY <1>1, <2>1 DEF CopiesOK
    <2>3. ASSUME NEW x \in Requests PROVE ForwardOK(task[x])'
      <3>1. PICK k : k = task'[x] /\ ForwardOK(k)
        BY <1>1, <1>3, NoTaskOK DEF CopiesOK
      <3> QED
        BY <1>2, <3>1 DEF ForwardOK, Forwarding
    <2>4. \A x \in Requests : Forwarding(task[x])' <=> Forwarding(task'[x])
      BY DEF Forwarding
    <2> QED
      BY <1>4, <2>2, <2>3, <2>4 DEF CopiesOK
  <1> QED
    BY <1>6, <1>7, <1>8, <1>9 DEF IInv

(* The inductive invariant is preserved by every step. *)
LEMMA NextIInv == IInv /\ [Next]_vars => IInv'
  <1> SUFFICES ASSUME IInv, [Next]_vars PROVE IInv'
    OBVIOUS
  <1>1. CASE UNCHANGED vars
    <2>1. UNCHANGED <<doc, shown, copy, task, raced, muddled, refused, ops, faults>>
      BY <1>1 DEF vars, history
    <2>2. DocumentOK /\ ReactionsOK /\ ShownOK /\ CopiesOK
      BY DEF IInv
    <2>3. DocumentOK'
      BY <2>1, <2>2 DEF DocumentOK, TypeOK, MineOK
    <2>4. ReactionsOK' /\ ShownOK' /\ CopiesOK'
      BY <2>1, <2>2, ReactionsQuiet, ShownQuiet, CopiesQuiet
    <2> QED
      BY <2>3, <2>4 DEF IInv
  <1>2. ASSUME NEW r \in Requests, Request(r) PROVE IInv'
    BY <1>2, ChangeBegins, HideBegins, ReactBegins, ForwardBegins DEF Request
  <1>3. ASSUME NEW r \in Requests, Step(r) PROVE IInv'
    BY <1>3, SaveEditStep, SaveDeleteStep, SaveHiddenStep, SaveReactionStep,
       EmitSteps, NextTargetStep, CopyStepStep, EmitCopiesStep DEF Step
  <1>4. ASSUME NEW r \in Requests, Abort(r) PROVE IInv'
    BY <1>4, DropStep DEF Abort
  <1>5. CASE Crash
    BY <1>5, DropStep DEF Crash
  <1> QED
    BY <1>1, <1>2, <1>3, <1>4, <1>5 DEF Next

(* The inductive invariant holds throughout. *)
LEMMA Invariance == Spec => []IInv
  BY InitIInv, NextIInv, PTL DEF Spec

------------------------------------------------------------------------------
(* The theorems.                                                           *)

(* Whatever the requests, their order and the faults, documents, events    *)
(* and handlers keep their shape, reactions differ in their ids, and a     *)
(* deleted message has lost what was sent (messages.service.ts:150-160).   *)
THEOREM TypeCorrect == Spec => []TypeOK
  BY Invariance, PTL DEF IInv, DocumentOK

(* A user has one reaction (messages.service.ts:172-188) unless two of his *)
(* own requests overlapped.                                                *)
THEOREM ReactionsAreSingle == Spec => []OneReactionEach
  <1>1. IInv => OneReactionEach
    <2> SUFFICES ASSUME IInv, NEW u \in Users \ raced
                 PROVE  Cardinality(ReactionsOf(u)) <= 1
      BY DEF OneReactionEach
    <2>1. \A a, b \in ReactionsOf(u) : a = b
      BY DEF IInv, ReactionsOK
    <2>2. CASE ReactionsOf(u) = {}
      BY <2>2, FS_EmptySet
    <2>3. CASE ReactionsOf(u) # {}
      <3>1. PICK a : ReactionsOf(u) = {a}
        BY <2>1, <2>3
      <3>2. Cardinality({a}) = 1
        BY FS_Singleton
      <3> QED
        BY <3>1, <3>2
    <2> QED
      BY <2>2, <2>3
  <1> QED
    BY Invariance, <1>1, PTL

(* The members have been told what is stored (chat.gateway.ts:156-208)     *)
(* when nothing is in flight and no two announcements overlapped.          *)
THEOREM MembersAreUpToDate == Spec => []ShownIsStored
  <1>1. IInv => ShownIsStored
    BY DEF IInv, ShownOK, ShownIsStored
  <1> QED
    BY Invariance, <1>1, PTL

(* No copy is announced half-written, and none is kept from its readers    *)
(* but for a refusal or a fault (messages.service.ts:210-261).             *)
THEOREM CopiesAreAnnounced == Spec => []CopiesAnnounced
  <1>1. IInv => CopiesAnnounced
    <2> SUFFICES ASSUME IInv PROVE CopiesAnnounced
      OBVIOUS
    <2>1. CopiesOK
      BY DEF IInv
    <2>2. \A r \in Requests : \A c \in task[r].done : copy[c] = "counted"
      BY <2>1 DEF CopiesOK, ForwardOK
    <2> QED
      BY <2>1, <2>2 DEF CopiesOK, CopiesAnnounced, Forwarding
  <1> QED
    BY Invariance, <1>1, PTL

(* A step either keeps the content and the marks of a message, or is one   *)
(* of the saves.                                                           *)
LEMMA SavesOnly ==
  ASSUME [Next]_vars
  PROVE  \/ doc' = doc
         \/ \E r \in Requests : \/ SaveEdit(r) \/ SaveDelete(r)
                                \/ SaveHidden(r) \/ SaveReaction(r)
  <1>1. ASSUME NEW r \in Requests, Request(r) PROVE doc' = doc
    BY <1>1 DEF Request, Edit, DeleteForEveryone, DeleteForMe, React, Forward, Begin
  <1>2. ASSUME NEW r \in Requests, NEW c \in Targets, NextTarget(r, c)
        PROVE  doc' = doc
    BY <1>2 DEF NextTarget
  <1>3. ASSUME NEW r \in Requests,
               \/ EmitEdit(r) \/ EmitDelete(r) \/ EmitReaction(r)
               \/ CopyStep(r) \/ EmitCopies(r)
        PROVE  doc' = doc
    BY <1>3 DEF EmitEdit, EmitDelete, EmitReaction, CopyStep, EmitCopies
  <1>4. ASSUME NEW r \in Requests, Abort(r) PROVE doc' = doc
    BY <1>4 DEF Abort, Drop
  <1>5. CASE Crash
    BY <1>5 DEF Crash, Drop
  <1>6. CASE UNCHANGED vars
    BY <1>6 DEF vars
  <1> QED
    BY <1>1, <1>2, <1>3, <1>4, <1>5, <1>6 DEF Next, Step

(* Who begins an edit read the message before it was deleted. *)
LEMMA NoLateEdit ==
  ASSUME IInv, [Next]_vars, doc.deleted
  PROVE  PendingEdits' \subseteq PendingEdits
  <1>1. DocumentOK /\ task \in [Requests -> Tasks]
    BY Types DEF IInv
  <1>2. ASSUME NEW r \in Requests,
               \A x \in Requests \ {r} : task'[x] = task[x],
               task'[r].pc # "saveEdit"
        PROVE  PendingEdits' \subseteq PendingEdits
    BY <1>2 DEF At, PendingEdits
  <1>3. ASSUME NEW r \in Requests, NEW u \in Users, NEW e \in Emojis \cup {Nil},
               NEW pc \in {"saveDelete", "saveHidden", "saveReaction"},
               Begin(r, pc, u, e)
        PROVE  PendingEdits' \subseteq PendingEdits
    <2>1. pc \in Awaits
      BY DEF Awaits
    <2>2. /\ task'[r].pc = pc
          /\ \A x \in Requests \ {r} : task'[x] = task[x]
      BY <1>1, <1>3, <2>1, BeginFacts
    <2> QED
      BY <1>2, <2>2
  <1>4. ASSUME NEW r \in Requests, Request(r)
        PROVE  PendingEdits' \subseteq PendingEdits
    <2>1. ~Edit(r) /\ \A u \in Users, targets \in SUBSET Targets : ~Forward(r, u, targets)
      BY DEF Edit, Forward
    <2>2. CASE DeleteForEveryone(r)
      BY <1>3, <2>2, ConstantsAssumption DEF DeleteForEveryone
    <2>3. ASSUME NEW u \in Users, DeleteForMe(r, u)
          PROVE  PendingEdits' \subseteq PendingEdits
      BY <1>3, <2>3 DEF DeleteForMe
    <2>4. ASSUME NEW u \in Users, NEW e \in Emojis, React(r, u, e)
          PROVE  PendingEdits' \subseteq PendingEdits
      BY <1>3, <2>4 DEF React
    <2> QED
      BY <1>4, <2>1, <2>2, <2>3, <2>4 DEF Request
  <1>5. ASSUME NEW r \in Requests, Finish(r)
        PROVE  PendingEdits' \subseteq PendingEdits
    BY <1>1, <1>2, <1>5, FinishFacts
  <1>6. ASSUME NEW r \in Requests, Step(r)
        PROVE  PendingEdits' \subseteq PendingEdits
    <2>1. CASE \/ EmitEdit(r) \/ EmitDelete(r) \/ EmitReaction(r)
               \/ SaveHidden(r) \/ EmitCopies(r)
      BY <1>5, <2>1
         DEF EmitEdit, EmitDelete, EmitReaction, SaveHidden, EmitCopies
    <2>2. CASE SaveEdit(r)
      BY <1>1, <1>2, <2>2, SaveEditFacts, SavedFacts
    <2>3. ASSUME NEW mine \in Documents, NEW pc \in {"emitDelete", "emitReaction"},
                 Saved(r, mine, pc)
          PROVE  PendingEdits' \subseteq PendingEdits
      BY <1>1, <1>2, <2>3, SavedFacts
    <2>4. CASE SaveDelete(r)
      <3>1. [task[r].mine EXCEPT !.deleted = TRUE, !.content = "empty"] \in Documents
        <4>1. task[r].mine \in Documents
          BY <1>1 DEF Tasks
        <4> QED
          BY <4>1 DEF Documents
      <3> QED
        BY <2>3, <2>4, <3>1 DEF SaveDelete
    <2>5. CASE SaveReaction(r)
      <3> DEFINE mine(gone, new) ==
                   [task[r].mine EXCEPT
                      !.reactions = (task[r].mine.reactions \ gone) \cup new]
      <3>1. /\ task[r] \in Tasks /\ task[r].user \in Users /\ task[r].emoji \in Emojis
            /\ \/ Finish(r)
               \/ \E gone, new : /\ Change(task[r], gone, new)
                                /\ Saved(r, mine(gone, new), "emitReaction")
        BY <1>1, <2>5, SaveReactionFacts
      <3>2. ASSUME NEW gone, NEW new, Change(task[r], gone, new)
            PROVE  mine(gone, new) \in Documents
        <4>1. new \in SUBSET Reactions
          BY <1>1, <3>1, <3>2, ChangeFacts
        <4> QED
          BY <3>1, <4>1 DEF Tasks, Documents
      <3> HIDE DEF mine
      <3> QED
        BY <1>5, <2>3, <3>1, <3>2
    <2>6. ASSUME NEW c \in Targets, NextTarget(r, c)
          PROVE  PendingEdits' \subseteq PendingEdits
      BY <1>1, <1>5, <2>6 DEF NextTarget, At, Tasks, PendingEdits
    <2>7. CASE CopyStep(r)
      BY <1>1, <2>7 DEF CopyStep, At, Tasks, PendingEdits
    <2> QED
      BY <1>6, <2>1, <2>2, <2>4, <2>5, <2>6, <2>7 DEF Step
  <1>7. CASE Crash \/ \E r \in Requests : Abort(r)
    BY <1>7, NoTaskOK DEF Crash, Abort, Drop, At, PendingEdits
  <1>8. CASE UNCHANGED vars
    BY <1>8 DEF vars, At, PendingEdits
  <1> QED
    BY <1>4, <1>6, <1>7, <1>8 DEF Next

(* What was deleted for everyone stays marked so and admits no further     *)
(* edit; an edit that read the message before it was deleted may put a     *)
(* text back, once, and nothing else does                                  *)
(* (messages.service.ts:119-124, 150-160).                                 *)
THEOREM DeletionIsKept == Spec => OnlyLateEditsRestore
  <1> DEFINE Kept == /\ doc'.deleted
                     /\ PendingEdits' \subseteq PendingEdits
                     /\ doc'.content \notin {doc.content, "empty"} =>
                          PendingEdits' # PendingEdits
  <1>1. ASSUME IInv, [Next]_vars, doc.deleted PROVE Kept
    <2>1. DocumentOK /\ doc \in Documents /\ doc.deleted = TRUE
      BY <1>1, Types DEF IInv, Documents
    <2>2. PendingEdits' \subseteq PendingEdits
      BY <1>1, NoLateEdit
    <2>3. CASE doc' = doc
      BY <2>1, <2>2, <2>3
    <2>4. ASSUME NEW r \in Requests, SaveEdit(r) PROVE Kept
      <3>1. task[r].pc = "saveEdit" /\ doc'.deleted = TRUE
        BY <2>1, <2>4, SaveEditFacts DEF Documents
      <3>2. task'[r].pc = "emitEdit"
        BY <2>1, <2>4, SaveEditFacts, SavedFacts
      <3>3. r \in PendingEdits /\ r \notin PendingEdits'
        BY <3>1, <3>2 DEF PendingEdits, At
      <3> QED
        BY <2>2, <3>1, <3>3
    <2>5. ASSUME doc'.deleted = TRUE, doc'.content \in {doc.content, "empty"}
          PROVE  Kept
      BY <2>2, <2>5
    <2>6. ASSUME NEW r \in Requests, SaveDelete(r) \/ SaveHidden(r)
          PROVE  doc'.deleted = TRUE /\ doc'.content \in {doc.content, "empty"}
      BY <2>1, <2>6 DEF SaveDelete, SaveHidden, Documents
    <2>7. ASSUME NEW r \in Requests, SaveReaction(r)
          PROVE  doc'.deleted = TRUE /\ doc'.content \in {doc.content, "empty"}
      BY <2>1, <2>7, SaveReactionFacts, ChangeFacts
    <2> QED
      BY <1>1, <2>3, <2>4, <2>5, <2>6, <2>7, SavesOnly
  <1>2. IInv /\ [Next]_vars => [doc.deleted => Kept]_vars
    BY <1>1
  <1> QED
    BY Invariance, <1>2, PTL DEF Spec, OnlyLateEditsRestore

(* No request changes the reactions of two users, or shows a message again *)
(* to who deleted it for himself (messages.service.ts:138-140, 172-189).   *)
THEOREM OthersAreUntouched == Spec => OthersUntouched
  <1> DEFINE Own == /\ \E u \in Users : \A w \in Users \ {u} :
                         ReactionsOf(w)' = ReactionsOf(w)
                    /\ doc.hiddenFor \subseteq doc'.hiddenFor
  <1>1. ASSUME IInv, [Next]_vars PROVE Own
    <2>1. DocumentOK /\ doc \in Documents /\ Sender \in Users
      BY <1>1, Types, ConstantsAssumption DEF IInv
    <2>2. ASSUME doc'.reactions = doc.reactions, doc.hiddenFor \subseteq doc'.hiddenFor
          PROVE  Own
      BY <2>1, <2>2 DEF ReactionsOf
    <2>3. ASSUME NEW r \in Requests, SaveEdit(r) \/ SaveDelete(r) \/ SaveHidden(r)
          PROVE  Own
      <3>1. CASE SaveEdit(r)
        BY <2>1, <2>2, <3>1, SaveEditFacts DEF Documents
      <3>2. CASE SaveDelete(r)
        BY <2>1, <2>2, <3>2 DEF SaveDelete, Documents
      <3>3. CASE SaveHidden(r)
        BY <2>1, <2>2, <3>3 DEF SaveHidden, Documents
      <3> QED
        BY <2>3, <3>1, <3>2, <3>3
    <2>4. ASSUME NEW r \in Requests, SaveReaction(r) PROVE Own
      <3>1. /\ task[r] \in Tasks /\ task[r].user \in Users /\ task[r].emoji \in Emojis
            /\ doc' = doc \/ \E gone, new : Change(task[r], gone, new)
        BY <2>1, <2>4, SaveReactionFacts
      <3>2. ASSUME NEW gone, NEW new, Change(task[r], gone, new) PROVE Own
        <4>1. /\ doc'.hiddenFor = doc.hiddenFor
              /\ doc'.reactions = (doc.reactions \ gone) \cup new
              /\ \A a \in new : a.user = task[r].user
              /\ \A a \in gone : a.user = task[r].user
          BY <2>1, <3>1, <3>2, ChangeFacts
        <4>2. \A w \in Users \ {task[r].user} : ReactionsOf(w)' = ReactionsOf(w)
          BY <4>1 DEF ReactionsOf
        <4> QED
          BY <3>1, <4>1, <4>2
      <3> QED
        BY <2>2, <3>1, <3>2
    <2> QED
      BY <1>1, <2>2, <2>3, <2>4, SavesOnly
  <1>2. IInv /\ [Next]_vars => [Own]_vars
    BY <1>1
  <1> QED
    BY Invariance, <1>2, PTL DEF Spec, OthersUntouched

------------------------------------------------------------------------------
(* MessageDocument implements MessageLife.                                 *)

Acting == {"saveEdit", "saveDelete", "saveHidden", "saveReaction"}

(* A ticket names its handler and what it has yet to do. *)
LEMMA TicketFacts ==
  ASSUME NEW r \in Requests, task[r].pc \in Acting
  PROVE  /\ Ticket(r).handle = r /\ Ticket(r).user = task[r].user
         /\ Ticket(r).act \in {"edit", "delete", "hide", "react"}
         /\ Ticket(r).act = "edit" <=> task[r].pc = "saveEdit"
         /\ Ticket(r).act = "delete" <=> task[r].pc = "saveDelete"
         /\ Ticket(r).act = "hide" <=> task[r].pc = "saveHidden"
         /\ Ticket(r).act = "react" <=> task[r].pc = "saveReaction"
         /\ task[r].pc = "saveReaction" => Ticket(r).emoji = task[r].emoji
  BY DEF Ticket, Acting, ActOf

(* Tickets are those of the handlers that have yet to save. *)
LEMMA PendingTickets ==
  /\ \A r \in Requests : task[r].pc \in Acting => Ticket(r) \in Pending
  /\ \A p \in Pending : \E r \in Requests : task[r].pc \in Acting /\ p = Ticket(r)
  <1>1. DOMAIN ActOf = Acting
    BY DEF ActOf, Acting
  <1> QED
    BY <1>1 DEF Pending

(* The same after a step. *)
LEMMA PendingTicketsNext ==
  /\ \A r \in Requests : task'[r].pc \in Acting => Ticket(r)' \in Pending'
  /\ \A p \in Pending' : \E r \in Requests : task'[r].pc \in Acting /\ p = Ticket(r)'
  <1>1. DOMAIN ActOf = Acting
    BY DEF ActOf, Acting
  <1>2. Pending' = {Ticket(r)' : r \in {x \in Requests : task'[x].pc \in DOMAIN ActOf}}
    BY DEF Pending
  <1> QED
    BY <1>1, <1>2

(* A handler that does not go on has the same ticket. *)
LEMMA TicketKept ==
  ASSUME NEW r \in Requests, task'[r] = task[r]
  PROVE  Ticket(r)' = Ticket(r)
  <1>1. PICK t : t = task[r]
    OBVIOUS
  <1> QED
    BY <1>1 DEF Ticket

(* Handlers that go on and have nothing to save hold no ticket. *)
LEMMA QuietStep ==
  ASSUME doc' = doc, raced' = raced,
         \A x \in Requests : task'[x] = task[x] \/ task'[x].pc \notin Acting
  PROVE  Life!Forgo
  <1>1. Pending' \subseteq Pending
    BY PendingTickets, PendingTicketsNext, TicketKept
  <1> QED
    BY <1>1 DEF Life!Forgo, Life!body

(* A handler that saves gives its ticket back. *)
LEMMA TicketSettled ==
  ASSUME NEW r \in Requests, task[r].pc \in Acting, task'[r].pc \notin Acting,
         \A x \in Requests \ {r} : task'[x] = task[x], raced' = raced,
         NEW act, Ticket(r).act = act
  PROVE  Ticket(r) \in Pending /\ Life!Settle(Ticket(r), act)
  <1>1. Ticket(r) \in Pending
    BY PendingTickets
  <1>2. Pending' \subseteq Pending \ {Ticket(r)}
    <2> SUFFICES ASSUME NEW p \in Pending' PROVE p \in Pending \ {Ticket(r)}
      OBVIOUS
    <2>1. PICK x \in Requests : task'[x].pc \in Acting /\ p = Ticket(x)'
      BY PendingTicketsNext
    <2>2. x # r /\ task'[x] = task[x] /\ p = Ticket(x)
      BY <2>1, TicketKept
    <2>3. Ticket(x).handle = x /\ Ticket(r).handle = r
      BY <2>1, <2>2, TicketFacts
    <2> QED
      BY <2>1, <2>2, <2>3, PendingTickets
  <1>3. Pending \ {Ticket(r)} \subseteq Pending'
    <2> SUFFICES ASSUME NEW p \in Pending \ {Ticket(r)} PROVE p \in Pending'
      OBVIOUS
    <2>1. PICK x \in Requests : task[x].pc \in Acting /\ p = Ticket(x)
      BY PendingTickets
    <2>2. x # r /\ task'[x] = task[x]
      BY <2>1
    <2> QED
      BY <2>1, <2>2, TicketKept, PendingTicketsNext
  <1> QED
    BY <1>1, <1>2, <1>3 DEF Life!Settle

(* A request that begins asks for its ticket. *)
LEMMA AskStep ==
  ASSUME DocumentOK, NEW r \in Requests, NEW u \in Users, NEW pc \in Acting,
         NEW e \in Emojis \cup {Nil}, Begin(r, pc, u, e),
         pc \in {"saveEdit", "saveDelete"} => u = Sender,
         pc = "saveEdit" => ~doc.deleted,
         pc = "saveHidden" => u \notin doc.hiddenFor,
         pc = "saveReaction" => e \in Emojis,
         raced' = IF pc = "saveReaction"
                       /\ \E x \in Requests : At(x, "saveReaction") /\ task[x].user = u
                  THEN raced \cup {u} ELSE raced
  PROVE  \E p \in Life!AllRequests : Life!Ask(p)
  <1> DEFINE p == Ticket(r)'
  <1>1. /\ \A x \in Requests \ {r} : task'[x] = task[x]
        /\ task'[r].pc = pc /\ task'[r].user = u /\ task'[r].emoji = e
        /\ doc' = doc /\ task[r].pc = "idle"
    <2>1. pc \in Awaits
      BY DEF Acting, Awaits
    <2>2. /\ \A x \in Requests \ {r} : task'[x] = task[x]
          /\ task'[r].pc = pc /\ task'[r].user = u /\ task'[r].emoji = e
          /\ UNCHANGED <<doc, shown, copy, refused, faults>>
      BY <2>1, BeginFacts
    <2>3. task[r].pc = "idle"
      BY DEF Begin, Idle
    <2> QED
      BY <2>2, <2>3
  <1>2. /\ p.handle = r /\ p.user = u
        /\ p.act = "edit" <=> pc = "saveEdit"
        /\ p.act = "delete" <=> pc = "saveDelete"
        /\ p.act = "hide" <=> pc = "saveHidden"
        /\ p.act = "react" <=> pc = "saveReaction"
    BY <1>1 DEF Ticket, Acting, ActOf
  <1>3. p \in Life!AllRequests
    BY <1>1 DEF Ticket, Acting, ActOf, Life!AllRequests
  <1>4. \A q \in Pending : q.handle # r
    <2> SUFFICES ASSUME NEW q \in Pending PROVE q.handle # r
      OBVIOUS
    <2>1. PICK x \in Requests : task[x].pc \in Acting /\ q = Ticket(x)
      BY PendingTickets
    <2>2. x # r
      BY <1>1, <2>1 DEF Acting
    <2> QED
      BY <2>1, <2>2, TicketFacts
  <1> HIDE DEF p
  <1>5. Pending' \subseteq Pending \cup {p}
    <2> SUFFICES ASSUME NEW q \in Pending' PROVE q \in Pending \cup {p}
      OBVIOUS
    <2>1. PICK x \in Requests : task'[x].pc \in Acting /\ q = Ticket(x)'
      BY PendingTicketsNext
    <2>2. x # r => task'[x] = task[x] /\ q = Ticket(x)
      BY <1>1, <2>1, TicketKept
    <2> QED
      BY <2>1, <2>2, PendingTickets DEF p
  <1>6. Pending \cup {p} \subseteq Pending'
    <2>1. p \in Pending'
      BY <1>1, PendingTicketsNext DEF p
    <2>2. ASSUME NEW q \in Pending PROVE q \in Pending'
      <3>1. PICK x \in Requests : task[x].pc \in Acting /\ q = Ticket(x)
        BY PendingTickets
      <3>2. x # r /\ task'[x] = task[x]
        BY <1>1, <3>1 DEF Acting
      <3> QED
        BY <3>1, <3>2, TicketKept, PendingTicketsNext
    <2> QED
      BY <2>1, <2>2
  <1>7. (\E q \in Pending : q.act = "react" /\ q.user = u)
          <=> \E x \in Requests : At(x, "saveReaction") /\ task[x].user = u
    <2>1. ASSUME NEW q \in Pending, q.act = "react", q.user = u
          PROVE  \E x \in Requests : At(x, "saveReaction") /\ task[x].user = u
      <3>1. PICK x \in Requests : task[x].pc \in Acting /\ q = Ticket(x)
        BY PendingTickets
      <3> QED
        BY <2>1, <3>1, TicketFacts DEF At
    <2>2. ASSUME NEW x \in Requests, At(x, "saveReaction"), task[x].user = u
          PROVE  \E q \in Pending : q.act = "react" /\ q.user = u
      <3>1. task[x].pc \in Acting
        BY <2>2 DEF At, Acting
      <3> QED
        BY <2>2, <3>1, PendingTickets, TicketFacts DEF At
    <2> QED
      BY <2>1, <2>2
  <1> WITNESS p \in Life!AllRequests
  <1> QED
    BY <1>1, <1>2, <1>4, <1>5, <1>6, <1>7 DEF Life!Ask, Life!body

(* Every request asks; a forward changes nothing here. *)
LEMMA RequestAsks ==
  ASSUME IInv, NEW r \in Requests, Request(r)
  PROVE  Life!LifeNext
  <1>1. DocumentOK /\ Sender \in Users
    BY ConstantsAssumption DEF IInv
  <1>2. CASE Edit(r)
    BY <1>1, <1>2, AskStep DEF Edit, Acting, Life!LifeNext
  <1>3. CASE DeleteForEveryone(r)
    BY <1>1, <1>3, AskStep DEF DeleteForEveryone, Acting, Life!LifeNext
  <1>4. ASSUME NEW u \in Users, DeleteForMe(r, u) PROVE Life!LifeNext
    BY <1>1, <1>4, AskStep DEF DeleteForMe, Acting, Life!LifeNext
  <1>5. ASSUME NEW u \in Users, NEW e \in Emojis, React(r, u, e)
        PROVE  Life!LifeNext
    BY <1>1, <1>5, AskStep DEF React, Acting, Life!LifeNext
  <1>6. ASSUME NEW u \in Users, NEW targets \in SUBSET Targets, Forward(r, u, targets)
        PROVE  Life!LifeNext
    <2> DEFINE k == [NoTask EXCEPT !.pc = "forward", !.user = u, !.mine = doc,
                                   !.left = targets]
    <2>1. k.pc = "forward" /\ k \in Tasks
      BY <1>1, Types DEF NoTask, Tasks, Awaits
    <2>2. task' = [task EXCEPT ![r] = k]
      BY <1>6 DEF Forward
    <2> HIDE DEF k
    <2>3. task'[r].pc = "forward" /\ \A x \in Requests \ {r} : task'[x] = task[x]
      BY <1>1, <2>1, <2>2, HandlerStep
    <2>4. doc' = doc /\ raced' = raced
      BY <1>6 DEF Forward, history
    <2> QED
      BY <2>3, <2>4, QuietStep DEF Acting, Life!LifeNext
  <1> QED
    BY <1>2, <1>3, <1>4, <1>5, <1>6 DEF Request

(* A handler that saved holds no ticket any more. *)
LEMMA SaveSettles ==
  ASSUME DocumentOK, NEW r \in Requests, task[r].pc \in Acting,
         NEW act, Ticket(r).act = act, raced' = raced,
         \/ Finish(r)
         \/ \E mine \in Documents, pc \in {"emitEdit", "emitDelete", "emitReaction"} :
              Saved(r, mine, pc)
  PROVE  /\ Ticket(r) \in Pending /\ Life!Settle(Ticket(r), act)
         /\ doc' = doc => Life!Forgo
  <1>1. /\ \A x \in Requests \ {r} : task'[x] = task[x]
        /\ task'[r].pc \notin Acting
    BY SavedFacts, FinishFacts DEF Acting
  <1>2. Ticket(r) \in Pending /\ Life!Settle(Ticket(r), act)
    BY <1>1, TicketSettled
  <1>3. doc' = doc => Life!Forgo
    BY <1>1, QuietStep
  <1> QED
    BY <1>2, <1>3

(* An edit is carried out, or changes nothing. *)
LEMMA EditLives ==
  ASSUME IInv, NEW r \in Requests, SaveEdit(r)
  PROVE  Life!LifeNext
  <1>1. /\ DocumentOK /\ doc \in Documents /\ task[r] \in Tasks
        /\ task[r].pc = "saveEdit" /\ raced' = raced
    BY Types DEF IInv, SaveEdit, At, history
  <1>2. task[r].pc \in Acting /\ Ticket(r).act = "edit"
    BY <1>1, TicketFacts DEF Acting
  <1>3. \E mine \in Documents : Saved(r, mine, "emitEdit")
    BY <1>1, SaveEditFacts
  <1>4. /\ Ticket(r) \in Pending /\ Life!Settle(Ticket(r), "edit")
        /\ doc' = doc => Life!Forgo
    BY <1>1, <1>2, <1>3, SaveSettles
  <1>5. CASE doc' = doc
    BY <1>4, <1>5 DEF Life!LifeNext
  <1>6. CASE doc' # doc
    <2>1. doc' = [doc EXCEPT !.content = "edited"]
      BY <1>6 DEF SaveEdit
    <2>2. /\ doc'.content = "edited" /\ doc'.deleted = doc.deleted
          /\ doc'.hiddenFor = doc.hiddenFor /\ doc'.reactions = doc.reactions
      BY <1>1, <2>1 DEF Documents
    <2>3. Life!Edit(Ticket(r))
      BY <1>4, <2>2 DEF Life!Edit
    <2> QED
      BY <1>4, <2>3 DEF Life!LifeNext
  <1> QED
    BY <1>5, <1>6

(* A deletion is carried out, or the message was deleted before. *)
LEMMA DeleteLives ==
  ASSUME IInv, NEW r \in Requests, SaveDelete(r)
  PROVE  Life!LifeNext
  <1>1. /\ DocumentOK /\ doc \in Documents /\ task[r] \in Tasks
        /\ task[r].pc = "saveDelete" /\ raced' = raced /\ MineOK(task[r])
    BY Types DEF IInv, SaveDelete, At, history, DocumentOK
  <1>2. task[r].pc \in Acting /\ Ticket(r).act = "delete"
    BY <1>1, TicketFacts DEF Acting
  <1>3. \E mine \in Documents : Saved(r, mine, "emitDelete")
    <2>1. [task[r].mine EXCEPT !.deleted = TRUE, !.content = "empty"] \in Documents
      BY <1>1 DEF Tasks, Documents
    <2> QED
      BY <2>1 DEF SaveDelete
  <1>4. /\ Ticket(r) \in Pending /\ Life!Settle(Ticket(r), "delete")
        /\ doc' = doc => Life!Forgo
    BY <1>1, <1>2, <1>3, SaveSettles
  <1>5. CASE task[r].mine.content = "empty"
    <2>1. doc.deleted = TRUE
      BY <1>1, <1>5 DEF MineOK, Documents
    <2>2. doc' = [doc EXCEPT !.deleted = TRUE, !.content = doc.content]
      BY <1>5 DEF SaveDelete
    <2>3. doc' = doc
      BY <1>1, <2>1, <2>2 DEF Documents
    <2> QED
      BY <1>4, <2>3 DEF Life!LifeNext
  <1>6. CASE task[r].mine.content # "empty"
    <2>1. doc' = [doc EXCEPT !.deleted = TRUE, !.content = "empty"]
      BY <1>6 DEF SaveDelete
    <2>2. /\ doc'.content = "empty" /\ doc'.deleted = TRUE
          /\ doc'.hiddenFor = doc.hiddenFor /\ doc'.reactions = doc.reactions
      BY <1>1, <2>1 DEF Documents
    <2>3. Life!Delete(Ticket(r))
      BY <1>4, <2>2 DEF Life!Delete
    <2> QED
      BY <1>4, <2>3 DEF Life!LifeNext
  <1> QED
    BY <1>5, <1>6

(* A deletion for oneself is carried out. *)
LEMMA HideLives ==
  ASSUME IInv, NEW r \in Requests, SaveHidden(r)
  PROVE  Life!LifeNext
  <1>1. /\ DocumentOK /\ doc \in Documents /\ task[r] \in Tasks
        /\ task[r].pc = "saveHidden" /\ raced' = raced
    BY Types DEF IInv, SaveHidden, At, history
  <1>2. /\ task[r].pc \in Acting /\ Ticket(r).act = "hide"
        /\ Ticket(r).user = task[r].user
    BY <1>1, TicketFacts DEF Acting
  <1>3. Ticket(r) \in Pending /\ Life!Settle(Ticket(r), "hide")
    BY <1>1, <1>2, SaveSettles DEF SaveHidden
  <1>4. /\ doc'.content = doc.content /\ doc'.deleted = doc.deleted
        /\ doc'.hiddenFor = doc.hiddenFor \cup {task[r].user}
        /\ doc'.reactions = doc.reactions
    BY <1>1 DEF SaveHidden, Documents
  <1>5. Life!Hide(Ticket(r))
    BY <1>2, <1>3, <1>4 DEF Life!Hide, Life!body
  <1> QED
    BY <1>3, <1>5 DEF Life!LifeNext

(* The reaction that goes is the user's first, unless two of his own       *)
(* requests overlapped, when it may be none.                               *)
LEMMA FirstGoes ==
  ASSUME DocumentOK, ReactionsOK, NEW r \in Requests, task[r].pc = "saveReaction",
         task[r].user \in Users, NEW gone, NEW new, Change(task[r], gone, new)
  PROVE  gone = Life!First(task[r].user) \/ (gone = {} /\ task[r].user \in raced)
  <1> DEFINE t == task[r]
  <1>1. CASE gone # {}
    BY <1>1 DEF Change, Existing, Life!First
  <1>2. CASE gone = {} /\ t.user \notin raced
    <2>1. /\ {a \in t.mine.reactions : a.user = t.user} = ReactionsOf(t.user)
          /\ \A a, b \in ReactionsOf(t.user) : a = b
      BY <1>2 DEF ReactionsOK, Reacting, At
    <2>2. ASSUME NEW a \in ReactionsOf(t.user) PROVE FALSE
      <3>1. a.id \in Nat /\ a.user = t.user
        BY Types DEF ReactionsOf, Documents, Reactions
      <3>2. a \in t.mine.reactions
        BY <2>1
      <3>3. \A b \in t.mine.reactions : b.user = t.user => b = a
        BY <2>1
      <3>4. a \in Existing(t.mine, t.user)
        BY <3>1, <3>2, <3>3 DEF Existing
      <3> QED
        BY <1>2, <3>4 DEF Change
    <2> QED
      BY <1>2, <2>2 DEF ReactionsOf, Life!First
  <1> QED
    BY <1>1, <1>2

(* A reaction is carried out, as the user chose it or as one more, or is   *)
(* refused.                                                                *)
LEMMA ReactLives ==
  ASSUME IInv, NEW r \in Requests, SaveReaction(r)
  PROVE  Life!LifeNext
  <1> DEFINE t == task[r]
             mine(gone, new) == [t.mine EXCEPT
                                   !.reactions = (t.mine.reactions \ gone) \cup new]
             n == [id |-> doc.__v + 1, user |-> t.user, emoji |-> t.emoji]
             R == doc.reactions
  <1>1. /\ DocumentOK /\ ReactionsOK /\ doc \in Documents /\ t \in Tasks
        /\ t.pc = "saveReaction" /\ raced' = raced
        /\ t.user \in Users /\ t.emoji \in Emojis
        /\ \/ doc' = doc /\ Finish(r)
           \/ \E gone, new : /\ Change(t, gone, new)
                             /\ Saved(r, mine(gone, new), "emitReaction")
    BY Types, SaveReactionFacts DEF IInv, history
  <1>2. /\ t.pc \in Acting /\ Ticket(r).act = "react"
        /\ Ticket(r).user = t.user /\ Ticket(r).emoji = t.emoji
    BY <1>1, TicketFacts DEF Acting
  <1>3. CASE doc' = doc /\ Finish(r)
    BY <1>1, <1>2, <1>3, SaveSettles DEF Life!LifeNext
  <1>4. ASSUME NEW gone, NEW new, Change(t, gone, new),
               Saved(r, mine(gone, new), "emitReaction")
        PROVE  Life!LifeNext
    <2>1. /\ doc'.content = doc.content /\ doc'.deleted = doc.deleted
          /\ doc'.hiddenFor = doc.hiddenFor
          /\ doc'.reactions = (R \ gone) \cup new
          /\ new \in SUBSET Reactions
      BY <1>1, <1>4, ChangeFacts
    <2>2. mine(gone, new) \in Documents
      BY <1>1, <2>1 DEF Tasks, Documents
    <2>3. Ticket(r) \in Pending /\ Life!Settle(Ticket(r), "react")
      <3> HIDE DEF mine
      <3> QED
        BY <1>1, <1>2, <1>4, <2>2, SaveSettles
    <2>4. /\ n.id = doc.__v + 1 /\ n.user = t.user /\ n.emoji = t.emoji
          /\ \A b \in R : b.id < n.id
      <3>1. doc.__v \in Nat /\ \A b \in R : b.id \in Nat /\ b.id <= doc.__v
        BY <1>1 DEF DocumentOK, Documents, Reactions
      <3> QED
        BY <3>1
    <2>5. new = IF \E a \in gone : a.emoji = t.emoji THEN {} ELSE {n}
      BY <1>4 DEF Change, Pushed
    <2> HIDE DEF n, mine
    <2>6. n \notin R
      BY <1>1, <2>4 DEF Documents, Reactions
    <2>7. new = {n} => Life!Adds(t.user, t.emoji)
      <3>1. new = {n} => doc'.reactions \ R = {n} /\ n \in doc'.reactions
        BY <2>1, <2>6
      <3> QED
        BY <2>4, <3>1 DEF Life!Adds
    <2>8. CASE gone = Life!First(t.user)
      <3>1. gone \subseteq R
        BY <2>8 DEF Life!First
      <3>2. R \ doc'.reactions = gone
        BY <2>1, <2>5, <2>6, <3>1
      <3>3. new = {} => doc'.reactions \subseteq R
        BY <2>1
      <3>4. Life!React(Ticket(r))
        BY <1>2, <2>1, <2>3, <2>5, <2>7, <2>8, <3>2, <3>3
           DEF Life!React, Life!body
      <3> QED
        BY <2>3, <3>4 DEF Life!LifeNext
    <2>9. CASE gone = {} /\ t.user \in raced
      <3>1. new = {n} /\ R \subseteq doc'.reactions
        BY <2>1, <2>5, <2>9
      <3>2. Life!ReactAgain(Ticket(r))
        BY <1>2, <2>1, <2>3, <2>7, <2>9, <3>1 DEF Life!ReactAgain, Life!body
      <3> QED
        BY <2>3, <3>2 DEF Life!LifeNext
    <2> QED
      BY <1>1, <1>4, <2>8, <2>9, FirstGoes
  <1> HIDE DEF mine
  <1> QED
    BY <1>1, <1>3, <1>4

(* The other steps of handlers save nothing of the message. *)
LEMMA QuietLives ==
  ASSUME IInv, NEW r \in Requests,
         \/ EmitEdit(r) \/ EmitDelete(r) \/ EmitReaction(r)
         \/ \E c \in Targets : NextTarget(r, c)
         \/ CopyStep(r) \/ EmitCopies(r)
  PROVE  Life!LifeNext
  <1>1. DocumentOK /\ task \in [Requests -> Tasks]
    BY Types DEF IInv
  <1>2. doc' = doc /\ raced' = raced
    BY DEF EmitEdit, EmitDelete, EmitReaction, NextTarget, CopyStep, EmitCopies, history
  <1>3. ASSUME Finish(r) PROVE Life!Forgo
    BY <1>1, <1>2, <1>3, FinishFacts, QuietStep DEF Acting
  <1>4. ASSUME task'[r].pc \in {"forward", "emitCopies"},
               \A x \in Requests \ {r} : task'[x] = task[x]
        PROVE  Life!Forgo
    BY <1>2, <1>4, QuietStep DEF Acting
  <1>5. CASE EmitEdit(r) \/ EmitDelete(r) \/ EmitReaction(r) \/ EmitCopies(r)
    BY <1>3, <1>5 DEF EmitEdit, EmitDelete, EmitReaction, EmitCopies, Life!LifeNext
  <1>6. ASSUME NEW c \in Targets, NextTarget(r, c) PROVE Life!Forgo
    BY <1>1, <1>3, <1>4, <1>6 DEF NextTarget, At, Tasks
  <1>7. ASSUME CopyStep(r) PROVE Life!Forgo
    BY <1>1, <1>4, <1>7 DEF CopyStep, At, Tasks
  <1> QED
    BY <1>5, <1>6, <1>7 DEF Life!LifeNext

(* The document as it was sent, and nothing pending. *)
LEMMA InitLife == Init => Life!LifeInit
  <1> SUFFICES ASSUME Init PROVE Life!LifeInit
    OBVIOUS
  <1>1. \A r \in Requests : task[r].pc \notin Acting
    BY NoTaskOK DEF Init, Acting
  <1>2. Pending = {}
    BY <1>1, PendingTickets
  <1> QED
    BY <1>2 DEF Init, Fresh, Life!LifeInit

(* Whatever copies handlers work on, each request takes effect on what is  *)
(* stored as if it were carried out at once, or not at all                 *)
(* (messages.service.ts:119-199), with the two exceptions of MessageLife.  *)
THEOREM ImplementsLife == Spec => LifeSpec
  <1>1. ASSUME IInv, [Next]_vars PROVE [Life!LifeNext]_(Life!lvars)
    <2>1. ASSUME NEW r \in Requests, Request(r) PROVE Life!LifeNext
      BY <1>1, <2>1, RequestAsks
    <2>2. ASSUME NEW r \in Requests, Step(r) PROVE Life!LifeNext
      BY <1>1, <2>2, EditLives, DeleteLives, HideLives, ReactLives, QuietLives
         DEF Step
    <2>3. ASSUME NEW rs \in SUBSET Requests, Drop(rs) PROVE Life!LifeNext
      <3>1. doc' = doc /\ raced' = raced
        BY <2>3 DEF Drop, history
      <3>2. \A x \in Requests : task'[x] = task[x] \/ task'[x].pc \notin Acting
        BY <2>3, NoTaskOK DEF Drop, Acting
      <3> QED
        BY <3>1, <3>2, QuietStep DEF Life!LifeNext
    <2>4. CASE UNCHANGED vars
      <3>1. UNCHANGED <<doc, task, raced>>
        BY <2>4 DEF vars, history
      <3>2. Life!Forgo
        BY <3>1, QuietStep
      <3> QED
        BY <3>2 DEF Life!LifeNext
    <2> QED
      BY <1>1, <2>1, <2>2, <2>3, <2>4 DEF Next, Abort, Crash
  <1> QED
    BY Invariance, InitLife, <1>1, PTL DEF Spec, LifeSpec, Life!LifeSpec
==============================================================================
