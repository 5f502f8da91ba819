---------------------------- MODULE CallSignaling ----------------------------
(***************************************************************************)
(* Call signaling: CallGateway (the /calls socket namespace) and the part  *)
(* of CallsService it drives.                                              *)
(*                                                                         *)
(* Three stores are involved: the MongoDB call documents, the Redis        *)
(* "call:busy:<user>" keys, and the gateway's in-memory map of ringing     *)
(* calls with one armed timer per entry.  The handlers are asynchronous    *)
(* functions on one event loop: what stands between two awaits is atomic,  *)
(* and every await -- one round trip to MongoDB or Redis -- is a point     *)
(* where any other handler may run.  A handler in flight is a record kept  *)
(* in the slot of its request; the callback of the timer of call c runs in *)
(* slot c.                                                                 *)
(***************************************************************************)
EXTENDS Naturals

CONSTANTS
    Users,        \* accounts
    CallIds,      \* identities the database can give to calls
    Requests,     \* slots for socket events whose handler is in flight
    Blocked,      \* pairs <<blocker, blocked>> of users
    MaxSockets,   \* bound: sockets one user has open at a time
    MaxFaults,    \* bound: crashes, failed round trips and expired keys
    Nil           \* "no value": null in the code

ASSUME ConstantsAssumption ==
    /\ Nil \notin Users \cup CallIds
    /\ Requests \cap CallIds = {}
    /\ Blocked \subseteq Users \X Users
    /\ MaxSockets \in Nat \ {0}
    /\ MaxFaults \in Nat

VARIABLES
    call,      \* MongoDB: the call documents
    busy,      \* Redis: busy[u] is the value of u's busy key, or Nil
    ringing,   \* gateway memory: keys of the `ringing` map; each has a timer
    conn,      \* conn[u]: number of open sockets of u
    told,      \* told[c]: users who caused, or were sent, the end of c's ring
    task,      \* handlers in flight
    faults     \* number of faults so far (for the bound only)

vars == <<call, busy, ringing, conn, told, task, faults>>

(* Slots: the handler of a socket event, or the callback of a ring timer. *)
Procs == Requests \cup CallIds

------------------------------------------------------------------------------
(* Types.                                                                  *)

Ended    == {"completed", "missed", "rejected", "cancelled"}
Statuses == {"absent", "ringing", "active"} \cup Ended

CallDocs == [status   : Statuses,
             caller   : Users \cup {Nil},
             callee   : Users \cup {Nil},
             answered : BOOLEAN]          \* answeredAt is set

NoCall == [status |-> "absent", caller |-> Nil, callee |-> Nil,
           answered |-> FALSE]

Handlers == {"none", "initiate", "accept", "reject", "cancel", "timeout",
             "end", "drop", "dropRing"}
Awaits   == {"idle", "isBusy", "create", "register", "markActive",
             "busyCaller", "busyCallee", "getBusy", "find", "endRead",
             "endSave", "clearCaller", "clearCallee"}

(* A handler in flight: which one, the await it is at, whose socket event, *)
(* the user it calls, the call it works on, the outcome it will record     *)
(* ("none": leave the status as it is), and whether it alone may settle    *)
(* the ring of that call: it is creating it or took its map entry out.     *)
Tasks == [h : Handlers, pc : Awaits, user : Users \cup {Nil},
          peer : Users \cup {Nil}, call : CallIds \cup {Nil},
          out : Ended \cup {"none"}, owns : BOOLEAN]

NoTask == [h |-> "none", pc |-> "idle", user |-> Nil, peer |-> Nil,
           call |-> Nil, out |-> "none", owns |-> FALSE]

TypeOK ==
    /\ call \in [CallIds -> CallDocs]
    /\ busy \in [Users -> CallIds \cup {Nil}]
    /\ ringing \in SUBSET CallIds
    /\ conn \in [Users -> 0..MaxSockets]
    /\ told \in [CallIds -> SUBSET Users]
    /\ task \in [Procs -> Tasks]
    /\ faults \in 0..MaxFaults

------------------------------------------------------------------------------
(* Vocabulary.                                                             *)

Parties(c) == {call[c].caller, call[c].callee}

(* Mutant: the branches swapped. *)
OtherPartySwapped(u, c) ==
    IF u = call[c].caller THEN call[c].caller ELSE call[c].callee

OtherParty(u, c) ==
    IF u = call[c].caller THEN call[c].callee ELSE call[c].caller

(* Entries of the ringing map a disconnecting user is a party to. *)
RingsOf(u) == {c \in ringing : u \in Parties(c)}

Idle(t) == task[t].pc = "idle"

(* An id no document has and no handler is about to create. *)
Unused(c) ==
    /\ call[c].status = "absent"
    /\ \A t \in Procs : task[t].call # c

(* Who knows how the ring of its call ended once handler t has run to its  *)
(* end: the user whose event it was and the user it emits to; the timer    *)
(* callback emits to both parties.                                         *)
Reached(t) ==
    IF task[t].h = "timeout" THEN Parties(task[t].call)
    ELSE {task[t].user, OtherParty(task[t].user, task[t].call)}

Start(t, handler, pc, u, c, out, owns) ==
    task' = [task EXCEPT ![t] =
               [h |-> handler, pc |-> pc, user |-> u, peer |-> Nil,
                call |-> c, out |-> out, owns |-> owns]]

GoTo(t, pc) == task' = [task EXCEPT ![t].pc = pc]

Finish(t) == task' = [task EXCEPT ![t] = NoTask]

------------------------------------------------------------------------------
Init ==
    /\ call    = [c \in CallIds |-> NoCall]
    /\ busy    = [u \in Users |-> Nil]
    /\ ringing = {}
    /\ conn    = [u \in Users |-> 0]
    /\ told    = [c \in CallIds |-> {}]
    /\ task    = [t \in Procs |-> NoTask]
    /\ faults  = 0

------------------------------------------------------------------------------
(* Sockets.                                                                *)

Connect(u) ==
    /\ conn[u] < MaxSockets
    /\ conn' = [conn EXCEPT ![u] = @ + 1]
    /\ UNCHANGED <<call, busy, ringing, told, task, faults>>

(* One turn of handleDisconnect's loop: take the next ringing call of u    *)
(* out of the map and settle it, or go on to u's busy key if there is none.*)
DropNext(t, u) ==
    \/ \E c \in RingsOf(u) :
         /\ ringing' = ringing \ {c}
         /\ Start(t, "dropRing", "endRead", u, c, "cancelled", TRUE)
    \/ /\ RingsOf(u) = {}
       /\ Start(t, "drop", "getBusy", u, Nil, "none", FALSE)
       /\ UNCHANGED ringing

Disconnect(r, u) ==
    /\ Idle(r)
    /\ conn[u] > 0
    /\ conn' = [conn EXCEPT ![u] = @ - 1]
    /\ DropNext(r, u)
    /\ UNCHANGED <<call, busy, told, faults>>

------------------------------------------------------------------------------
(* Placing a call.                                                         *)

Initiate(r, u, v, c) ==
    /\ Idle(r)
    /\ conn[u] > 0
    /\ {<<u, v>>, <<v, u>>} \cap Blocked = {}
    /\ Unused(c)
    /\ task' = [task EXCEPT ![r] =
                  [h |-> "initiate", pc |-> "isBusy", user |-> u, peer |-> v,
                   call |-> c, out |-> "none", owns |-> TRUE]]
    /\ UNCHANGED <<call, busy, ringing, conn, told, faults>>

IsBusy(t) ==
    /\ task[t].pc = "isBusy"
    /\ IF busy[task[t].peer] = Nil THEN GoTo(t, "create") ELSE Finish(t)
    /\ UNCHANGED <<call, busy, ringing, conn, told, faults>>

(* Mutant: the caller counts as busy from the moment the call exists. *)
CreateCallMarksBusy(t) ==
    /\ task[t].pc = "create"
    /\ call' = [call EXCEPT ![task[t].call] =
                  [status |-> "ringing", caller |-> task[t].user,
                   callee |-> task[t].peer, answered |-> FALSE]]
    /\ busy' = [busy EXCEPT ![task[t].user] = task[t].call]
    /\ GoTo(t, "register")
    /\ UNCHANGED <<ringing, conn, told, faults>>

CreateCall(t) ==
    /\ task[t].pc = "create"
    /\ call' = [call EXCEPT ![task[t].call] =
                  [status |-> "ringing", caller |-> task[t].user,
                   callee |-> task[t].peer, answered |-> FALSE]]
    /\ GoTo(t, "register")
    /\ UNCHANGED <<busy, ringing, conn, told, faults>>

(* Mutant: the timer is not armed and the entry not kept. *)
RegisterNothing(t) ==
    /\ task[t].pc = "register"
    /\ Finish(t)
    /\ UNCHANGED <<call, busy, ringing, conn, told, faults>>

(* The document is back: arm the timer and enter the call into the map. *)
Register(t) ==
    /\ task[t].pc = "register"
    /\ ringing' = ringing \cup {task[t].call}
    /\ Finish(t)
    /\ UNCHANGED <<call, busy, conn, told, faults>>

------------------------------------------------------------------------------
(* Settling the ring: the first to take the entry out of the map decides.  *)

(* Mutant: the entry stays in the map while the handler awaits. *)
ClaimKeepsEntry(t, handler, pc, u, c, out) ==
    /\ Idle(t)
    /\ c \in ringing
    /\ Start(t, handler, pc, u, c, out, TRUE)
    /\ UNCHANGED <<call, busy, ringing, conn, told, faults>>

Claim(t, handler, pc, u, c, out) ==
    /\ Idle(t)
    /\ c \in ringing
    /\ ringing' = ringing \ {c}
    /\ Start(t, handler, pc, u, c, out, TRUE)
    /\ UNCHANGED <<call, busy, conn, told, faults>>

(* Mutant: the busy keys are set and the call is not marked active. *)
AcceptSkipsMarkActive(r, u, c) ==
    /\ conn[u] > 0
    /\ u = call[c].callee
    /\ Claim(r, "accept", "busyCaller", u, c, "none")

(* Mutant: the call document is consulted instead of the map. *)
AcceptByDocument(r, u, c) ==
    /\ conn[u] > 0
    /\ u = call[c].callee
    /\ Idle(r)
    /\ call[c].status = "ringing"
    /\ ringing' = ringing \ {c}
    /\ Start(r, "accept", "markActive", u, c, "none", TRUE)
    /\ UNCHANGED <<call, busy, conn, told, faults>>

Accept(r, u, c) ==
    /\ conn[u] > 0
    /\ u = call[c].callee
    /\ Claim(r, "accept", "markActive", u, c, "none")

Reject(r, u, c) ==
    /\ conn[u] > 0
    /\ u = call[c].callee
    /\ Claim(r, "reject", "endRead", u, c, "rejected")

Cancel(r, u, c) ==
    /\ conn[u] > 0
    /\ u = call[c].caller
    /\ Claim(r, "cancel", "endRead", u, c, "cancelled")

(* Mutant: the timer is not cleared when the ring is settled, and its      *)
(* callback does not look for the entry.                                   *)
RingTimeoutUnchecked(c) ==
    /\ Idle(c)
    /\ call[c].status # "absent"
    /\ ringing' = ringing \ {c}
    /\ Start(c, "timeout", "endRead", Nil, c, "missed", TRUE)
    /\ UNCHANGED <<call, busy, conn, told, faults>>

RingTimeout(c) == Claim(c, "timeout", "endRead", Nil, c, "missed")

(* Mutant: markActive without the filter on the status. *)
MarkActiveAlways(t) ==
    /\ task[t].pc = "markActive"
    /\ call' = [call EXCEPT ![task[t].call].status = "active",
                            ![task[t].call].answered = TRUE]
    /\ GoTo(t, "busyCaller")
    /\ UNCHANGED <<busy, ringing, conn, told, faults>>

(* markActive filters on status 'ringing'; handleAccept does not look at   *)
(* whether it matched.                                                     *)
MarkActive(t) ==
    /\ task[t].pc = "markActive"
    /\ call' = IF call[task[t].call].status = "ringing"
               THEN [call EXCEPT ![task[t].call].status = "active",
                                 ![task[t].call].answered = TRUE]
               ELSE call
    /\ GoTo(t, "busyCaller")
    /\ UNCHANGED <<busy, ringing, conn, told, faults>>

(* Mutant: the arguments of setBusy swapped. *)
SetBusyCallerSwapped(t) ==
    /\ task[t].pc = "busyCaller"
    /\ busy' = [busy EXCEPT ![call[task[t].call].caller] =
                              call[task[t].call].caller]
    /\ GoTo(t, "busyCallee")
    /\ UNCHANGED <<call, ringing, conn, told, faults>>

SetBusyCaller(t) ==
    /\ task[t].pc = "busyCaller"
    /\ busy' = [busy EXCEPT ![call[task[t].call].caller] = task[t].call]
    /\ GoTo(t, "busyCallee")
    /\ UNCHANGED <<call, ringing, conn, told, faults>>

SetBusyCallee(t) ==
    /\ task[t].pc = "busyCallee"
    /\ busy' = [busy EXCEPT ![call[task[t].call].callee] = task[t].call]
    /\ told' = [told EXCEPT ![task[t].call] = @ \cup Reached(t)]
    /\ Finish(t)
    /\ UNCHANGED <<call, ringing, conn, faults>>

------------------------------------------------------------------------------
(* markEnded: one read, then a save that writes the status only if it      *)
(* differs from the one read.                                              *)

EndRead(t) ==
    /\ task[t].pc = "endRead"
    /\ task' = [task EXCEPT
         ![t].pc  = "endSave",
         ![t].out = IF call[task[t].call].status = @ THEN "none" ELSE @]
    /\ UNCHANGED <<call, busy, ringing, conn, told, faults>>

Save(t) ==
    /\ task[t].pc = "endSave"
    /\ call' = IF task[t].out = "none" THEN call
               ELSE [call EXCEPT ![task[t].call].status = task[t].out]

(* Reject, cancel and timeout emit and are done. *)
RingSettled(t) ==
    /\ Save(t)
    /\ task[t].h \in {"reject", "cancel", "timeout"}
    /\ told' = [told EXCEPT ![task[t].call] = @ \cup Reached(t)]
    /\ Finish(t)
    /\ UNCHANGED <<busy, ringing, conn, faults>>

(* A disconnect emits and, in the same turn of the event loop, moves to    *)
(* its next ringing call.                                                  *)
RingDropped(t) ==
    /\ Save(t)
    /\ task[t].h = "dropRing"
    /\ told' = [told EXCEPT ![task[t].call] = @ \cup Reached(t)]
    /\ DropNext(t, task[t].user)
    /\ UNCHANGED <<busy, conn, faults>>

CallEnded(t) ==
    /\ Save(t)
    /\ task[t].h \in {"end", "drop"}
    /\ GoTo(t, "clearCaller")
    /\ UNCHANGED <<busy, ringing, conn, told, faults>>

------------------------------------------------------------------------------
(* Ending a call: call:end, or the disconnect of a user with a busy key.   *)

(* Nobody asks whether the user is a party to the call he names.  The      *)
(* entry, if the call still rings, is taken out of the map.                *)
End(r, u, c) ==
    /\ Idle(r)
    /\ conn[u] > 0
    /\ call[c].status # "absent"
    /\ ringing' = ringing \ {c}
    /\ Start(r, "end", "find", u, c, "none", c \in ringing)
    /\ UNCHANGED <<call, busy, conn, told, faults>>

GetBusyCall(t) ==
    /\ task[t].pc = "getBusy"
    /\ LET c == busy[task[t].user] IN
         IF c = Nil THEN Finish(t)
         ELSE task' = [task EXCEPT ![t].pc = "find", ![t].call = c]
    /\ UNCHANGED <<call, busy, ringing, conn, told, faults>>

(* findById; without a document call:end returns and a disconnect clears   *)
(* the user's own key.                                                     *)
FindCall(t) ==
    /\ task[t].pc = "find"
    /\ IF call[task[t].call].status = "absent"
       THEN /\ Finish(t)
            /\ busy' = IF task[t].h = "drop"
                       THEN [busy EXCEPT ![task[t].user] = Nil] ELSE busy
       ELSE /\ task' = [task EXCEPT
                  ![t].pc  = "endRead",
                  ![t].out = IF call[task[t].call].status = "active"
                             THEN "completed" ELSE "cancelled"]
            /\ UNCHANGED busy
    /\ UNCHANGED <<call, ringing, conn, told, faults>>

ClearCaller(t) ==
    /\ task[t].pc = "clearCaller"
    /\ busy' = [busy EXCEPT ![call[task[t].call].caller] = Nil]
    /\ GoTo(t, "clearCallee")
    /\ UNCHANGED <<call, ringing, conn, told, faults>>

ClearCallee(t) ==
    /\ task[t].pc = "clearCallee"
    /\ busy' = [busy EXCEPT ![call[task[t].call].callee] = Nil]
    /\ told' = [told EXCEPT ![task[t].call] = @ \cup Reached(t)]
    /\ Finish(t)
    /\ UNCHANGED <<call, ringing, conn, faults>>

------------------------------------------------------------------------------
(* The environment.                                                        *)

(* A busy key that nobody cleared expires after 4 h.  The bound on faults  *)
(* counts expiries too.                                                    *)
ExpireBusy(u) ==
    /\ faults < MaxFaults
    /\ faults' = faults + 1
    /\ busy[u] # Nil
    /\ busy' = [busy EXCEPT ![u] = Nil]
    /\ UNCHANGED <<call, ringing, conn, told, task>>

(* The process dies, which also is how a failed round trip of a timer      *)
(* callback or of handleDisconnect ends (nobody handles the rejection):    *)
(* the map, its timers, the sockets and the handlers are gone, MongoDB and *)
(* Redis are not.                                                          *)
Crash ==
    /\ faults < MaxFaults
    /\ faults'  = faults + 1
    /\ ringing' = {}
    /\ conn'    = [u \in Users |-> 0]
    /\ task'    = [t \in Procs |-> NoTask]
    /\ UNCHANGED <<call, busy, told>>

(* A round trip of a socket event's handler fails: the handler stops. *)
Abort(r) ==
    /\ faults < MaxFaults
    /\ faults' = faults + 1
    /\ task[r].h \in {"initiate", "accept", "reject", "cancel", "end"}
    /\ Finish(r)
    /\ UNCHANGED <<call, busy, ringing, conn, told>>

------------------------------------------------------------------------------
(* The next round trip of handler t completes. *)
Step(t) ==
    \/ IsBusy(t) \/ CreateCall(t) \/ Register(t)
    \/ MarkActive(t) \/ SetBusyCaller(t) \/ SetBusyCallee(t)
    \/ EndRead(t) \/ RingSettled(t) \/ RingDropped(t) \/ CallEnded(t)
    \/ GetBusyCall(t) \/ FindCall(t) \/ ClearCaller(t) \/ ClearCallee(t)

(* Socket events. *)
Event(r, u) ==
    \/ Disconnect(r, u)
    \/ \E v \in Users, c \in CallIds : Initiate(r, u, v, c)
    \/ \E c \in CallIds :
         Accept(r, u, c) \/ Reject(r, u, c) \/ Cancel(r, u, c) \/ End(r, u, c)

Next ==
    \/ \E u \in Users : Connect(u) \/ ExpireBusy(u)
    \/ \E r \in Requests, u \in Users : Event(r, u)
    \/ \E c \in CallIds : RingTimeout(c)
    \/ \E t \in Procs : Step(t)
    \/ Crash
    \/ \E r \in Requests : Abort(r)

Spec == Init /\ [][Next]_vars

(* Round trips complete and the timer of an entry fires, as long as the    *)
(* process lives.  Nothing is asked of the users.                          *)
Fairness ==
    /\ \A t \in Procs : WF_vars(Step(t))
    /\ \A c \in CallIds : WF_vars(RingTimeout(c))

FairSpec == Spec /\ Fairness

------------------------------------------------------------------------------
(* Properties.                                                             *)

(* Handler t may still decide how c rings: it has c's entry in its hands. *)
Holds(t, c) == task[t].owns /\ task[t].call = c

(* Accept, reject, cancel, call:end, the disconnect of a party and the     *)
(* ring timer race for the same map entry (call.gateway.ts:167-224,        *)
(* 277-281, 303-306).  At any time at most one of them holds it, and none  *)
(* does while it is still in the map: the ring is settled once.            *)
SingleClaim ==
    \A c \in CallIds :
      /\ \A t \in Procs : Holds(t, c) => c \notin ringing
      /\ \A s, t \in Procs : Holds(s, c) /\ Holds(t, c) => s = t

(* The history tells the truth about the answer: a call recorded as missed *)
(* or rejected was never answered and one recorded as active or completed  *)
(* was, although markEnded overwrites whatever status it finds             *)
(* (calls.service.ts:58-74).                                               *)
OutcomeMatchesAnswer ==
    \A c \in CallIds :
      /\ call[c].status \in {"missed", "rejected", "ringing"}
           => ~call[c].answered
      /\ call[c].status \in {"active", "completed"} => call[c].answered

(* As long as nothing fails, a call whose document says 'ringing' has an   *)
(* entry with an armed timer, or a handler that will enter or settle it:   *)
(* no call is left ringing with nobody to stop it                          *)
(* (call.gateway.ts:143-153, 303-308).                                     *)
RingingIsOwned ==
    faults = 0 =>
      \A c \in CallIds :
        call[c].status = "ringing" =>
          c \in ringing \/ \E t \in Procs : Holds(t, c)

(* A busy key names a call of that very user, and one that is past         *)
(* ringing: the disconnect handler, which ends the call the key names      *)
(* (call.gateway.ts:101-114), never ends a call that still rings or that   *)
(* belongs to others.                                                      *)
BusyNamesOwnCall ==
    \A u \in Users :
      busy[u] # Nil =>
        /\ u \in Parties(busy[u])
        /\ call[busy[u]].status \notin {"absent", "ringing"}

(* A call whose ring nobody controls any more: its document says           *)
(* 'ringing', but a crash lost its map entry, or the handler that held it  *)
(* failed.                                                                 *)
Orphan(c) ==
    /\ call[c].status = "ringing"
    /\ c \notin ringing
    /\ \A t \in Procs : ~Holds(t, c)

(* A lost ring is taken up by nobody: it never rings again, no handler may *)
(* answer or reject it, and all that can happen to it is a call:end that   *)
(* records it as cancelled (call.gateway.ts:36-40, 172-173, 282-292;       *)
(* calls.service.ts:50-56).                                                *)
OrphansStayUnanswered ==
    [][\A c \in CallIds :
         Orphan(c) => /\ c \notin ringing'
                      /\ Orphan(c)' \/ call'[c].status = "cancelled"]_vars

(* A third user's call:end took c's entry out of the map.                  *)
EndedByOthers(c) ==
    \E r \in Requests :
      Holds(r, c) /\ task[r].h = "end" /\ task[r].user \notin Parties(c)

(* As long as nothing fails, every ring is heard to end on both sides:     *)
(* once a call rings, the timer or a handler tells caller and callee,      *)
(* whoever answers, hangs up, disconnects or is late.  One exception: when *)
(* a third user ends the call, its handler tells the caller only, and the  *)
(* callee's ring goes on (call.gateway.ts:272-301).                        *)
RingStopsForBoth ==
    \A c \in CallIds :
      c \in ringing ~> \/ Parties(c) \subseteq told[c]
                       \/ EndedByOthers(c)
                       \/ faults > 0

------------------------------------------------------------------------------
(* Refinement: the stage of a call is a function of its document.          *)

Stage(doc) ==
    CASE doc.status = "absent"  -> "none"
      [] doc.status = "ringing" -> "ringing"
      [] doc.status = "active"  -> "live"
      [] OTHER -> IF doc.answered THEN "answered" ELSE "unanswered"

Lifecycle == INSTANCE CallLifecycle WITH
               life <- [c \in CallIds |-> Stage(call[c])]

(* Whatever the handlers, the timer and the faults do, each call document  *)
(* follows CallLifecycle: answered at most once and only while it rings,   *)
(* and over for good.                                                      *)
LifecycleSpec == Lifecycle!LifeSpec

------------------------------------------------------------------------------
(* What a comment of the code says, and what it does not achieve.          *)

(* call.gateway.ts:98-100: a disconnecting user's busy flag "must be       *)
(* cleared on disconnect too".  A user without a socket, with no handler   *)
(* in flight and nothing failed, has no busy key.                          *)
DisconnectClearsBusy ==
    \A u \in Users :
      conn[u] = 0 /\ faults = 0 /\ (\A t \in Procs : Idle(t))
        => busy[u] = Nil

------------------------------------------------------------------------------
(* The inductive invariant behind the safety properties                    *)
(* (CallSignalingProofs).                                                  *)

(* A document exists with both its users, or not at all, and records an    *)
(* answer exactly when its status allows one.                              *)
DocOK(c) ==
    /\ call[c].status = "absent" => call[c] = NoCall
    /\ call[c].status # "absent" => call[c].caller \in Users /\ call[c].callee \in Users
    /\ call[c].status \in {"missed", "rejected", "ringing"} => ~call[c].answered
    /\ call[c].status \in {"active", "completed"} => call[c].answered

(* Each handler is at one of its own awaits, with its own data. *)
TaskOK(k) ==
    \/ k = NoTask
    \/ /\ k.h = "initiate" /\ k.pc \in {"isBusy", "create", "register"}
       /\ k.user \in Users /\ k.peer \in Users /\ k.call \in CallIds
       /\ k.out = "none" /\ k.owns
    \/ /\ k.h = "accept" /\ k.pc \in {"markActive", "busyCaller", "busyCallee"}
       /\ k.user \in Users /\ k.call \in CallIds /\ k.out = "none" /\ k.owns
    \/ /\ k.h \in {"reject", "cancel", "dropRing"} /\ k.pc \in {"endRead", "endSave"}
       /\ k.user \in Users /\ k.call \in CallIds /\ k.owns
       /\ k.pc = "endRead" => k.out # "none"
    \/ /\ k.h = "timeout" /\ k.pc \in {"endRead", "endSave"}
       /\ k.call \in CallIds /\ k.owns
       /\ k.pc = "endRead" => k.out # "none"
    \/ /\ k.h \in {"end", "drop"}
       /\ k.pc \in {"find", "endRead", "endSave", "clearCaller", "clearCallee"}
       /\ k.user \in Users /\ k.call \in CallIds
       /\ k.out \notin {"missed", "rejected"}
       /\ k.pc = "endRead" => k.out # "none"
    \/ /\ k.h = "drop" /\ k.pc = "getBusy"
       /\ k.user \in Users /\ k.call = Nil
       /\ k.out = "none" /\ ~k.owns

(* What handler k may rely on in the document d of its call. *)
ReliesOn(k, d) ==
    /\ d.status = "absent" <=> k.pc \in {"isBusy", "create"}
    /\ k.pc \in {"busyCaller", "busyCallee"} => d.status # "ringing"
    /\ k.pc = "endSave" /\ k.out = "none" => d.status \in Ended
    /\ k.pc \in {"clearCaller", "clearCallee"} => d.status \in Ended
    /\ k.out = "completed" => d.answered
    /\ d.answered /\ k.owns => k.h = "accept"

DocsOK  == \A c \in CallIds : DocOK(c)

TasksOK == \A t \in Procs : TaskOK(task[t])

ReliancesOK ==
    \A t \in Procs :
      task[t].call # Nil => ReliesOn(task[t], call[task[t].call])

(* What is in the map was created and is unanswered. *)
MapOK == \A c \in ringing : call[c].status # "absent" /\ ~call[c].answered

(* Nobody else knows a call that does not exist yet. *)
FreshOK ==
    \A s, t \in Procs :
      task[t].pc \in {"isBusy", "create"} /\ task[s].call = task[t].call => s = t

IInv ==
    /\ TypeOK
    /\ DocsOK
    /\ TasksOK
    /\ ReliancesOK
    /\ MapOK
    /\ FreshOK
    /\ SingleClaim
    /\ BusyNamesOwnCall
    /\ RingingIsOwned
==============================================================================
