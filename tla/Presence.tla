------------------------------ MODULE Presence ------------------------------
(***************************************************************************)
(* Who is online and in which room: connections of the /chat namespace     *)
(* (ChatGateway.handleConnection and handleDisconnect), the hash of open   *)
(* sockets per user in Redis (PresenceService), the status in the user's   *)
(* document, what the members of his conversations are told, and the       *)
(* Socket.IO room of one conversation, which users join and leave          *)
(* (ConversationsService, ChatRoomRegistry).                               *)
(*                                                                         *)
(* Connecting is a chain of eight round trips and disconnecting one of     *)
(* four.  A socket may close while its own handleConnection still waits,   *)
(* and the sockets of one user interleave.                                 *)
(***************************************************************************)
EXTENDS Naturals

CONSTANTS
    Users,        \* accounts
    Sockets,      \* connections, in the order of nobody
    UserOf,       \* UserOf[s]: whose access token s presents
    MaxMoves,     \* bound: additions to the conversation
    MaxFaults     \* bound: crashes

ASSUME ConstantsAssumption ==
    /\ UserOf \in [Sockets -> Users]
    /\ MaxMoves \in Nat
    /\ MaxFaults \in Nat

VARIABLES
    up,           \* up[s]: how far handleConnection is
    down,         \* down[s]: how far handleDisconnect is
    open,         \* sockets that are connected
    first,        \* sockets about to be added whose countBefore was 0
    timer,        \* sockets with an armed presenceRefreshInterval
    beat,         \* sockets whose refresh has written, and awaits its expire
    hash,         \* fields of the hashes presence:<user>
    ttl,          \* users whose hash has a time to live
    status,       \* status[u] in the user's document
    news,         \* news[u]: the last presence event about u
    members,      \* users with an active row in the conversation
    unseen,       \* users whose row is written but not committed
    due,          \* users whose joinUserToRoom is under way
    listed,       \* sockets whose list has the conversation in it
    room,         \* sockets in the room of the conversation
    owed,         \* history: sockets that must get into the room
    moves,        \* number of additions so far (for the bound only)
    cut,          \* history: sockets this process saw close before they were up
    faults        \* number of crashes so far (for the bound only)

stored == <<hash, ttl, status, news>>

beats == <<timer, beat>>

rows == <<members, unseen, due, moves>>

joins == <<listed, room, owed>>

vars == <<up, down, open, first, beats, stored, rows, joins, cut, faults>>

------------------------------------------------------------------------------
Ups == {"new", "authenticate", "listMine", "join", "hlen", "hset",
        "expire", "setOnline", "listOthers", "filterOnline", "up", "over"}

Downs == {"none", "hdel", "hlen", "setOffline", "listMine", "over"}

------------------------------------------------------------------------------
(* Vocabulary.                                                             *)

SocketsOf(u) == {s \in Sockets : UserOf[s] = u}

Entries(u) == hash \cap SocketsOf(u)

IsOnline(u) == Entries(u) # {}

(* notifyOfflineUsers: who of the recipients of a message gets a push. *)
NotifyOfflineUsers(us) == {u \in us : ~IsOnline(u)}

(* handleConnection of s goes on to its next await. *)
Advance(s, pc) == up' = [up EXCEPT ![s] = pc]

(* handleDisconnect of s goes on to its next await. *)
Retreat(s, pc) == down' = [down EXCEPT ![s] = pc]

(* userId was set by the segment that follows the authentication. *)
Known(s) == up[s] \notin {"new", "authenticate", "over"}

Connecting(s) == up[s] \notin {"new", "up", "over"}

(* s is in its user's own room. *)
Joined(s) == s \in open /\ Known(s) /\ up[s] \notin {"listMine", "join"}

Disconnecting(s) == down[s] \notin {"none", "over"}

(* The last conjunct: handleDisconnect only works for a socket whose user  *)
(* handleConnection has set.                                               *)
TypeOK ==
    /\ up \in [Sockets -> Ups]
    /\ down \in [Sockets -> Downs]
    /\ open \in SUBSET Sockets
    /\ first \in SUBSET Sockets
    /\ timer \in SUBSET Sockets
    /\ beat \in SUBSET Sockets
    /\ hash \in SUBSET Sockets
    /\ ttl \in SUBSET Users
    /\ status \in [Users -> {"online", "offline"}]
    /\ news \in [Users -> {"none", "presence:online", "presence:offline"}]
    /\ members \in SUBSET Users
    /\ unseen \in SUBSET Users
    /\ due \in SUBSET Users
    /\ listed \in SUBSET Sockets
    /\ room \in SUBSET Sockets
    /\ owed \in SUBSET Sockets
    /\ moves \in 0..MaxMoves
    /\ cut \in SUBSET Sockets
    /\ faults \in 0..MaxFaults
    /\ \A s \in Sockets : Disconnecting(s) => Known(s)

------------------------------------------------------------------------------
Init ==
    /\ up     = [s \in Sockets |-> "new"]
    /\ down   = [s \in Sockets |-> "none"]
    /\ open   = {}
    /\ first  = {}
    /\ timer  = {}
    /\ beat   = {}
    /\ hash   = {}
    /\ ttl    = {}
    /\ status = [u \in Users |-> "offline"]
    /\ news   = [u \in Users |-> "none"]
    /\ members = {}
    /\ unseen = {}
    /\ due    = {}
    /\ listed = {}
    /\ room   = {}
    /\ owed   = {}
    /\ moves  = 0
    /\ cut    = {}
    /\ faults = 0

------------------------------------------------------------------------------
(* handleConnection.                                                       *)

Connect(s) ==
    /\ up[s] = "new"
    /\ open' = open \cup {s}
    /\ Advance(s, "authenticate")
    /\ UNCHANGED <<down, first, beats, stored, rows, joins, cut, faults>>

(* Without a valid token the socket is closed and nothing else happens. *)
Authenticate(s) ==
    /\ up[s] = "authenticate"
    /\ \/ Advance(s, "listMine") /\ UNCHANGED <<down, open>>
       \/ /\ Advance(s, "over")
          /\ Retreat(s, "over")
          /\ open' = open \ {s}
    /\ UNCHANGED <<first, beats, stored, rows, joins, cut, faults>>

(* A row that is not committed is not in the list. *)
ListMyConversations(s) ==
    /\ up[s] = "listMine"
    /\ IF UserOf[s] \in members
       THEN listed' = listed \cup {s} /\ owed' = owed \cup {s}
       ELSE UNCHANGED <<listed, owed>>
    /\ Advance(s, "join")
    /\ UNCHANGED <<down, open, first, beats, stored, rows, room, cut, faults>>

(* The user's own room, and those of the list. *)
JoinRooms(s) ==
    /\ up[s] = "join"
    /\ room' = IF s \in listed \cap open THEN room \cup {s} ELSE room
    /\ listed' = listed \ {s}
    /\ Advance(s, "hlen")
    /\ UNCHANGED <<down, open, first, beats, stored, rows, owed, cut, faults>>

CountBefore(s) ==
    /\ up[s] = "hlen"
    /\ first' = IF IsOnline(UserOf[s]) THEN first ELSE first \cup {s}
    /\ Advance(s, "hset")
    /\ UNCHANGED <<down, open, beats, stored, rows, joins, cut, faults>>

(* hset keeps the time to live of the key, and gives a new one none. *)
AddEntry(s) ==
    /\ up[s] = "hset"
    /\ hash' = hash \cup {s}
    /\ Advance(s, "expire")
    /\ UNCHANGED <<down, open, first, beats, ttl, status, news, rows, joins, cut, faults>>

(* expire has no effect on a key that is gone. *)
SetTTL(s) ==
    /\ up[s] = "expire"
    /\ ttl' = IF IsOnline(UserOf[s]) THEN ttl \cup {UserOf[s]} ELSE ttl
    /\ Advance(s, IF s \in first THEN "setOnline" ELSE "listOthers")
    /\ first' = first \ {s}
    /\ UNCHANGED <<down, open, beats, hash, status, news, rows, joins, cut, faults>>

(* Mutant: the status is written without waiting for it. *)
SetOnlineUnawaited(s) ==
    /\ \/ /\ up[s] = "setOnline"
          /\ Advance(s, "listOthers")
          /\ UNCHANGED <<status, news>>
       \/ /\ up[s] \in {"listOthers", "filterOnline", "up"}
          /\ status' = [status EXCEPT ![UserOf[s]] = "online"]
          /\ news' = [news EXCEPT ![UserOf[s]] = "presence:online"]
          /\ UNCHANGED up
    /\ UNCHANGED <<down, open, first, beats, hash, ttl, rows, joins, cut, faults>>

SetOnline(s) ==
    /\ up[s] = "setOnline"
    /\ status' = [status EXCEPT ![UserOf[s]] = "online"]
    /\ news' = [news EXCEPT ![UserOf[s]] = "presence:online"]
    /\ Advance(s, "listOthers")
    /\ UNCHANGED <<down, open, first, beats, hash, ttl, rows, joins, cut, faults>>

ListOthers(s) ==
    /\ up[s] = "listOthers"
    /\ Advance(s, "filterOnline")
    /\ UNCHANGED <<down, open, first, beats, stored, rows, joins, cut, faults>>

(* The snapshot is sent and the interval armed, whether or not the socket  *)
(* is still there.                                                         *)
FilterOnline(s) ==
    /\ up[s] = "filterOnline"
    /\ timer' = timer \cup {s}
    /\ Advance(s, "up")
    /\ UNCHANGED <<down, open, first, beat, stored, rows, joins, cut, faults>>

(* The interval fires.  Only a crash stops a refresh that is under way. *)
Refresh(s) ==
    /\ s \in timer \ beat
    /\ hash' = hash \cup {s}
    /\ beat' = beat \cup {s}
    /\ UNCHANGED <<up, down, open, first, timer, ttl, status, news, rows, joins,
                   cut, faults>>

RefreshTTL(s) ==
    /\ s \in beat
    /\ beat' = beat \ {s}
    /\ ttl' = IF IsOnline(UserOf[s]) THEN ttl \cup {UserOf[s]} ELSE ttl
    /\ UNCHANGED <<up, down, open, first, timer, hash, status, news, rows, joins,
                   cut, faults>>

------------------------------------------------------------------------------
(* handleDisconnect.                                                       *)

(* Mutant: the interval goes on. *)
DisconnectKeepsTimer(s) ==
    /\ s \in open
    /\ open' = open \ {s}
    /\ Retreat(s, IF Known(s) THEN "hdel" ELSE "over")
    /\ cut' = IF up[s] = "up" THEN cut ELSE cut \cup {s}
    /\ room' = room \ {s}
    /\ owed' = owed \ {s}
    /\ UNCHANGED <<up, first, beats, stored, rows, listed, faults>>

(* Mutant: nobody asks whether there is a user. *)
DisconnectUnknown(s) ==
    /\ s \in open
    /\ open' = open \ {s}
    /\ timer' = timer \ {s}
    /\ Retreat(s, "hdel")
    /\ cut' = IF up[s] = "up" THEN cut ELSE cut \cup {s}
    /\ room' = room \ {s}
    /\ owed' = owed \ {s}
    /\ UNCHANGED <<up, first, beat, stored, rows, listed, faults>>

(* The interval is cleared if there is one; before the authentication is   *)
(* through there is no user to disconnect.                                 *)
Disconnect(s) ==
    /\ s \in open
    /\ open' = open \ {s}
    /\ timer' = timer \ {s}
    /\ Retreat(s, IF Known(s) THEN "hdel" ELSE "over")
    /\ cut' = IF up[s] = "up" THEN cut ELSE cut \cup {s}
    /\ room' = room \ {s}
    /\ owed' = owed \ {s}
    /\ UNCHANGED <<up, first, beat, stored, rows, listed, faults>>

(* Mutant: only the last entry is removed. *)
RemoveEntryIfLast(s) ==
    /\ down[s] = "hdel"
    /\ hash' = IF Entries(UserOf[s]) \subseteq {s} THEN hash \ {s} ELSE hash
    /\ ttl' = IF Entries(UserOf[s]) \subseteq {s} THEN ttl \ {UserOf[s]} ELSE ttl
    /\ Retreat(s, "hlen")
    /\ UNCHANGED <<up, open, first, beats, status, news, rows, joins, cut, faults>>

(* The key goes with its last field. *)
RemoveEntry(s) ==
    /\ down[s] = "hdel"
    /\ hash' = hash \ {s}
    /\ ttl' = IF Entries(UserOf[s]) \subseteq {s} THEN ttl \ {UserOf[s]} ELSE ttl
    /\ Retreat(s, "hlen")
    /\ UNCHANGED <<up, open, first, beats, status, news, rows, joins, cut, faults>>

CountRemaining(s) ==
    /\ down[s] = "hlen"
    /\ Retreat(s, IF IsOnline(UserOf[s]) THEN "over" ELSE "setOffline")
    /\ UNCHANGED <<up, open, first, beats, stored, rows, joins, cut, faults>>

SetOffline(s) ==
    /\ down[s] = "setOffline"
    /\ status' = [status EXCEPT ![UserOf[s]] = "offline"]
    /\ Retreat(s, "listMine")
    /\ UNCHANGED <<up, open, first, beats, hash, ttl, news, rows, joins, cut, faults>>

TellOffline(s) ==
    /\ down[s] = "listMine"
    /\ news' = [news EXCEPT ![UserOf[s]] = "presence:offline"]
    /\ Retreat(s, "over")
    /\ UNCHANGED <<up, open, first, beats, hash, ttl, status, rows, joins, cut, faults>>

------------------------------------------------------------------------------
(* Membership of the conversation.                                         *)

(* The rows of a thread, of a group or of new members are written, and     *)
(* joinUserToRoom is called; with Redis between the instances it takes     *)
(* effect some time later.                                                 *)
InsertRow(u) ==
    /\ u \notin members \cup unseen \cup due
    /\ moves < MaxMoves
    /\ moves' = moves + 1
    /\ unseen' = unseen \cup {u}
    /\ due' = due \cup {u}
    /\ owed' = owed \cup {s \in SocketsOf(u) : Joined(s)}
    /\ UNCHANGED <<up, down, open, first, beats, stored, members, listed, room,
                   cut, faults>>

(* The group is created in a transaction; without one, at once. *)
CommitRow(u) ==
    /\ u \in unseen
    /\ unseen' = unseen \ {u}
    /\ members' = members \cup {u}
    /\ UNCHANGED <<up, down, open, first, beats, stored, due, moves, joins,
                   cut, faults>>

(* Mutant: only connections that are through get into the room. *)
JoinUserToRoomWhenUp(u) ==
    /\ u \in due
    /\ due' = due \ {u}
    /\ room' = room \cup {s \in SocketsOf(u) : Joined(s) /\ up[s] = "up"}
    /\ UNCHANGED <<up, down, open, first, beats, stored, members, unseen, moves,
                   listed, owed, cut, faults>>

JoinUserToRoom(u) ==
    /\ u \in due
    /\ due' = due \ {u}
    /\ room' = room \cup {s \in SocketsOf(u) : Joined(s)}
    /\ UNCHANGED <<up, down, open, first, beats, stored, members, unseen, moves,
                   listed, owed, cut, faults>>

(* Leaving takes nobody out of the room. *)
LeaveConversation(u) ==
    /\ u \in members
    /\ members' = members \ {u}
    /\ UNCHANGED <<up, down, open, first, beats, stored, unseen, due, moves,
                   joins, cut, faults>>

------------------------------------------------------------------------------
(* The environment.                                                        *)

(* A hash expires 45 s after the last expire: not while an interval of     *)
(* 20 s refreshes it or a refresh is under way, nor within the few round   *)
(* trips from a connection's expire to its interval.                       *)
ExpireHash(u) ==
    /\ u \in ttl
    /\ \A s \in SocketsOf(u) :
         /\ s \notin timer \cup beat
         /\ up[s] \notin {"setOnline", "listOthers", "filterOnline"}
    /\ hash' = hash \ SocketsOf(u)
    /\ ttl' = ttl \ {u}
    /\ UNCHANGED <<up, down, open, first, beats, status, news, rows, joins, cut, faults>>

(* The process dies: connections, intervals and handlers are gone, MongoDB *)
(* and Redis are not.                                                      *)
Crash ==
    /\ faults < MaxFaults
    /\ faults' = faults + 1
    /\ up' = [s \in Sockets |-> IF up[s] = "new" THEN "new" ELSE "over"]
    /\ down' = [s \in Sockets |-> IF up[s] = "new" THEN "none" ELSE "over"]
    /\ open' = {}
    /\ first' = {}
    /\ timer' = {}
    /\ beat' = {}
    /\ unseen' = {}
    /\ due' = {}
    /\ listed' = {}
    /\ room' = {}
    /\ owed' = {}
    /\ cut' = {}
    /\ UNCHANGED <<stored, members, moves>>

------------------------------------------------------------------------------
(* The next round trip of a handler of s completes. *)
UpStep(s) ==
    \/ Authenticate(s) \/ ListMyConversations(s) \/ JoinRooms(s)
    \/ CountBefore(s) \/ AddEntry(s) \/ SetTTL(s) \/ SetOnline(s)
    \/ ListOthers(s) \/ FilterOnline(s)

DownStep(s) ==
    RemoveEntry(s) \/ CountRemaining(s) \/ SetOffline(s) \/ TellOffline(s)

RoundTrip(s) == UpStep(s) \/ DownStep(s) \/ RefreshTTL(s)

Next ==
    \/ \E s \in Sockets :
         Connect(s) \/ Disconnect(s) \/ Refresh(s) \/ RoundTrip(s)
    \/ \E u \in Users :
         InsertRow(u) \/ CommitRow(u) \/ JoinUserToRoom(u)
           \/ LeaveConversation(u) \/ ExpireHash(u)
    \/ Crash

Spec == Init /\ [][Next]_vars

(* While round trips of a socket wait, some of them complete, as long as   *)
(* the process lives, and Redis removes what has expired.                  *)
FairSpec ==
    /\ Spec
    /\ \A s \in Sockets : WF_vars(RoundTrip(s))
    /\ \A u \in Users : WF_vars(ExpireHash(u))

------------------------------------------------------------------------------
(* Properties.                                                             *)

(* All connections of u are closed and their handlers done; none of them   *)
(* closed before it was up, and the process never died.                    *)
Gone(u) ==
    /\ faults = 0
    /\ \A s \in SocketsOf(u) :
         s \notin open \cup cut /\ ~Connecting(s) /\ ~Disconnecting(s)

(* Whatever the sockets of a user do in parallel (chat.gateway.ts:92-101,  *)
(* 122-138; presence.service.ts:16-30), once he has gone he is offline:    *)
(* in his document, in Redis -- so that his messages are pushed to his     *)
(* devices -- and in what was last said about him.                         *)
GoneIsOffline ==
    \A u \in Users :
      Gone(u) => /\ status[u] = "offline"
                 /\ u \in NotifyOfflineUsers({u})
                 /\ news[u] # "presence:online"

(* chat-room-registry.service.ts:5-13, conversations.service.ts:352-357:   *)
(* whoever was connected when he was added, or connected afterwards, is in *)
(* the room, and misses no event of the conversation -- except a socket    *)
(* that read its list before the row was committed and joined its rooms    *)
(* after the row was written: nobody owes that one the room.               *)
RoomFollowsRow ==
    faults = 0 =>
      \A s \in owed :
        Joined(s) /\ UserOf[s] \notin due => s \in room

(* notifications.service.ts:24-31, chat.gateway.ts:79-90: a member of the  *)
(* conversation whom push passes over because of an entry has a socket     *)
(* that gets the event from the room, unless each of his entries is stale  *)
(* -- its socket closed before it was up, or its removal is under way --   *)
(* or is that of an open socket nobody owes the room.                      *)
ReachedOrPushed ==
    faults = 0 =>
      \A u \in members \ due :
        \/ u \in NotifyOfflineUsers({u})
        \/ room \cap SocketsOf(u) # {}
        \/ \A s \in Entries(u) :
             s \in cut \/ down[s] = "hdel" \/ s \in open \ owed

(* Nothing will remove the entries of u: an interval of a socket that      *)
(* closed while it connected keeps them alive, or the process died between *)
(* hset and expire and the key has no time to live.                        *)
Undying(u) ==
    \/ timer \cap cut \cap SocketsOf(u) # {}
    \/ faults > 0 /\ u \notin ttl

(* presence.service.ts:5, 20: entries whose sockets are gone -- closed in  *)
(* whatever order, or lost in a crash -- disappear, and their user can be  *)
(* reached by push again, unless they are undying or he comes back.        *)
EntriesFade ==
    \A u \in Users :
      IsOnline(u) /\ open \cap SocketsOf(u) = {}
        ~> ~IsOnline(u) \/ open \cap SocketsOf(u) # {} \/ Undying(u)
------------------------------------------------------------------------------
(* The inductive invariant behind the safety properties (PresenceProofs).  *)

(* s closed before it was up, or is still there, or handleDisconnect has   *)
(* not got further than pcs.                                               *)
AnswersFor(s, pcs) ==
    \/ s \in cut
    \/ Known(s) /\ (s \in open \/ down[s] \in pcs)

(* handleDisconnect runs after its socket was connected and has closed.    *)
OpenOK(s) ==
    /\ s \in open => up[s] # "new"
    /\ s \in open \/ up[s] = "new" => down[s] = "none"

(* The entry of s is written after s joined its rooms.                     *)
Added(s) ==
    s \in cut \/ up[s] \in {"expire", "setOnline", "listOthers", "filterOnline", "up"}

(* A handler without its socket, an interval or an entry.                  *)
SocketOK(s) ==
    /\ Connecting(s) /\ s \notin open => s \in cut
    /\ s \in timer => s \in cut \/ (s \in open /\ up[s] = "up")
    /\ s \in hash => AnswersFor(s, {"hdel"}) /\ Added(s)

(* A socket that must get into the room is in it, has it in its list, or   *)
(* joinUserToRoom will find it.                                            *)
OwedOK(s) ==
    /\ Known(s) /\ up[s] # "listMine"
    /\ up[s] = "join" => s \in listed
    /\ Joined(s) /\ UserOf[s] \notin due => s \in room

(* Whatever says that a user is online has a socket answering for it.      *)
UserOK(u) ==
    /\ status[u] = "online" =>
         \E s \in SocketsOf(u) : AnswersFor(s, {"hdel", "hlen", "setOffline"})
    /\ news[u] = "presence:online" =>
         \E s \in SocketsOf(u) :
           AnswersFor(s, {"hdel", "hlen", "setOffline", "listMine"})

IInv ==
    /\ TypeOK
    /\ \A s \in Sockets : OpenOK(s)
    /\ faults = 0 =>
         /\ \A s \in Sockets : SocketOK(s)
         /\ \A s \in owed : OwedOK(s)
         /\ \A u \in Users : UserOK(u)
==============================================================================
