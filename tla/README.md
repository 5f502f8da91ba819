# A formal model of the chat backend

TLA+ specifications of the chat application's backend (NestJS, MongoDB, Redis,
Socket.IO), the TLC runs that check them on small instances, and TLAPS proofs
that hold for every number of users, messages, sockets, calls and handlers in
flight. Paths below are relative to the repository (`src/modules/...` and so on).

The program is one Node process. Its handlers are asynchronous functions on one
event loop: the code between two `await`s runs undisturbed, and at every `await`
-- a round trip to MongoDB or Redis -- any other handler may run. There is no
transaction except in group creation, and no lock. This is where the hard
behaviours come from, and what every module here models: **one action per
await**, handlers in flight as records in the variable `task` (or, for a socket,
its place in `up` and `down`), everything else interleaved.

Two faults occur in every module: the process dies (`Crash`: what is in memory
is gone, MongoDB and Redis are not) and a round trip fails (`Abort`: one handler
stops where it is). Only in `Presence` a failed round trip is a crash as well:
nobody handles a rejection of `handleConnection` or `handleDisconnect`, and Node
ends the process.

## 1. Inventory

| Part | State | Operations | Hard behaviours | What makes it correct | Model |
|---|---|---|---|---|---|
| Calls (`gateways/call`, `modules/calls`) | call documents (MongoDB), `call:busy:<user>` keys (Redis, TTL 4 h), `ringing` map with one timer per entry (memory), sockets | connect, disconnect, `call:initiate/accept/reject/cancel/end`, ring timeout | six handlers race for one ring; document, map and keys are written apart; restart loses the map | a ring is settled once; history tells the truth; rings stop on both sides; busy keys mean something | `CallSignaling` |
| Messages, sending (`modules/messages`) | message documents, receipts | `message:send/delivered/read` | a send is seven writes and reads without a transaction; older sends overtake newer ones; receipts move from several devices | nothing is shown before its receipts exist; receipts only move forward; no send stops half-way | `Messaging` |
| Messages, afterwards | one document: content, deletion, reactions, version; copies of a forward | `message:edit/delete/react/forward` | handlers save copies they read a round trip ago; events carry these copies; a forward has several targets | what is deleted stays marked so, and only a late edit puts a text back; one reaction each; members see what is stored; no half-written copy is announced | `MessageDocument` |
| Conversations (`modules/conversations`) | conversations (`lastMessage`, `lastMessageAt`), participant rows | get-or-create direct, leave, delete for me, and what messages and groups call | races with sends; two-step creation; rows that are revived | counters are accounted for; a hidden chat comes back; each row of a thread is inserted once and none is missing | `Messaging`, `Membership`, `Presence` |
| Groups (`modules/groups`) | group document (`memberCount`, `ownerId`, settings), roles in participant rows | create (transaction), add, remove, role, settings | roles are checked round trips before they are relied on; `memberCount` is read, changed and saved | nobody takes the group from its owner; the count is right | `Membership` |
| Presence and rooms (`gateways/chat`, `infrastructure/redis/presence.service.ts`, `infrastructure/websocket`) | hash `presence:<user>` with TTL 45 s, interval per socket, user `status`, rooms | connect, disconnect, refresh, join a room | a socket closes while its connect awaits; count and write apart; expiry; added to a conversation while connecting | who has gone is offline; entries fade; members are in the room | `Presence` |
| Notifications (`modules/notifications`) | none | notify offline users | reads presence that may be stale | only users without a socket are pushed to, and they are | `Presence` (recipients) |
| Sessions (`modules/auth`) | refresh-token hashes in Redis with TTL | register, login, refresh (rotation), logout | get and delete of a key are two round trips | a session that is over stays over; its tokens are accounted for | `Accounts` |
| Users (`modules/users`) | user documents, devices, blocks | register, devices, block, profile | check-then-insert; two updates per device | unique names, one entry per device | `Accounts` |
| Uploads (`modules/uploads`, `infrastructure/storage`) | files or objects | signed URLs, upload, download | -- | -- | not modelled |
| Infrastructure, guards, DTOs, deployment | -- | wiring, validation, formatting | -- | -- | not modelled |

`PROJECT.json` lists the same parts as components, and under `hazards` each of
the hard behaviours at the line where it bites, with the properties about it.

How the parts interact: gateways call services, services call each other
directly (`MessagesService` -> `ConversationsService`, `UsersService`,
`NotificationsService`; `GroupsService` -> `ConversationsService`); services
reach sockets through `ChatRoomRegistry` only; presence is shared through Redis.
Where two parts share state they are in one module: messages with the counters
and rows they move, groups and threads with the rows and the leave route they
share, connections with the rows that decide their rooms. What remains between
modules is read-only for one side: `Messaging` takes blocks and the settings of a
group as constants and lets rows come and go as `Membership` allows;
`Membership` does not look at messages.

## 2. Modules

| Module | About | Proofs |
|---|---|---|
| `CallLifecycle` | abstract: what is promised about one call | -- |
| `CallSignaling` | the /calls gateway and its service | `CallSignalingProofs` |
| `MessageDelivery` | abstract: what is promised about a message's copies | -- |
| `Messaging` | send, receipts, reads, counters, leave and return | `MessagingProofs` |
| `MembershipRules` | abstract: who may change whose standing in a conversation | -- |
| `Membership` | groups, direct threads, roles, `memberCount`, leave route | `MembershipProofs` |
| `Presence` | connections, presence entries, online status, rooms | `PresenceProofs` |
| `SessionTokens` | abstract: what rotation promises about refresh tokens | -- |
| `Accounts` | registration, refresh tokens, devices | `AccountsProofs` |
| `MessageLife` | abstract: the same requests, each carried out at once | -- |
| `MessageDocument` | edit, delete, react, forward | `MessageDocumentProofs` |

An abstract module says what is promised and knows nothing of round trips; the
module below it has the refinement mapping (`INSTANCE ... WITH`) and the abstract
specification as one of its properties. `Presence` has none: what it promises is
about states at rest, and its invariants say that directly.

Each detailed module has an `MC` module with the instance TLC explores and one or more `.cfg`.
Definitions marked *Mutant* are altered copies of the definition that follows
them; nothing uses them. `PROJECT.json` pairs each with the property that fails
when it takes the place of the original.

## 3. Call signaling

`CallSignaling.tla` models `CallGateway` and the parts of `CallsService` it
drives.

| Variable | Code |
|---|---|
| `call[c]` | the call document: status, caller, callee, whether `answeredAt` is set |
| `busy[u]` | Redis key `call:busy:u` |
| `ringing` | keys of the gateway's `ringing` map; the entry's timer is armed exactly while it is there |
| `conn[u]` | open sockets of u |
| `task[t]` | the handler in slot t: a request slot, or the callback of the ring timer of call t |
| `told[c]` | who caused or was sent the end of c's ring (history variable) |
| `faults` | counts crashes, failed round trips and expired keys, for the bound |

Actions and code: `Initiate`, `IsBusy`, `CreateCall`, `Register` are the
segments of `handleInitiate`; `Accept`, `Reject`, `Cancel`, `RingTimeout` the
synchronous first segment of those handlers (all through `Claim`: look the entry
up, delete it); `MarkActive`, `SetBusyCaller`, `SetBusyCallee` the rest of
`handleAccept`; `End`, `FindCall`, `EndRead`, `CallEnded`, `ClearCaller`,
`ClearCallee` are `handleEnd` and the same chain in `handleDisconnect`, which
begins with `Disconnect`, one `EndRead`/`RingDropped` pair per ringing call and
`GetBusyCall`. `markEnded` is two round trips, a read and a save; the save writes
only what differs from what was read, as mongoose does. The check of blocks in
`handleInitiate` reads data nothing here changes and shares a step with the
event.

What clients may send: any event at any time, naming any call that was ever
created. Each handler makes the checks the gateway makes: `accept` and `reject` are
the callee's, `cancel` the caller's, and `call:end` anybody's. A `call:end` whose id
no document has reads nothing and changes nothing.

Left out: SDP, ICE and media relay, TURN credentials and the history query
(no state), logging, and the contents of emitted events -- `told` keeps who is
reached by the end of a ring.

Properties:

- `SingleClaim`: at most one handler holds a ring, none while it is in the map.
- `OutcomeMatchesAnswer`: a missed or rejected call was never answered, an active
  or completed one was, although `markEnded` overwrites any status.
- `RingingIsOwned`: without faults, a ringing document has a timer or a handler
  that will settle it.
- `BusyNamesOwnCall`: a busy key names a call of its user that is past ringing,
  also with crashes and expiries, so a disconnect never ends a call of others.
- `OrphansStayUnanswered` (action property): a ring lost in a crash is nobody's to
  settle again; it never rings, is never answered, rejected or missed, and the
  only thing that can happen to it is a `call:end` that records it as cancelled.
- `RingStopsForBoth` (liveness): each ring is heard to end by both parties,
  unless something failed. One exception: when somebody who is no party to the call
  ends it, `handleEnd` takes the ring out and tells the "other party", which is then
  the caller; the callee's ring goes on (`call.gateway.ts:272-301`). The run has a
  third user for this case.
- `LifecycleSpec`: each document follows `CallLifecycle`. The mapping takes a
  document to a stage by its status, and splits ended calls by `answeredAt`:
  `completed` may be rewritten as `cancelled` by a second end, which is a
  stutter there.

Finding `calls_drop_finding`: the comment at `call.gateway.ts:98-100` says that a
disconnect must clear the busy flag. If an accept of the same call has not
written its keys yet, the disconnect finds none and stops, and the accept then
marks a user without a socket busy, for up to 4 h. It is reached without any
fault, and its run carries the constraint `UsualExchange` (nobody calls their own
account, nobody ends a call before its id was announced), so that the
counterexample is an ordinary exchange.

## 4. Messaging

`Messaging.tla` models one conversation: `MessagesService.create`,
`markDelivered`, `markRead`, the `ConversationsService` operations they call,
and leave, re-addition and "delete for me" beside them.

| Variable | Code |
|---|---|
| `msg[m]` | message document m, from the moment the process gave it a `createdAt`; `to` keeps the recipients the sending handler computed |
| `receipt[m][u]` | status of u's receipt for m |
| `lastMessage` | the conversation's snapshot; `lastMessageAt` is its `createdAt` |
| `row[u]` | u's participant row: membership, counter, read position, `isDeletedForUser` |
| `pushed` | messages emitted as `message:new` |
| `task`, `moves`, `faults` | handlers in flight; bounds |

A send is `Send`, `AssertSender`, `ListRecipients`, `IsBlocked` (only with one
recipient), `InsertMessage`, `InsertReceipts`, `TouchLastMessage`,
`IncrementUnread`, `FindSender` (only with recipients) and the emit, which
belongs to the last segment. A read is `MarkRead`, `AssertReader`,
`MarkReceipts`, `ResetUnread`; the generic leave route is `AssertLeaver` and
`Leave`. Messages are numbered by `createdAt`, which mongoose assigns before the
insert, so they may reach the database, the preview and the counters in another
order.

Choices and abstractions:

- `insertMany` writes receipt after receipt, in any order, and may stop anywhere
  when the process dies; `updateMany` and `updateOne` are one step.
- The group's "only admins may send" setting and blocks are constants (`Muted`,
  `Blocked`): the code reads them and never changes them here. Their reads share
  the step of the neighbouring check.
- The lookup of the message read up to reads immutable fields and has no step of
  its own; readers name messages that are stored.
- Two messages with one `createdAt` are not considered; nor is a second server
  process with another clock.
- The message's content, notifications and the rooms an emit reaches are left
  out here. `isDeletedForUser` can also be cleared by its owner through the same
  route; the model keeps only the setting, which is the case the property is about.

Properties:

- `ShownIsFannedOut`: a message is previewed or pushed only when each recipient
  has a receipt, whatever fails.
- `UnreadIsAccountedFor`: a counter never exceeds the number of stored messages
  by others that were counted or whose handler failed -- over concurrent sends,
  resets, leave and return.
- `NothingStuck`: with nothing in flight and nothing failed, every stored message
  has its receipts, was pushed, and there is a preview.
- `HiddenChatComesBack` (liveness): a chat deleted for oneself returns with the
  next message of somebody else.
- `DeliverySpec`: receipts, previews and pushes follow `MessageDelivery`, in
  which a copy only moves forward and the audience of a message is fixed.

Finding `messaging_recency_finding`: `touchLastMessage` writes unconditionally; of
two concurrent sends the older may be written last, and stays the preview and
sort key although the list is documented as sorted by recency.

What the model shows and no property promises: a receipt inserted after a read
of a newer message stays unread; a reset between a message's insert and its
count leaves a badge for a message already read, and one after the count takes
away a message that was not read; two devices may move the read position back.

## 5. Membership

`Membership.tla` models the participant rows of one conversation, which is a
group or the direct thread of a pair, and every request that changes them.

| Variable | Code |
|---|---|
| `kind` | the conversation document: none yet, direct or group |
| `group` | the group document: `memberCount`, `ownerId`, `settings.whoCanAddMembers` |
| `row[u]` | u's participant row: absent, active or left (`leftAt`), and its role |
| `task[r]` | a request in flight, with what it read of the group document |
| `tidy` | history: nothing happened yet that `memberCount` may miss |

| Actions | Code |
|---|---|
| `CreateGroup` | `createGroup`, one transaction |
| `AddMembers`, `AssertAdder`, `ListMembers`, `Upsert`, `SaveCount` | `addMembers`; `bulkWrite` upserts row after row |
| `RemoveMember`, `CheckSelf` or `AssertRemover` and `CheckTarget`, `Leave`, `SaveCount` | `removeMember` |
| `UpdateRole`, `AssertOwner`, `CheckRole`, `SetRole` | `updateRole` |
| `UpdateSettings`, `AssertAdmin`, `SaveSettings` | `updateSettings` |
| `LeaveRoute`, `Leave` | `POST /conversations/:id/leave` |
| `OpenDirect`, `CreateDirect`, `InsertOpener`, `InsertOther`, `AssertOpener` | `getOrCreateDirect` |

Choices: every handler on a group reads the document in its first round trip,
which is part of the action that starts it. `save` writes the paths that differ
from what was read: settings leave the count alone, and a count that does not
change is not written. The loser of the race for a thread is sent on with the
winner's conversation. Names, descriptions and avatars are not distinguished, and
`whoCanSendMessages` is the constant `Muted` of `Messaging`. `CreateGroup` waits
until no request is in flight, because a conversation is a group or a thread from
its first document on and only the opening of a thread can be in flight before.

Properties:

- `OwnerStepsDown` (action property): only the owner ends an ownership, and only
  by the leave route. The checks that spare the owner precede the update by
  round trips in which rows come and go.
- `CountIsExact`: `memberCount` is the number of active rows between two changes
  -- unless two of them overlapped, somebody left by the leave route, somebody was
  removed who was not there, or a handler failed. Each of these exceptions does
  make the count wrong; the property says that nothing else does, changes of
  roles and settings, which save the same document, in particular.
- `NoHalfThread`: two users may open their thread at once, and still each row is
  inserted once, by one request (the unique index on conversation and user would
  stop `insertMany` half-way). Without faults each of the pair has a row or somebody
  is inserting it; a fault in between leaves a thread nobody can enter.
  The property is about the rows, not about who is admitted. Whoever leaves a direct
  thread by the generic route keeps a row that is marked as left, and nothing revives
  it: every later `POST /conversations/direct` finds the thread and refuses him
  (`conversations.controller.ts:49-64, 82-88`), although it is described as "Get or
  create a 1:1 conversation". The model reaches this state without a fault.
- `RulesSpec`: the rows follow `MembershipRules`. There a change of a user's
  standing needs a *warrant*, and a warrant is given only to somebody with the role
  for it. The mapping reads the warrants off the handlers in flight (`Warrants`):
  one that has passed its checks may still do what they allowed, and may be the last
  to know that its requester was put out or demoted meanwhile -- the specification
  allows that, because the code does. It does not allow that a warrant, however old,
  hits the owner, that an upsert makes anybody more than a member, or that a row
  changes for which no check was passed. `strict` there is the group's
  `whoCanAddMembers`: only admins change it, and while it is on, a plain member brings
  somebody in only on an *invitation* from before, which his request takes with it
  when it reads the group document on arrival.
- `OneOwner`, stated as a theorem only, is a consequence of the same invariant: a
  group never has two owners.

Finding `membership_owner_finding`: the leave route lets the owner of a group
leave, which `groups.service.ts:139-143` refuses in the other route with "the
owner must transfer ownership before leaving the group" -- and no operation
transfers ownership.

## 6. Presence and rooms

`Presence.tla` models the connections of the /chat namespace and the room of one
conversation.

| Variable | Code |
|---|---|
| `up[s]`, `down[s]` | how far `handleConnection` and `handleDisconnect` of socket s are |
| `open` | connected sockets |
| `first` | sockets that counted 0 before they are added |
| `timer`, `beat` | armed `presenceRefreshInterval`s; those between their `hset` and their `expire` |
| `hash`, `ttl` | fields of `presence:<user>`; keys that have a time to live |
| `status`, `news` | the user's document; the last `presence:*` event about him |
| `members`, `unseen` | active rows; rows written in a transaction that is not committed |
| `due`, `listed`, `room` | `joinUserToRoom` under way; sockets whose list has the conversation; sockets in its room |
| `owed`, `cut` | history: sockets that must get into the room; sockets that closed before they were up |

`Connect` ... `FilterOnline` are the segments of `handleConnection`, `Disconnect`
... `TellOffline` those of `handleDisconnect`, `Refresh` the interval, `InsertRow`,
`CommitRow`, `JoinUserToRoom`, `LeaveConversation` what `ConversationsService` and
`ChatRoomRegistry` do. `joinUserToRoom` takes effect some time after it is called,
as the Redis adapter makes it, and is called before the transaction of a group
creation commits. `expire` does nothing to a key that is gone; a new key written by
`hset` has no time to live until then. A refresh is these two round trips as well
(`Refresh`, `RefreshTTL`). `ExpireHash` cannot happen while an interval is armed or
a refresh under way, nor within the few round trips between `expire` and the
interval: 45 s against 20 s.

Properties:

- `GoneIsOffline`: when all sockets of a user are closed and their handlers done,
  and none of them closed while it was connecting, the user is offline in his
  document, in Redis -- `NotifyOfflineUsers` chooses him -- and in the last event.
- `EntriesFade` (liveness): entries without a socket, after any order of closing or
  a crash, disappear, unless they are `Undying`: an interval armed by a connection
  that had closed keeps them alive, or the process died between `hset` and
  `expire`. Both happen.
- `RoomFollowsRow`: whoever was connected when he was added, or connected
  afterwards, is in the room. The one gap: a socket that read its list before the
  row was committed and joins its own room after `joinUserToRoom` looked for it.
- `ReachedOrPushed` joins the two halves of the module: a member gets what happens in
  the conversation either from the room or by push. `NotifyOfflineUsers` passes over
  whoever has an entry; the property says that such a user has a socket in the room.
  The exceptions are entries of sockets that closed before they were up, an entry
  whose `hdel` is under way, and the gap of `RoomFollowsRow` -- in each of them the
  member gets neither the event nor the push, and each is reached.

What does not hold: that a connected user is online. Of two devices, one coming and
one going, each may misjudge the transition, or their writes may arrive in the
other order (`presence.service.ts:18`, `chat.gateway.ts:97`), and the user stays
`offline` in his document with a socket open; nothing in the repository says
otherwise, and the next transition repairs it. After a crash `status` stays
`online`. Sockets stay in the room of a conversation their user left.

## 7. Accounts

`Accounts.tla` models `AuthService`, `UsersService.create` and `registerDevice`.

| Variable | Code |
|---|---|
| `accounts` | documents of the `users` collection: username and address |
| `root[t]` | the session token t belongs to: its first token |
| `live` | tokens whose key `refresh:<user>:<tokenId>` is in Redis |
| `handed`, `expired` | tokens that reached a client; tokens past their expiry |
| `devices` | the entries with one `deviceId` in one user's `devices` |
| `doubles`, `ended`, `latest`, `alone` | history, for the properties |

`Register`, `InsertUser`; `Login`; `Refresh`, `GetKey`, `DeleteKey`, `SetKey`;
`Logout`, `Revoke`; `RegisterDevice`, `UpdateDevice`, `PushDevice` are the segments
of the methods of those names (`SetKey` is `issueTokenPair`). The password hash and
the comparison of the token hash take time but touch no state: they are part of
the step before. Names are in lower case already, and an address is never a
username, which the DTO's rules ensure. Any token that was ever handed out may be
presented at any time: tabs share a cookie, and a client without an answer asks
again. A refresh token's signature expires slightly before its key, which is set
later with the same lifetime.

Properties:

- `NamesUnique`: of registrations that both found a name free, one gets it.
- `TokensBalance`: a session has one token, in Redis or under way with the refresh
  that exchanges it, one more for each refresh that found the key it had looked up
  gone (two refreshes with one token give two), and fewer only after a logout, an
  expiry or a fault.
- `OverIsOver` (action property): once a session has no key and no refresh that has
  seen one, no token brings it back. A logout that overlaps a refresh does not end
  the session; the property says when it is over for good.
- `SessionSpec`: the tokens follow `SessionTokens`, in which a token is valid once and
  a session gets a new one only in an *exchange*: a token of it was shown while it was
  valid, and is valid no more when the new one appears. An exchange is in the hands
  of the `refresh` between its `get` and its `set`; two of them may have been shown the
  same token, which is the overlap that `TokensBalance` counts. This is the comment at
  `auth.service.ts:78`, "Rotation: invalidate the used token before issuing a new
  pair", over every interleaving with logouts, expiries and other refreshes.
- `DeviceKnown`: a device has one entry however its registrations overlap, and the
  token of the last if none overlapped it.

## 8. Documents

`MessageDocument.tla` models one message after it was sent, and one forward of it.

| Variable | Code |
|---|---|
| `doc` | the message document: content, `isDeletedForEveryone`, `deletedForUserIds`, reactions, version `__v` |
| `shown` | what the last events told the members |
| `copy[c]` | how far the copy forwarded to conversation c is |
| `task[r]` | a handler in flight, with its own copy `mine` of the document |
| `raced`, `muddled`, `refused` | history, for the properties |

`Edit`, `SaveEdit`, `EmitEdit`; `DeleteForEveryone`, `SaveDelete`, `EmitDelete`;
`DeleteForMe`, `SaveHidden`; `React`, `SaveReaction`, `EmitReaction`; `Forward`,
`NextTarget`, `CopyStep`, `EmitCopies` are the segments of the handlers of those
names. Reading the document and the checks on it are part of the action that
starts the handler.

What matters here is how mongoose saves. A save sends the paths that changed. A
`push` onto an array becomes `$push` and asks for no version; a `splice` replaces
the array and asks for the version that was read -- it fails with a `VersionError`
when any array was touched in between; every save that touches an array makes a new
version. `SaveReaction` distinguishes exactly these. `React` first takes the user's
earlier reaction out and pushes the new one unless it has the same emoji.

Choices: all edited texts are one, so that an edit may also write the text it read,
and then sets no content; the sender alone edits and deletes for
everyone, others are refused before anything changes. One forward is followed,
with each target named once; a target named twice gets two copies and adds nothing
new. The checks on a target and the creation of its copy are one step that may
also refuse; receipts, preview and counters of the copy are those of `Messaging`.

Properties:

- `OnlyLateEditsRestore` (action property): what was deleted for everyone stays marked
  as deleted, and admits no further edit. It does not stay empty: an edit that read
  the message before it was deleted puts its text back. The property says that
  nothing else does, and that each such edit does so once.
- `OthersUntouched` (action property): no request, however stale its copy, changes
  the reactions of two users or undoes a delete-for-me.
- `LifeSpec`: the document follows `MessageLife`, in which a request changes the
  message in one step, by the rule for it, on what is stored at that time -- although
  the code works on a copy that other handlers have made stale. The point where it
  takes effect is the save. The staleness shows only twice: an edit that was checked
  before a deletion is still carried out, and a user two of whose reactions were
  pending together may end up with both.
- `OneReactionEach`: a user has one reaction unless two of his own requests
  overlapped.
- `ShownIsStored`: with nothing in flight the members were told what is stored,
  unless two announcing handlers overlapped or one failed.
- `CopiesAnnounced`: a copy is announced when it is complete, and every copy is,
  unless a later target was refused or the handler failed. Then it stays silent: it
  is in its conversation, counted as unread, and no `message:new` was sent.

## 9. Runs

| Run | Instance | Shows |
|---|---|---|
| `calls_safety` | 2 users who do not call themselves, 2 calls, 2 requests and 2 timers, 1 socket each, no faults | the invariants of section 3 and the refinement of `CallLifecycle` |
| `calls_faults` | 3 users, 1 call, of the first to the second, 2 requests and 1 timer, 1 fault | `BusyNamesOwnCall`, `OrphansStayUnanswered`, `RingStopsForBoth` |
| `calls_drop_finding` | 2 users, 1 call, 2 requests | the finding of section 3 |
| `messaging_safety` | 2 users, 2 messages, 2 requests, 1 move | `TypeOK`, counters, `NothingStuck`, `DeliverySpec` |
| `messaging_faults` | 3 users, one blocking another and muted, 1 message, 2 requests, 1 move, 1 fault | `ShownIsFannedOut` |
| `messaging_liveness` | 2 users, 1 message, 2 requests, 2 moves | `HiddenChatComesBack` |
| `messaging_recency_finding` | 2 users, 2 messages, 2 requests | the finding of section 4 |
| `membership` | 3 users, 2 requests in flight out of 3, 1 fault | the properties of section 5, with the refinement of `MembershipRules` |
| `membership_owner_finding` | 3 users, 2 requests in flight out of 3 | the finding of section 5 |
| `presence` | 2 sockets of one user, 1 addition, 1 crash | the properties of section 6 |
| `accounts` | 2 names, 1 address, 2 push tokens, 4 refresh tokens, 3 requests in flight out of 4, 1 fault | the properties of section 7, with the refinement of `SessionTokens` |
| `documents` | 2 members, 2 emojis, 2 targets, 2 requests in flight out of 4, 1 fault | the properties of section 8, with the refinement of `MessageLife` |

Why the bounds are enough to be interesting.

- *Calls.* A race for a ring needs two handlers and a timer; two calls between two
  users are what lets one user be in two of them (a second answer overwrites a busy
  key, a disconnect has two rings to settle). A third user is what lets somebody who is no
  party end a call; `calls_faults` has one, and a single call, for which it is no loss
  to say who is caller and callee (`OneCall`), because users are alike. `NoSelfCalls`
  keeps calls to one's own account, which the gateway admits, out of `calls_safety` to
  bound its states; the theorems hold with them. One socket per user suffices: the
  disconnect handler does not ask for the user's other sockets, and a user who
  disconnects, connects and disconnects again has two such handlers in flight.
- *Messages.* Overtaking needs two messages and two handlers; a read or a leave
  races with a send in the second slot; with three users there are two recipients,
  so that a fan-out can be cut half-way, and a pair for the block check.
- *Membership.* A role check goes stale only when somebody else's request changes
  the row in between, so three people -- owner, admin, member -- and two requests in
  flight; the third request makes one of them promote or add before. `memberCount`
  reaches 0, and stays there, when an owner alone removes people who are not in the
  group.
- *Presence.* Two devices are what lets one come while the other goes; a third adds
  no new pair of steps. Users do not share state in this module, so one suffices.
- *Accounts.* Three requests let two refreshes with one token overlap a logout.
- *Documents.* Two users react and one of them edits; four requests let a reaction be
  set, changed by two overlapping handlers and taken away.

`MaxMsgs`, `MaxMoves`, `MaxOps`, `MaxTokens`, `MaxSockets` and `MaxFaults` bound what
is unbounded in the code: messages, comings and goings, requests, tokens, sockets
per user, and crashes, failures and expiries. None is a limit of the code, and the
theorems hold for every value. `MaxOps` and the sockets of `Presence`, each of which
connects once, run out: `CHECK_DEADLOCK FALSE` in those runs, because a system nobody
sends a request to may stop. In the runs of calls and messages deadlock is checked.

Symmetry over users, calls, requests, names and emojis is used in runs without
liveness only, where no constant tells them apart.

**Fairness.** `FairSpec` asks that a handler's next round trip completes (the
drivers answer or fail, the event loop runs what is ready), that an armed ring timer
fires, and that Redis removes a key whose time has come. In `Presence`, where a socket
may have its connect, its disconnect and a refresh waiting at once, it asks for each
socket that some round trip of its completes while one waits. Nothing is asked of users:
nobody needs to send, answer, connect or leave. Intervals are not required to fire;
they keep entries alive and nothing depends on their firing for liveness.

## 10. Proofs

Each proof module starts from the assumption `ConstantsAssumption` of its module
only: bounds are arbitrary naturals, and the sets of users, requests, calls and
sockets are arbitrary (finite where a count is taken). Each has an inductive
invariant `IInv`, written at the end of the component's module, shown by one lemma
per action or group of actions that move the same variables, and collected in
`NextIInv`. The invariants below were first checked by TLC on the instances of the
runs.

| Module | Theorems |
|---|---|
| `CallSignalingProofs` | `TypeCorrect`, `RingSettledOnce`, `HistoryIsTruthful`, `NoAbandonedRing`, `BusyKeysAreOwn`, `OrphansAreNotAnswered`, `ImplementsLifecycle` |
| `MessagingProofs` | `TypeCorrect`, `ShownAfterFanOut`, `CountersAreAccountedFor`, `NothingIsStuck`, `ImplementsDelivery` |
| `MembershipProofs` | `TypeCorrect`, `CountsAreExact`, `NoHalfThreads`, `OwnersStepDown`, `OwnerIsUnique`, `ImplementsRules` |
| `PresenceProofs` | `TypeCorrect`, `OfflineOnceGone`, `RoomsAreComplete`, `MembersAreReached` |
| `AccountsProofs` | `TypeCorrect`, `IdentifiersAreUnique`, `SessionsBalance`, `DevicesAreKnown`, `SessionsEnd`, `ImplementsSessions` |
| `MessageDocumentProofs` | `TypeCorrect`, `ReactionsAreSingle`, `MembersAreUpToDate`, `CopiesAreAnnounced`, `DeletionIsKept`, `OthersAreUntouched`, `ImplementsLife` |

These are all the safety and action properties of the passing runs, and the five
refinements.

**Calls.** `IInv` adds what a handler at each await may rely on in its call's
document (`ReliesOn`): a handler that is still to create the call finds none; one
that sets busy keys finds the call past ringing; one that clears them finds it
ended; one that will record `completed` has read an active call, hence an answered
one; and an answered call is in nobody's hands but the accept that answered it. With
`SingleClaim` this is why no timer can record an answered call as missed: it would
have to hold a ring that the accept holds. The refinement follows because only three
actions write documents (`DocumentWriters`), and each, under `IInv`, makes a step of
`CallLifecycle` or a stutter.

**Messaging.** `IInv` says that a sending handler agrees with the document it
carries, that nobody else carries it (`OneCarrier`), and that it is fanned out once
its receipts were written; a reading handler names a stored message. `OneCarrier` is
needed for the counters: the message that enters the accounted set when it is
counted must not have been in it before, which is what a second handler with the
same message would break. `NothingStuck` has an invariant of its own on top of it,
`NothingLost`: a stored message that is not whole is in some handler's hands, unless
a fault struck.

**Membership.** `OwnerStepsDown` rests on `SparesOwner`: an upsert, removal or role
change that would hit the owner is in flight only if the ownership has ended. It is
preserved because an ownership that ended never begins again: nobody becomes owner
after the creation. `CountIsExact` rests on `Orderly`: as long as nothing disturbed
the count there is one counting handler, what it read of the document is still true,
and the users it is about to insert are not active.
The refinement of `MembershipRules` needs no new invariant beyond what each await may
rely on (`TaskOK`): a handler at `leave` or `setRole` has a target, the target of its own
departure is itself, no request gives the role `owner`, and a thread is opened by one of
the pair. Each action is then shown to obtain or give up warrants, or to use one
(`Become`, `Decide`); an action that does neither leaves rows and settings alone and
only loses warrants.
`NoHalfThread` has an invariant of its own on top, `ThreadOK`: before a conversation
exists there are no rows, and one request at most is inserting them.

**Presence.** Whatever says that a user is online -- his status, the last event, an
entry, an interval -- must have a socket that answers for it (`AnswersFor`): open, or
closed with a `handleDisconnect` that has not passed the step that will take it
back, or cut short. A disconnect that finds others online stops early; the other
socket then answers in its place, which is why the invariant has the existential over
all sockets of the user. For rooms, `OwedOK` says where the room will come from: the
socket's list, or `joinUserToRoom`. `ReachedOrPushed` follows from both: an entry has a
socket that answers for it, and that socket -- if it is open, owed and counted
(`Added`) -- has passed the join of its rooms, because `handleConnection` adds the entry
after it.

**Accounts.** `TokensBalance` is inductive with the typing of sessions: each step of a
refresh moves a token between `LiveOf` and `Carrying` or counts a double. `OverIsOver`
needs only that a token set later belongs to the session of the token it was
exchanged for. The refinement of `SessionTokens` needs one invariant more, `Rotated`: the
token a refresh has deleted and is about to replace is not valid. It holds because a key
is set for a token that was never issued before, so nobody can restore one that was
spent. `DevicesOK` says what the second update of a registration will find.

**Documents.** The invariant says what a handler's stale copy is still good for. A
copy of the current version has the current reactions (`MineOK`) -- the version check
is then what makes a whole-array save safe; the user's own reactions in it are
current if his requests do not overlap (`ReactionsOK`); what a lone announcing handler
will say is what is stored (`TellsAll`). The refinement of `MessageLife` turns on one lemma about the save:
under `MineOK` and `ReactionsOK`, what `$push` and the version-checked `$set` make of the
*stored* array is what the rule makes of it, or the user is a rival of himself, or the
save fails.

Model-checked only: the liveness properties `RingStopsForBoth`, `HiddenChatComesBack`
and `EntriesFade`, whose arguments go through fairness and enabledness, and the
findings, which are counterexamples.

## 11. Not modelled

- *Uploads and storage*: signed URLs and streams of single requests, input and output
  with no state of the application's own that two of them share. The files of one
  upload are never written by another.
- *Lists, history, search, TURN credentials*: they read, and change nothing.
- *Typing indicators*: keys that expire by themselves and that nothing reads.
- *Mute, archive, pin, profile, blocks*: one update of one document each, by its owner,
  that no other operation writes. Blocks are constant relations where they are read.
- *Push senders*: what they do with a payload is input and output. Whom a push goes to
  is `NotifyOfflineUsers` in `Presence`.
- *Guards, filters, DTOs, helpers, configuration, deployment*: validation and wiring
  without state.
- *Several server processes*: the Redis adapter is taken into account where it delays
  `joinUserToRoom`; the `ringing` map, which is local to a process, makes calls a
  matter of one process.

## 12. Running it

    tlc -workers 2 -config calls_safety.cfg MCCallSignaling
    tlc -workers 2 -config messaging_safety.cfg MCMessaging
    tlc -workers 2 -config membership.cfg MCMembership
    tlc -workers 2 -config presence.cfg MCPresence
    tlc -workers 2 -config accounts.cfg MCAccounts
    tlc -workers 2 -config documents.cfg MCMessageDocument
    tlapm CallSignalingProofs.tla      # and the other five *Proofs modules
