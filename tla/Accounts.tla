------------------------------ MODULE Accounts ------------------------------
(***************************************************************************)
(* Accounts, sessions and push devices: AuthService with its controller,   *)
(* UsersService.create and registerDevice, and the refresh tokens in       *)
(* Redis.                                                                  *)
(*                                                                         *)
(* A session is the chain of refresh tokens that starts with a             *)
(* registration or a login; it is named after its first token.  Each       *)
(* refresh takes the key of the token it is given out of Redis and puts    *)
(* the key of a new one in, several round trips later.  The tabs of one    *)
(* browser share a cookie, and a client that got no answer asks again: any *)
(* token that was ever handed out may be presented at any time.            *)
(***************************************************************************)
EXTENDS Naturals, Sequences, FiniteSets

CONSTANTS
    Names,        \* usernames, in lower case
    Emails,       \* e-mail addresses, in lower case; never a username
    PushTokens,   \* push tokens of the device that registers itself
    Requests,     \* slots for HTTP requests whose handler is in flight
    MaxTokens,    \* bound: refresh tokens ever signed
    MaxOps,       \* bound: requests ever made
    MaxFaults,    \* bound: crashes and failed round trips
    Nil           \* "no e-mail address", "no push token"

ASSUME ConstantsAssumption ==
    /\ IsFiniteSet(Requests)
    /\ MaxTokens \in Nat
    /\ MaxOps \in Nat
    /\ MaxFaults \in Nat
    /\ Nil \notin Emails \cup PushTokens

VARIABLES
    accounts,     \* documents of the users collection
    root,         \* root[t]: the session of token t, 0 if t is not signed yet
    live,         \* tokens whose key refresh:<user>:<tokenId> is in Redis
    handed,       \* tokens that reached a client
    expired,      \* tokens whose signature is past its expiry
    devices,      \* the entries of one deviceId in a user's devices
    task,         \* handlers in flight
    doubles,      \* history: doubles[s]: refreshes that found the key gone
    ended,        \* history: sessions that lost a token other than by refresh
    latest,       \* history: the push token registered last, if that is plain
    alone,        \* history: no two registrations of the device overlap now
    ops,          \* number of requests so far (for the bound only)
    faults        \* number of faults so far (for the bound only)

stored == <<accounts, root, live, handed, expired, devices>>

history == <<doubles, ended, latest, alone>>

vars == <<stored, task, history, ops, faults>>

------------------------------------------------------------------------------
(* Types and vocabulary.                                                   *)

Tokens == 1..MaxTokens

Users == [name : Names, email : Emails \cup {Nil}]

Awaits == {"idle", "insertUser", "get", "del", "set", "revoke", "update", "push"}

(* user: the account being created.  token: the refresh token presented, 0 *)
(* for a handler that starts a session.  pushToken: the device's.          *)
Tasks == [pc : Awaits, user : Users \cup {Nil}, token : Tokens \cup {0},
          pushToken : PushTokens \cup {Nil}]

NoTask == [pc |-> "idle", user |-> Nil, token |-> 0, pushToken |-> Nil]

Idle(r) == task[r].pc = "idle"

At(r, pc) == task[r].pc = pc

GoTo(r, pc) == task' = [task EXCEPT ![r].pc = pc]

Finish(r) == task' = [task EXCEPT ![r] = NoTask]

Begin(r, t) ==
    /\ Idle(r)
    /\ ops < MaxOps
    /\ ops' = ops + 1
    /\ task' = [task EXCEPT ![r] = t]

Signed == {t \in Tokens : root[t] # 0}

Registering(r) == task[r].pc \in {"update", "push"}

(* Between the del of a refresh and its set the session hangs on the       *)
(* handler.                                                                *)
Carrying(s) ==
    {r \in Requests : At(r, "set") /\ task[r].token # 0 /\ root[task[r].token] = s}

LiveOf(s) == {t \in live : root[t] = s}

TypeOK ==
    /\ accounts \in SUBSET Users
    /\ root \in [Tokens -> Tokens \cup {0}]
    /\ live \in SUBSET Signed
    /\ handed \in SUBSET Signed
    /\ expired \in SUBSET Signed
    /\ devices \in Seq(PushTokens)
    /\ task \in [Requests -> Tasks]
    /\ \A r \in Requests : task[r].token \in Signed \cup {0}
    /\ doubles \in [Tokens -> Nat]
    /\ ended \in SUBSET Tokens
    /\ latest \in PushTokens \cup {Nil}
    /\ alone \in BOOLEAN
    /\ ops \in 0..MaxOps
    /\ faults \in 0..MaxFaults

------------------------------------------------------------------------------
Init ==
    /\ accounts = {}
    /\ root     = [t \in Tokens |-> 0]
    /\ live     = {}
    /\ handed   = {}
    /\ expired  = {}
    /\ devices  = <<>>
    /\ task     = [r \in Requests |-> NoTask]
    /\ doubles  = [t \in Tokens |-> 0]
    /\ ended    = {}
    /\ latest   = Nil
    /\ alone    = TRUE
    /\ ops      = 0
    /\ faults   = 0

------------------------------------------------------------------------------
(* Accounts.                                                               *)

Taken(u) ==
    \E a \in accounts : a.name = u.name \/ (u.email # Nil /\ a.email = u.email)

(* The first round trip looks for the name and the address; the password   *)
(* is hashed before the insert.                                            *)
Register(r, u) ==
    /\ ~Taken(u)
    /\ Begin(r, [NoTask EXCEPT !.pc = "insertUser", !.user = u])
    /\ UNCHANGED <<stored, history, faults>>

(* Mutant: only the username has a unique index. *)
InsertUserByName(r) ==
    /\ At(r, "insertUser")
    /\ IF \E a \in accounts : a.name = task[r].user.name
       THEN UNCHANGED accounts /\ Finish(r)
       ELSE accounts' = accounts \cup {task[r].user} /\ GoTo(r, "set")
    /\ UNCHANGED <<root, live, handed, expired, devices, history, ops, faults>>

(* The unique indexes decide a race; the loser's request fails. *)
InsertUser(r) ==
    /\ At(r, "insertUser")
    /\ IF Taken(task[r].user)
       THEN UNCHANGED accounts /\ Finish(r)
       ELSE accounts' = accounts \cup {task[r].user} /\ GoTo(r, "set")
    /\ UNCHANGED <<root, live, handed, expired, devices, history, ops, faults>>

------------------------------------------------------------------------------
(* Sessions.                                                               *)

(* Somebody is found under the identifier and his password is right. *)
Login(r) ==
    /\ accounts # {}
    /\ Begin(r, [NoTask EXCEPT !.pc = "set"])
    /\ UNCHANGED <<stored, history, faults>>

(* The signature of the token is checked first. *)
Refresh(r, t) ==
    /\ t \in handed \ expired
    /\ Begin(r, [NoTask EXCEPT !.pc = "get", !.token = t])
    /\ UNCHANGED <<stored, history, faults>>

(* Mutant: the signature is enough. *)
GetKeyUnchecked(r) ==
    /\ At(r, "get")
    /\ GoTo(r, "del")
    /\ UNCHANGED <<stored, history, ops, faults>>

(* No key, no refresh.  Comparing the hash takes a while. *)
GetKey(r) ==
    /\ At(r, "get")
    /\ IF task[r].token \in live THEN GoTo(r, "del") ELSE Finish(r)
    /\ UNCHANGED <<stored, history, ops, faults>>

(* Mutant: the new key is set and the old one stays. *)
DeleteKeyForgotten(r) ==
    /\ At(r, "del")
    /\ GoTo(r, "set")
    /\ UNCHANGED <<stored, history, ops, faults>>

(* Nobody looks at how many keys were deleted.  Reading the user, signing  *)
(* and hashing follow.                                                     *)
DeleteKey(r) ==
    /\ At(r, "del")
    /\ live' = live \ {task[r].token}
    /\ doubles' = IF task[r].token \in live THEN doubles
                  ELSE [doubles EXCEPT ![root[task[r].token]] = @ + 1]
    /\ GoTo(r, "set")
    /\ UNCHANGED <<accounts, root, handed, expired, devices, ended, latest,
                   alone, ops, faults>>

(* Mutant: the session keeps its token. *)
SetKeySame(r) ==
    /\ At(r, "set")
    /\ IF task[r].token # 0
       THEN live' = live \cup {task[r].token} /\ UNCHANGED <<root, handed>>
       ELSE \E t \in Tokens \ Signed :
              /\ root' = [root EXCEPT ![t] = t]
              /\ live' = live \cup {t}
              /\ handed' \in {handed, handed \cup {t}}
    /\ Finish(r)
    /\ UNCHANGED <<accounts, expired, devices, history, ops, faults>>

(* issueTokenPair: the key of the new token.  The answer may get lost. *)
SetKey(r) ==
    /\ At(r, "set")
    /\ \E t \in Tokens \ Signed :
         /\ \A s \in Tokens \ Signed : t <= s
         /\ root' = [root EXCEPT ![t] =
                       IF task[r].token = 0 THEN t ELSE root[task[r].token]]
         /\ live' = live \cup {t}
         /\ handed' \in {handed, handed \cup {t}}
    /\ Finish(r)
    /\ UNCHANGED <<accounts, expired, devices, history, ops, faults>>

(* Expired or not, the token has to be one of ours. *)
Logout(r, t) ==
    /\ t \in handed
    /\ Begin(r, [NoTask EXCEPT !.pc = "revoke", !.token = t])
    /\ UNCHANGED <<stored, history, faults>>

Revoke(r) ==
    /\ At(r, "revoke")
    /\ live' = live \ {task[r].token}
    /\ ended' = IF task[r].token \in live
                THEN ended \cup {root[task[r].token]} ELSE ended
    /\ Finish(r)
    /\ UNCHANGED <<accounts, root, handed, expired, devices, doubles, latest,
                   alone, ops, faults>>

------------------------------------------------------------------------------
(* Devices: of the two updates of registerDevice at most one finds the     *)
(* document it asks for.                                                   *)

RegisterDevice(r, p) ==
    /\ Begin(r, [NoTask EXCEPT !.pc = "update", !.pushToken = p])
    /\ alone' = \A s \in Requests : ~Registering(s)
    /\ UNCHANGED <<stored, doubles, ended, latest, faults>>

UpdateDevice(r) ==
    /\ At(r, "update")
    /\ devices' = IF devices = <<>> THEN devices
                  ELSE [devices EXCEPT ![1] = task[r].pushToken]
    /\ GoTo(r, "push")
    /\ UNCHANGED <<accounts, root, live, handed, expired, history, ops, faults>>

(* Mutant: the entry is pushed without its token. *)
PushDeviceBare(r) ==
    /\ At(r, "push")
    /\ devices' = IF devices = <<>> THEN <<Nil>> ELSE devices
    /\ latest' = IF alone THEN task[r].pushToken ELSE Nil
    /\ Finish(r)
    /\ UNCHANGED <<accounts, root, live, handed, expired, doubles, ended, alone,
                   ops, faults>>

(* Mutant: the second update does not ask again for the device. *)
PushDeviceUnfiltered(r) ==
    /\ At(r, "push")
    /\ devices' = Append(devices, task[r].pushToken)
    /\ latest' = IF alone THEN task[r].pushToken ELSE Nil
    /\ Finish(r)
    /\ UNCHANGED <<accounts, root, live, handed, expired, doubles, ended, alone,
                   ops, faults>>

PushDevice(r) ==
    /\ At(r, "push")
    /\ devices' = IF devices = <<>> THEN <<task[r].pushToken>> ELSE devices
    /\ latest' = IF alone THEN task[r].pushToken ELSE Nil
    /\ Finish(r)
    /\ UNCHANGED <<accounts, root, live, handed, expired, doubles, ended, alone,
                   ops, faults>>

------------------------------------------------------------------------------
(* The environment.                                                        *)

(* A token and its key live equally long, the token from a little earlier. *)
ExpireToken(t) ==
    /\ t \in Signed \ expired
    /\ expired' = expired \cup {t}
    /\ UNCHANGED <<accounts, root, live, handed, devices, task, history, ops,
                   faults>>

ExpireKey(t) ==
    /\ t \in live \cap expired
    /\ live' = live \ {t}
    /\ ended' = ended \cup {root[t]}
    /\ UNCHANGED <<accounts, root, handed, expired, devices, task, doubles,
                   latest, alone, ops, faults>>

(* Handlers die, and with them what hung on them. *)
Drop(rs) ==
    /\ task' = [r \in Requests |-> IF r \in rs THEN NoTask ELSE task[r]]
    /\ ended' = ended \cup {s \in Tokens : Carrying(s) \cap rs # {}}
    /\ IF \E r \in rs : Registering(r)
       THEN latest' = Nil /\ alone' = FALSE ELSE UNCHANGED <<latest, alone>>
    /\ faults < MaxFaults
    /\ faults' = faults + 1
    /\ UNCHANGED <<stored, doubles, ops>>

Crash == Drop(Requests)

(* A round trip of handler r fails, and the handler with it. *)
Abort(r) == ~Idle(r) /\ Drop({r})

------------------------------------------------------------------------------
(* The next round trip of handler r completes. *)
Step(r) ==
    \/ InsertUser(r) \/ GetKey(r) \/ DeleteKey(r) \/ SetKey(r) \/ Revoke(r)
    \/ UpdateDevice(r) \/ PushDevice(r)

Request(r) ==
    \/ \E u \in Users : Register(r, u)
    \/ Login(r)
    \/ \E t \in Tokens : Refresh(r, t) \/ Logout(r, t)
    \/ \E p \in PushTokens : RegisterDevice(r, p)

Next ==
    \/ \E r \in Requests : Request(r) \/ Step(r) \/ Abort(r)
    \/ \E t \in Tokens : ExpireToken(t) \/ ExpireKey(t)
    \/ Crash

Spec == Init /\ [][Next]_vars

------------------------------------------------------------------------------
(* Properties.                                                             *)

(* users.service.ts:22-40, user.schema.ts:34-38: registrations that both   *)
(* found a username and an address free do not both get them, so that an   *)
(* identifier (users.service.ts:54-60) stands for one account.             *)
NamesUnique ==
    \A a, b \in accounts :
      a # b => a.name # b.name /\ (a.email = Nil \/ a.email # b.email)

(* auth.service.ts:68-82: a session has one token, in Redis or under way   *)
(* with the refresh that exchanges it; one more for every refresh that     *)
(* exchanged a token somebody else had exchanged or revoked after it was   *)
(* looked up, and fewer only after a logout, an expiry or a fault.         *)
TokensBalance ==
    \A s \in Signed :
      root[s] = s =>
        LET tokens == Cardinality(LiveOf(s)) + Cardinality(Carrying(s)) IN
          /\ tokens <= 1 + doubles[s]
          /\ s \notin ended => tokens = 1 + doubles[s]

(* The refreshes that have seen the key of their token. *)
Exchanges ==
    {<<r, task[r].token>> :
        r \in {x \in Requests : task[x].pc \in {"del", "set"} /\ task[x].token # 0}}

Sessions == INSTANCE SessionTokens WITH
    None <- 0, Handles <- Requests,
    session <- root, valid <- live, exchanges <- Exchanges

(* auth.service.ts:68-82: a token is replaced only after it was taken out, *)
(* by a refresh that found it valid; no token becomes valid twice, and     *)
(* none joins a session in another way.                                    *)
SessionSpec == Sessions!SessionSpec

(* No key, and no refresh that has seen one. *)
Over(s) ==
    /\ s \in Signed
    /\ LiveOf(s) = {}
    /\ \A r \in Requests :
         At(r, "del") \/ At(r, "set") =>
           task[r].token = 0 \/ root[task[r].token] # s

(* auth.service.ts:69-72, 94-96: once a session is over, by logout, expiry *)
(* or a fault, no token that was ever handed out brings it back.           *)
OverIsOver == [][\A s \in Tokens : Over(s) => Over(s)']_vars

(* users.service.ts:93-112: however the registrations of a device overlap, *)
(* it has one entry; and if none overlapped the last, that one's token.    *)
DeviceKnown ==
    /\ Len(devices) <= 1
    /\ latest # Nil /\ (\A r \in Requests : ~Registering(r))
         => devices = <<latest>>

------------------------------------------------------------------------------
(* The inductive invariant behind the safety properties (AccountsProofs).  *)

TaskOK(t) ==
    /\ t.pc = "insertUser" => t.user \in Users /\ t.token = 0
    /\ t.pc \in {"update", "push"} => t.pushToken \in PushTokens
    /\ t.pc \in {"get", "del", "revoke"} => t.token # 0

(* A session is named after one of its tokens, and has only the tokens it  *)
(* was given.                                                              *)
SessionsOK ==
    /\ \A t \in Tokens : root[t] \in Signed \cup {0}
    /\ \A t \in Tokens \ Signed : doubles[t] = 0
    /\ TokensBalance

(* With no other registration in flight, the entry is the one it found or  *)
(* wrote.                                                                  *)
DevicesOK ==
    /\ alone => /\ \A r, s \in Requests : Registering(r) /\ Registering(s) => r = s
                /\ \A r \in Requests :
                     At(r, "push") => devices \in {<<>>, <<task[r].pushToken>>}
    /\ DeviceKnown

(* A token that is about to be replaced is not valid any more.             *)
Rotated == \A r \in Requests : At(r, "set") => task[r].token \notin live

IInv ==
    /\ TypeOK
    /\ \A r \in Requests : TaskOK(task[r])
    /\ NamesUnique
    /\ SessionsOK
    /\ DevicesOK
==============================================================================
