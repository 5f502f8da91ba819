--------------------------- MODULE PresenceProofs ---------------------------
(* Proofs about Presence. *)
EXTENDS Presence, TLAPS

(* The positions of handleDisconnect before it has written the status, and *)
(* before it has told anybody.                                             *)
BeforeStatus == {"hdel", "hlen", "setOffline"}
BeforeNews   == {"hdel", "hlen", "setOffline", "listMine"}

------------------------------------------------------------------------------
(* Preservation of the inductive invariant.                                *)

(* The inductive invariant holds initially. *)
LEMMA InitIInv == Init => IInv
  <1> SUFFICES ASSUME Init PROVE IInv
    OBVIOUS
  <1>1. TypeOK
    BY ConstantsAssumption DEF Init, TypeOK, Ups, Downs, Disconnecting
  <1> QED
    BY <1>1 DEF Init, IInv, OpenOK, SocketOK, UserOK, Connecting

(* What a step of the handlers of one socket leaves alone. *)
Elsewhere(s) ==
    /\ \A x \in Sockets \ {s} :
         /\ up'[x] = up[x] /\ down'[x] = down[x]
         /\ x \in open' <=> x \in open
         /\ x \in cut' <=> x \in cut
         /\ x \in timer' <=> x \in timer
         /\ x \in hash' <=> x \in hash
         /\ x \in listed' <=> x \in listed
         /\ x \in owed' => x \in owed
    /\ room \subseteq room' \cup {s}
    /\ due' = due

(* A step of the handlers of one socket disturbs the claims of no other. *)
LEMMA OthersStayOK ==
  ASSUME IInv, faults = 0, NEW s \in Sockets, Elsewhere(s),
         NEW x \in Sockets \ {s}
  PROVE  /\ SocketOK(x)'
         /\ x \in owed' => OwedOK(x)'
         /\ AnswersFor(x, BeforeStatus) => AnswersFor(x, BeforeStatus)'
         /\ AnswersFor(x, BeforeNews) => AnswersFor(x, BeforeNews)'
  <1>1. /\ up'[x] = up[x] /\ down'[x] = down[x]
        /\ x \in open' <=> x \in open
        /\ x \in cut' <=> x \in cut
    BY DEF Elsewhere
  <1>2. SocketOK(x)'
    BY <1>1 DEF IInv, Elsewhere, SocketOK, Added, Connecting, AnswersFor, Known
  <1>3. x \in owed' => OwedOK(x)'
    BY <1>1 DEF IInv, Elsewhere, OwedOK, Joined, Known
  <1> QED
    BY <1>1, <1>2, <1>3 DEF AnswersFor, Known, BeforeStatus, BeforeNews

(* A step of the handlers of one socket that says nothing about its user,  *)
(* and after which the socket still answers for him.                       *)
LEMMA SocketStep ==
  ASSUME IInv, NEW s \in Sockets, Elsewhere(s), TypeOK',
         OpenOK(s)',
         UNCHANGED <<status, news, faults>>,
         faults = 0 =>
           /\ SocketOK(s)'
           /\ s \in owed' => OwedOK(s)'
           /\ AnswersFor(s, BeforeStatus) => AnswersFor(s, BeforeStatus)'
           /\ AnswersFor(s, BeforeNews) => AnswersFor(s, BeforeNews)'
  PROVE  IInv'
  <1>1. \A x \in Sockets : OpenOK(x)'
    BY DEF IInv, Elsewhere, OpenOK
  <1>2. ASSUME faults = 0
        PROVE  /\ \A x \in Sockets : SocketOK(x)'
               /\ \A x \in owed' : OwedOK(x)'
    <2>1. owed' \subseteq Sockets
      BY DEF TypeOK
    <2> QED
      BY <1>2, <2>1, OthersStayOK
  <1>3. ASSUME faults = 0, NEW u \in Users PROVE UserOK(u)'
    <2>1. \A x \in Sockets :
            /\ AnswersFor(x, BeforeStatus) => AnswersFor(x, BeforeStatus)'
            /\ AnswersFor(x, BeforeNews) => AnswersFor(x, BeforeNews)'
      BY <1>3, OthersStayOK
    <2>2. UserOK(u)
      BY <1>3 DEF IInv
    <2> QED
      BY <2>1, <2>2 DEF UserOK, SocketsOf, BeforeStatus, BeforeNews
  <1> QED
    BY <1>1, <1>2, <1>3 DEF IInv

(* Connect preserves the inductive invariant. *)
LEMMA ConnectStep ==
  ASSUME IInv, NEW s \in Sockets, Connect(s)
  PROVE  IInv'
  <1>1. TypeOK'
    BY DEF IInv, TypeOK, Ups, Downs, Known, Connecting, Disconnecting,
       Advance, Retreat, stored, beats, rows, joins, Connect
  <1>2. Elsewhere(s)
    BY DEF IInv, TypeOK, Elsewhere, Advance, Retreat, stored, beats, rows, joins, Connect
  <1>3. OpenOK(s)'
    BY DEF IInv, TypeOK, OpenOK, Known, Disconnecting, Advance, Retreat, Connect
  <1>4. ASSUME faults = 0
        PROVE  /\ SocketOK(s)'
               /\ s \in owed' => OwedOK(s)'
               /\ AnswersFor(s, BeforeStatus) => AnswersFor(s, BeforeStatus)'
               /\ AnswersFor(s, BeforeNews) => AnswersFor(s, BeforeNews)'
    <2>1. SocketOK(s) /\ (s \in owed => OwedOK(s))
      BY <1>4 DEF IInv
    <2>2. /\ up \in [Sockets -> Ups] /\ up' \in [Sockets -> Ups]
          /\ down \in [Sockets -> Downs]
          /\ s \in open => up[s] # "new"
          /\ s \in open \/ up[s] = "new" => down[s] = "none"
          /\ Disconnecting(s) => Known(s)
      BY <1>1 DEF IInv, TypeOK, OpenOK
    <2>3. SocketOK(s)' /\ (s \in owed' => OwedOK(s)')
      BY <2>1, <2>2 DEF SocketOK, Added, OwedOK, AnswersFor, Joined, Known, Connecting,
         Disconnecting, Advance, Retreat, stored, beats, rows, joins, Connect
    <2>4. /\ AnswersFor(s, BeforeStatus) => AnswersFor(s, BeforeStatus)'
          /\ AnswersFor(s, BeforeNews) => AnswersFor(s, BeforeNews)'
      BY <2>2 DEF AnswersFor, BeforeStatus, BeforeNews, Known, Connecting,
         Advance, Retreat, stored, beats, rows, joins, Connect
    <2> QED
      BY <2>3, <2>4
  <1>5. UNCHANGED <<status, news, faults>>
    BY DEF stored, Connect
  <1> QED
    BY <1>1, <1>2, <1>3, <1>4, <1>5, SocketStep


(* Authenticate preserves the inductive invariant. *)
LEMMA AuthenticateStep ==
  ASSUME IInv, NEW s \in Sockets, Authenticate(s)
  PROVE  IInv'
  <1>1. TypeOK'
    BY DEF IInv, TypeOK, Ups, Downs, Known, Connecting, Disconnecting,
       Advance, Retreat, stored, beats, rows, joins, Authenticate
  <1>2. Elsewhere(s)
    BY DEF IInv, TypeOK, Elsewhere, Advance, Retreat, stored, beats, rows, joins, Authenticate
  <1>3. OpenOK(s)'
    BY DEF IInv, TypeOK, OpenOK, Known, Disconnecting, Advance, Retreat, Authenticate
  <1>4. ASSUME faults = 0
        PROVE  /\ SocketOK(s)'
               /\ s \in owed' => OwedOK(s)'
               /\ AnswersFor(s, BeforeStatus) => AnswersFor(s, BeforeStatus)'
               /\ AnswersFor(s, BeforeNews) => AnswersFor(s, BeforeNews)'
    <2>1. SocketOK(s) /\ (s \in owed => OwedOK(s))
      BY <1>4 DEF IInv
    <2>2. /\ up \in [Sockets -> Ups] /\ up' \in [Sockets -> Ups]
          /\ down \in [Sockets -> Downs]
          /\ s \in open => up[s] # "new"
          /\ s \in open \/ up[s] = "new" => down[s] = "none"
          /\ Disconnecting(s) => Known(s)
      BY <1>1 DEF IInv, TypeOK, OpenOK
    <2>3. SocketOK(s)' /\ (s \in owed' => OwedOK(s)')
      BY <2>1, <2>2 DEF SocketOK, Added, OwedOK, AnswersFor, Joined, Known, Connecting,
         Disconnecting, Advance, Retreat, stored, beats, rows, joins, Authenticate
    <2>4. /\ AnswersFor(s, BeforeStatus) => AnswersFor(s, BeforeStatus)'
          /\ AnswersFor(s, BeforeNews) => AnswersFor(s, BeforeNews)'
      BY <2>2 DEF AnswersFor, BeforeStatus, BeforeNews, Known, Connecting,
         Advance, Retreat, stored, beats, rows, joins, Authenticate
    <2> QED
      BY <2>3, <2>4
  <1>5. UNCHANGED <<status, news, faults>>
    BY DEF stored, Authenticate
  <1> QED
    BY <1>1, <1>2, <1>3, <1>4, <1>5, SocketStep


(* ListMyConversations preserves the inductive invariant. *)
LEMMA ListMyConversationsStep ==
  ASSUME IInv, NEW s \in Sockets, ListMyConversations(s)
  PROVE  IInv'
  <1>1. TypeOK'
    BY DEF IInv, TypeOK, Ups, Downs, Known, Connecting, Disconnecting,
       Advance, Retreat, stored, beats, rows, joins, ListMyConversations
  <1>2. Elsewhere(s)
    BY DEF IInv, TypeOK, Elsewhere, Advance, Retreat, stored, beats, rows, joins, ListMyConversations
  <1>3. OpenOK(s)'
    BY DEF IInv, TypeOK, OpenOK, Known, Disconnecting, Advance, Retreat, ListMyConversations
  <1>4. ASSUME faults = 0
        PROVE  /\ SocketOK(s)'
               /\ s \in owed' => OwedOK(s)'
               /\ AnswersFor(s, BeforeStatus) => AnswersFor(s, BeforeStatus)'
               /\ AnswersFor(s, BeforeNews) => AnswersFor(s, BeforeNews)'
    <2>1. SocketOK(s) /\ (s \in owed => OwedOK(s))
      BY <1>4 DEF IInv
    <2>2. /\ up \in [Sockets -> Ups] /\ up' \in [Sockets -> Ups]
          /\ down \in [Sockets -> Downs]
          /\ s \in open => up[s] # "new"
          /\ s \in open \/ up[s] = "new" => down[s] = "none"
          /\ Disconnecting(s) => Known(s)
      BY <1>1 DEF IInv, TypeOK, OpenOK
    <2>3. SocketOK(s)' /\ (s \in owed' => OwedOK(s)')
      BY <2>1, <2>2 DEF SocketOK, Added, OwedOK, AnswersFor, Joined, Known, Connecting,
         Disconnecting, Advance, Retreat, stored, beats, rows, joins, ListMyConversations
    <2>4. /\ AnswersFor(s, BeforeStatus) => AnswersFor(s, BeforeStatus)'
          /\ AnswersFor(s, BeforeNews) => AnswersFor(s, BeforeNews)'
      BY <2>2 DEF AnswersFor, BeforeStatus, BeforeNews, Known, Connecting,
         Advance, Retreat, stored, beats, rows, joins, ListMyConversations
    <2> QED
      BY <2>3, <2>4
  <1>5. UNCHANGED <<status, news, faults>>
    BY DEF stored, ListMyConversations
  <1> QED
    BY <1>1, <1>2, <1>3, <1>4, <1>5, SocketStep


(* JoinRooms preserves the inductive invariant. *)
LEMMA JoinRoomsStep ==
  ASSUME IInv, NEW s \in Sockets, JoinRooms(s)
  PROVE  IInv'
  <1>1. TypeOK'
    BY DEF IInv, TypeOK, Ups, Downs, Known, Connecting, Disconnecting,
       Advance, Retreat, stored, beats, rows, joins, JoinRooms
  <1>2. Elsewhere(s)
    BY DEF IInv, TypeOK, Elsewhere, Advance, Retreat, stored, beats, rows, joins, JoinRooms
  <1>3. OpenOK(s)'
    BY DEF IInv, TypeOK, OpenOK, Known, Disconnecting, Advance, Retreat, JoinRooms
  <1>4. ASSUME faults = 0
        PROVE  /\ SocketOK(s)'
               /\ s \in owed' => OwedOK(s)'
               /\ AnswersFor(s, BeforeStatus) => AnswersFor(s, BeforeStatus)'
               /\ AnswersFor(s, BeforeNews) => AnswersFor(s, BeforeNews)'
    <2>1. SocketOK(s) /\ (s \in owed => OwedOK(s))
      BY <1>4 DEF IInv
    <2>2. /\ up \in [Sockets -> Ups] /\ up' \in [Sockets -> Ups]
          /\ down \in [Sockets -> Downs]
          /\ s \in open => up[s] # "new"
          /\ s \in open \/ up[s] = "new" => down[s] = "none"
          /\ Disconnecting(s) => Known(s)
      BY <1>1 DEF IInv, TypeOK, OpenOK
    <2>3. SocketOK(s)' /\ (s \in owed' => OwedOK(s)')
      BY <2>1, <2>2 DEF SocketOK, Added, OwedOK, AnswersFor, Joined, Known, Connecting,
         Disconnecting, Advance, Retreat, stored, beats, rows, joins, JoinRooms
    <2>4. /\ AnswersFor(s, BeforeStatus) => AnswersFor(s, BeforeStatus)'
          /\ AnswersFor(s, BeforeNews) => AnswersFor(s, BeforeNews)'
      BY <2>2 DEF AnswersFor, BeforeStatus, BeforeNews, Known, Connecting,
         Advance, Retreat, stored, beats, rows, joins, JoinRooms
    <2> QED
      BY <2>3, <2>4
  <1>5. UNCHANGED <<status, news, faults>>
    BY DEF stored, JoinRooms
  <1> QED
    BY <1>1, <1>2, <1>3, <1>4, <1>5, SocketStep


(* CountBefore preserves the inductive invariant. *)
LEMMA CountBeforeStep ==
  ASSUME IInv, NEW s \in Sockets, CountBefore(s)
  PROVE  IInv'
  <1>1. TypeOK'
    BY DEF IInv, TypeOK, Ups, Downs, Known, Connecting, Disconnecting,
       Advance, Retreat, stored, beats, rows, joins, CountBefore
  <1>2. Elsewhere(s)
    BY DEF IInv, TypeOK, Elsewhere, Advance, Retreat, stored, beats, rows, joins, CountBefore
  <1>3. OpenOK(s)'
    BY DEF IInv, TypeOK, OpenOK, Known, Disconnecting, Advance, Retreat, CountBefore
  <1>4. ASSUME faults = 0
        PROVE  /\ SocketOK(s)'
               /\ s \in owed' => OwedOK(s)'
               /\ AnswersFor(s, BeforeStatus) => AnswersFor(s, BeforeStatus)'
               /\ AnswersFor(s, BeforeNews) => AnswersFor(s, BeforeNews)'
    <2>1. SocketOK(s) /\ (s \in owed => OwedOK(s))
      BY <1>4 DEF IInv
    <2>2. /\ up \in [Sockets -> Ups] /\ up' \in [Sockets -> Ups]
          /\ down \in [Sockets -> Downs]
          /\ s \in open => up[s] # "new"
          /\ s \in open \/ up[s] = "new" => down[s] = "none"
          /\ Disconnecting(s) => Known(s)
      BY <1>1 DEF IInv, TypeOK, OpenOK
    <2>3. SocketOK(s)' /\ (s \in owed' => OwedOK(s)')
      BY <2>1, <2>2 DEF SocketOK, Added, OwedOK, AnswersFor, Joined, Known, Connecting,
         Disconnecting, Advance, Retreat, stored, beats, rows, joins, CountBefore
    <2>4. /\ AnswersFor(s, BeforeStatus) => AnswersFor(s, BeforeStatus)'
          /\ AnswersFor(s, BeforeNews) => AnswersFor(s, BeforeNews)'
      BY <2>2 DEF AnswersFor, BeforeStatus, BeforeNews, Known, Connecting,
         Advance, Retreat, stored, beats, rows, joins, CountBefore
    <2> QED
      BY <2>3, <2>4
  <1>5. UNCHANGED <<status, news, faults>>
    BY DEF stored, CountBefore
  <1> QED
    BY <1>1, <1>2, <1>3, <1>4, <1>5, SocketStep


(* AddEntry preserves the inductive invariant. *)
LEMMA AddEntryStep ==
  ASSUME IInv, NEW s \in Sockets, AddEntry(s)
  PROVE  IInv'
  <1>1. TypeOK'
    BY DEF IInv, TypeOK, Ups, Downs, Known, Connecting, Disconnecting,
       Advance, Retreat, stored, beats, rows, joins, AddEntry
  <1>2. Elsewhere(s)
    BY DEF IInv, TypeOK, Elsewhere, Advance, Retreat, stored, beats, rows, joins, AddEntry
  <1>3. OpenOK(s)'
    BY DEF IInv, TypeOK, OpenOK, Known, Disconnecting, Advance, Retreat, AddEntry
  <1>4. ASSUME faults = 0
        PROVE  /\ SocketOK(s)'
               /\ s \in owed' => OwedOK(s)'
               /\ AnswersFor(s, BeforeStatus) => AnswersFor(s, BeforeStatus)'
               /\ AnswersFor(s, BeforeNews) => AnswersFor(s, BeforeNews)'
    <2>1. SocketOK(s) /\ (s \in owed => OwedOK(s))
      BY <1>4 DEF IInv
    <2>2. /\ up \in [Sockets -> Ups] /\ up' \in [Sockets -> Ups]
          /\ down \in [Sockets -> Downs]
          /\ s \in open => up[s] # "new"
          /\ s \in open \/ up[s] = "new" => down[s] = "none"
          /\ Disconnecting(s) => Known(s)
      BY <1>1 DEF IInv, TypeOK, OpenOK
    <2>3. SocketOK(s)' /\ (s \in owed' => OwedOK(s)')
      BY <2>1, <2>2 DEF SocketOK, Added, OwedOK, AnswersFor, Joined, Known, Connecting,
         Disconnecting, Advance, Retreat, stored, beats, rows, joins, AddEntry
    <2>4. /\ AnswersFor(s, BeforeStatus) => AnswersFor(s, BeforeStatus)'
          /\ AnswersFor(s, BeforeNews) => AnswersFor(s, BeforeNews)'
      BY <2>2 DEF AnswersFor, BeforeStatus, BeforeNews, Known, Connecting,
         Advance, Retreat, stored, beats, rows, joins, AddEntry
    <2> QED
      BY <2>3, <2>4
  <1>5. UNCHANGED <<status, news, faults>>
    BY DEF stored, AddEntry
  <1> QED
    BY <1>1, <1>2, <1>3, <1>4, <1>5, SocketStep


(* SetTTL preserves the inductive invariant. *)
LEMMA SetTTLStep ==
  ASSUME IInv, NEW s \in Sockets, SetTTL(s)
  PROVE  IInv'
  <1>1. TypeOK'
    BY ConstantsAssumption DEF IInv, TypeOK, Ups, Downs, Known, Connecting,
       Disconnecting, Advance, Retreat, stored, beats, rows, joins, SetTTL
  <1>2. Elsewhere(s)
    BY DEF IInv, TypeOK, Elsewhere, Advance, Retreat, stored, beats, rows, joins, SetTTL
  <1>3. OpenOK(s)'
    BY DEF IInv, TypeOK, OpenOK, Known, Disconnecting, Advance, Retreat, SetTTL
  <1>4. ASSUME faults = 0
        PROVE  /\ SocketOK(s)'
               /\ s \in owed' => OwedOK(s)'
               /\ AnswersFor(s, BeforeStatus) => AnswersFor(s, BeforeStatus)'
               /\ AnswersFor(s, BeforeNews) => AnswersFor(s, BeforeNews)'
    <2>1. SocketOK(s) /\ (s \in owed => OwedOK(s))
      BY <1>4 DEF IInv
    <2>2. /\ up \in [Sockets -> Ups] /\ up' \in [Sockets -> Ups]
          /\ down \in [Sockets -> Downs]
          /\ s \in open => up[s] # "new"
          /\ s \in open \/ up[s] = "new" => down[s] = "none"
          /\ Disconnecting(s) => Known(s)
      BY <1>1 DEF IInv, TypeOK, OpenOK
    <2>3. SocketOK(s)' /\ (s \in owed' => OwedOK(s)')
      BY <2>1, <2>2 DEF SocketOK, Added, OwedOK, AnswersFor, Joined, Known, Connecting,
         Disconnecting, Advance, Retreat, stored, beats, rows, joins, SetTTL
    <2>4. /\ AnswersFor(s, BeforeStatus) => AnswersFor(s, BeforeStatus)'
          /\ AnswersFor(s, BeforeNews) => AnswersFor(s, BeforeNews)'
      BY <2>2 DEF AnswersFor, BeforeStatus, BeforeNews, Known, Connecting,
         Advance, Retreat, stored, beats, rows, joins, SetTTL
    <2> QED
      BY <2>3, <2>4
  <1>5. UNCHANGED <<status, news, faults>>
    BY DEF stored, SetTTL
  <1> QED
    BY <1>1, <1>2, <1>3, <1>4, <1>5, SocketStep


(* ListOthers preserves the inductive invariant. *)
LEMMA ListOthersStep ==
  ASSUME IInv, NEW s \in Sockets, ListOthers(s)
  PROVE  IInv'
  <1>1. TypeOK'
    BY DEF IInv, TypeOK, Ups, Downs, Known, Connecting, Disconnecting,
       Advance, Retreat, stored, beats, rows, joins, ListOthers
  <1>2. Elsewhere(s)
    BY DEF IInv, TypeOK, Elsewhere, Advance, Retreat, stored, beats, rows, joins, ListOthers
  <1>3. OpenOK(s)'
    BY DEF IInv, TypeOK, OpenOK, Known, Disconnecting, Advance, Retreat, ListOthers
  <1>4. ASSUME faults = 0
        PROVE  /\ SocketOK(s)'
               /\ s \in owed' => OwedOK(s)'
               /\ AnswersFor(s, BeforeStatus) => AnswersFor(s, BeforeStatus)'
               /\ AnswersFor(s, BeforeNews) => AnswersFor(s, BeforeNews)'
    <2>1. SocketOK(s) /\ (s \in owed => OwedOK(s))
      BY <1>4 DEF IInv
    <2>2. /\ up \in [Sockets -> Ups] /\ up' \in [Sockets -> Ups]
          /\ down \in [Sockets -> Downs]
          /\ s \in open => up[s] # "new"
          /\ s \in open \/ up[s] = "new" => down[s] = "none"
          /\ Disconnecting(s) => Known(s)
      BY <1>1 DEF IInv, TypeOK, OpenOK
    <2>3. SocketOK(s)' /\ (s \in owed' => OwedOK(s)')
      BY <2>1, <2>2 DEF SocketOK, Added, OwedOK, AnswersFor, Joined, Known, Connecting,
         Disconnecting, Advance, Retreat, stored, beats, rows, joins, ListOthers
    <2>4. /\ AnswersFor(s, BeforeStatus) => AnswersFor(s, BeforeStatus)'
          /\ AnswersFor(s, BeforeNews) => AnswersFor(s, BeforeNews)'
      BY <2>2 DEF AnswersFor, BeforeStatus, BeforeNews, Known, Connecting,
         Advance, Retreat, stored, beats, rows, joins, ListOthers
    <2> QED
      BY <2>3, <2>4
  <1>5. UNCHANGED <<status, news, faults>>
    BY DEF stored, ListOthers
  <1> QED
    BY <1>1, <1>2, <1>3, <1>4, <1>5, SocketStep


(* FilterOnline preserves the inductive invariant. *)
LEMMA FilterOnlineStep ==
  ASSUME IInv, NEW s \in Sockets, FilterOnline(s)
  PROVE  IInv'
  <1>1. TypeOK'
    BY DEF IInv, TypeOK, Ups, Downs, Known, Connecting, Disconnecting,
       Advance, Retreat, stored, beats, rows, joins, FilterOnline
  <1>2. Elsewhere(s)
    BY DEF IInv, TypeOK, Elsewhere, Advance, Retreat, stored, beats, rows, joins, FilterOnline
  <1>3. OpenOK(s)'
    BY DEF IInv, TypeOK, OpenOK, Known, Disconnecting, Advance, Retreat, FilterOnline
  <1>4. ASSUME faults = 0
        PROVE  /\ SocketOK(s)'
               /\ s \in owed' => OwedOK(s)'
               /\ AnswersFor(s, BeforeStatus) => AnswersFor(s, BeforeStatus)'
               /\ AnswersFor(s, BeforeNews) => AnswersFor(s, BeforeNews)'
    <2>1. SocketOK(s) /\ (s \in owed => OwedOK(s))
      BY <1>4 DEF IInv
    <2>2. /\ up \in [Sockets -> Ups] /\ up' \in [Sockets -> Ups]
          /\ down \in [Sockets -> Downs]
          /\ s \in open => up[s] # "new"
          /\ s \in open \/ up[s] = "new" => down[s] = "none"
          /\ Disconnecting(s) => Known(s)
      BY <1>1 DEF IInv, TypeOK, OpenOK
    <2>3. SocketOK(s)' /\ (s \in owed' => OwedOK(s)')
      BY <2>1, <2>2 DEF SocketOK, Added, OwedOK, AnswersFor, Joined, Known, Connecting,
         Disconnecting, Advance, Retreat, stored, beats, rows, joins, FilterOnline
    <2>4. /\ AnswersFor(s, BeforeStatus) => AnswersFor(s, BeforeStatus)'
          /\ AnswersFor(s, BeforeNews) => AnswersFor(s, BeforeNews)'
      BY <2>2 DEF AnswersFor, BeforeStatus, BeforeNews, Known, Connecting,
         Advance, Retreat, stored, beats, rows, joins, FilterOnline
    <2> QED
      BY <2>3, <2>4
  <1>5. UNCHANGED <<status, news, faults>>
    BY DEF stored, FilterOnline
  <1> QED
    BY <1>1, <1>2, <1>3, <1>4, <1>5, SocketStep


(* Refresh preserves the inductive invariant. *)
LEMMA RefreshStep ==
  ASSUME IInv, NEW s \in Sockets, Refresh(s)
  PROVE  IInv'
  <1>1. TypeOK'
    BY ConstantsAssumption DEF IInv, TypeOK, Ups, Downs, Known, Connecting,
       Disconnecting, Advance, Retreat, stored, beats, rows, joins, Refresh
  <1>2. Elsewhere(s)
    BY DEF IInv, TypeOK, Elsewhere, Advance, Retreat, stored, beats, rows, joins, Refresh
  <1>3. OpenOK(s)'
    BY DEF IInv, TypeOK, OpenOK, Known, Disconnecting, Advance, Retreat, Refresh
  <1>4. ASSUME faults = 0
        PROVE  /\ SocketOK(s)'
               /\ s \in owed' => OwedOK(s)'
               /\ AnswersFor(s, BeforeStatus) => AnswersFor(s, BeforeStatus)'
               /\ AnswersFor(s, BeforeNews) => AnswersFor(s, BeforeNews)'
    <2>1. SocketOK(s) /\ (s \in owed => OwedOK(s))
      BY <1>4 DEF IInv
    <2>2. /\ up \in [Sockets -> Ups] /\ up' \in [Sockets -> Ups]
          /\ down \in [Sockets -> Downs]
          /\ s \in open => up[s] # "new"
          /\ s \in open \/ up[s] = "new" => down[s] = "none"
          /\ Disconnecting(s) => Known(s)
      BY <1>1 DEF IInv, TypeOK, OpenOK
    <2>3. SocketOK(s)' /\ (s \in owed' => OwedOK(s)')
      BY <2>1, <2>2 DEF SocketOK, Added, OwedOK, AnswersFor, Joined, Known, Connecting,
         Disconnecting, Advance, Retreat, stored, beats, rows, joins, Refresh
    <2>4. /\ AnswersFor(s, BeforeStatus) => AnswersFor(s, BeforeStatus)'
          /\ AnswersFor(s, BeforeNews) => AnswersFor(s, BeforeNews)'
      BY <2>2 DEF AnswersFor, BeforeStatus, BeforeNews, Known, Connecting,
         Advance, Retreat, stored, beats, rows, joins, Refresh
    <2> QED
      BY <2>3, <2>4
  <1>5. UNCHANGED <<status, news, faults>>
    BY DEF stored, Refresh
  <1> QED
    BY <1>1, <1>2, <1>3, <1>4, <1>5, SocketStep


(* RefreshTTL preserves the inductive invariant. *)
LEMMA RefreshTTLStep ==
  ASSUME IInv, NEW s \in Sockets, RefreshTTL(s)
  PROVE  IInv'
  <1>1. TypeOK'
    BY ConstantsAssumption DEF IInv, TypeOK, Ups, Downs, Known, Connecting,
       Disconnecting, Advance, Retreat, stored, beats, rows, joins, RefreshTTL
  <1>2. Elsewhere(s)
    BY DEF IInv, TypeOK, Elsewhere, Advance, Retreat, stored, beats, rows, joins, RefreshTTL
  <1>3. OpenOK(s)'
    BY DEF IInv, TypeOK, OpenOK, Known, Disconnecting, Advance, Retreat, RefreshTTL
  <1>4. ASSUME faults = 0
        PROVE  /\ SocketOK(s)'
               /\ s \in owed' => OwedOK(s)'
               /\ AnswersFor(s, BeforeStatus) => AnswersFor(s, BeforeStatus)'
               /\ AnswersFor(s, BeforeNews) => AnswersFor(s, BeforeNews)'
    <2>1. SocketOK(s) /\ (s \in owed => OwedOK(s))
      BY <1>4 DEF IInv
    <2>2. /\ up \in [Sockets -> Ups] /\ up' \in [Sockets -> Ups]
          /\ down \in [Sockets -> Downs]
          /\ s \in open => up[s] # "new"
          /\ s \in open \/ up[s] = "new" => down[s] = "none"
          /\ Disconnecting(s) => Known(s)
      BY <1>1 DEF IInv, TypeOK, OpenOK
    <2>3. SocketOK(s)' /\ (s \in owed' => OwedOK(s)')
      BY <2>1, <2>2 DEF SocketOK, Added, OwedOK, AnswersFor, Joined, Known, Connecting,
         Disconnecting, Advance, Retreat, stored, beats, rows, joins, RefreshTTL
    <2>4. /\ AnswersFor(s, BeforeStatus) => AnswersFor(s, BeforeStatus)'
          /\ AnswersFor(s, BeforeNews) => AnswersFor(s, BeforeNews)'
      BY <2>2 DEF AnswersFor, BeforeStatus, BeforeNews, Known, Connecting,
         Advance, Retreat, stored, beats, rows, joins, RefreshTTL
    <2> QED
      BY <2>3, <2>4
  <1>5. UNCHANGED <<status, news, faults>>
    BY DEF stored, RefreshTTL
  <1> QED
    BY <1>1, <1>2, <1>3, <1>4, <1>5, SocketStep


(* Disconnect preserves the inductive invariant. *)
LEMMA DisconnectStep ==
  ASSUME IInv, NEW s \in Sockets, Disconnect(s)
  PROVE  IInv'
  <1>1. TypeOK'
    BY DEF IInv, TypeOK, Ups, Downs, Known, Connecting, Disconnecting,
       Advance, Retreat, stored, beats, rows, joins, Disconnect
  <1>2. Elsewhere(s)
    BY DEF IInv, TypeOK, Elsewhere, Advance, Retreat, stored, beats, rows, joins, Disconnect
  <1>3. OpenOK(s)'
    BY DEF IInv, TypeOK, OpenOK, Known, Disconnecting, Advance, Retreat, Disconnect
  <1>4. ASSUME faults = 0
        PROVE  /\ SocketOK(s)'
               /\ s \in owed' => OwedOK(s)'
               /\ AnswersFor(s, BeforeStatus) => AnswersFor(s, BeforeStatus)'
               /\ AnswersFor(s, BeforeNews) => AnswersFor(s, BeforeNews)'
    <2>1. SocketOK(s) /\ (s \in owed => OwedOK(s))
      BY <1>4 DEF IInv
    <2>2. /\ up \in [Sockets -> Ups] /\ up' \in [Sockets -> Ups]
          /\ down \in [Sockets -> Downs]
          /\ s \in open => up[s] # "new"
          /\ s \in open \/ up[s] = "new" => down[s] = "none"
          /\ Disconnecting(s) => Known(s)
      BY <1>1 DEF IInv, TypeOK, OpenOK
    <2>3. SocketOK(s)' /\ (s \in owed' => OwedOK(s)')
      BY <2>1, <2>2 DEF SocketOK, Added, OwedOK, AnswersFor, Joined, Known, Connecting,
         Disconnecting, Advance, Retreat, stored, beats, rows, joins, Disconnect
    <2>4. /\ AnswersFor(s, BeforeStatus) => AnswersFor(s, BeforeStatus)'
          /\ AnswersFor(s, BeforeNews) => AnswersFor(s, BeforeNews)'
      BY <2>2 DEF AnswersFor, BeforeStatus, BeforeNews, Known, Connecting,
         Advance, Retreat, stored, beats, rows, joins, Disconnect
    <2> QED
      BY <2>3, <2>4
  <1>5. UNCHANGED <<status, news, faults>>
    BY DEF stored, Disconnect
  <1> QED
    BY <1>1, <1>2, <1>3, <1>4, <1>5, SocketStep


(* RemoveEntry preserves the inductive invariant. *)
LEMMA RemoveEntryStep ==
  ASSUME IInv, NEW s \in Sockets, RemoveEntry(s)
  PROVE  IInv'
  <1>1. TypeOK'
    BY DEF IInv, TypeOK, Ups, Downs, Known, Connecting, Disconnecting,
       Advance, Retreat, stored, beats, rows, joins, RemoveEntry
  <1>2. Elsewhere(s)
    BY DEF IInv, TypeOK, Elsewhere, Advance, Retreat, stored, beats, rows, joins, RemoveEntry
  <1>3. OpenOK(s)'
    BY DEF IInv, TypeOK, OpenOK, Known, Disconnecting, Advance, Retreat, RemoveEntry
  <1>4. ASSUME faults = 0
        PROVE  /\ SocketOK(s)'
               /\ s \in owed' => OwedOK(s)'
               /\ AnswersFor(s, BeforeStatus) => AnswersFor(s, BeforeStatus)'
               /\ AnswersFor(s, BeforeNews) => AnswersFor(s, BeforeNews)'
    <2>1. SocketOK(s) /\ (s \in owed => OwedOK(s))
      BY <1>4 DEF IInv
    <2>2. /\ up \in [Sockets -> Ups] /\ up' \in [Sockets -> Ups]
          /\ down \in [Sockets -> Downs]
          /\ s \in open => up[s] # "new"
          /\ s \in open \/ up[s] = "new" => down[s] = "none"
          /\ Disconnecting(s) => Known(s)
      BY <1>1 DEF IInv, TypeOK, OpenOK
    <2>3. SocketOK(s)' /\ (s \in owed' => OwedOK(s)')
      BY <2>1, <2>2 DEF SocketOK, Added, OwedOK, AnswersFor, Joined, Known, Connecting,
         Disconnecting, Advance, Retreat, stored, beats, rows, joins, RemoveEntry
    <2>4. /\ AnswersFor(s, BeforeStatus) => AnswersFor(s, BeforeStatus)'
          /\ AnswersFor(s, BeforeNews) => AnswersFor(s, BeforeNews)'
      BY <2>2 DEF AnswersFor, BeforeStatus, BeforeNews, Known, Connecting,
         Advance, Retreat, stored, beats, rows, joins, RemoveEntry
    <2> QED
      BY <2>3, <2>4
  <1>5. UNCHANGED <<status, news, faults>>
    BY DEF stored, RemoveEntry
  <1> QED
    BY <1>1, <1>2, <1>3, <1>4, <1>5, SocketStep

(* A step of the handlers of one socket after which every user whose       *)
(* status or news says that he is online has somebody answering for him.   *)
LEMMA StatusStep ==
  ASSUME IInv, NEW s \in Sockets, Elsewhere(s), TypeOK', OpenOK(s)',
         UNCHANGED faults,
         faults = 0 =>
           /\ SocketOK(s)'
           /\ s \in owed' => OwedOK(s)'
           /\ \A u \in Users : UserOK(u)'
  PROVE  IInv'
  <1>1. \A x \in Sockets : OpenOK(x)'
    BY DEF IInv, Elsewhere, OpenOK
  <1>2. ASSUME faults = 0
        PROVE  /\ \A x \in Sockets : SocketOK(x)'
               /\ \A x \in owed' : OwedOK(x)'
    <2>1. owed' \subseteq Sockets
      BY DEF TypeOK
    <2> QED
      BY <1>2, <2>1, OthersStayOK
  <1> QED
    BY <1>1, <1>2 DEF IInv

(* The socket that makes its user online answers for him. *)
LEMMA SetOnlineStep ==
  ASSUME IInv, NEW s \in Sockets, SetOnline(s)
  PROVE  IInv'
  <1>1. TypeOK'
    BY ConstantsAssumption DEF IInv, TypeOK, Ups, Downs, Known, Connecting,
       Disconnecting, Advance, beats, rows, joins, SetOnline
  <1>2. Elsewhere(s)
    BY DEF IInv, TypeOK, Elsewhere, Advance, beats, rows, joins, SetOnline
  <1>3. OpenOK(s)'
    BY DEF IInv, TypeOK, OpenOK, Advance, SetOnline
  <1>4. ASSUME faults = 0
        PROVE  /\ SocketOK(s)'
               /\ s \in owed' => OwedOK(s)'
               /\ \A u \in Users : UserOK(u)'
    <2>1. SocketOK(s) /\ (s \in owed => OwedOK(s)) /\ up \in [Sockets -> Ups]
      BY <1>4 DEF IInv, TypeOK
    <2>2. SocketOK(s)' /\ (s \in owed' => OwedOK(s)')
      BY <2>1 DEF SocketOK, Added, OwedOK, AnswersFor, Joined, Known, Connecting,
         Advance, beats, rows, joins, SetOnline
    <2>3. AnswersFor(s, BeforeStatus)' /\ AnswersFor(s, BeforeNews)'
      BY <2>1 DEF SocketOK, Added, AnswersFor, Known, Connecting, Advance, SetOnline
    <2>4. ASSUME NEW u \in Users PROVE UserOK(u)'
      <3>1. UserOK(u)
        BY <1>4 DEF IInv
      <3>2. \A x \in Sockets \ {s} :
              /\ AnswersFor(x, BeforeStatus) => AnswersFor(x, BeforeStatus)'
              /\ AnswersFor(x, BeforeNews) => AnswersFor(x, BeforeNews)'
        BY <1>2, <1>4, OthersStayOK
      <3>3. u # UserOf[s] => status'[u] = status[u] /\ news'[u] = news[u]
        BY DEF IInv, TypeOK, SetOnline
      <3> QED
        BY <2>3, <3>1, <3>2, <3>3
           DEF UserOK, SocketsOf, BeforeStatus, BeforeNews
    <2> QED
      BY <2>2, <2>4
  <1> QED
    BY <1>1, <1>2, <1>3, <1>4, StatusStep DEF SetOnline

(* A socket that finds another entry leaves the answer to that one. *)
LEMMA CountRemainingStep ==
  ASSUME IInv, NEW s \in Sockets, CountRemaining(s)
  PROVE  IInv'
  <1>1. TypeOK'
    BY DEF IInv, TypeOK, Ups, Downs, Known, Connecting, Disconnecting,
       Retreat, stored, beats, rows, joins, CountRemaining
  <1>2. Elsewhere(s)
    BY DEF IInv, TypeOK, Elsewhere, Retreat, stored, beats, rows, joins, CountRemaining
  <1>3. OpenOK(s)'
    BY DEF IInv, TypeOK, OpenOK, Retreat, CountRemaining
  <1>4. ASSUME faults = 0
        PROVE  /\ SocketOK(s)'
               /\ s \in owed' => OwedOK(s)'
               /\ \A u \in Users : UserOK(u)'
    <2>1. /\ SocketOK(s) /\ (s \in owed => OwedOK(s))
          /\ s \in open => down[s] = "none"
          /\ down \in [Sockets -> Downs]
      BY <1>4 DEF IInv, TypeOK, OpenOK
    <2>2. SocketOK(s)' /\ (s \in owed' => OwedOK(s)')
      BY <2>1 DEF SocketOK, Added, OwedOK, AnswersFor, Joined, Known, Connecting,
         Retreat, stored, beats, rows, joins, CountRemaining
    <2>3. ASSUME NEW u \in Users PROVE UserOK(u)'
      <3>1. UserOK(u)
        BY <1>4 DEF IInv
      <3>2. \A x \in Sockets \ {s} :
              /\ AnswersFor(x, BeforeStatus) => AnswersFor(x, BeforeStatus)'
              /\ AnswersFor(x, BeforeNews) => AnswersFor(x, BeforeNews)'
        BY <1>2, <1>4, OthersStayOK
      <3>3. UNCHANGED <<status, news>>
        BY DEF CountRemaining, stored
      <3>4. CASE IsOnline(UserOf[s])
        <4>1. PICK x \in SocketsOf(UserOf[s]) : x \in hash
          BY <3>4 DEF IsOnline, Entries
        <4>2. x \in Sockets /\ UserOf[x] = UserOf[s] /\ AnswersFor(x, {"hdel"})
          BY <1>4, <4>1 DEF IInv, SocketOK, SocketsOf
        <4>3. AnswersFor(x, BeforeStatus) /\ AnswersFor(x, BeforeNews)
          BY <4>2 DEF AnswersFor, BeforeStatus, BeforeNews
        <4>4. AnswersFor(x, BeforeStatus)' /\ AnswersFor(x, BeforeNews)'
          <5>1. CASE x = s
            BY <2>1, <4>2, <5>1 DEF AnswersFor, CountRemaining
          <5>2. CASE x # s
            BY <3>2, <4>2, <4>3, <5>2
          <5> QED
            BY <5>1, <5>2
        <4> QED
          BY <3>1, <3>2, <3>3, <4>2, <4>4
             DEF UserOK, SocketsOf, BeforeStatus, BeforeNews
      <3>5. CASE ~IsOnline(UserOf[s])
        <4>1. /\ AnswersFor(s, BeforeStatus) => AnswersFor(s, BeforeStatus)'
              /\ AnswersFor(s, BeforeNews) => AnswersFor(s, BeforeNews)'
          BY <2>1, <3>5 DEF AnswersFor, BeforeStatus, BeforeNews, Known, Retreat,
             CountRemaining
        <4> QED
          BY <3>1, <3>2, <3>3, <4>1
             DEF UserOK, SocketsOf, BeforeStatus, BeforeNews
      <3> QED
        BY <3>4, <3>5
    <2> QED
      BY <2>2, <2>3
  <1> QED
    BY <1>1, <1>2, <1>3, <1>4, StatusStep DEF CountRemaining

(* The status no longer needs an answer; the news still does. *)
LEMMA SetOfflineStep ==
  ASSUME IInv, NEW s \in Sockets, SetOffline(s)
  PROVE  IInv'
  <1>1. TypeOK'
    BY ConstantsAssumption DEF IInv, TypeOK, Ups, Downs, Known, Connecting,
       Disconnecting, Retreat, beats, rows, joins, SetOffline
  <1>2. Elsewhere(s)
    BY DEF IInv, TypeOK, Elsewhere, Retreat, beats, rows, joins, SetOffline
  <1>3. OpenOK(s)'
    BY DEF IInv, TypeOK, OpenOK, Retreat, SetOffline
  <1>4. ASSUME faults = 0
        PROVE  /\ SocketOK(s)'
               /\ s \in owed' => OwedOK(s)'
               /\ \A u \in Users : UserOK(u)'
    <2>1. /\ SocketOK(s) /\ (s \in owed => OwedOK(s))
          /\ s \in open => down[s] = "none"
          /\ down \in [Sockets -> Downs]
      BY <1>4 DEF IInv, TypeOK, OpenOK
    <2>2. SocketOK(s)' /\ (s \in owed' => OwedOK(s)')
      BY <2>1 DEF SocketOK, Added, OwedOK, AnswersFor, Joined, Known, Connecting,
         Retreat, beats, rows, joins, SetOffline
    <2>3. AnswersFor(s, BeforeNews) => AnswersFor(s, BeforeNews)'
      BY <2>1 DEF AnswersFor, BeforeNews, Known, Retreat, SetOffline
    <2>4. ASSUME NEW u \in Users PROVE UserOK(u)'
      <3>1. UserOK(u)
        BY <1>4 DEF IInv
      <3>2. \A x \in Sockets \ {s} :
              /\ AnswersFor(x, BeforeStatus) => AnswersFor(x, BeforeStatus)'
              /\ AnswersFor(x, BeforeNews) => AnswersFor(x, BeforeNews)'
        BY <1>2, <1>4, OthersStayOK
      <3>3. /\ news' = news
            /\ status'[u] = IF u = UserOf[s] THEN "offline" ELSE status[u]
        BY DEF IInv, TypeOK, SetOffline
      <3> QED
        BY <2>3, <3>1, <3>2, <3>3
           DEF UserOK, SocketsOf, BeforeStatus, BeforeNews
    <2> QED
      BY <2>2, <2>4
  <1> QED
    BY <1>1, <1>2, <1>3, <1>4, StatusStep DEF SetOffline

(* Nothing about the user needs this socket's answer any more. *)
LEMMA TellOfflineStep ==
  ASSUME IInv, NEW s \in Sockets, TellOffline(s)
  PROVE  IInv'
  <1>1. TypeOK'
    BY ConstantsAssumption DEF IInv, TypeOK, Ups, Downs, Known, Connecting,
       Disconnecting, Retreat, beats, rows, joins, TellOffline
  <1>2. Elsewhere(s)
    BY DEF IInv, TypeOK, Elsewhere, Retreat, beats, rows, joins, TellOffline
  <1>3. OpenOK(s)'
    BY DEF IInv, TypeOK, OpenOK, Retreat, TellOffline
  <1>4. ASSUME faults = 0
        PROVE  /\ SocketOK(s)'
               /\ s \in owed' => OwedOK(s)'
               /\ \A u \in Users : UserOK(u)'
    <2>1. /\ SocketOK(s) /\ (s \in owed => OwedOK(s))
          /\ s \in open => down[s] = "none"
          /\ down \in [Sockets -> Downs]
      BY <1>4 DEF IInv, TypeOK, OpenOK
    <2>2. SocketOK(s)' /\ (s \in owed' => OwedOK(s)')
      BY <2>1 DEF SocketOK, Added, OwedOK, AnswersFor, Joined, Known, Connecting,
         Retreat, beats, rows, joins, TellOffline
    <2>3. AnswersFor(s, BeforeStatus) => AnswersFor(s, BeforeStatus)'
      BY <2>1 DEF AnswersFor, BeforeStatus, Known, Retreat, TellOffline
    <2>4. ASSUME NEW u \in Users PROVE UserOK(u)'
      <3>1. UserOK(u)
        BY <1>4 DEF IInv
      <3>2. \A x \in Sockets \ {s} :
              /\ AnswersFor(x, BeforeStatus) => AnswersFor(x, BeforeStatus)'
              /\ AnswersFor(x, BeforeNews) => AnswersFor(x, BeforeNews)'
        BY <1>2, <1>4, OthersStayOK
      <3>3. /\ status' = status
            /\ news'[u] = IF u = UserOf[s] THEN "presence:offline" ELSE news[u]
        BY DEF IInv, TypeOK, TellOffline
      <3> QED
        BY <2>3, <3>1, <3>2, <3>3
           DEF UserOK, SocketsOf, BeforeStatus, BeforeNews
    <2> QED
      BY <2>2, <2>4
  <1> QED
    BY <1>1, <1>2, <1>3, <1>4, StatusStep DEF TellOffline

(* A step that is not one of the handlers of a socket, nor a crash: it may *)
(* remove entries and time to live, and move rows and rooms.               *)
LEMMA RowStep ==
  ASSUME IInv, TypeOK',
         UNCHANGED <<up, down, open, first, timer, status, news, listed, cut, faults>>,
         hash' \subseteq hash,
         faults = 0 => \A s \in owed' : OwedOK(s)'
  PROVE  IInv'
  <1>1. \A s \in Sockets : OpenOK(s)' /\ (faults = 0 => SocketOK(s)')
    BY DEF IInv, OpenOK, SocketOK, Added, Connecting, AnswersFor, Known
  <1>2. \A u \in Users : faults = 0 => UserOK(u)'
    BY DEF IInv, UserOK, AnswersFor, Known
  <1> QED
    BY <1>1, <1>2 DEF IInv

(* Additions, commits, joins, departures and expiry preserve the inductive *)
(* invariant.                                                              *)
LEMMA MembershipSteps ==
  ASSUME IInv, NEW u \in Users,
         InsertRow(u) \/ CommitRow(u) \/ JoinUserToRoom(u)
           \/ LeaveConversation(u) \/ ExpireHash(u)
  PROVE  IInv'
  <1>1. CASE InsertRow(u)
    <2>1. TypeOK'
      BY <1>1, ConstantsAssumption
         DEF IInv, TypeOK, beats, stored, InsertRow, SocketsOf, Disconnecting, Known
    <2>2. faults = 0 => \A s \in owed' : OwedOK(s)'
      BY <1>1 DEF IInv, stored, InsertRow, SocketsOf, OwedOK, Joined, Known
    <2> QED
      BY <1>1, <2>1, <2>2, RowStep DEF InsertRow, beats, stored
  <1>2. CASE CommitRow(u)
    <2>1. TypeOK'
      BY <1>2 DEF IInv, TypeOK, beats, stored, joins, CommitRow, Disconnecting, Known
    <2>2. faults = 0 => \A s \in owed' : OwedOK(s)'
      BY <1>2 DEF IInv, stored, joins, CommitRow, OwedOK, Joined, Known
    <2> QED
      BY <1>2, <2>1, <2>2, RowStep DEF CommitRow, beats, stored, joins
  <1>3. CASE JoinUserToRoom(u)
    <2>1. TypeOK'
      BY <1>3 DEF IInv, TypeOK, beats, stored, JoinUserToRoom, SocketsOf, Disconnecting, Known
    <2>2. faults = 0 => \A s \in owed' : OwedOK(s)'
      <3>1. owed \subseteq Sockets
        BY DEF IInv, TypeOK
      <3> QED
        BY <1>3, <3>1 DEF IInv, stored, JoinUserToRoom, SocketsOf, OwedOK, Joined, Known
    <2> QED
      BY <1>3, <2>1, <2>2, RowStep DEF JoinUserToRoom, beats, stored
  <1>4. CASE LeaveConversation(u)
    <2>1. TypeOK'
      BY <1>4 DEF IInv, TypeOK, beats, stored, joins, LeaveConversation, Disconnecting, Known
    <2>2. faults = 0 => \A s \in owed' : OwedOK(s)'
      BY <1>4 DEF IInv, stored, joins, LeaveConversation, OwedOK, Joined, Known
    <2> QED
      BY <1>4, <2>1, <2>2, RowStep DEF LeaveConversation, beats, stored, joins
  <1>5. CASE ExpireHash(u)
    <2>1. TypeOK'
      BY <1>5 DEF IInv, TypeOK, beats, rows, joins, ExpireHash, Disconnecting, Known
    <2>2. faults = 0 => \A s \in owed' : OwedOK(s)'
      BY <1>5 DEF IInv, beats, rows, joins, ExpireHash, OwedOK, Joined, Known
    <2> QED
      BY <1>5, <2>1, <2>2, RowStep DEF ExpireHash, beats, rows, joins
  <1> QED
    BY <1>1, <1>2, <1>3, <1>4, <1>5

(* A crash ends every handler; its claims are not made any more. *)
LEMMA CrashStep ==
  ASSUME IInv, Crash
  PROVE  IInv'
  <1>1. TypeOK'
    BY ConstantsAssumption
       DEF IInv, TypeOK, Ups, Downs, Crash, stored, Disconnecting, Known
  <1>2. \A s \in Sockets : OpenOK(s)'
    BY DEF Crash, OpenOK
  <1>3. faults' # 0
    BY ConstantsAssumption DEF IInv, TypeOK, Crash
  <1> QED
    BY <1>1, <1>2, <1>3 DEF IInv

(* Every step preserves the inductive invariant. *)
LEMMA NextIInv == IInv /\ [Next]_vars => IInv'
  <1> SUFFICES ASSUME IInv, [Next]_vars PROVE IInv'
    OBVIOUS
  <1>1. ASSUME NEW s \in Sockets, Connect(s) \/ Refresh(s) \/ Disconnect(s)
        PROVE  IInv'
    BY <1>1, ConnectStep, RefreshStep, DisconnectStep
  <1>2. ASSUME NEW s \in Sockets, UpStep(s) PROVE IInv'
    BY <1>2, AuthenticateStep, ListMyConversationsStep, JoinRoomsStep,
       CountBeforeStep, AddEntryStep, SetTTLStep, SetOnlineStep,
       ListOthersStep, FilterOnlineStep DEF UpStep
  <1>3. ASSUME NEW s \in Sockets, DownStep(s) PROVE IInv'
    BY <1>3, RemoveEntryStep, CountRemainingStep, SetOfflineStep,
       TellOfflineStep DEF DownStep
  <1>5. ASSUME NEW s \in Sockets, RoundTrip(s) PROVE IInv'
    BY <1>2, <1>3, <1>5, RefreshTTLStep DEF RoundTrip
  <1>4. CASE UNCHANGED vars
    <2>1. UNCHANGED <<up, down, open, first, timer, beat, hash, ttl, status, news,
                      members, unseen, due, listed, room, owed, moves, cut, faults>>
      BY <1>4 DEF vars, beats, stored, rows, joins
    <2>2. TypeOK'
      BY <2>1 DEF IInv, TypeOK, Disconnecting, Known
    <2>3. faults = 0 => \A s \in owed' : OwedOK(s)'
      BY <2>1 DEF IInv, OwedOK, Joined, Known
    <2> QED
      BY <2>1, <2>2, <2>3, RowStep
  <1> QED
    BY <1>1, <1>4, <1>5, MembershipSteps, CrashStep DEF Next

(* The inductive invariant holds in every reachable state. *)
THEOREM Invariance == Spec => []IInv
  BY InitIInv, NextIInv, PTL DEF Spec

------------------------------------------------------------------------------
(* Properties.                                                             *)

(* Connections, handlers and rows have the states their types name, and    *)
(* handleDisconnect works only for a socket whose user is known            *)
(* (chat.gateway.ts:122-126).                                              *)
THEOREM TypeCorrect == Spec => []TypeOK
  <1>1. IInv => TypeOK
    BY DEF IInv
  <1> QED
    BY <1>1, Invariance, PTL

(* Whatever any number of sockets of a user do in parallel, once he has    *)
(* gone he is offline in his document, in Redis and in what was last said  *)
(* about him (chat.gateway.ts:92-101, 122-138; presence.service.ts:16-30). *)
THEOREM OfflineOnceGone == Spec => []GoneIsOffline
  <1>1. ASSUME IInv PROVE GoneIsOffline
    <2> SUFFICES ASSUME NEW u \in Users, Gone(u)
                 PROVE  /\ status[u] = "offline"
                        /\ u \in NotifyOfflineUsers({u})
                        /\ news[u] # "presence:online"
      BY DEF GoneIsOffline
    <2>1. /\ \A s \in Sockets : SocketOK(s)
          /\ UserOK(u)
          /\ status[u] \in {"online", "offline"}
      BY <1>1 DEF IInv, TypeOK, Gone
    <2>2. \A s \in SocketsOf(u) :
            ~AnswersFor(s, BeforeStatus) /\ ~AnswersFor(s, BeforeNews)
      BY DEF Gone, AnswersFor, Disconnecting, BeforeStatus, BeforeNews
    <2>3. \A s \in SocketsOf(u) : s \notin hash
      BY <2>1 DEF Gone, AnswersFor, SocketOK, Disconnecting, SocketsOf
    <2>4. ~IsOnline(u)
      BY <2>3 DEF IsOnline, Entries, SocketsOf
    <2> QED
      BY <2>1, <2>2, <2>4
         DEF UserOK, NotifyOfflineUsers, BeforeStatus, BeforeNews
  <1> QED
    BY <1>1, Invariance, PTL

(* Whoever was connected when he was added to the conversation, or         *)
(* connected afterwards, is in its room (chat-room-registry.service.ts:    *)
(* 5-13, conversations.service.ts:352-357).                                *)
THEOREM RoomsAreComplete == Spec => []RoomFollowsRow
  <1>1. IInv => RoomFollowsRow
    BY DEF IInv, RoomFollowsRow, OwedOK
  <1> QED
    BY <1>1, Invariance, PTL
(* A member is never missed by both the room and push but for a stale      *)
(* entry or in the one gap (notifications.service.ts:24-31,                *)
(* chat.gateway.ts:79-90).                                                 *)
THEOREM MembersAreReached == Spec => []ReachedOrPushed
  <1>1. ASSUME IInv PROVE ReachedOrPushed
    <2> SUFFICES ASSUME faults = 0, NEW u \in members \ due,
                        NEW s \in Entries(u),
                        s \notin cut, down[s] # "hdel", s \notin open \ owed
                 PROVE  room \cap SocketsOf(u) # {}
      BY DEF ReachedOrPushed
    <2>1. s \in SocketsOf(u) /\ s \in Sockets /\ UserOf[s] = u /\ s \in hash
      BY DEF Entries, SocketsOf
    <2>2. SocketOK(s)
      BY <1>1, <2>1 DEF IInv
    <2>3. Joined(s)
      BY <2>1, <2>2 DEF SocketOK, Added, AnswersFor, Joined, Known
    <2>4. s \in room
      BY <1>1, <2>1, <2>3 DEF IInv, OwedOK, Joined
    <2> QED
      BY <2>1, <2>4
  <1> QED
    BY <1>1, Invariance, PTL
==============================================================================
