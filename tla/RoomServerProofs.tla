-------------------------- MODULE RoomServerProofs --------------------------
(* Theorems about RoomServer for every set of users, rooms, names and slots   *)
(* and every lifetime, checked by TLAPS.                                      *)
EXTENDS RoomServer, TLAPS

USE SentinelsAssumption, TimesAssumption

-----------------------------------------------------------------------------
(* Type correctness *)

\* The token buildToken makes for a name and a room is a token.
LEMMA NewTokenType ==
  ASSUME TypeOK, NEW n \in Names, NEW r \in Rooms
  PROVE  NewToken(n, r) \in Token
BY DEF TypeOK, NewToken, Token

\* removeUser keeps the types of what it writes, whoever leaves.
LEMMA RemoveUsersType ==
  ASSUME TypeOK, NEW D, removeUsers(D)
  PROVE  /\ users' \in [Rooms -> SUBSET RoomUser]
         /\ before' \in [Rooms -> SUBSET (Users \X Users)]
         /\ lastVisitorDate' \in [Rooms -> Nat]
BY DEF TypeOK, removeUsers, Leaving

\* _addUser keeps the types of what it writes.
LEMMA AddUserType ==
  ASSUME TypeOK, NEW u \in Users, NEW t \in Token, addUser(u, t)
  PROVE  /\ users' \in [Rooms -> SUBSET RoomUser]
         /\ before' \in [Rooms -> SUBSET (Users \X Users)]
         /\ tokenMemory' \in [Rooms -> SUBSET Token]
         /\ lastSeen' \in [Rooms -> Nat]
<1>1. t.room \in Rooms /\ t.name \in Names
  BY DEF Token
<1>2. [user |-> u, name |-> t.name] \in RoomUser
  BY <1>1 DEF RoomUser
<1>3. {<<m.user, u>> : m \in users[t.room]} \subseteq Users \X Users
  BY <1>1 DEF TypeOK, RoomUser
<1>4. clock \in Nat
  BY DEF TypeOK
<1> QED
  BY <1>1, <1>2, <1>3, <1>4 DEF TypeOK, addUser

LEMMA InitType == Init => TypeOK
BY DEF Init, TypeOK, SocketStates

\* A websocket callback keeps the types.
LEMMA SocketStepType ==
  ASSUME TypeOK, NEW u \in Users, SocketStep(u)
  PROVE  TypeOK'
<1> USE DEF socketUnchanged, doorVars, memberVars, historyVars
<1>1. CASE Connect(u)
  BY <1>1 DEF Connect, TypeOK, SocketStates
<1>2. CASE Open(u)
  BY <1>2 DEF Open, TypeOK, SocketStates
<1>3. CASE Drop(u)
  BY <1>3 DEF Drop, TypeOK, SocketStates
<1>4. CASE OnPong(u)
  BY <1>4 DEF OnPong, TypeOK
<1>5. CASE WebsocketReady(u)
  BY <1>5 DEF WebsocketReady, TypeOK
<1>6. CASE WebsocketNotReady(u)
  BY <1>6, RemoveUsersType DEF WebsocketNotReady, cleanupUser, TypeOK, SocketStates
<1>7. CASE OnError(u)
  BY <1>7, RemoveUsersType DEF OnError, cleanupUser, TypeOK, SocketStates
<1>8. CASE OnClose(u)
  BY <1>8, RemoveUsersType DEF OnClose, cleanupUser, TypeOK, SocketStates
<1> QED
  BY <1>1, <1>2, <1>3, <1>4, <1>5, <1>6, <1>7, <1>8 DEF SocketStep

\* A request keeps the types.
LEMMA RequestStepType ==
  ASSUME TypeOK, NEW u \in Users, RequestStep(u)
  PROVE  TypeOK'
<1> USE DEF socketVars, doorVars, memberVars, historyVars
<1>1. CASE LeaveRoom(u)
  BY <1>1, RemoveUsersType DEF LeaveRoom, TypeOK
<1>2. ASSUME NEW r \in Rooms, GenerateInvitation(u, r)
      PROVE  TypeOK'
  BY <1>2 DEF GenerateInvitation, TypeOK
<1>3. ASSUME NEW r \in Rooms, NEW b \in BOOLEAN, LockRoom(u, r, b)
      PROVE  TypeOK'
  BY <1>3 DEF LockRoom, TypeOK
<1>4. ASSUME NEW n \in Names, NEW s \in Slots, CreateRoom(u, n, s)
      PROVE  TypeOK'
  <2>1. PICK r \in Rooms : Start(s, "create", u, NewToken(n, r))
    BY <1>4 DEF CreateRoom
  <2>2. [kind |-> "create", user |-> u, token |-> NewToken(n, r)] \in Job
    BY NewTokenType DEF Job, JobKinds
  <2> QED
    BY <1>4, <2>1, <2>2 DEF CreateRoom, Start, TypeOK
<1>5. ASSUME NEW r \in Rooms, NEW n \in Names, NEW s \in Slots,
             JoinByInvitation(u, r, n, s)
      PROVE  TypeOK'
  <2>1. NewToken(n, r) \in Token /\ NewToken(n, r).room = r
    BY NewTokenType DEF NewToken
  <2>2. [kind |-> "add", user |-> u, token |-> NewToken(n, r)] \in Job
    BY <2>1 DEF Job, JobKinds
  <2> QED
    BY <1>5, <2>1, <2>2 DEF JoinByInvitation, SendSuccess, Start, TypeOK
<1>6. ASSUME NEW t \in handed, NEW s \in Slots,
             JoinByToken(u, t, s) \/ RenewToken(u, t, s)
      PROVE  TypeOK'
  <2>1. t \in Token
    BY DEF TypeOK
  <2>2. \A k \in JobKinds : [kind |-> k, user |-> u, token |-> t] \in Job
    BY <2>1 DEF Job
  <2>3. PICK k \in JobKinds : PresentToken(u, t, k, s)
    BY <1>6 DEF JoinByToken, RenewToken, JobKinds
  <2> QED
    BY <2>2, <2>3 DEF PresentToken, Start, TypeOK
<1> QED
  BY <1>1, <1>2, <1>3, <1>4, <1>5, <1>6 DEF RequestStep

\* A continuation keeps the types.
LEMMA SettleType ==
  ASSUME TypeOK, NEW s \in Slots, Settle(s)
  PROVE  TypeOK'
<1> USE DEF socketVars, doorVars, memberVars, historyVars
<1> DEFINE t == job[s].token
           u == job[s].user
           fresh == NewToken(t.name, t.room)
<1>1. /\ job[s] \in Job /\ job[s].kind \in JobKinds
      /\ t \in Token /\ u \in Users /\ t.room \in Rooms /\ t.name \in Names
  BY DEF Settle, CreateDone, JoinDone, TokenAccepted, TokenRefused,
         RenewValidated, RenewDone, BuildFailed, Runs, TypeOK, Job, Token
<1>2. fresh \in Token /\ fresh.room = t.room
  BY <1>1, NewTokenType DEF NewToken
<1>3. [job EXCEPT ![s] = Idle] \in [Slots -> Job \cup {Idle}]
  BY DEF TypeOK
<1>4. \A k \in JobKinds : [job EXCEPT ![s].kind = k, ![s].token = fresh]
                            \in [Slots -> Job \cup {Idle}]
  BY <1>1, <1>2 DEF TypeOK, Job
<1>5. CASE CreateDone(s)
  BY <1>1, <1>3, <1>5, AddUserType DEF CreateDone, Reply, Finish, TypeOK
<1>6. CASE JoinDone(s)
  BY <1>1, <1>3, <1>6, AddUserType DEF JoinDone, Reply, Finish, TypeOK
<1>7. CASE TokenAccepted(s)
  BY <1>1, <1>2, <1>4, <1>7 DEF TokenAccepted, SendSuccess, JobKinds, TypeOK
<1>8. CASE TokenRefused(s)
  BY <1>3, <1>8 DEF TokenRefused, Finish, TypeOK
<1>9. CASE RenewValidated(s)
  BY <1>4, <1>9 DEF RenewValidated, JobKinds, TypeOK
<1>10. CASE RenewDone(s)
  BY <1>1, <1>3, <1>10 DEF RenewDone, Reply, Finish, TypeOK
<1>11. CASE BuildFailed(s)
  BY <1>3, <1>11 DEF BuildFailed, Finish, TypeOK
<1> QED
  BY <1>5, <1>6, <1>7, <1>8, <1>9, <1>10, <1>11 DEF Settle

\* The collector's pass keeps the types.
LEMMA CollectGarbageType ==
  ASSUME TypeOK, CollectGarbage
  PROVE  TypeOK'
<1> USE DEF socketVars, doorVars, memberVars, historyVars
<1>1. /\ users' \in [Rooms -> SUBSET RoomUser]
      /\ before' \in [Rooms -> SUBSET (Users \X Users)]
      /\ lastVisitorDate' \in [Rooms -> Nat]
      /\ registered' \subseteq Users
  BY RemoveUsersType DEF CollectGarbage, CleanDisconnectedUsers, TypeOK
<1>2. live' \subseteq Rooms
  BY DEF CollectGarbage, CleanEmptyRooms, TypeOK
<1>3. tokenMemory' \in [Rooms -> SUBSET Token]
  BY DEF CollectGarbage, CleanExpiredRoomMemory, ForgetBefore, TypeOK
<1>4. invitations' \in [Rooms -> SUBSET Nat]
  BY DEF CollectGarbage, CleanExpiredInvitations, TypeOK
<1> QED
  BY <1>1, <1>2, <1>3, <1>4 DEF CollectGarbage, TypeOK

LEMMA NextType == TypeOK /\ [Next]_vars => TypeOK'
<1> SUFFICES ASSUME TypeOK, [Next]_vars
             PROVE  TypeOK'
  OBVIOUS
<1>1. CASE \E u \in Users : SocketStep(u) \/ RequestStep(u)
  BY <1>1, SocketStepType, RequestStepType
<1>2. CASE \E s \in Slots : Settle(s)
  BY <1>2, SettleType
<1>3. CASE CollectGarbage
  BY <1>3, CollectGarbageType
<1>4. CASE Tick
  BY <1>4 DEF Tick, TypeOK, socketVars, memberVars, doorVars, historyVars
<1>5. CASE UNCHANGED vars
  BY <1>5 DEF TypeOK, vars, socketVars, memberVars, doorVars, historyVars
<1> QED
  BY <1>1, <1>2, <1>3, <1>4, <1>5 DEF Next

\* The server's state keeps its types, whatever the sets and lifetimes.
THEOREM TypeCorrect == Spec => []TypeOK
<1>1. Init => TypeOK
  BY InitType
<1>2. TypeOK /\ [Next]_vars => TypeOK'
  BY NextType
<1> QED
  BY <1>1, <1>2, PTL DEF Spec
=============================================================================
