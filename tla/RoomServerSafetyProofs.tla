----------------------- MODULE RoomServerSafetyProofs -----------------------
(* The safety properties of RoomServer, each from an inductive invariant, and *)
(* that the server implements RoomAccess.                                     *)
EXTENDS RoomServerProofs, RoomServerAccess, RoomServerNames

-----------------------------------------------------------------------------
(* On invitation only *)

\* Names a room knows: its creator's and those accepted by invitation.
Known(r) == guests[r] \cup {ownerUsername[r]}

\* Tokens and pending continuations only carry names their room knows, and a
\* room being built is nobody else's.  OnInvitationOnly alone is not inductive:
\* a participant enters by a continuation, the continuation by a token.
TokensKnown == \A t \in handed \cup built : t.name \in Known(t.room)
Building(s) == job[s] # Idle /\ job[s].kind = "create"
JobsKnown ==
  \A s \in Slots : job[s] # Idle /\ job[s].kind # "create" =>
    job[s].token.name \in Known(job[s].token.room)
BuildsAlone ==
  /\ \A s \in Slots : Building(s) => ownerUsername[job[s].token.room] = NoName
  /\ \A s, z \in Slots : Building(s) /\ Building(z) /\ s # z =>
       job[z].token.room # job[s].token.room
InvitationInv ==
  TypeOK /\ OnInvitationOnly /\ TokensKnown /\ JobsKnown /\ BuildsAlone

LEMMA InitInvitation == Init => InvitationInv
BY InitType DEF Init, InvitationInv, OnInvitationOnly, TokensKnown, JobsKnown,
   BuildsAlone, Building

\* What a busy slot holds.
LEMMA JobType ==
  ASSUME TypeOK, NEW s \in Slots, job[s] # Idle
  PROVE  /\ job[s].kind \in JobKinds /\ job[s].user \in Users
         /\ job[s].token \in Token
         /\ job[s].token.room \in Rooms /\ job[s].token.name \in Names
BY DEF TypeOK, Job, Token

\* A step that starts no build, adds no participant and builds no token keeps
\* the invariant when guests only grow and every new continuation is known.
LEMMA QuietStep ==
  ASSUME InvitationInv, TypeOK',
         \A r \in Rooms : users'[r] \subseteq users[r],
         \A r \in Rooms : guests[r] \subseteq guests'[r],
         UNCHANGED <<ownerUsername, handed, built>>,
         \A s \in Slots : job'[s] # Idle =>
           \/ job'[s] = job[s]
           \/ /\ job'[s].kind # "create"
              /\ job'[s].token.room \in Rooms
              /\ job'[s].token.name \in
                   guests'[job'[s].token.room] \cup {ownerUsername[job'[s].token.room]}
  PROVE  InvitationInv'
<1>1. OnInvitationOnly'
  BY DEF InvitationInv, OnInvitationOnly
<1>2. TokensKnown'
  <2>1. \A t \in handed \cup built : t.room \in Rooms
    BY DEF InvitationInv, TypeOK, Token
  <2> QED
    BY <2>1 DEF InvitationInv, TokensKnown, Known
<1>3. JobsKnown'
  <2> SUFFICES ASSUME NEW s \in Slots, job'[s] # Idle, job'[s].kind # "create"
               PROVE  job'[s].token.name \in
                 guests'[job'[s].token.room] \cup {ownerUsername'[job'[s].token.room]}
    BY DEF JobsKnown, Known
  <2>1. CASE job'[s] = job[s]
    <3>1. job[s].token.room \in Rooms
      BY <2>1, JobType DEF InvitationInv
    <3> QED
      BY <2>1, <3>1 DEF InvitationInv, JobsKnown, Known
  <2> QED
    BY <2>1
<1>4. BuildsAlone'
  BY DEF InvitationInv, BuildsAlone, Building
<1> QED
  BY <1>1, <1>2, <1>3, <1>4 DEF InvitationInv

\* Leaving only takes participants out.
LEMMA RemoveUsersShrinks ==
  ASSUME TypeOK, NEW D, removeUsers(D), NEW r \in Rooms
  PROVE  users'[r] \subseteq users[r]
BY DEF TypeOK, removeUsers

\* What addUser leaves in a room: former participants and the new one.
LEMMA AddUserMembers ==
  ASSUME TypeOK, NEW u \in Users, NEW t \in Token, addUser(u, t),
         NEW r \in Rooms, NEW m \in users'[r]
  PROVE  \/ m \in users[r]
         \/ r = t.room /\ m.name = t.name
<1>1. t.room \in Rooms
  BY DEF Token
<1>2. users'[r] = IF r = t.room
                  THEN {x \in users[r] : x.user # u} \cup {[user |-> u, name |-> t.name]}
                  ELSE users[r]
  BY <1>1 DEF addUser, TypeOK
<1> QED
  BY <1>2

LEMMA SocketInvitation ==
  ASSUME InvitationInv, NEW u \in Users, SocketStep(u)
  PROVE  InvitationInv'
<1> USE DEF socketUnchanged, doorVars, memberVars, historyVars
<1>1. TypeOK /\ TypeOK'
  BY SocketStepType DEF InvitationInv
<1>2. UNCHANGED <<ownerUsername, handed, built, guests, job>>
  BY DEF SocketStep, Connect, Open, Drop, OnPong, WebsocketReady,
         WebsocketNotReady, OnError, OnClose
<1>3. UNCHANGED users \/ removeUsers({u})
  BY DEF SocketStep, Connect, Open, Drop, OnPong, WebsocketReady,
         WebsocketNotReady, OnError, OnClose, cleanupUser
<1>4. \A r \in Rooms : users'[r] \subseteq users[r]
  BY <1>1, <1>3, RemoveUsersShrinks
<1> QED
  BY <1>1, <1>2, <1>4, QuietStep

LEMMA RequestInvitation ==
  ASSUME InvitationInv, NEW u \in Users, RequestStep(u)
  PROVE  InvitationInv'
<1> USE DEF socketVars, doorVars, memberVars, historyVars
<1>1. TypeOK /\ TypeOK'
  BY RequestStepType DEF InvitationInv
<1>2. CASE LeaveRoom(u)
  <2>1. \A r \in Rooms : users'[r] \subseteq users[r]
    BY <1>1, <1>2, RemoveUsersShrinks DEF LeaveRoom
  <2> QED
    BY <1>1, <1>2, <2>1, QuietStep DEF LeaveRoom
<1>3. ASSUME NEW r \in Rooms,
             GenerateInvitation(u, r) \/ \E b \in BOOLEAN : LockRoom(u, r, b)
      PROVE  InvitationInv'
  BY <1>1, <1>3, QuietStep DEF GenerateInvitation, LockRoom
<1>4. ASSUME NEW n \in Names, NEW s \in Slots, CreateRoom(u, n, s)
      PROVE  InvitationInv'
  <2>1. PICK r \in Rooms : Fresh(r) /\ Start(s, "create", u, NewToken(n, r))
    BY <1>4 DEF CreateRoom
  <2>2. /\ job[s] = Idle
        /\ job'[s] = [kind |-> "create", user |-> u, token |-> NewToken(n, r)]
        /\ \A z \in Slots : z # s => job'[z] = job[z]
    BY <1>1, <2>1 DEF Start, TypeOK
  <2>3. NewToken(n, r).room = r
    BY DEF NewToken
  <2>4. UNCHANGED <<users, guests, ownerUsername, handed, built>>
    BY <1>4 DEF CreateRoom
  <2>5. OnInvitationOnly' /\ TokensKnown'
    BY <2>4 DEF InvitationInv, OnInvitationOnly, TokensKnown, Known
  <2>6. JobsKnown'
    BY <2>2, <2>4 DEF InvitationInv, JobsKnown, Known
  <2>7. BuildsAlone'
    BY <2>1, <2>2, <2>3, <2>4 DEF InvitationInv, BuildsAlone, Building, Fresh
  <2> QED
    BY <1>1, <2>5, <2>6, <2>7 DEF InvitationInv
<1>5. ASSUME NEW r \in Rooms, NEW n \in Names, NEW s \in Slots,
             JoinByInvitation(u, r, n, s)
      PROVE  InvitationInv'
  <2>1. NewToken(n, r).room = r /\ NewToken(n, r).name = n
    BY DEF NewToken
  <2>2. /\ job'[s] = [kind |-> "add", user |-> u, token |-> NewToken(n, r)]
        /\ \A z \in Slots : z # s => job'[z] = job[z]
    BY <1>1, <1>5 DEF JoinByInvitation, Start, TypeOK
  <2>3. n \in guests'[r] /\ \A q \in Rooms : guests[q] \subseteq guests'[q]
    BY <1>1, <1>5 DEF JoinByInvitation, TypeOK
  <2>4. UNCHANGED <<users, ownerUsername, handed, built>>
    BY <1>5 DEF JoinByInvitation, SendSuccess
  <2> QED
    BY <1>1, <2>1, <2>2, <2>3, <2>4, QuietStep
<1>6. ASSUME NEW t \in handed, NEW s \in Slots,
             JoinByToken(u, t, s) \/ RenewToken(u, t, s)
      PROVE  InvitationInv'
  <2>1. PICK k \in {"verify", "renew"} : PresentToken(u, t, k, s)
    BY <1>6 DEF JoinByToken, RenewToken
  <2>2. /\ job'[s] = [kind |-> k, user |-> u, token |-> t]
        /\ \A z \in Slots : z # s => job'[z] = job[z]
    BY <1>1, <2>1 DEF PresentToken, Start, TypeOK
  <2>3. t.room \in Rooms /\ t.name \in Known(t.room)
    BY <1>1 DEF InvitationInv, TokensKnown, TypeOK, Token
  <2>4. UNCHANGED <<users, guests, ownerUsername, handed, built>>
    BY <2>1 DEF PresentToken
  <2> QED
    BY <1>1, <2>2, <2>3, <2>4, QuietStep DEF Known
<1> QED
  BY <1>2, <1>3, <1>4, <1>5, <1>6 DEF RequestStep

LEMMA SettleInvitation ==
  ASSUME InvitationInv, NEW s \in Slots, Settle(s)
  PROVE  InvitationInv'
<1> USE DEF socketVars, doorVars, memberVars, historyVars
<1>1. TypeOK /\ TypeOK'
  BY SettleType DEF InvitationInv
<1>2. job[s] # Idle
  BY DEF Settle, CreateDone, JoinDone, TokenAccepted, TokenRefused,
         RenewValidated, RenewDone, BuildFailed, Runs
<1>3. PICK t \in Token, u \in Users, r \in Rooms, fresh \in Token :
        /\ t = job[s].token /\ u = job[s].user /\ r = t.room /\ t.name \in Names
        /\ fresh = NewToken(t.name, r) /\ job[s] \in Job
  BY <1>1, <1>2, JobType, NewTokenType DEF TypeOK
<1>4. ASSUME Finish(s)
      PROVE  \A z \in Slots : job'[z] = IF z = s THEN Idle ELSE job[z]
  BY <1>1, <1>4 DEF Finish, TypeOK
<1>5. CASE CreateDone(s)
  <2>1. /\ job[s].kind = "create" /\ addUser(u, t)
        /\ ownerUsername' = [ownerUsername EXCEPT ![r] = t.name]
        /\ built' = built \cup {t} /\ handed' \subseteq handed \cup {t}
        /\ UNCHANGED guests
    BY <1>3, <1>5 DEF CreateDone, Runs, Reply
  <2>2. \A z \in Slots : job'[z] = IF z = s THEN Idle ELSE job[z]
    BY <1>4, <1>5 DEF CreateDone
  <2>3. ownerUsername[r] = NoName
    BY <1>2, <1>3, <2>1 DEF InvitationInv, BuildsAlone, Building
  <2>4. \A q \in Rooms, n \in Names : n \in Known(q) => n \in guests'[q] \cup {ownerUsername'[q]}
    BY <1>1, <1>3, <2>1, <2>3, SentinelsAssumption DEF Known, TypeOK
  <2>5. t.name \in guests'[r] \cup {ownerUsername'[r]}
    BY <1>1, <1>3, <2>1 DEF Known, TypeOK
  <2>6. OnInvitationOnly'
    <3> SUFFICES ASSUME NEW q \in Rooms, NEW m \in users'[q]
                 PROVE  m.name \in guests'[q] \cup {ownerUsername'[q]}
      BY DEF OnInvitationOnly, Known
    <3>1. CASE m \in users[q]
      <4>1. m.name \in Known(q) /\ m.name \in Names
        BY <1>1, <3>1 DEF InvitationInv, OnInvitationOnly, Known, TypeOK, RoomUser
      <4> QED
        BY <2>4, <4>1
    <3> QED
      BY <1>1, <1>3, <2>1, <2>5, <3>1, AddUserMembers
  <2>7. TokensKnown'
    <3> SUFFICES ASSUME NEW x \in handed' \cup built'
                 PROVE  x.name \in guests'[x.room] \cup {ownerUsername'[x.room]}
      BY DEF TokensKnown, Known
    <3>1. CASE x \in handed \cup built
      <4>1. x.room \in Rooms /\ x.name \in Names /\ x.name \in Known(x.room)
        BY <1>1, <3>1 DEF InvitationInv, TokensKnown, TypeOK, Token
      <4> QED
        BY <2>4, <4>1
    <3>2. CASE x = t
      BY <1>3, <2>5, <3>2
    <3> QED
      BY <2>1, <3>1, <3>2
  <2>8. JobsKnown'
    <3> SUFFICES ASSUME NEW z \in Slots, job'[z] # Idle, job'[z].kind # "create"
                 PROVE  job'[z].token.name \in
                   guests'[job'[z].token.room] \cup {ownerUsername'[job'[z].token.room]}
      BY DEF JobsKnown, Known
    <3>1. job'[z] = job[z]
      BY <2>2
    <3>2. /\ job[z].token.room \in Rooms /\ job[z].token.name \in Names
          /\ job[z].token.name \in Known(job[z].token.room)
      BY <1>1, <3>1, JobType DEF InvitationInv, JobsKnown
    <3> QED
      BY <2>4, <3>1, <3>2
  <2>9. BuildsAlone'
    <3>1. \A z \in Slots : job'[z] # Idle /\ job'[z].kind = "create" => z # s /\ Building(z) /\ job'[z] = job[z]
      BY <2>2 DEF Building
    <3>2. \A z \in Slots : job'[z] # Idle /\ job'[z].kind = "create" => job[z].token.room # r
      BY <1>2, <1>3, <2>1, <3>1 DEF InvitationInv, BuildsAlone, Building
    <3>3. \A z \in Slots : job'[z] # Idle /\ job'[z].kind = "create" =>
            ownerUsername'[job[z].token.room] = ownerUsername[job[z].token.room]
      <4>1. \A z \in Slots : job'[z] # Idle /\ job'[z].kind = "create" => job[z].token.room \in Rooms
        BY <1>1, <3>1, JobType DEF Building
      <4> QED
        BY <1>1, <2>1, <3>2, <4>1 DEF TypeOK
    <3> QED
      BY <3>1, <3>3 DEF InvitationInv, BuildsAlone, Building
  <2> QED
    BY <1>1, <2>6, <2>7, <2>8, <2>9 DEF InvitationInv
<1>6. CASE JoinDone(s)
  <2>1. /\ job[s].kind = "add" /\ addUser(u, t)
        /\ built' = built \cup {t} /\ handed' \subseteq handed \cup {t}
        /\ UNCHANGED <<guests, ownerUsername>>
    BY <1>3, <1>6 DEF JoinDone, Runs, Reply
  <2>2. \A z \in Slots : job'[z] = IF z = s THEN Idle ELSE job[z]
    BY <1>4, <1>6 DEF JoinDone
  <2>3. t.name \in Known(r)
    BY <1>2, <1>3, <2>1 DEF InvitationInv, JobsKnown
  <2>4. OnInvitationOnly'
    BY <1>1, <1>3, <2>1, <2>3, AddUserMembers
       DEF InvitationInv, OnInvitationOnly, Known
  <2>5. TokensKnown'
    BY <1>3, <2>1, <2>3 DEF InvitationInv, TokensKnown, Known
  <2>6. JobsKnown' /\ BuildsAlone'
    BY <2>1, <2>2 DEF InvitationInv, JobsKnown, BuildsAlone, Building, Known
  <2> QED
    BY <1>1, <2>4, <2>5, <2>6 DEF InvitationInv
<1>7. CASE TokenAccepted(s) \/ RenewValidated(s)
  <2>1. fresh.room = r /\ fresh.name = t.name
    BY <1>3 DEF NewToken
  <2>2. PICK k \in {"add", "reissue"} :
          job' = [job EXCEPT ![s].kind = k, ![s].token = fresh]
    BY <1>3, <1>7 DEF TokenAccepted, RenewValidated
  <2>3. /\ job[s].kind # "create"
        /\ UNCHANGED <<users, guests, ownerUsername, handed, built>>
    BY <1>7 DEF TokenAccepted, RenewValidated, SendSuccess, Runs
  <2>4. t.name \in Known(r)
    BY <1>2, <1>3, <2>3 DEF InvitationInv, JobsKnown
  <2>5. /\ job'[s].kind = k /\ job'[s].token = fresh
        /\ \A z \in Slots : z # s => job'[z] = job[z]
    BY <1>1, <1>3, <2>2 DEF TypeOK, Job
  <2> QED
    BY <1>1, <1>3, <2>1, <2>3, <2>4, <2>5, QuietStep DEF Known
<1>8. CASE TokenRefused(s) \/ BuildFailed(s)
  <2>1. \A z \in Slots : job'[z] = IF z = s THEN Idle ELSE job[z]
    BY <1>4, <1>8 DEF TokenRefused, BuildFailed
  <2>2. UNCHANGED <<users, guests, ownerUsername, handed, built>>
    BY <1>8 DEF TokenRefused, BuildFailed
  <2> QED
    BY <1>1, <2>1, <2>2, QuietStep
<1>9. CASE RenewDone(s)
  <2>1. /\ job[s].kind = "reissue"
        /\ built' = built \cup {t} /\ handed' \subseteq handed \cup {t}
        /\ UNCHANGED <<users, guests, ownerUsername>>
    BY <1>3, <1>9 DEF RenewDone, Runs, Reply
  <2>2. \A z \in Slots : job'[z] = IF z = s THEN Idle ELSE job[z]
    BY <1>4, <1>9 DEF RenewDone
  <2>3. t.name \in Known(r)
    BY <1>2, <1>3, <2>1 DEF InvitationInv, JobsKnown
  <2>4. OnInvitationOnly' /\ TokensKnown'
    BY <1>3, <2>1, <2>3 DEF InvitationInv, OnInvitationOnly, TokensKnown, Known
  <2>5. JobsKnown' /\ BuildsAlone'
    BY <2>1, <2>2 DEF InvitationInv, JobsKnown, BuildsAlone, Building, Known
  <2> QED
    BY <1>1, <2>4, <2>5 DEF InvitationInv
<1> QED
  BY <1>5, <1>6, <1>7, <1>8, <1>9 DEF Settle

LEMMA NextInvitation == InvitationInv /\ [Next]_vars => InvitationInv'
<1> SUFFICES ASSUME InvitationInv, [Next]_vars
             PROVE  InvitationInv'
  OBVIOUS
<1> USE DEF socketVars, doorVars, memberVars, historyVars
<1>1. TypeOK /\ TypeOK'
  BY NextType DEF InvitationInv
<1>2. CASE \E u \in Users : SocketStep(u) \/ RequestStep(u)
  BY <1>2, SocketInvitation, RequestInvitation
<1>3. CASE \E s \in Slots : Settle(s)
  BY <1>3, SettleInvitation
<1>4. CASE CollectGarbage
  <2>1. UNCHANGED <<ownerUsername, handed, built, guests, job>>
    BY <1>4 DEF CollectGarbage
  <2>2. \A r \in Rooms : users'[r] \subseteq users[r]
    BY <1>1, <1>4, RemoveUsersShrinks DEF CollectGarbage, CleanDisconnectedUsers
  <2> QED
    BY <1>1, <2>1, <2>2, QuietStep
<1>5. CASE Tick \/ UNCHANGED vars
  <2>1. UNCHANGED <<users, ownerUsername, handed, built, guests, job>>
    BY <1>5 DEF Tick, vars
  <2> QED
    BY <1>1, <2>1, QuietStep
<1> QED
  BY <1>2, <1>3, <1>4, <1>5 DEF Next

\* Nobody is ever in a room under a name the room has not accepted by
\* invitation, unless it is its creator's: however long the chain of tokens,
\* whatever the interleaving of continuations, closes and collections.
THEOREM InvitationOnly == Spec => []OnInvitationOnly
<1>1. InvitationInv => OnInvitationOnly
  BY DEF InvitationInv
<1> QED
  BY <1>1, InitInvitation, NextInvitation, PTL DEF Spec

-----------------------------------------------------------------------------
(* What a step may do to the rooms *)

\* Participants come and go by addUser and removeUsers only, and no other step
\* than the collector's makes a room forget a token.
LEMMA SeatChanges ==
  ASSUME TypeOK, [Next]_vars
  PROVE  \/ UNCHANGED <<users, tokenMemory>>
         \/ /\ \E D \in SUBSET Users : removeUsers(D)
            /\ UNCHANGED tokenMemory \/ CollectGarbage
         \/ \E s \in Slots, u \in Users, t \in Token :
              /\ CreateDone(s) \/ JoinDone(s)
              /\ job[s] # Idle /\ t = job[s].token
              /\ addUser(u, t) /\ built' = built \cup {t}
<1> USE DEF socketUnchanged, doorVars, memberVars, historyVars
<1>1. CASE \E u \in Users : SocketStep(u)
  BY <1>1 DEF SocketStep, Connect, Open, Drop, OnPong, WebsocketReady,
         WebsocketNotReady, OnError, OnClose, cleanupUser
<1>2. CASE \E u \in Users : RequestStep(u)
  BY <1>2 DEF RequestStep, LeaveRoom, GenerateInvitation, LockRoom, CreateRoom,
         JoinByInvitation, SendSuccess, JoinByToken, RenewToken, PresentToken
<1>3. ASSUME NEW s \in Slots, CreateDone(s) \/ JoinDone(s)
      PROVE  \E u \in Users, t \in Token :
               /\ job[s] # Idle /\ t = job[s].token
               /\ addUser(u, t) /\ built' = built \cup {t}
  <2>1. job[s] # Idle /\ job[s].user \in Users /\ job[s].token \in Token
    BY <1>3, JobType DEF CreateDone, JoinDone, Runs
  <2>2. /\ addUser(job[s].user, job[s].token)
        /\ built' = built \cup {job[s].token}
    BY <1>3 DEF CreateDone, JoinDone, Reply
  <2> QED
    BY <2>1, <2>2
<1>4. ASSUME NEW s \in Slots,
             \/ TokenAccepted(s) \/ TokenRefused(s) \/ RenewValidated(s)
             \/ RenewDone(s) \/ BuildFailed(s)
      PROVE  UNCHANGED <<users, tokenMemory>>
  BY <1>4 DEF TokenAccepted, SendSuccess, TokenRefused, RenewValidated,
         RenewDone, BuildFailed
<1>5. CASE CollectGarbage
  <2>1. Disconnected \in SUBSET Users
    BY DEF Disconnected, TypeOK
  <2> QED
    BY <1>5, <2>1 DEF CollectGarbage, CleanDisconnectedUsers
<1>6. CASE Tick \/ UNCHANGED vars
  BY <1>6 DEF Tick, vars
<1> QED
  BY <1>1, <1>2, <1>3, <1>4, <1>5, <1>6 DEF Next, Settle

\* Who is in the room and what it remembers after addUser.
LEMMA AddUserSeats ==
  ASSUME TypeOK, NEW u \in Users, NEW t \in Token, addUser(u, t),
         NEW r \in Rooms
  PROVE  /\ r # t.room => /\ users'[r] = users[r]
                          /\ tokenMemory'[r] = tokenMemory[r]
         /\ r = t.room =>
              /\ users'[r] = {m \in users[r] : m.user # u}
                                \cup {[user |-> u, name |-> t.name]}
              /\ tokenMemory'[r] = {x \in tokenMemory[r] : x.name # t.name} \cup {t}
BY DEF addUser, TypeOK, Token

\* Clock and history only grow.
LEMMA HistoryGrows ==
  ASSUME TypeOK, [Next]_vars
  PROVE  built \subseteq built' /\ clock' >= clock
<1> USE DEF socketVars, socketUnchanged, doorVars, memberVars, historyVars
<1>1. CASE Tick
  BY <1>1 DEF Tick, TypeOK
<1>2. CASE ~Tick
  <2>1. CASE \E u \in Users : SocketStep(u) \/ RequestStep(u)
    BY <2>1 DEF SocketStep, Connect, Open, Drop, OnPong, WebsocketReady,
         WebsocketNotReady, OnError, OnClose, RequestStep, LeaveRoom, TypeOK,
         GenerateInvitation, LockRoom, CreateRoom, JoinByInvitation, SendSuccess,
         JoinByToken, RenewToken, PresentToken
  <2>2. CASE \E s \in Slots : Settle(s)
    BY <2>2 DEF Settle, CreateDone, JoinDone, TokenAccepted, TokenRefused,
         RenewValidated, RenewDone, BuildFailed, Reply, SendSuccess, TypeOK
  <2>3. CASE CollectGarbage
    BY <2>3 DEF CollectGarbage, TypeOK
  <2>4. CASE UNCHANGED vars
    BY <2>4 DEF vars, TypeOK
  <2> QED
    BY <1>2, <2>1, <2>2, <2>3, <2>4 DEF Next
<1> QED
  BY <1>1, <1>2

-----------------------------------------------------------------------------
(* Names stay reserved *)

\* What a room remembers are tokens built for it: what the collector finds
\* expired there is a token whose name has expired.
MemoryBuilt == \A r \in Rooms : \A t \in tokenMemory[r] : t.room = r /\ t \in built
ReservationInv == TypeOK /\ MemoryBuilt /\ NameReservedUntilExpiry

\* Once a token of a name has expired, one has for good.
LEMMA ExpiryLasts ==
  ASSUME TypeOK, [Next]_vars, NEW r, NEW n, ExpiredName(r, n)
  PROVE  ExpiredName(r, n)'
<1>1. PICK t \in built : t.room = r /\ t.name = n /\ t.exp < clock
  BY DEF ExpiredName, Expired
<1>2. t \in built' /\ clock' >= clock
  BY <1>1, HistoryGrows
<1>3. t.exp \in Nat /\ clock \in Nat /\ clock' \in Nat
  BY NextType DEF TypeOK, Token
<1> QED
  BY <1>1, <1>2, <1>3 DEF ExpiredName, Expired

\* The collector only forgets tokens, and only expired ones.
LEMMA CollectorForgets ==
  ASSUME TypeOK, CollectGarbage, NEW r \in Rooms
  PROVE  /\ tokenMemory'[r] \subseteq tokenMemory[r]
         /\ \A x \in tokenMemory[r] : x \notin tokenMemory'[r] => Expired(x)
BY DEF CollectGarbage, CleanExpiredRoomMemory, ForgetBefore, Expired, TypeOK

LEMMA NextReservation == ReservationInv /\ [Next]_vars => ReservationInv'
<1> SUFFICES ASSUME ReservationInv, [Next]_vars
             PROVE  ReservationInv'
  OBVIOUS
<1>1. TypeOK /\ TypeOK'
  BY NextType DEF ReservationInv
<1>2. built \subseteq built'
  BY <1>1, HistoryGrows
<1>3. MemoryBuilt'
  <2> SUFFICES ASSUME NEW r \in Rooms, NEW x \in tokenMemory'[r]
               PROVE  x.room = r /\ x \in built'
    BY DEF MemoryBuilt
  <2>1. CASE x \in tokenMemory[r]
    BY <1>2, <2>1 DEF ReservationInv, MemoryBuilt
  <2>2. ASSUME NEW u \in Users, NEW t \in Token, addUser(u, t), built' = built \cup {t}
        PROVE  x \in tokenMemory[r] \/ (x.room = r /\ x \in built')
    BY <1>1, <2>2, AddUserSeats
  <2>3. CASE CollectGarbage
    BY <1>1, <2>1, <2>3, CollectorForgets
  <2> QED
    BY <1>1, <2>1, <2>2, <2>3, SeatChanges
<1>4. NameReservedUntilExpiry'
  <2> SUFFICES ASSUME NEW r \in Rooms, NEW m \in users'[r], ~ExpiredName(r, m.name)'
               PROVE  \E x \in tokenMemory'[r] : x.name = m.name
    BY DEF NameReservedUntilExpiry, isUniqueUsername, ExpiredName
  <2>1. ~ExpiredName(r, m.name)
    BY <1>1, ExpiryLasts
  <2>2. ASSUME m \in users[r]
        PROVE  \E x \in tokenMemory[r] : x.name = m.name
    BY <2>1, <2>2
    DEF ReservationInv, NameReservedUntilExpiry, isUniqueUsername, ExpiredName
  <2>3. CASE UNCHANGED <<users, tokenMemory>>
    BY <2>2, <2>3
  <2>4. ASSUME NEW D, removeUsers(D), UNCHANGED tokenMemory
        PROVE  \E x \in tokenMemory'[r] : x.name = m.name
    BY <1>1, <2>2, <2>4, RemoveUsersShrinks
  <2>5. ASSUME NEW u \in Users, NEW t \in Token, addUser(u, t)
        PROVE  \E x \in tokenMemory'[r] : x.name = m.name
    <3>1. CASE r # t.room
      BY <1>1, <2>2, <2>5, <3>1, AddUserSeats
    <3>2. CASE r = t.room /\ m.name = t.name
      BY <1>1, <2>5, <3>2, AddUserSeats
    <3>3. CASE r = t.room /\ m.name # t.name
      <4>1. m \in users[r]
        BY <1>1, <2>5, <3>3, AddUserMembers
      <4> QED
        BY <1>1, <2>2, <2>5, <3>3, <4>1, AddUserSeats
    <3> QED
      BY <3>1, <3>2, <3>3
  <2>6. ASSUME NEW D, removeUsers(D), CollectGarbage
        PROVE  \E x \in tokenMemory'[r] : x.name = m.name
    <3>1. m \in users[r]
      BY <1>1, <2>6, RemoveUsersShrinks
    <3>2. PICK x \in tokenMemory[r] : x.name = m.name
      BY <2>2, <3>1
    <3>3. ~Expired(x)
      BY <2>1, <3>2 DEF ReservationInv, MemoryBuilt, ExpiredName
    <3> QED
      BY <1>1, <2>6, <3>2, <3>3, CollectorForgets
  <2> QED
    BY <1>1, <2>3, <2>4, <2>5, <2>6, SeatChanges
<1> QED
  BY <1>1, <1>3, <1>4 DEF ReservationInv

LEMMA ReservationInvariant == Spec => []ReservationInv
<1>1. Init => ReservationInv
  BY InitType DEF Init, ReservationInv, MemoryBuilt, NameReservedUntilExpiry
<1> QED
  BY <1>1, NextReservation, PTL DEF Spec

\* The collector deletes by name what it finds expired: the name of a
\* participant is free only if a token for it has expired.
THEOREM NameReserved == Spec => []NameReservedUntilExpiry
<1>1. ReservationInv => NameReservedUntilExpiry
  BY DEF ReservationInv
<1> QED
  BY <1>1, ReservationInvariant, PTL

-----------------------------------------------------------------------------
(* Rooms are discarded late enough *)

\* No visit is dated in the future, and an empty room's last visitor date is not
\* older than its last visit.
VisitsDated ==
  \A r \in Rooms :
    /\ lastSeen[r] <= clock
    /\ r \in live /\ users[r] = {} => lastSeen[r] <= lastVisitorDate[r]

\* A participant comes into a room: a new one is dated.
Visited(r) ==
  \/ UNCHANGED <<live, lastVisitorDate>>
  \/ /\ live' = live \cup {r}
     /\ lastVisitorDate' = [lastVisitorDate EXCEPT ![r] = clock]

\* What a step does to the visits of the rooms.
LEMMA VisitChanges ==
  ASSUME TypeOK, [Next]_vars
  PROVE  \/ UNCHANGED <<users, live, lastVisitorDate, lastSeen, clock>>
         \/ Tick
         \/ /\ \E D \in SUBSET Users : removeUsers(D)
            /\ UNCHANGED <<lastSeen, clock>>
            /\ live' = live \/ CollectGarbage
         \/ \E u \in Users, t \in Token :
              addUser(u, t) /\ UNCHANGED clock /\ Visited(t.room)
<1> USE DEF socketUnchanged, socketVars, doorVars, memberVars, historyVars
<1>1. CASE \E u \in Users : SocketStep(u)
  BY <1>1 DEF SocketStep, Connect, Open, Drop, OnPong, WebsocketReady,
         WebsocketNotReady, OnError, OnClose, cleanupUser
<1>2. CASE \E u \in Users : RequestStep(u)
  BY <1>2 DEF RequestStep, LeaveRoom, GenerateInvitation, LockRoom, CreateRoom,
         JoinByInvitation, SendSuccess, JoinByToken, RenewToken, PresentToken
<1>3. ASSUME NEW s \in Slots, CreateDone(s) \/ JoinDone(s)
      PROVE  \E u \in Users, t \in Token :
               addUser(u, t) /\ UNCHANGED clock /\ Visited(t.room)
  <2>1. job[s].user \in Users /\ job[s].token \in Token
    BY <1>3, JobType DEF CreateDone, JoinDone, Runs
  <2>2. addUser(job[s].user, job[s].token) /\ UNCHANGED clock
    BY <1>3 DEF CreateDone, JoinDone
  <2>3. Visited(job[s].token.room)
    BY <1>3 DEF CreateDone, JoinDone, Visited
  <2> QED
    BY <2>1, <2>2, <2>3
<1>4. ASSUME NEW s \in Slots,
             \/ TokenAccepted(s) \/ TokenRefused(s) \/ RenewValidated(s)
             \/ RenewDone(s) \/ BuildFailed(s)
      PROVE  UNCHANGED <<users, live, lastVisitorDate, lastSeen, clock>>
  BY <1>4 DEF TokenAccepted, SendSuccess, TokenRefused, RenewValidated,
         RenewDone, BuildFailed
<1>5. CASE CollectGarbage
  <2>1. Disconnected \in SUBSET Users
    BY DEF Disconnected, TypeOK
  <2> QED
    BY <1>5, <2>1 DEF CollectGarbage, CleanDisconnectedUsers
<1>6. CASE UNCHANGED vars
  BY <1>6 DEF vars
<1> QED
  BY <1>1, <1>2, <1>3, <1>4, <1>5, <1>6 DEF Next, Settle

\* A departure that empties a live room dates it.
LEMMA DepartureDated ==
  ASSUME TypeOK, VisitsDated, NEW D, removeUsers(D), NEW r \in Rooms,
         r \in live, users'[r] = {}
  PROVE  lastSeen[r] <= lastVisitorDate'[r]
<1>1. CASE Leaving(D, r) # {}
  BY <1>1 DEF removeUsers, VisitsDated
<1>2. CASE Leaving(D, r) = {}
  BY <1>2 DEF removeUsers, VisitsDated, TypeOK
<1> QED
  BY <1>1, <1>2

LEMMA NextVisitsDated ==
  ASSUME TypeOK, VisitsDated, [Next]_vars
  PROVE  VisitsDated'
<1> SUFFICES ASSUME NEW r \in Rooms
             PROVE  /\ lastSeen'[r] <= clock'
                    /\ r \in live' /\ users'[r] = {} =>
                         lastSeen'[r] <= lastVisitorDate'[r]
  BY DEF VisitsDated
<1>1. CASE UNCHANGED <<users, live, lastVisitorDate, lastSeen, clock>>
  BY <1>1 DEF VisitsDated
<1>2. CASE Tick
  <2>1. /\ lastSeen'[r] = IF users[r] # {} THEN clock' ELSE lastSeen[r]
        /\ clock' = clock + 1 /\ UNCHANGED <<users, live, lastVisitorDate>>
    BY <1>2 DEF Tick, memberVars
  <2> QED
    BY <2>1 DEF VisitsDated, TypeOK
<1>3. ASSUME NEW D \in SUBSET Users, removeUsers(D), UNCHANGED <<lastSeen, clock>>,
             live' = live \/ CollectGarbage
      PROVE  /\ lastSeen'[r] <= clock'
             /\ r \in live' /\ users'[r] = {} => lastSeen'[r] <= lastVisitorDate'[r]
  <2>1. live' \subseteq live
    BY <1>3 DEF CollectGarbage, CleanEmptyRooms
  <2> QED
    BY <1>3, <2>1, DepartureDated DEF VisitsDated
<1>4. ASSUME NEW u \in Users, NEW t \in Token, addUser(u, t), UNCHANGED clock,
             Visited(t.room)
      PROVE  /\ lastSeen'[r] <= clock'
             /\ r \in live' /\ users'[r] = {} => lastSeen'[r] <= lastVisitorDate'[r]
  <2>1. lastSeen' = [lastSeen EXCEPT ![t.room] = clock]
    BY <1>4 DEF addUser
  <2>2. CASE r = t.room
    <3>1. [user |-> u, name |-> t.name] \in users'[r]
      BY <1>4, <2>2, AddUserSeats
    <3> QED
      BY <1>4, <2>1, <2>2, <3>1 DEF TypeOK
  <2>3. CASE r # t.room
    <3>1. users'[r] = users[r] /\ lastSeen'[r] = lastSeen[r] /\ (r \in live' => r \in live)
      BY <1>4, <2>1, <2>3, AddUserSeats DEF TypeOK, Visited
    <3>2. lastVisitorDate'[r] = lastVisitorDate[r]
      BY <1>4, <2>3 DEF TypeOK, Visited
    <3> QED
      BY <1>4, <3>1, <3>2 DEF VisitsDated
  <2> QED
    BY <2>2, <2>3
<1> QED
  BY <1>1, <1>2, <1>3, <1>4, VisitChanges

\* However the last participant went, a room goes only after it has stood empty
\* for longer than its lifespan (cleanEmptyRooms reads what removeUser dated).
THEOREM VacancyRespected == Spec => DiscardedAfterVacancy
<1>1. Init => VisitsDated
  BY DEF Init, VisitsDated
<1>2. TypeOK /\ VisitsDated /\ [Next]_vars => VisitsDated'
  BY NextVisitsDated
<1>3. TypeOK /\ VisitsDated /\ [Next]_vars =>
        [\A r \in live \ live' :
           users'[r] = {} /\ lastSeen[r] + EmptyRoomLife < clock]_vars
  <2> SUFFICES ASSUME TypeOK, VisitsDated, [Next]_vars, NEW r \in live, r \notin live'
               PROVE  users'[r] = {} /\ lastSeen[r] + EmptyRoomLife < clock
    OBVIOUS
  <2>1. r \in Rooms
    BY DEF TypeOK
  <2>2. CollectGarbage
    BY VisitChanges DEF Tick, Visited
  <2>3. /\ removeUsers(Disconnected) /\ users'[r] = {}
        /\ lastVisitorDate'[r] + EmptyRoomLife < clock
    BY <2>2 DEF CollectGarbage, CleanDisconnectedUsers, CleanEmptyRooms
  <2>4. lastSeen[r] <= lastVisitorDate'[r]
    BY <2>1, <2>3, DepartureDated
  <2>5. lastVisitorDate' \in [Rooms -> Nat]
    BY <2>3, RemoveUsersType
  <2>6. /\ lastSeen[r] \in Nat /\ lastVisitorDate'[r] \in Nat
        /\ clock \in Nat /\ EmptyRoomLife \in Nat
    BY <2>1, <2>5, TimesAssumption DEF TypeOK
  <2> QED
    BY <2>3, <2>4, <2>6
<1> QED
  BY <1>1, <1>2, <1>3, TypeCorrect, PTL DEF Spec, DiscardedAfterVacancy

-----------------------------------------------------------------------------
(* The server implements RoomAccess *)

\* A room nobody has created is not in the rooms map and has accepted nobody.
FreshUntouched ==
  \A r \in Rooms : ownerUsername[r] = NoName => r \notin live /\ guests[r] = {}
AccessInv == InvitationInv /\ FreshUntouched

\* Hence nobody is in it either: its creator comes into an empty room.
LEMMA FreshEmpty ==
  ASSUME AccessInv, NEW r \in Rooms, ownerUsername[r] = NoName
  PROVE  users[r] = {}
BY SentinelsAssumption
DEF AccessInv, FreshUntouched, InvitationInv, OnInvitationOnly, TypeOK, RoomUser

\* What RoomAccess shows of the server.
Inside == [r \in Rooms |-> IF r \in live THEN users[r] ELSE {}]

LEMMA NothingShown ==
  ASSUME UNCHANGED <<live, ownerUsername, guests, locked, users>>
  PROVE  UNCHANGED Access!vars
BY DEF Access!vars

\* Whoever leaves, departs; with the rooms that are discarded in the same event.
LEMMA DepartsShown ==
  ASSUME TypeOK, NEW D \in SUBSET Users, removeUsers(D),
         live' \subseteq live, \A r \in live \ live' : users'[r] = {},
         UNCHANGED <<ownerUsername, guests, locked>>
  PROVE  Access!Next
<1>1. PICK out \in [Rooms -> SUBSET Users] : \A r \in Rooms : out[r] = Leaving(D, r)
  <2>1. [r \in Rooms |-> Leaving(D, r)] \in [Rooms -> SUBSET Users]
    BY DEF Leaving
  <2> QED
    BY <2>1
<1>2. PICK gone \in SUBSET Rooms : gone = live \ live'
  BY DEF TypeOK
<1>3. \A r \in Rooms : users'[r] = {m \in users[r] : m.user \notin out[r]}
  BY <1>1 DEF removeUsers
<1>4. Inside' = [r \in Rooms |-> {m \in Inside[r] : m.user \notin out[r]}]
  <2> SUFFICES ASSUME NEW r \in Rooms
               PROVE  (IF r \in live' THEN users'[r] ELSE {})
                        = {m \in IF r \in live THEN users[r] ELSE {} : m.user \notin out[r]}
    BY DEF Inside
  <2>1. CASE r \in live'
    BY <1>3, <2>1
  <2>2. CASE r \in gone
    BY <1>2, <1>3, <2>2
  <2>3. CASE r \notin live
    BY <2>3
  <2> QED
    BY <1>2, <2>1, <2>2, <2>3
<1>5. gone \subseteq live /\ live' = live \ gone /\ \A r \in gone : Inside'[r] = {}
  BY <1>2 DEF Inside
<1>6. Access!Depart(out, gone)
  BY <1>4, <1>5 DEF Access!Depart, Inside
<1> QED
  BY <1>6 DEF Access!Next

LEMMA SocketShown ==
  ASSUME TypeOK, NEW u \in Users, SocketStep(u)
  PROVE  [Access!Next]_(Access!vars)
<1> USE DEF socketUnchanged, doorVars, memberVars, historyVars
<1>1. UNCHANGED <<live, ownerUsername, guests, locked>>
  BY DEF SocketStep, Connect, Open, Drop, OnPong, WebsocketReady,
         WebsocketNotReady, OnError, OnClose
<1>2. UNCHANGED users \/ removeUsers({u})
  BY DEF SocketStep, Connect, Open, Drop, OnPong, WebsocketReady,
         WebsocketNotReady, OnError, OnClose, cleanupUser
<1> QED
  BY <1>1, <1>2, NothingShown, DepartsShown

LEMMA RequestShown ==
  ASSUME TypeOK, NEW u \in Users, RequestStep(u)
  PROVE  [Access!Next]_(Access!vars)
<1> USE DEF socketVars, doorVars, memberVars, historyVars
<1>1. CASE LeaveRoom(u)
  BY <1>1, DepartsShown DEF LeaveRoom
<1>2. ASSUME NEW r \in Rooms, GenerateInvitation(u, r)
      PROVE  UNCHANGED Access!vars
  BY <1>2, NothingShown DEF GenerateInvitation
<1>3. ASSUME NEW r \in Rooms, NEW b \in BOOLEAN, LockRoom(u, r, b)
      PROVE  Access!Next
  <2>1. \E m \in Inside[r] : m.name = ownerUsername[r]
    BY <1>3 DEF LockRoom, ActsAsOwner, isOwner, Inside
  <2>2. Access!SetLock(r, b)
    BY <1>3, <2>1 DEF Access!SetLock, Inside, LockRoom
  <2> QED
    BY <2>2 DEF Access!Next
<1>4. ASSUME NEW n \in Names, NEW s \in Slots, CreateRoom(u, n, s)
      PROVE  UNCHANGED Access!vars
  BY <1>4, NothingShown DEF CreateRoom
<1>5. ASSUME NEW r \in Rooms, NEW n \in Names, NEW s \in Slots,
             JoinByInvitation(u, r, n, s)
      PROVE  Access!Next
  <2>1. Access!Admit(r, n)
    BY <1>5 DEF Access!Admit, JoinByInvitation, SendSuccess
  <2> QED
    BY <2>1 DEF Access!Next
<1>6. ASSUME NEW t \in handed, NEW s \in Slots,
             JoinByToken(u, t, s) \/ RenewToken(u, t, s)
      PROVE  UNCHANGED Access!vars
  BY <1>6, NothingShown DEF JoinByToken, RenewToken, PresentToken
<1> QED
  BY <1>1, <1>2, <1>3, <1>4, <1>5, <1>6 DEF RequestStep

LEMMA SettleShown ==
  ASSUME AccessInv, NEW s \in Slots, Settle(s)
  PROVE  [Access!Next]_(Access!vars)
<1> USE DEF socketVars, doorVars, memberVars, historyVars
<1>1. TypeOK /\ job[s] # Idle
  BY DEF AccessInv, InvitationInv, Settle, CreateDone, JoinDone, TokenAccepted,
         TokenRefused, RenewValidated, RenewDone, BuildFailed, Runs
<1>2. PICK t \in Token, u \in Users, r \in Rooms, n \in Names :
        t = job[s].token /\ u = job[s].user /\ r = t.room /\ n = t.name
  BY <1>1, JobType
<1>3. ASSUME addUser(u, t), NEW q \in Rooms
      PROVE  users'[q] = IF q = r
                         THEN {m \in users[r] : m.user # u} \cup {[user |-> u, name |-> n]}
                         ELSE users[q]
  <2>1. CASE q = r
    BY <1>1, <1>2, <1>3, <2>1, AddUserSeats
  <2>2. CASE q # r
    BY <1>1, <1>2, <1>3, <2>2, AddUserSeats
  <2> QED
    BY <2>1, <2>2
<1>4. CASE CreateDone(s)
  <2>1. /\ addUser(u, t) /\ live' = live \cup {r}
        /\ ownerUsername' = [ownerUsername EXCEPT ![r] = n]
        /\ UNCHANGED <<guests, locked>>
    BY <1>2, <1>4 DEF CreateDone
  <2>2. ownerUsername[r] = NoName
    BY <1>1, <1>2, <1>4 DEF AccessInv, InvitationInv, BuildsAlone, Building, CreateDone, Runs
  <2>3. users[r] = {}
    BY <2>2, FreshEmpty
  <2>4. Inside' = [Inside EXCEPT ![r] = {[user |-> u, name |-> n]}]
    BY <1>3, <2>1, <2>3 DEF Inside
  <2>5. Access!Found(r, u, n)
    BY <2>1, <2>2, <2>4 DEF Access!Found, Inside
  <2> QED
    BY <2>5 DEF Access!Next
<1>5. CASE JoinDone(s)
  <2>1. addUser(u, t) /\ UNCHANGED <<live, ownerUsername, guests, locked>>
    BY <1>2, <1>5 DEF JoinDone
  <2>2. CASE r \in live
    <3>1. n \in guests[r] \cup {ownerUsername[r]}
      BY <1>1, <1>2, <1>5 DEF AccessInv, InvitationInv, JobsKnown, Known, JoinDone, Runs
    <3>2. Inside' = [Inside EXCEPT ![r] =
                       {m \in @ : m.user # u} \cup {[user |-> u, name |-> n]}]
      BY <1>3, <2>1, <2>2 DEF Inside
    <3>3. Access!Enter(r, u, n)
      BY <2>1, <2>2, <3>1, <3>2 DEF Access!Enter, Inside
    <3> QED
      BY <3>3 DEF Access!Next
  <2>3. CASE r \notin live
    <3>1. Inside' = Inside
      BY <1>3, <2>1, <2>3 DEF Inside
    <3> QED
      BY <2>1, <3>1 DEF Access!vars, Inside
  <2> QED
    BY <2>2, <2>3
<1>6. CASE \/ TokenAccepted(s) \/ TokenRefused(s) \/ RenewValidated(s)
           \/ RenewDone(s) \/ BuildFailed(s)
  <2>1. UNCHANGED <<live, ownerUsername, guests, locked, users>>
    BY <1>6 DEF TokenAccepted, SendSuccess, TokenRefused, RenewValidated,
           RenewDone, BuildFailed
  <2> QED
    BY <2>1, NothingShown
<1> QED
  BY <1>4, <1>5, <1>6 DEF Settle

LEMMA NextShown == AccessInv /\ [Next]_vars => [Access!Next]_(Access!vars)
<1> SUFFICES ASSUME AccessInv, [Next]_vars
             PROVE  [Access!Next]_(Access!vars)
  OBVIOUS
<1> USE DEF socketVars, doorVars, memberVars, historyVars
<1>1. TypeOK
  BY DEF AccessInv, InvitationInv
<1>2. CASE \E u \in Users : SocketStep(u) \/ RequestStep(u)
  BY <1>1, <1>2, SocketShown, RequestShown
<1>3. CASE \E s \in Slots : Settle(s)
  BY <1>3, SettleShown
<1>4. CASE CollectGarbage
  <2>1. Disconnected \in SUBSET Users
    BY <1>1 DEF Disconnected, TypeOK
  <2>2. live' \subseteq live /\ \A r \in live \ live' : users'[r] = {}
    BY <1>4 DEF CollectGarbage, CleanEmptyRooms
  <2>3. removeUsers(Disconnected) /\ UNCHANGED <<ownerUsername, guests, locked>>
    BY <1>4 DEF CollectGarbage, CleanDisconnectedUsers
  <2> QED
    BY <1>1, <2>1, <2>2, <2>3, DepartsShown
<1>5. CASE Tick
  BY <1>5, NothingShown DEF Tick
<1>6. CASE UNCHANGED vars
  BY <1>6, NothingShown DEF vars
<1> QED
  BY <1>2, <1>3, <1>4, <1>5, <1>6 DEF Next

\* A room's first guest comes after its creator.
LEMMA NextFresh == AccessInv /\ [Next]_vars => FreshUntouched'
<1> SUFFICES ASSUME AccessInv, [Next]_vars
             PROVE  FreshUntouched'
  OBVIOUS
<1>1. TypeOK
  BY DEF AccessInv, InvitationInv
<1>2. CASE UNCHANGED Access!vars
  BY <1>2 DEF Access!vars, AccessInv, FreshUntouched
<1>3. ASSUME NEW r \in Rooms, NEW u \in Users, NEW n \in Names,
             Access!Found(r, u, n) \/ Access!Enter(r, u, n)
      PROVE  FreshUntouched'
  BY <1>1, <1>3, SentinelsAssumption
  DEF Access!Found, Access!Enter, AccessInv, FreshUntouched, TypeOK
<1>4. ASSUME NEW r \in Rooms,
             \/ \E b \in BOOLEAN : Access!SetLock(r, b)
             \/ \E n \in Names : Access!Admit(r, n)
      PROVE  FreshUntouched'
  BY <1>1, <1>4 DEF Access!SetLock, Access!Admit, AccessInv, FreshUntouched, TypeOK
<1>5. ASSUME NEW out, NEW gone, Access!Depart(out, gone)
      PROVE  FreshUntouched'
  BY <1>5 DEF Access!Depart, AccessInv, FreshUntouched
<1> QED
  BY <1>2, <1>3, <1>4, <1>5, NextShown DEF Access!Next

LEMMA AccessInvariant == Spec => []AccessInv
<1>1. Init => AccessInv
  BY InitInvitation DEF Init, AccessInv, FreshUntouched
<1>2. AccessInv /\ [Next]_vars => AccessInv'
  BY NextInvitation, NextFresh DEF AccessInv
<1> QED
  BY <1>1, <1>2, PTL DEF Spec

\* Every step of the server is one RoomAccess allows, or nothing it shows: with
\* any number of sockets, continuations, tokens and collections, a room is
\* entered on invitation only and goes only when nobody is inside.
THEOREM AccessImplemented == Spec => ImplementsRoomAccess
<1>1. Init => Access!Init
  BY DEF Init, Access!Init
<1>2. AccessInv /\ [Next]_vars => [Access!Next]_(Access!vars)
  BY NextShown
<1> QED
  BY <1>1, <1>2, AccessInvariant, PTL DEF Spec, ImplementsRoomAccess, Access!Spec

-----------------------------------------------------------------------------
(* Unique names *)

\* What may let a name in twice.
Excused(r, n) == n \in raced[r] \/ ExpiredName(r, n)
\* joinRoom's checks hold when they are made and are not made again: that the
\* name of a pending join is still free has to be said of every step between.
AddFree ==
  \A s \in Slots, r \in Rooms, n \in Names :
    Joins(s, r, n) /\ isInUseUsername(r, n) => Excused(r, n)
RacesNoted == \A r \in Rooms, n \in Names : Overlapping(r, n) => n \in raced[r]
UniqueInv == RacesNoted /\ AddFree /\ UniqueNames

\* A name that stays double keeps its excuse.
LEMMA ExcuseLasts ==
  ASSUME TypeOK, Next, NoteRaces, NEW r \in Rooms, NEW n \in Names,
         Excused(r, n), Doubled(r, n)'
  PROVE  Excused(r, n)'
<1>1. CASE n \in raced[r]
  BY <1>1 DEF NoteRaces, Excused
<1>2. CASE ExpiredName(r, n)
  BY <1>2, ExpiryLasts DEF Excused
<1> QED
  BY <1>1, <1>2 DEF Excused

\* A join that a step starts finds its name free, or in nobody's use.
LEMMA JoinChanges ==
  ASSUME TypeOK, Next, NEW s \in Slots, NEW r \in Rooms, NEW n \in Names,
         Joins(s, r, n)'
  PROVE  \/ Joins(s, r, n) /\ job'[s] = job[s]
         \/ users' = users /\ (isUniqueUsername(r, n) \/ ~isInUseUsername(r, n))
<1> USE DEF socketUnchanged, socketVars, doorVars, memberVars, historyVars
<1>1. /\ job'[s] # Idle /\ job'[s].kind = "add"
      /\ job'[s].token.room = r /\ job'[s].token.name = n
  BY DEF Joins, Runs
<1>2. ASSUME job'[s] = job[s]
      PROVE  Joins(s, r, n)
  BY <1>1, <1>2 DEF Joins, Runs
<1>3. CASE \E u \in Users : SocketStep(u)
  BY <1>2, <1>3 DEF SocketStep, Connect, Open, Drop, OnPong, WebsocketReady,
         WebsocketNotReady, OnError, OnClose
<1>4. ASSUME NEW u \in Users, RequestStep(u), job'[s] # job[s]
      PROVE  users' = users /\ isUniqueUsername(r, n)
  <2>1. ASSUME NEW z \in Slots, NEW k, NEW t, Start(z, k, u, t)
        PROVE  k = "add" /\ t = job'[s].token
    BY <1>1, <1>4, <2>1 DEF Start, TypeOK
  <2>2. PICK q \in Rooms, x \in Names, z \in Slots : JoinByInvitation(u, q, x, z)
    BY <1>4, <2>1 DEF RequestStep, LeaveRoom, GenerateInvitation, LockRoom,
           CreateRoom, JoinByToken, RenewToken, PresentToken
  <2>3. NewToken(x, q) = job'[s].token
    BY <2>1, <2>2 DEF JoinByInvitation
  <2>4. x = n /\ q = r
    BY <1>1, <2>3 DEF NewToken
  <2> QED
    BY <2>2, <2>4 DEF JoinByInvitation, SendSuccess
<1>5. ASSUME NEW z \in Slots, TokenAccepted(z), job'[s] # job[s]
      PROVE  users' = users /\ (isUniqueUsername(r, n) \/ ~isInUseUsername(r, n))
  <2>1. PICK t \in Token : t = job[z].token /\ job[z] \in Job
    BY <1>5, JobType DEF TokenAccepted, Runs, TypeOK
  <2>2. job' = [job EXCEPT ![z].kind = "add", ![z].token = NewToken(t.name, t.room)]
    BY <1>5, <2>1 DEF TokenAccepted
  <2>3. s = z /\ job'[s].token = NewToken(t.name, t.room)
    BY <1>5, <2>1, <2>2 DEF TypeOK, Job
  <2>4. t.name = n /\ t.room = r
    BY <1>1, <2>3 DEF NewToken
  <2> QED
    BY <1>5, <2>1, <2>4 DEF TokenAccepted, SendSuccess, Accepts
<1>6. ASSUME NEW z \in Slots, RenewValidated(z)
      PROVE  job'[s] = job[s]
  <2>1. job[z] \in Job
    BY <1>6 DEF RenewValidated, Runs, TypeOK
  <2>2. PICK t : job' = [job EXCEPT ![z].kind = "reissue", ![z].token = t]
    BY <1>6 DEF RenewValidated
  <2>3. job'[z].kind = "reissue"
    BY <2>1, <2>2 DEF TypeOK, Job
  <2> QED
    BY <1>1, <2>2, <2>3 DEF TypeOK
<1>7. ASSUME NEW z \in Slots,
             \/ CreateDone(z) \/ JoinDone(z) \/ TokenRefused(z)
             \/ RenewDone(z) \/ BuildFailed(z)
      PROVE  job'[s] = job[s]
  <2>1. Finish(z)
    BY <1>7 DEF CreateDone, JoinDone, TokenRefused, RenewDone, BuildFailed
  <2> QED
    BY <1>1, <2>1 DEF Finish, TypeOK
<1>8. CASE CollectGarbage \/ Tick
  BY <1>2, <1>8 DEF CollectGarbage, Tick
<1> QED
  BY <1>2, <1>3, <1>4, <1>5, <1>6, <1>7, <1>8 DEF Next, Settle

\* Who comes into a room comes by a join that was pending, or founds it.
LEMMA Arrivals ==
  ASSUME AccessInv, Next, NEW r \in Rooms, NEW m \in users'[r], m \notin users[r]
  PROVE  \E z \in Slots :
           /\ m.name \in Names /\ job'[z] = Idle
           /\ \A w \in users'[r] : w # m => w \in users[r]
           /\ \/ Joins(z, r, m.name)
              \/ users[r] = {} /\ \A s \in Slots : ~Joins(s, r, m.name)
<1>1. TypeOK /\ InvitationInv
  BY DEF AccessInv, InvitationInv
<1>2. PICK z \in Slots, u \in Users, t \in Token :
        /\ CreateDone(z) \/ JoinDone(z)
        /\ job[z] # Idle /\ t = job[z].token /\ addUser(u, t)
  BY <1>1, SeatChanges, RemoveUsersShrinks
<1>3. /\ r = t.room /\ m = [user |-> u, name |-> t.name]
      /\ \A w \in users'[r] : w # m => w \in users[r]
  <2>1. r = t.room
    BY <1>1, <1>2, AddUserSeats
  <2>2. users'[r] = {x \in users[r] : x.user # u} \cup {[user |-> u, name |-> t.name]}
    BY <1>1, <1>2, <2>1, AddUserSeats
  <2> QED
    BY <2>1, <2>2
<1>4. m.name = t.name /\ t.name \in Names
  BY <1>3 DEF Token
<1>5. job'[z] = Idle
  BY <1>1, <1>2 DEF CreateDone, JoinDone, Finish, TypeOK
<1>6. CASE JoinDone(z)
  BY <1>2, <1>3, <1>4, <1>5, <1>6 DEF JoinDone, Joins
<1>7. CASE CreateDone(z)
  <2>1. ownerUsername[r] = NoName
    BY <1>1, <1>2, <1>3, <1>7 DEF InvitationInv, BuildsAlone, Building, CreateDone, Runs
  <2>2. users[r] = {}
    BY <2>1, FreshEmpty
  <2>3. ASSUME NEW s \in Slots, Joins(s, r, m.name)
        PROVE  FALSE
    <3>1. m.name \in guests[r] \cup {ownerUsername[r]}
      BY <1>1, <2>3 DEF InvitationInv, JobsKnown, Known, Joins, Runs
    <3> QED
      BY <1>4, <2>1, <3>1, SentinelsAssumption DEF AccessInv, FreshUntouched
  <2> QED
    BY <1>3, <1>4, <1>5, <2>2, <2>3
<1> QED
  BY <1>2, <1>6, <1>7

LEMMA NextUnique ==
  ASSUME AccessInv, ReservationInv, UniqueInv, Next, NoteRaces
  PROVE  UniqueInv'
<1>1. TypeOK
  BY DEF ReservationInv
<1>2. RacesNoted'
  BY DEF RacesNoted, NoteRaces
<1>3. AddFree'
  <2> SUFFICES ASSUME NEW s \in Slots, NEW r \in Rooms, NEW n \in Names,
                      Joins(s, r, n)', isInUseUsername(r, n)'
               PROVE  Excused(r, n)'
    BY DEF AddFree
  <2>1. Doubled(r, n)'
    BY DEF Doubled
  <2>2. CASE users' = users /\ (isUniqueUsername(r, n) \/ ~isInUseUsername(r, n))
    <3>1. PICK m \in users[r] : m.name = n
      BY <2>2 DEF isInUseUsername
    <3>2. isUniqueUsername(r, m.name)
      BY <2>2, <3>1 DEF isInUseUsername
    <3>3. ExpiredName(r, n)
      BY <3>1, <3>2 DEF ReservationInv, NameReservedUntilExpiry
    <3> QED
      BY <1>1, <2>1, <3>3, ExcuseLasts DEF Excused
  <2>3. CASE Joins(s, r, n) /\ job'[s] = job[s]
    <3>1. CASE isInUseUsername(r, n)
      BY <1>1, <2>1, <2>3, <3>1, ExcuseLasts DEF UniqueInv, AddFree
    <3>2. CASE ~isInUseUsername(r, n)
      <4>1. PICK m \in users'[r] : m.name = n /\ m \notin users[r]
        BY <3>2 DEF isInUseUsername
      <4>2. PICK z \in Slots : job'[z] = Idle /\ Joins(z, r, n)
        BY <2>3, <4>1, Arrivals
      <4>3. z # s
        BY <2>3, <4>2 DEF Joins, Runs
      <4>4. n \in raced[r]
        BY <2>3, <4>2, <4>3 DEF UniqueInv, RacesNoted, Overlapping
      <4> QED
        BY <1>1, <2>1, <4>4, ExcuseLasts DEF Excused
    <3> QED
      BY <3>1, <3>2
  <2> QED
    BY <1>1, <2>2, <2>3, JoinChanges
<1>4. UniqueNames'
  <2> SUFFICES ASSUME NEW r \in Rooms, NEW m \in users'[r], NEW w \in users'[r],
                      m.name = w.name, m # w
               PROVE  Excused(r, m.name)'
    BY DEF UniqueNames, Excused
  <2>1. m.name \in Names /\ Doubled(r, m.name)'
    <3>1. m \in RoomUser
      BY <1>1, NextType DEF TypeOK
    <3> QED
      BY <3>1 DEF RoomUser, Doubled
  <2>2. CASE m \in users[r] /\ w \in users[r]
    <3>1. Excused(r, m.name)
      BY <2>2 DEF UniqueInv, UniqueNames, Excused
    <3> QED
      BY <1>1, <2>1, <3>1, ExcuseLasts
  <2>3. ASSUME NEW x \in users'[r], NEW y \in users'[r], x.name = m.name,
               y.name = m.name, x # y, x \notin users[r]
        PROVE  Excused(r, m.name)'
    <3>1. PICK z \in Slots :
            /\ y \in users[r]
            /\ Joins(z, r, m.name) \/ users[r] = {}
      BY <2>3, Arrivals
    <3>2. Joins(z, r, m.name) /\ isInUseUsername(r, m.name)
      BY <2>3, <3>1 DEF isInUseUsername
    <3>3. Excused(r, m.name)
      BY <2>1, <3>2 DEF UniqueInv, AddFree
    <3> QED
      BY <1>1, <2>1, <3>3, ExcuseLasts
  <2> QED
    BY <2>2, <2>3
<1> QED
  BY <1>2, <1>3, <1>4 DEF UniqueInv

\* Over every interleaving of joins, leaves, closes and collections, and for
\* any number of continuations, two participants carry one name only if their
\* joins overlapped (joinRoom awaits the token between its check and addUser)
\* or the reservation of the name could expire.
THEOREM NamesAreUnique == NotedSpec => []UniqueNames
<1>1. NotedInit => Init /\ UniqueInv
  BY DEF NotedInit, Init, UniqueInv, RacesNoted, AddFree, UniqueNames, Overlapping,
         Joins, Runs
<1>2. [NotedNext]_<<vars, raced>> => [Next]_vars
  BY DEF NotedNext
<1>3. NotedSpec => []AccessInv /\ []ReservationInv
  BY <1>1, <1>2, AccessInvariant, ReservationInvariant, PTL DEF NotedSpec, Spec
<1>4. AccessInv /\ ReservationInv /\ UniqueInv /\ [NotedNext]_<<vars, raced>> => UniqueInv'
  <2>1. CASE NotedNext
    BY <2>1, NextUnique DEF NotedNext
  <2>2. CASE UNCHANGED <<vars, raced>>
    BY <2>2 DEF vars, memberVars, historyVars, UniqueInv, RacesNoted, AddFree,
           UniqueNames, Overlapping, Joins, Runs, Excused, ExpiredName, Expired,
           isInUseUsername
  <2> QED
    BY <2>1, <2>2
<1>5. UniqueInv => UniqueNames
  BY DEF UniqueInv
<1> QED
  BY <1>1, <1>3, <1>4, <1>5, PTL DEF NotedSpec
=============================================================================
