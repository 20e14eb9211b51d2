----------------------------- MODULE RoomServer -----------------------------
(***************************************************************************)
(* The signalling server of lepeerchat (src/server/src): the controller's  *)
(* handlers, the rooms, the users (one per websocket), the websocket       *)
(* callbacks and the garbage collector.                                    *)
(*                                                                         *)
(* The server is one event loop: a handler runs to its end before the next *)
(* event.  What it starts with buildToken or validateToken (WebCrypto      *)
(* promises) goes on in a later event: such a continuation is a job, kept  *)
(* in a slot between the two events, and any other event may come first.   *)
(*                                                                         *)
(* A request that is refused with an error response changes nothing and is *)
(* a stuttering step; so are the handlers that only read or relay          *)
(* (getRoom, roomExists, usernameValid, guard, offer, answer, candidate).  *)
(***************************************************************************)
EXTENDS Integers

CONSTANTS
  Users,          \* User objects, one per websocket ever accepted
  Rooms,          \* the ids nanoid may give to rooms
  Names,          \* usernames
  Slots,          \* bound: continuations pending at the same time
  Steady,         \* bound: users whose socket opens in time and never fails
  Renewers,       \* bound: users that ask for a renewed token
  NoRoom, NoName, Idle,
  TokenLife,      \* ROOM_TOKEN_EXPIRATION
  InvitationLife, \* lifeSpan of an Invitation
  EmptyRoomLife,  \* GC.EMPTY_ROOM_LIFESPAN
  PongDelay,      \* GC.KEEP_ALIVE_ACCEPTABLE_DELAY
  MaxClock        \* bound: the clock stops there

\* The signed payload of a token.  Two tokens with the same payload are the
\* same string (HMAC is deterministic), so the payload is the token.
Token == [name : Names, room : Rooms, exp : Nat]

\* A pending continuation: of buildRoom ("create"), of validateToken in
\* joinRoom ("verify"), of Room.addUser ("add"), of renewToken's two promises.
JobKinds == {"create", "verify", "add", "renew", "reissue"}
Job == [kind : JobKinds, user : Users, token : Token]
RoomUser == [user : Users, name : Names]
SocketStates == {"none", "connecting", "open", "closing", "closed"}

ASSUME SentinelsAssumption ==
  NoRoom \notin Rooms /\ NoName \notin Names /\ Idle \notin Job
ASSUME TimesAssumption ==
  {TokenLife, InvitationLife, EmptyRoomLife, PongDelay, MaxClock} \subseteq Nat

VARIABLES
  ws,              \* readyState of each user's websocket
  awaited,         \* users whose waitWebsocketOpen promise is pending
  lastPong,        \* User._lastPong
  roomOf,          \* User._roomId
  registered,      \* keys of the server's users map
  live,            \* keys of the server's rooms map
  users,           \* Room._users of each room, one RoomUser per user
  before,          \* insertion order of that Map: <<u, v>> when u precedes v
  ownerUsername,   \* Room._ownerUsername
  tokenMemory,     \* Room._userTokenMemory, keyed by the token's name
  locked,          \* Room._locked
  invitations,     \* Room._invitations: the expireAt of those in force
  lastVisitorDate, \* Room._lastVisitorDate
  job,             \* continuations pending, one per busy slot
  handed,          \* tokens sent on an open socket: what clients can present
  clock,
  \* history, read by properties only
  guests,          \* names a room has accepted by invitation
  built,           \* every token built
  lastSeen         \* last date at which the room had a participant

socketVars  == <<ws, awaited, lastPong>>
memberVars  == <<users, before, lastVisitorDate>>
doorVars    == <<ownerUsername, locked, invitations>>
historyVars == <<guests, built, lastSeen>>
vars == <<socketVars, roomOf, registered, live, memberVars, doorVars,
          tokenMemory, job, handed, clock, historyVars>>

TypeOK ==
  /\ ws \in [Users -> SocketStates]
  /\ awaited \subseteq Users
  /\ lastPong \in [Users -> Nat]
  /\ roomOf \in [Users -> Rooms \cup {NoRoom}]
  /\ registered \subseteq Users
  /\ live \subseteq Rooms
  /\ users \in [Rooms -> SUBSET RoomUser]
  /\ before \in [Rooms -> SUBSET (Users \X Users)]
  /\ ownerUsername \in [Rooms -> Names \cup {NoName}]
  /\ tokenMemory \in [Rooms -> SUBSET Token]
  /\ locked \in [Rooms -> BOOLEAN]
  /\ invitations \in [Rooms -> SUBSET Nat]
  /\ lastVisitorDate \in [Rooms -> Nat]
  /\ job \in [Slots -> Job \cup {Idle}]
  /\ handed \subseteq Token
  /\ clock \in Nat
  /\ guests \in [Rooms -> SUBSET Names]
  /\ built \subseteq Token
  /\ lastSeen \in [Rooms -> Nat]

-----------------------------------------------------------------------------
(* Reading a room *)

Has(r, u) == \E m \in users[r] : m.user = u
isUniqueUsername(r, n) == \A t \in tokenMemory[r] : t.name # n
isInUseUsername(r, n) == \E m \in users[r] : m.name = n

\* getOwnerId() = u: the first RoomUser that carries the owner's name.
isOwner(r, u) ==
  LET owners == {m.user : m \in {x \in users[r] : x.name = ownerUsername[r]}}
  IN  u \in owners /\ \A v \in owners : <<v, u>> \notin before[r]

Expired(t) == t.exp < clock
NewToken(n, r) == [name |-> n, room |-> r, exp |-> clock + TokenLife]

\* nanoid never repeats an id, not even one a buildRoom in flight has taken.
Fresh(r) ==
  /\ ownerUsername[r] = NoName
  /\ \A s \in Slots : job[s] # Idle =>
       ~(job[s].kind = "create" /\ job[s].token.room = r)

(* Changing a room *)

\* Room._addUser: both maps are set, an entry already there keeps its place.
addUser(u, t) ==
  LET r == t.room IN
  /\ users' = [users EXCEPT ![r] =
       {m \in @ : m.user # u} \cup {[user |-> u, name |-> t.name]}]
  /\ before' = [before EXCEPT ![r] =
       IF Has(r, u) THEN @ ELSE @ \cup {<<m.user, u>> : m \in users[r]}]
  /\ tokenMemory' = [tokenMemory EXCEPT ![r] =
       {x \in @ : x.name # t.name} \cup {t}]
  /\ lastSeen' = [lastSeen EXCEPT ![r] = clock]

\* Room.removeUser of every u in D, on the live room u points at.
Leaving(D, r) == {u \in D : r \in live /\ roomOf[u] = r}
\* Mutant of removeUsers: the visit that ends is not dated.
removeUsersUndated(D) ==
  /\ users' = [r \in Rooms |-> {m \in users[r] : m.user \notin Leaving(D, r)}]
  /\ before' = [r \in Rooms |->
       {p \in before[r] : p[1] \notin Leaving(D, r) /\ p[2] \notin Leaving(D, r)}]
  /\ UNCHANGED lastVisitorDate
removeUsers(D) ==
  /\ users' = [r \in Rooms |-> {m \in users[r] : m.user \notin Leaving(D, r)}]
  /\ before' = [r \in Rooms |->
       {p \in before[r] : p[1] \notin Leaving(D, r) /\ p[2] \notin Leaving(D, r)}]
  /\ lastVisitorDate' = [r \in Rooms |->
       IF Leaving(D, r) # {} /\ users'[r] = {} THEN clock
       ELSE lastVisitorDate[r]]

\* Mutant of cleanupUser: nothing is done for a user the map has lost already.
cleanupRegisteredUser(u) ==
  /\ IF u \in registered THEN removeUsers({u}) ELSE UNCHANGED memberVars
  /\ registered' = registered \ {u}
\* ws.ts cleanupUser; the user keeps its room id.
cleanupUser(u) ==
  /\ removeUsers({u})
  /\ registered' = registered \ {u}

-----------------------------------------------------------------------------
(* Websocket callbacks *)

socketUnchanged == UNCHANGED <<live, doorVars, tokenMemory, job, handed, clock,
                               historyVars, roomOf>>

Connect(u) ==
  /\ ws[u] = "none"
  /\ ws' = [ws EXCEPT ![u] = "connecting"]
  /\ awaited' = awaited \cup ({u} \ Steady)
  /\ registered' = registered \cup {u}
  /\ lastPong' = [lastPong EXCEPT ![u] = clock]
  /\ UNCHANGED memberVars /\ socketUnchanged

Open(u) ==
  /\ ws[u] = "connecting"
  /\ ws' = [ws EXCEPT ![u] = "open"]
  /\ UNCHANGED <<awaited, lastPong, registered, memberVars>> /\ socketUnchanged

\* The connection breaks or the peer starts closing: readyState leaves OPEN,
\* no callback has run yet.
Drop(u) ==
  /\ ws[u] \in {"connecting", "open"} /\ u \notin Steady
  /\ ws' = [ws EXCEPT ![u] = "closing"]
  /\ UNCHANGED <<awaited, lastPong, registered, memberVars>> /\ socketUnchanged

WebsocketReady(u) ==
  /\ u \in awaited /\ ws[u] = "open"
  /\ awaited' = awaited \ {u}
  /\ UNCHANGED <<ws, lastPong, registered, memberVars>> /\ socketUnchanged

\* The three tries of waitWebsocketOpen are over; an early close counts.
WebsocketNotReady(u) ==
  /\ u \in awaited /\ ws[u] # "open" /\ u \notin Steady
  /\ awaited' = awaited \ {u}
  /\ ws' = [ws EXCEPT ![u] = IF @ = "closed" THEN @ ELSE "closing"]
  /\ cleanupUser(u)
  /\ UNCHANGED lastPong /\ socketUnchanged

OnError(u) ==
  /\ ws[u] \in {"connecting", "open", "closing"} /\ u \notin Steady
  /\ ws' = [ws EXCEPT ![u] = "closing"]
  /\ cleanupUser(u)
  /\ UNCHANGED <<awaited, lastPong>> /\ socketUnchanged

OnClose(u) ==
  /\ ws[u] = "closing"
  /\ ws' = [ws EXCEPT ![u] = "closed"]
  /\ cleanupUser(u)
  /\ UNCHANGED <<awaited, lastPong>> /\ socketUnchanged

OnPong(u) ==
  /\ ws[u] = "open" /\ u \notin Steady
  /\ lastPong' = [lastPong EXCEPT ![u] = clock]
  /\ UNCHANGED <<ws, awaited, registered, memberVars>> /\ socketUnchanged

-----------------------------------------------------------------------------
(* Requests.  onmessage only fires on an open socket. *)

Start(s, kind, u, t) ==
  /\ job[s] = Idle
  /\ job' = [job EXCEPT ![s] = [kind |-> kind, user |-> u, token |-> t]]
Runs(s, kind) == job[s] # Idle /\ job[s].kind = kind
Finish(s) == job' = [job EXCEPT ![s] = Idle]

\* A token just built; user.send only writes to an open socket.
Reply(u, t) ==
  /\ built' = built \cup {t}
  /\ handed' = IF ws[u] = "open" THEN handed \cup {t} ELSE handed

CreateRoom(u, n, s) ==
  /\ ws[u] = "open"
  /\ \E r \in Rooms : Fresh(r) /\ Start(s, "create", u, NewToken(n, r))
  /\ UNCHANGED <<socketVars, roomOf, registered, live, memberVars, doorVars,
                 tokenMemory, handed, clock, historyVars>>

\* buildRoom's promise: the Room is constructed around its owner.
CreateDone(s) ==
  /\ Runs(s, "create")
  /\ LET t == job[s].token  u == job[s].user  r == t.room IN
     /\ roomOf' = [roomOf EXCEPT ![u] = r]
     /\ live' = live \cup {r}
     /\ addUser(u, t)
     /\ ownerUsername' = [ownerUsername EXCEPT ![r] = t.name]
     /\ lastVisitorDate' = [lastVisitorDate EXCEPT ![r] = clock]
     /\ Reply(u, t)
  /\ Finish(s)
  /\ UNCHANGED <<socketVars, registered, locked, invitations, clock, guests>>

\* The checks generateInvitation and lockRoom share.
ActsAsOwner(u, r) ==
  ws[u] = "open" /\ roomOf[u] = r /\ r \in live /\ Has(r, u) /\ isOwner(r, u)

\* Mutant of GenerateInvitation: the lifespan is subtracted.
GenerateStaleInvitation(u, r) ==
  /\ ActsAsOwner(u, r)
  /\ invitations' =
       [invitations EXCEPT ![r] = @ \cup {clock - InvitationLife}]
  /\ UNCHANGED <<socketVars, roomOf, registered, live, memberVars,
                 ownerUsername, locked, tokenMemory, job, handed,
                 clock, historyVars>>
GenerateInvitation(u, r) ==
  /\ ActsAsOwner(u, r)
  /\ invitations' =
       [invitations EXCEPT ![r] = @ \cup {clock + InvitationLife}]
  /\ UNCHANGED <<socketVars, roomOf, registered, live, memberVars,
                 ownerUsername, locked, tokenMemory, job, handed,
                 clock, historyVars>>

LockRoom(u, r, b) ==
  /\ ActsAsOwner(u, r)
  /\ locked' = [locked EXCEPT ![r] = b]
  /\ UNCHANGED <<socketVars, roomOf, registered, live, memberVars,
                 ownerUsername, invitations, tokenMemory, job, handed,
                 clock, historyVars>>

\* joinRoom's sendSuccess up to its await: the room id is set, the user is not
\* in the room yet.
SendSuccess(u, t) ==
  /\ roomOf' = [roomOf EXCEPT ![u] = t.room]
  /\ UNCHANGED <<socketVars, registered, live, memberVars, doorVars,
                 tokenMemory, handed, clock, built, lastSeen>>

\* Mutant of JoinByInvitation: the lock is not read.
JoinLockedRoom(u, r, n, s) ==
  /\ ws[u] = "open" /\ r \in live
  /\ ~Has(r, u)
  /\ isUniqueUsername(r, n)
  /\ invitations[r] # {}
  /\ SendSuccess(u, NewToken(n, r))
  /\ Start(s, "add", u, NewToken(n, r))
  /\ guests' = [guests EXCEPT ![r] = @ \cup {n}]
JoinByInvitation(u, r, n, s) ==
  /\ ws[u] = "open" /\ r \in live
  /\ ~Has(r, u)
  /\ isUniqueUsername(r, n)
  /\ ~locked[r]
  /\ invitations[r] # {}
  /\ SendSuccess(u, NewToken(n, r))
  /\ Start(s, "add", u, NewToken(n, r))
  /\ guests' = [guests EXCEPT ![r] = @ \cup {n}]

\* A token is checked for its date when presented, for its signature later.
PresentToken(u, t, kind, s) ==
  /\ ws[u] = "open" /\ t \in handed /\ ~Expired(t)
  /\ Start(s, kind, u, t)
  /\ UNCHANGED <<socketVars, roomOf, registered, live, memberVars, doorVars,
                 tokenMemory, handed, clock, historyVars>>

JoinByToken(u, t, s) == PresentToken(u, t, "verify", s)
RenewToken(u, t, s) == u \in Renewers /\ PresentToken(u, t, "renew", s)

\* Mutant of Accepts: the remembered token is enough, even in use.
AcceptsInUse(t) ==
  /\ t.room \in live
  /\ isUniqueUsername(t.room, t.name) \/ t \in tokenMemory[t.room]
\* The name is free, or remembered for this very token and not in use.
Accepts(t) ==
  /\ t.room \in live
  /\ \/ isUniqueUsername(t.room, t.name)
     \/ t \in tokenMemory[t.room] /\ ~isInUseUsername(t.room, t.name)

\* Mutant of TokenAccepted: the room is not the one the token was signed for.
TokenAcceptedAnywhere(s) ==
  /\ Runs(s, "verify") /\ Accepts(job[s].token)
  /\ \E r \in live : LET t == NewToken(job[s].token.name, r) IN
       /\ SendSuccess(job[s].user, t)
       /\ job' = [job EXCEPT ![s].kind = "add", ![s].token = t]
  /\ UNCHANGED guests
TokenAccepted(s) ==
  /\ Runs(s, "verify") /\ Accepts(job[s].token)
  /\ LET t == NewToken(job[s].token.name, job[s].token.room) IN
     /\ SendSuccess(job[s].user, t)
     /\ job' = [job EXCEPT ![s].kind = "add", ![s].token = t]
  /\ UNCHANGED guests

TokenRefused(s) ==
  /\ Runs(s, "verify") /\ ~Accepts(job[s].token)
  /\ Finish(s)
  /\ UNCHANGED <<socketVars, roomOf, registered, live, memberVars, doorVars,
                 tokenMemory, handed, clock, historyVars>>

\* Room.addUser's promise: the Room may have left the rooms map meanwhile,
\* and the socket may be closed.
JoinDone(s) ==
  /\ Runs(s, "add")
  /\ addUser(job[s].user, job[s].token)
  /\ Reply(job[s].user, job[s].token)
  /\ Finish(s)
  /\ UNCHANGED <<socketVars, roomOf, registered, live, lastVisitorDate,
                 doorVars, clock, guests>>

RenewValidated(s) ==
  /\ Runs(s, "renew")
  /\ job' = [job EXCEPT ![s].kind = "reissue",
               ![s].token = NewToken(job[s].token.name, job[s].token.room)]
  /\ UNCHANGED <<socketVars, roomOf, registered, live, memberVars, doorVars,
                 tokenMemory, handed, clock, historyVars>>

\* The renewed token is sent; the room's memory keeps the old one.
RenewDone(s) ==
  /\ Runs(s, "reissue")
  /\ Reply(job[s].user, job[s].token)
  /\ Finish(s)
  /\ UNCHANGED <<socketVars, roomOf, registered, live, memberVars, doorVars,
                 tokenMemory, clock, guests, lastSeen>>

\* buildToken rejects: CannotGenerateToken, what was set before stays set.
BuildFailed(s) ==
  /\ Runs(s, "create") \/ Runs(s, "add") \/ Runs(s, "reissue")
  /\ Finish(s)
  /\ UNCHANGED <<socketVars, roomOf, registered, live, memberVars, doorVars,
                 tokenMemory, handed, clock, historyVars>>

LeaveRoom(u) ==
  /\ ws[u] = "open" /\ roomOf[u] \in live
  /\ removeUsers({u})
  /\ roomOf' = [roomOf EXCEPT ![u] = NoRoom]
  /\ UNCHANGED <<socketVars, registered, live, doorVars, tokenMemory, job,
                 handed, clock, historyVars>>

-----------------------------------------------------------------------------
(* The garbage collector and time *)

Disconnected == {u \in registered :
                   ws[u] # "open" /\ clock - lastPong[u] > PongDelay}

CleanDisconnectedUsers ==
  /\ removeUsers(Disconnected)
  /\ registered' = registered \ Disconnected

\* Mutant of CleanEmptyRooms: the comparison is the wrong way round.
CleanYoungRooms ==
  live' = {r \in live : ~(/\ users'[r] = {}
                          /\ clock < lastVisitorDate'[r] + EmptyRoomLife)}
CleanEmptyRooms ==
  live' = {r \in live : ~(/\ users'[r] = {}
                          /\ lastVisitorDate'[r] + EmptyRoomLife < clock)}

\* validateToken refuses an expired token before it awaits anything: its catch
\* handler runs when the pass has ended, before any other event.
ForgetBefore(now) ==
  tokenMemory' = [r \in Rooms |->
    IF r \in live' THEN {t \in tokenMemory[r] : ~(t.exp < now)} ELSE tokenMemory[r]]
\* Mutant of CleanExpiredRoomMemory: a token is dropped one unit too early.
CleanExpiringRoomMemory == ForgetBefore(clock + 1)
CleanExpiredRoomMemory == ForgetBefore(clock)

\* Mutant of CleanExpiredInvitations: it removes those still in force.
CleanValidInvitations ==
  invitations' = [r \in Rooms |->
    IF r \in live' THEN {e \in invitations[r] : e < clock} ELSE invitations[r]]
CleanExpiredInvitations ==
  invitations' = [r \in Rooms |->
    IF r \in live' THEN {e \in invitations[r] : ~(e < clock)} ELSE invitations[r]]

\* One pass of the interval timer: the four cleaners in their order, in one event.
CollectGarbage ==
  /\ CleanDisconnectedUsers
  /\ CleanEmptyRooms
  /\ CleanExpiredRoomMemory
  /\ CleanExpiredInvitations
  /\ UNCHANGED <<socketVars, roomOf, ownerUsername, locked, job, handed, clock,
                 historyVars>>

Tick ==
  /\ clock < MaxClock
  /\ clock' = clock + 1
  /\ lastSeen' = [r \in Rooms |-> IF users[r] # {} THEN clock' ELSE lastSeen[r]]
  /\ UNCHANGED <<socketVars, roomOf, registered, live, memberVars, doorVars,
                 tokenMemory, job, handed, guests, built>>

-----------------------------------------------------------------------------
Init ==
  /\ ws = [u \in Users |-> "none"]
  /\ awaited = {} /\ registered = {} /\ live = {}
  /\ lastPong = [u \in Users |-> 0]
  /\ roomOf = [u \in Users |-> NoRoom]
  /\ users = [r \in Rooms |-> {}]
  /\ before = [r \in Rooms |-> {}]
  /\ ownerUsername = [r \in Rooms |-> NoName]
  /\ tokenMemory = [r \in Rooms |-> {}]
  /\ locked = [r \in Rooms |-> FALSE]
  /\ invitations = [r \in Rooms |-> {}]
  /\ lastVisitorDate = [r \in Rooms |-> 0]
  /\ job = [s \in Slots |-> Idle]
  /\ handed = {} /\ built = {}
  /\ clock = 0
  /\ guests = [r \in Rooms |-> {}]
  /\ lastSeen = [r \in Rooms |-> 0]

SocketStep(u) ==
  \/ Connect(u) \/ Open(u) \/ Drop(u) \/ OnPong(u)
  \/ WebsocketReady(u) \/ WebsocketNotReady(u) \/ OnError(u) \/ OnClose(u)

RequestStep(u) ==
  \/ LeaveRoom(u)
  \/ \E r \in Rooms : GenerateInvitation(u, r)
  \/ \E r \in Rooms, b \in BOOLEAN : LockRoom(u, r, b)
  \/ \E n \in Names, s \in Slots : CreateRoom(u, n, s)
  \/ \E r \in Rooms, n \in Names, s \in Slots : JoinByInvitation(u, r, n, s)
  \/ \E t \in handed, s \in Slots : JoinByToken(u, t, s)
  \/ \E t \in handed, s \in Slots : RenewToken(u, t, s)

\* A promise of slot s settles.
Settle(s) ==
  \/ CreateDone(s) \/ JoinDone(s) \/ TokenAccepted(s) \/ TokenRefused(s)
  \/ RenewValidated(s) \/ RenewDone(s) \/ BuildFailed(s)

Next ==
  \/ \E u \in Users : SocketStep(u) \/ RequestStep(u)
  \/ \E s \in Slots : Settle(s)
  \/ CollectGarbage
  \/ Tick

Spec == Init /\ [][Next]_vars

\* The runtime reports a closed socket, settles promises, fires the interval
\* timer; wall-clock time passes.  Nothing forces a client to ask anything.
Fairness ==
  /\ \A u \in Users : WF_vars(OnClose(u))
  /\ \A s \in Slots : WF_vars(Settle(s))
  /\ WF_vars(CollectGarbage)
  /\ WF_vars(Tick)

FairSpec == Spec /\ Fairness

-----------------------------------------------------------------------------
(* Safety *)

\* Whoever is in a room carries a name the room accepted by invitation, or its
\* creator's, through any chain of tokens and continuations (joinRoom).
OnInvitationOnly ==
  \A r \in Rooms : \A m \in users[r] :
    m.name \in guests[r] \cup {ownerUsername[r]}

\* The name of a participant stays reserved in the room's memory as long as no
\* token for that name has expired: the collector, which deletes by name, never
\* frees the name of a room that has only fresh tokens.
ExpiredName(r, n) == \E t \in built : t.room = r /\ t.name = n /\ Expired(t)
NameReservedUntilExpiry ==
  \A r \in Rooms : \A m \in users[r] :
    ~isUniqueUsername(r, m.name) \/ ExpiredName(r, m.name)

\* A room is discarded only once it has stood empty for longer than its
\* lifespan, counted from the last moment anybody was in it, however that
\* participant went (leaveRoom, onclose, onerror, the collector).
DiscardedAfterVacancy ==
  [][\A r \in live \ live' :
       users'[r] = {} /\ lastSeen[r] + EmptyRoomLife < clock]_vars

(* Liveness *)

\* A participant whose socket goes down leaves the room it points at, unless
\* a request of its own is still being served: by onclose or by the collector,
\* whichever comes first.
Pending(u) == \E s \in Slots : job[s] # Idle /\ job[s].user = u
DroppedLeavesRoom ==
  \A u \in Users, r \in Rooms :
    (ws[u] = "closing" /\ ~Pending(u) /\ roomOf[u] = r /\ r \in live)
      ~> (~Has(r, u) \/ r \notin live)

\* A live room that has stood empty for its whole lifespan does not stay so: it
\* is discarded, somebody comes back, or a late cleanup of somebody who had
\* pointed at it counts as a new visit.
Overdue(r) ==
  r \in live /\ users[r] = {} /\ lastVisitorDate[r] + EmptyRoomLife < clock
VacantRoomDiscarded == \A r \in Rooms : Overdue(r) ~> ~Overdue(r)

\* An invitation past its date goes, or its room does.
ExpiredInvitationRemoved ==
  \A r \in Rooms, e \in 0 .. MaxClock :
    (r \in live /\ e \in invitations[r] /\ e < clock)
      ~> (r \notin live \/ e \notin invitations[r])
=============================================================================
