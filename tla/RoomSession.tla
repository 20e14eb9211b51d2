----------------------------- MODULE RoomSession -----------------------------
(***************************************************************************)
(* The participants' views of one room: what the server pushes about       *)
(* members and the lock (controller.ts, ws.ts), and what each browser page *)
(* makes of it (join-room, room and room-manager components, RoomState).   *)
(*                                                                         *)
(* A client is one page with one websocket.  Both directions of a          *)
(* websocket are FIFO.  A page only listens to pushes from the moment its  *)
(* GET_ROOM reply has arrived; whom it finds there it initiates, whom it   *)
(* hears of later it waits for.                                            *)
(***************************************************************************)
EXTENDS Naturals, Sequences

CONSTANTS
  Clients,
  Owner,      \* the client that carries the owner's name
  Fragile,    \* bound: clients whose page quits or whose socket fails
  MaxStays,   \* bound: times a client joins
  MaxPending  \* bound: the owner locks only while nobody lags further behind

ASSUME OwnerAssumption == Owner \in Clients /\ Fragile \subseteq Clients
ASSUME BoundsAssumption == MaxStays \in Nat /\ MaxPending \in Nat

Pages == {"home", "joining", "entering", "room", "gone"}
Roles == {"none", "impolite", "polite"}

VARIABLES
  \* server
  sock,      \* the websocket of each client: "open", "closing", "closed"
  members,   \* Room._users
  adding,    \* clients whose addUser continuation is pending
  pointing,  \* clients whose User._roomId is the room
  locked,    \* Room._locked
  \* network
  requests,  \* client to server
  pushes,    \* server to client
  \* pages
  page,
  stays,     \* joins made so far
  list,      \* RoomState._room.users: how often each client is listed
  role,      \* PeerController: the part played towards each peer, if any
  lockView,  \* RoomState._room.locked
  manager    \* the owner's popup: open, pending, its room object and its age

serverVars == <<sock, members, adding, pointing, locked>>
viewVars   == <<list, role, lockView, manager>>
sessionVars == <<serverVars, requests, pushes, page, stays, viewVars>>

Request == [type : {"join", "get", "leave"}] \cup [type : {"lock"}, locked : BOOLEAN]
Push ==
  [type : {"joined", "refused", "lockRefused"}]
  \cup [type : {"connected", "disconnected"}, user : Clients]
  \cup [type : {"lock", "lockReply"}, locked : BOOLEAN]
  \cup [type : {"room"}, users : SUBSET Clients, locked : BOOLEAN]
\* own: its room object is still the one RoomState shows.
Manager == [open : BOOLEAN, pending : BOOLEAN, locked : BOOLEAN, own : BOOLEAN]

NoOne == [d \in Clients |-> 0]
NoPeers == [d \in Clients |-> "none"]
ClosedManager == [open |-> FALSE, pending |-> FALSE, locked |-> FALSE, own |-> FALSE]

SessionTypeOK ==
  /\ sock \in [Clients -> {"open", "closing", "closed"}]
  /\ members \subseteq Clients /\ adding \subseteq Clients /\ pointing \subseteq Clients
  /\ locked \in BOOLEAN
  /\ requests \in [Clients -> Seq(Request)]
  /\ pushes \in [Clients -> Seq(Push)]
  /\ page \in [Clients -> Pages]
  /\ stays \in [Clients -> 0 .. MaxStays]
  /\ list \in [Clients -> [Clients -> Nat]]
  /\ role \in [Clients -> [Clients -> Roles]]
  /\ lockView \in [Clients -> BOOLEAN]
  /\ manager \in [Clients -> Manager]

-----------------------------------------------------------------------------
(* The server *)

\* user.send writes to an open socket only.
Sent(c, ms) == IF sock[c] = "open" THEN pushes[c] \o ms ELSE pushes[c]
\* A reply to c and a push to everybody else in the room.
Announce(c, reply, room, push) ==
  pushes' = [d \in Clients |-> IF d = c THEN Sent(c, reply)
                               ELSE IF d \in room THEN Sent(d, <<push>>)
                               ELSE pushes[d]]
Reply(c, m) == pushes' = [pushes EXCEPT ![c] = Sent(c, <<m>>)]

\* The socket hands over its messages until its close.
Serves(c, type) ==
  /\ sock[c] # "closed" /\ requests[c] # <<>> /\ Head(requests[c]).type = type
  /\ requests' = [requests EXCEPT ![c] = Tail(@)]
  /\ UNCHANGED <<sock, page, stays, viewVars>>

\* joinRoom up to the await of the token; who may join is RoomServer's matter.
ServeJoin(c) ==
  /\ Serves(c, "join")
  /\ adding' = adding \cup {c} /\ pointing' = pointing \cup {c}
  /\ UNCHANGED <<members, locked, pushes>>
RefuseJoin(c) ==
  /\ Serves(c, "join")
  /\ Reply(c, [type |-> "refused"])
  /\ UNCHANGED <<members, adding, pointing, locked>>

\* Mutant of JoinDone: a newcomer that cannot be answered is not announced.
JoinDoneIfAnswered(c) ==
  /\ c \in adding
  /\ adding' = adding \ {c}
  /\ members' = members \cup {c}
  /\ IF sock[c] = "open"
     THEN Announce(c, <<[type |-> "joined"]>>, members,
                   [type |-> "connected", user |-> c])
     ELSE UNCHANGED pushes
  /\ UNCHANGED <<sock, pointing, locked, requests, page, stays, viewVars>>
\* Room.addUser's promise, whatever has become of the socket meanwhile.
JoinDone(c) ==
  /\ c \in adding
  /\ adding' = adding \ {c}
  /\ members' = members \cup {c}
  /\ Announce(c, <<[type |-> "joined"]>>, members,
              [type |-> "connected", user |-> c])
  /\ UNCHANGED <<sock, pointing, locked, requests, page, stays, viewVars>>
JoinFailed(c) ==
  /\ c \in adding
  /\ adding' = adding \ {c}
  /\ Reply(c, [type |-> "refused"])
  /\ UNCHANGED <<sock, members, pointing, locked, requests, page, stays, viewVars>>

\* A page asks once it has been told it joined: it is in the room by then.
ServeGetRoom(c) ==
  /\ Serves(c, "get") /\ c \in pointing \cap members
  /\ Reply(c, [type |-> "room", users |-> members, locked |-> locked])
  /\ UNCHANGED <<members, adding, pointing, locked>>

\* Mutant of ServeLeave: the others are not told.
LeaveUnannounced(c) ==
  /\ Serves(c, "leave")
  /\ members' = IF c \in pointing THEN members \ {c} ELSE members
  /\ pointing' = pointing \ {c}
  /\ UNCHANGED <<adding, locked, pushes>>
ServeLeave(c) ==
  /\ Serves(c, "leave")
  /\ members' = IF c \in pointing THEN members \ {c} ELSE members
  /\ pointing' = pointing \ {c}
  /\ IF c \in pointing
     THEN Announce(c, <<>>, members, [type |-> "disconnected", user |-> c])
     ELSE UNCHANGED pushes
  /\ UNCHANGED <<adding, locked>>

\* Mutant of ServeLock: the lock is announced before it is changed.
LockAnnouncedEarly(c) ==
  /\ Serves(c, "lock") /\ c \in pointing \cap members
  /\ LET b == Head(requests[c]).locked IN
     /\ locked' = b
     /\ Announce(c, <<[type |-> "lockReply", locked |-> b]>>, members,
                 [type |-> "lock", locked |-> locked])
  /\ UNCHANGED <<members, adding, pointing>>
ServeLock(c) ==
  /\ Serves(c, "lock") /\ c \in pointing \cap members
  /\ LET b == Head(requests[c]).locked IN
     /\ locked' = b
     /\ Announce(c, <<[type |-> "lockReply", locked |-> b]>>, members,
                 [type |-> "lock", locked |-> b])
  /\ UNCHANGED <<members, adding, pointing>>
\* Whether the client has the owner's privileges is RoomServer's matter.
RefuseLock(c) ==
  /\ Serves(c, "lock")
  /\ Reply(c, [type |-> "lockRefused"])
  /\ UNCHANGED <<members, adding, pointing, locked>>

\* Mutant of OnClose: the others are not told.
CloseUnannounced(c) ==
  /\ sock[c] = "closing" \/ (sock[c] = "open" /\ c \in Fragile)
  /\ sock' = [sock EXCEPT ![c] = "closed"]
  /\ requests' = [requests EXCEPT ![c] = <<>>]
  /\ members' = IF c \in pointing THEN members \ {c} ELSE members
  /\ UNCHANGED <<adding, pointing, locked, pushes, page, stays, viewVars>>
\* onclose: cleanupUser.  Requests not handed over by then are lost.
OnClose(c) ==
  /\ sock[c] = "closing" \/ (sock[c] = "open" /\ c \in Fragile)
  /\ sock' = [sock EXCEPT ![c] = "closed"]
  /\ requests' = [requests EXCEPT ![c] = <<>>]
  /\ members' = IF c \in pointing THEN members \ {c} ELSE members
  /\ IF c \in pointing
     THEN Announce(c, <<>>, members, [type |-> "disconnected", user |-> c])
     ELSE UNCHANGED pushes
  /\ UNCHANGED <<adding, pointing, locked, page, stays, viewVars>>

-----------------------------------------------------------------------------
(* The pages *)

Asks(c, r) == requests' = [requests EXCEPT ![c] = Append(@, r)]
Hears(c, type) ==
  /\ pushes[c] # <<>> /\ Head(pushes[c]).type = type
  /\ pushes' = [pushes EXCEPT ![c] = Tail(@)]
  /\ UNCHANGED <<serverVars, stays>>

\* join-room: the token or the invitation is presented.
Join(c) ==
  /\ page[c] = "home" /\ sock[c] = "open" /\ stays[c] < MaxStays
  /\ page' = [page EXCEPT ![c] = "joining"]
  /\ stays' = [stays EXCEPT ![c] = @ + 1]
  /\ Asks(c, [type |-> "join"])
  /\ UNCHANGED <<serverVars, pushes, viewVars>>

OnJoined(c) ==
  /\ Hears(c, "joined")
  /\ IF page[c] = "joining"
     THEN page' = [page EXCEPT ![c] = "entering"] /\ Asks(c, [type |-> "get"])
     ELSE UNCHANGED <<page, requests>>
  /\ UNCHANGED viewVars
OnRefused(c) ==
  /\ Hears(c, "refused")
  /\ page' = [page EXCEPT ![c] = IF @ = "joining" THEN "home" ELSE @]
  /\ UNCHANGED <<requests, viewVars>>

\* Mutant of OnRoom: the initiate argument is left to its default.
OnRoomPolitely(c) ==
  /\ Hears(c, "room")
  /\ page' = [page EXCEPT ![c] = "room"]
  /\ LET m == Head(pushes[c]) IN
     /\ list' = [list EXCEPT ![c] = [d \in Clients |-> IF d \in m.users THEN 1 ELSE 0]]
     /\ role' = [role EXCEPT ![c] =
          [d \in Clients |-> IF d \in m.users \ {c} THEN "polite" ELSE "none"]]
     /\ lockView' = [lockView EXCEPT ![c] = m.locked]
  /\ UNCHANGED <<requests, manager>>
\* RoomState.init: the page waits for the reply and cannot be left before
\* (canDeactivate throws as long as roomProperties is undefined).
OnRoom(c) ==
  /\ Hears(c, "room")
  /\ IF page[c] = "entering"
     THEN LET m == Head(pushes[c]) IN
          /\ page' = [page EXCEPT ![c] = "room"]
          /\ list' = [list EXCEPT ![c] =
               [d \in Clients |-> IF d \in m.users THEN 1 ELSE 0]]
          /\ role' = [role EXCEPT ![c] =
               [d \in Clients |-> IF d \in m.users \ {c} THEN "impolite" ELSE "none"]]
          /\ lockView' = [lockView EXCEPT ![c] = m.locked]
     ELSE UNCHANGED <<page, list, role, lockView>>
  /\ UNCHANGED <<requests, manager>>
\* Every _setRoom makes a new room object: an open popup keeps the old one.
Renewed(c) == manager' = [manager EXCEPT ![c].own = FALSE]

\* _room.users is appended to; a controller is made for an id not listed yet.
OnUserConnected(c) ==
  /\ Hears(c, "connected")
  /\ LET d == Head(pushes[c]).user IN
     IF page[c] = "room"
     THEN /\ list' = [list EXCEPT ![c][d] = @ + 1]
          /\ role' = [role EXCEPT ![c][d] = IF list[c][d] = 0 THEN "polite" ELSE @]
          /\ Renewed(c)
     ELSE UNCHANGED <<list, role, manager>>
  /\ UNCHANGED <<requests, page, lockView>>
\* Mutant of OnUserDisconnected: the id is taken out without being looked for.
OnUserDropped(c) ==
  /\ Hears(c, "disconnected")
  /\ LET d == Head(pushes[c]).user IN
     IF page[c] = "room"
     THEN /\ list' = [list EXCEPT ![c][d] = @ - 1]
          /\ role' = [role EXCEPT ![c][d] = "none"]
          /\ Renewed(c)
     ELSE UNCHANGED <<list, role, manager>>
  /\ UNCHANGED <<requests, page, lockView>>
OnUserDisconnected(c) ==
  /\ Hears(c, "disconnected")
  /\ LET d == Head(pushes[c]).user IN
     IF page[c] = "room"
     THEN /\ list' = [list EXCEPT ![c][d] = 0]
          /\ role' = [role EXCEPT ![c][d] = IF list[c][d] > 0 THEN "none" ELSE @]
          /\ Renewed(c)
     ELSE UNCHANGED <<list, role, manager>>
  /\ UNCHANGED <<requests, page, lockView>>
OnPushLock(c) ==
  /\ Hears(c, "lock")
  /\ IF page[c] = "room"
     THEN lockView' = [lockView EXCEPT ![c] = Head(pushes[c]).locked] /\ Renewed(c)
     ELSE UNCHANGED <<lockView, manager>>
  /\ UNCHANGED <<requests, page, list, role>>

\* The popup takes the room object of the moment and writes its lock itself.
OpenManager(c) ==
  /\ c = Owner /\ page[c] = "room" /\ ~manager[c].open
  /\ manager' = [manager EXCEPT ![c] =
       [open |-> TRUE, pending |-> FALSE, locked |-> lockView[c], own |-> TRUE]]
  /\ UNCHANGED <<serverVars, requests, pushes, page, stays, list, role, lockView>>
CloseManager(c) ==
  /\ manager[c].open /\ ~manager[c].pending
  /\ manager' = [manager EXCEPT ![c] = ClosedManager]
  /\ UNCHANGED <<serverVars, requests, pushes, page, stays, list, role, lockView>>
ToggleLock(c) ==
  /\ page[c] = "room" /\ manager[c].open /\ ~manager[c].pending
  /\ \A d \in Clients : Len(pushes[d]) <= MaxPending
  /\ manager' = [manager EXCEPT ![c].pending = TRUE]
  /\ Asks(c, [type |-> "lock", locked |-> ~manager[c].locked])
  /\ UNCHANGED <<serverVars, pushes, page, stays, list, role, lockView>>
OnLockReply(c) ==
  /\ Hears(c, "lockReply")
  /\ LET b == Head(pushes[c]).locked IN
     IF manager[c].open
     THEN /\ manager' = [manager EXCEPT ![c].pending = FALSE, ![c].locked = b]
          /\ lockView' = [lockView EXCEPT ![c] = IF manager[c].own THEN b ELSE @]
     ELSE UNCHANGED <<manager, lockView>>
  /\ UNCHANGED <<requests, page, list, role>>

OnLockRefused(c) ==
  /\ Hears(c, "lockRefused")
  /\ manager' = [manager EXCEPT ![c].pending = FALSE]
  /\ UNCHANGED <<requests, page, list, role, lockView>>

\* RoomComponent.ngOnDestroy: the controllers are closed, then leaveRoom sent.
Destroyed(c) ==
  /\ list' = [list EXCEPT ![c] = NoOne]
  /\ role' = [role EXCEPT ![c] = NoPeers]
  /\ lockView' = [lockView EXCEPT ![c] = FALSE]
  /\ manager' = [manager EXCEPT ![c] = ClosedManager]
Leave(c) ==
  /\ page[c] = "room" /\ sock[c] = "open"
  /\ page' = [page EXCEPT ![c] = "home"]
  /\ Destroyed(c)
  /\ Asks(c, [type |-> "leave"])
  /\ UNCHANGED <<serverVars, pushes, stays>>
\* The page is closed or reloaded, or reconnects after its socket has closed:
\* it comes back, if at all, as another client.
Quit(c) ==
  /\ c \in Fragile /\ page[c] # "gone"
  /\ page' = [page EXCEPT ![c] = "gone"]
  /\ sock' = [sock EXCEPT ![c] = IF @ = "open" THEN "closing" ELSE @]
  /\ Destroyed(c)
  /\ UNCHANGED <<members, adding, pointing, locked, requests, pushes, stays>>

-----------------------------------------------------------------------------
Init ==
  /\ sock = [c \in Clients |-> "open"]
  /\ members = {} /\ adding = {} /\ pointing = {} /\ locked = FALSE
  /\ requests = [c \in Clients |-> <<>>]
  /\ pushes = [c \in Clients |-> <<>>]
  /\ page = [c \in Clients |-> "home"]
  /\ stays = [c \in Clients |-> 0]
  /\ list = [c \in Clients |-> NoOne]
  /\ role = [c \in Clients |-> NoPeers]
  /\ lockView = [c \in Clients |-> FALSE]
  /\ manager = [c \in Clients |-> ClosedManager]

ServerStep(c) ==
  \/ ServeJoin(c) \/ RefuseJoin(c) \/ JoinDone(c) \/ JoinFailed(c)
  \/ ServeGetRoom(c) \/ ServeLeave(c) \/ ServeLock(c) \/ RefuseLock(c)
  \/ OnClose(c)
HearStep(c) ==
  \/ OnJoined(c) \/ OnRefused(c) \/ OnRoom(c)
  \/ OnUserConnected(c) \/ OnUserDisconnected(c) \/ OnPushLock(c)
  \/ OnLockReply(c) \/ OnLockRefused(c)
UserStep(c) ==
  \/ Join(c) \/ Leave(c) \/ Quit(c)
  \/ OpenManager(c) \/ CloseManager(c) \/ ToggleLock(c)

Next == \E c \in Clients : ServerStep(c) \/ HearStep(c) \/ UserStep(c)
Spec == Init /\ [][Next]_sessionVars

\* The network delivers, the server serves and settles; users are free.
Fairness ==
  \A c \in Clients :
    /\ WF_sessionVars(ServeJoin(c) \/ RefuseJoin(c) \/ ServeGetRoom(c)
                      \/ ServeLeave(c) \/ ServeLock(c) \/ RefuseLock(c))
    /\ WF_sessionVars(JoinDone(c) \/ JoinFailed(c))
    /\ WF_sessionVars(sock[c] = "closing" /\ OnClose(c))
    /\ WF_sessionVars(HearStep(c))
FairSpec == Spec /\ Fairness

-----------------------------------------------------------------------------
(* Properties *)

Listed(c) == {d \in Clients : list[c][d] > 0}
InRoom(c) == page[c] = "room" /\ sock[c] = "open"
Drained(c) == pushes[c] = <<>>

\* A page that has heard everything the server had to say lists exactly the
\* members of the room: no join or leave falls between the GET_ROOM reply and
\* the first push (RoomState.init, _onSocketMessage).
ViewsCurrent == \A c \in Clients : InRoom(c) /\ Drained(c) => Listed(c) = members

\* Nobody is listed twice, although PUSH_USER_CONNECTED is appended without
\* looking whether the id is there already.
NobodyListedTwice == \A c, d \in Clients : list[c][d] <= 1

\* Of two pages that each have a controller for the other, one initiates: they
\* never both wait for the other's offer.
SomebodyInitiates ==
  \A c, d \in Clients : ~(role[c][d] = "polite" /\ role[d][c] = "polite")

\* A guest's page that has heard everything shows the lock as it is.
LockShownToGuests ==
  \A c \in Clients \ {Owner} : InRoom(c) /\ Drained(c) => lockView[c] = locked

\* Whoever is added to the room is seen by everybody who is there, unless one
\* of the two goes.
NewcomerSeen ==
  \A c, d \in Clients :
    (c \in members /\ InRoom(d)) ~> (d \notin members \/ ~InRoom(d)
                                     \/ c \notin members \/ c \in Listed(d))

(* What a document says and the pages do not do *)

\* client/README.md:13: the negotiation pattern, which gives every pair one
\* polite and one impolite side, is implemented.  Two pages whose GET_ROOM
\* replies both follow both joins each take the initiative.
OneIsPolite ==
  \A c, d \in Clients : ~(role[c][d] = "impolite" /\ role[d][c] = "impolite")
=============================================================================
