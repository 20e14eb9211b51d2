--------------------------- MODULE RoomSessionProofs ---------------------------
(***************************************************************************)
(* Proofs about RoomSession, for any clients and any bounds: its types and *)
(* what the pages of a room may rely on when they show it.                 *)
(***************************************************************************)
EXTENDS RoomSession, SequenceTheorems, TLAPS

-----------------------------------------------------------------------------
(* Messages and queues *)

\* The messages the server and the pages make are messages.
LEMMA PushesMade ==
  /\ {[type |-> "joined"], [type |-> "refused"], [type |-> "lockRefused"]} \subseteq Push
  /\ \A c \in Clients :
       {[type |-> "connected", user |-> c], [type |-> "disconnected", user |-> c]}
         \subseteq Push
  /\ \A b \in BOOLEAN :
       {[type |-> "lock", locked |-> b], [type |-> "lockReply", locked |-> b]}
         \subseteq Push
  /\ \A s \in SUBSET Clients, b \in BOOLEAN :
       [type |-> "room", users |-> s, locked |-> b] \in Push
BY DEF Push

LEMMA PushesRead ==
  ASSUME NEW m \in Push
  PROVE  /\ m.type \in {"joined", "refused", "lockRefused", "connected",
                        "disconnected", "lock", "lockReply", "room"}
         /\ m.type \in {"connected", "disconnected"} => m.user \in Clients
         /\ m.type \in {"lock", "lockReply", "room"} => m.locked \in BOOLEAN
         /\ m.type = "room" => m.users \in SUBSET Clients
BY DEF Push

LEMMA RequestsRead ==
  ASSUME NEW r \in Request
  PROVE  /\ r.type \in {"join", "get", "leave", "lock"}
         /\ r.type = "lock" => r.locked \in BOOLEAN
BY DEF Request

\* Adds m or nothing: what Sent does.
LEMMA SentIs ==
  ASSUME SessionTypeOK, NEW c \in Clients
  PROVE  /\ Sent(c, <<>>) = pushes[c]
         /\ \A m \in Push :
              Sent(c, <<m>>) = IF sock[c] = "open" THEN Append(pushes[c], m) ELSE pushes[c]
<1>1. pushes[c] \in Seq(Push) BY DEF SessionTypeOK
<1>2. pushes[c] \o <<>> = pushes[c] BY <1>1
<1>3. \A m \in Push : pushes[c] \o <<m>> = Append(pushes[c], m) BY <1>1
<1>4. QED BY <1>2, <1>3 DEF Sent

LEMMA SentTyped ==
  ASSUME SessionTypeOK, NEW c \in Clients
  PROVE  /\ Sent(c, <<>>) \in Seq(Push)
         /\ \A m \in Push : Sent(c, <<m>>) \in Seq(Push)
<1>1. pushes[c] \in Seq(Push) BY DEF SessionTypeOK
<1>2. \A m \in Push : Append(pushes[c], m) \in Seq(Push) BY <1>1
<1>3. QED BY <1>1, <1>2, SentIs

LEMMA ReplyTyped ==
  ASSUME SessionTypeOK, NEW c \in Clients, NEW m \in Push, Reply(c, m)
  PROVE  pushes' \in [Clients -> Seq(Push)]
<1>1. Sent(c, <<m>>) \in Seq(Push) BY SentTyped
<1>2. QED BY <1>1 DEF Reply, SessionTypeOK

LEMMA AnnounceTyped ==
  ASSUME SessionTypeOK, NEW c \in Clients, NEW room, NEW m \in Push,
         NEW reply, Announce(c, reply, room, m),
         reply = <<>> \/ \E r \in Push : reply = <<r>>
  PROVE  pushes' \in [Clients -> Seq(Push)]
<1>1. Sent(c, reply) \in Seq(Push) BY SentTyped
<1>2. \A d \in Clients : Sent(d, <<m>>) \in Seq(Push) BY SentTyped
<1>3. QED BY <1>1, <1>2 DEF Announce, SessionTypeOK

LEMMA ServesTyped ==
  ASSUME SessionTypeOK, NEW c \in Clients, NEW t, Serves(c, t)
  PROVE  /\ requests' \in [Clients -> Seq(Request)]
         /\ Head(requests[c]) \in Request
<1>1. requests[c] \in Seq(Request) /\ requests[c] # <<>> BY DEF Serves, SessionTypeOK
<1>2. Tail(requests[c]) \in Seq(Request) /\ Head(requests[c]) \in Request BY <1>1
<1>3. QED BY <1>2 DEF Serves, SessionTypeOK

LEMMA AsksTyped ==
  ASSUME SessionTypeOK, NEW c \in Clients, NEW r \in Request, Asks(c, r)
  PROVE  requests' \in [Clients -> Seq(Request)]
<1>1. requests[c] \in Seq(Request) BY DEF SessionTypeOK
<1>2. Append(requests[c], r) \in Seq(Request) BY <1>1
<1>3. QED BY <1>2 DEF Asks, SessionTypeOK

LEMMA HearsTyped ==
  ASSUME SessionTypeOK, NEW c \in Clients, NEW t, Hears(c, t)
  PROVE  /\ pushes' \in [Clients -> Seq(Push)]
         /\ Head(pushes[c]) \in Push /\ Head(pushes[c]).type = t
<1>1. pushes[c] \in Seq(Push) /\ pushes[c] # <<>> BY DEF Hears, SessionTypeOK
<1>2. Tail(pushes[c]) \in Seq(Push) /\ Head(pushes[c]) \in Push BY <1>1
<1>3. QED BY <1>2 DEF Hears, SessionTypeOK

-----------------------------------------------------------------------------
(* Types *)

ServerTypes ==
  /\ sock \in [Clients -> {"open", "closing", "closed"}]
  /\ members \subseteq Clients /\ adding \subseteq Clients /\ pointing \subseteq Clients
  /\ locked \in BOOLEAN
  /\ requests \in [Clients -> Seq(Request)]
  /\ pushes \in [Clients -> Seq(Push)]
PageTypes ==
  /\ page \in [Clients -> Pages] /\ stays \in [Clients -> 0 .. MaxStays]
  /\ list \in [Clients -> [Clients -> Nat]]
  /\ role \in [Clients -> [Clients -> Roles]]
  /\ lockView \in [Clients -> BOOLEAN]
  /\ manager \in [Clients -> Manager]

LEMMA TypesSplit == SessionTypeOK <=> ServerTypes /\ PageTypes
BY DEF SessionTypeOK, ServerTypes, PageTypes

LEMMA InitTyped == Init => SessionTypeOK
<1> SUFFICES ASSUME Init PROVE SessionTypeOK OBVIOUS
<1>1. NoOne \in [Clients -> Nat] /\ NoPeers \in [Clients -> Roles]
  BY DEF NoOne, NoPeers, Roles
<1>2. ClosedManager \in Manager BY DEF ClosedManager, Manager
<1>3. <<>> \in Seq(Push) /\ <<>> \in Seq(Request) OBVIOUS
<1>4. 0 \in 0 .. MaxStays BY BoundsAssumption
<1>5. QED BY <1>1, <1>2, <1>3, <1>4 DEF Init, SessionTypeOK, Pages

LEMMA ServerStepTyped ==
  ASSUME SessionTypeOK, NEW c \in Clients, ServerStep(c)
  PROVE  SessionTypeOK'
<1> USE PushesMade
<1>0. ServerTypes /\ PageTypes BY TypesSplit
<1>1. PageTypes'
  <2>1. UNCHANGED <<page, stays, viewVars>>
    BY DEF ServerStep, ServeJoin, RefuseJoin, JoinDone, JoinFailed, ServeGetRoom, ServeLeave,
           ServeLock, RefuseLock, OnClose, Serves
  <2>2. QED BY <2>1, <1>0 DEF PageTypes, viewVars
<1>2. ServerTypes'
  <2>1. CASE ServeJoin(c)
    BY <2>1, <1>0, ServesTyped DEF ServeJoin, Serves, ServerTypes
  <2>2. CASE RefuseJoin(c)
    <3>1. pushes' \in [Clients -> Seq(Push)] BY <2>2, ReplyTyped DEF RefuseJoin
    <3>2. QED BY <3>1, <2>2, <1>0, ServesTyped DEF RefuseJoin, Serves, ServerTypes
  <2>3. CASE JoinDone(c)
    <3>1. pushes' \in [Clients -> Seq(Push)] BY <2>3, AnnounceTyped DEF JoinDone
    <3>2. QED BY <3>1, <2>3, <1>0 DEF JoinDone, ServerTypes
  <2>4. CASE JoinFailed(c)
    <3>1. pushes' \in [Clients -> Seq(Push)] BY <2>4, ReplyTyped DEF JoinFailed
    <3>2. QED BY <3>1, <2>4, <1>0 DEF JoinFailed, ServerTypes
  <2>5. CASE ServeGetRoom(c)
    <3>1. [type |-> "room", users |-> members, locked |-> locked] \in Push
      BY <1>0 DEF ServerTypes
    <3>2. pushes' \in [Clients -> Seq(Push)] BY <3>1, <2>5, ReplyTyped DEF ServeGetRoom
    <3>3. QED BY <3>2, <2>5, <1>0, ServesTyped DEF ServeGetRoom, Serves, ServerTypes
  <2>6. CASE ServeLeave(c)
    <3>1. pushes' \in [Clients -> Seq(Push)]
      BY <2>6, <1>0, AnnounceTyped DEF ServeLeave, ServerTypes
    <3>2. QED BY <3>1, <2>6, <1>0, ServesTyped DEF ServeLeave, Serves, ServerTypes
  <2>7. CASE ServeLock(c)
    <3>1. Head(requests[c]) \in Request /\ Head(requests[c]).type = "lock"
      BY <2>7, ServesTyped DEF ServeLock, Serves
    <3>2. Head(requests[c]).locked \in BOOLEAN BY <3>1, RequestsRead
    <3>3. PICK b \in BOOLEAN :
            /\ locked' = b
            /\ Announce(c, <<[type |-> "lockReply", locked |-> b]>>, members,
                        [type |-> "lock", locked |-> b])
      BY <3>2, <2>7 DEF ServeLock
    <3>4. pushes' \in [Clients -> Seq(Push)] BY <3>3, AnnounceTyped
    <3>5. QED BY <3>3, <3>4, <2>7, <1>0, ServesTyped DEF ServeLock, Serves, ServerTypes
  <2>8. CASE RefuseLock(c)
    <3>1. pushes' \in [Clients -> Seq(Push)] BY <2>8, ReplyTyped DEF RefuseLock
    <3>2. QED BY <3>1, <2>8, <1>0, ServesTyped DEF RefuseLock, Serves, ServerTypes
  <2>9. CASE OnClose(c)
    <3>1. pushes' \in [Clients -> Seq(Push)]
      BY <2>9, <1>0, AnnounceTyped DEF OnClose, ServerTypes
    <3>2. requests' \in [Clients -> Seq(Request)]
      <4>1. <<>> \in Seq(Request) OBVIOUS
      <4>2. QED BY <4>1, <2>9, <1>0 DEF OnClose, ServerTypes
    <3>3. QED BY <3>1, <3>2, <2>9, <1>0 DEF OnClose, ServerTypes
  <2>10. QED BY <2>1, <2>2, <2>3, <2>4, <2>5, <2>6, <2>7, <2>8, <2>9 DEF ServerStep
<1>3. QED BY <1>1, <1>2 DEF SessionTypeOK, ServerTypes, PageTypes

\* The popup after what may happen to it.
LEMMA ManagerTyped ==
  ASSUME NEW g \in Manager, NEW b \in BOOLEAN
  PROVE  /\ [g EXCEPT !.own = FALSE] \in Manager
         /\ [g EXCEPT !.pending = FALSE] \in Manager
         /\ [g EXCEPT !.pending = FALSE, !.locked = b] \in Manager
BY DEF Manager

LEMMA RenewedTyped ==
  ASSUME SessionTypeOK, NEW c \in Clients, Renewed(c)
  PROVE  manager' \in [Clients -> Manager]
<1>1. manager[c] \in Manager BY DEF SessionTypeOK
<1>2. [manager[c] EXCEPT !.own = FALSE] \in Manager BY <1>1, ManagerTyped
<1>3. QED BY <1>2 DEF Renewed, SessionTypeOK

LEMMA HearStepTyped ==
  ASSUME SessionTypeOK, NEW c \in Clients, HearStep(c)
  PROVE  SessionTypeOK'
<1>0. ServerTypes /\ PageTypes BY TypesSplit
<1> DEFINE m == Head(pushes[c])
<1>1. PICK t : Hears(c, t)
  BY DEF HearStep, OnJoined, OnRefused, OnRoom, OnUserConnected, OnUserDisconnected,
         OnPushLock, OnLockReply, OnLockRefused
<1>2. m \in Push /\ m.type = t /\ pushes' \in [Clients -> Seq(Push)] BY <1>1, HearsTyped
<1>3. /\ UNCHANGED <<serverVars, stays>>
      /\ requests' \in [Clients -> Seq(Request)]
  <2>1. [type |-> "get"] \in Request BY DEF Request
  <2>2. Asks(c, [type |-> "get"]) => requests' \in [Clients -> Seq(Request)]
    BY <2>1, AsksTyped
  <2>3. Asks(c, [type |-> "get"]) \/ UNCHANGED requests
    BY DEF HearStep, OnJoined, OnRefused, OnRoom, OnUserConnected, OnUserDisconnected,
           OnPushLock, OnLockReply, OnLockRefused
  <2>4. UNCHANGED <<serverVars, stays>> BY <1>1 DEF Hears
  <2>5. QED BY <2>2, <2>3, <2>4, <1>0 DEF ServerTypes
<1>4. ServerTypes' BY <1>0, <1>2, <1>3 DEF ServerTypes, serverVars
<1>5. stays' \in [Clients -> 0 .. MaxStays] BY <1>0, <1>3 DEF PageTypes
<1>6. PageTypes'
  <2>1. CASE OnJoined(c)
    BY <2>1, <1>0, <1>5 DEF OnJoined, viewVars, PageTypes, Pages
  <2>2. CASE OnRefused(c)
    BY <2>2, <1>0, <1>5 DEF OnRefused, viewVars, PageTypes, Pages
  <2>3. CASE OnRoom(c)
    <3>1. CASE page[c] = "entering"
      <4>1. m.type = "room" BY <2>3, HearsTyped DEF OnRoom
      <4>2. m.locked \in BOOLEAN BY <4>1, <1>2, PushesRead
      <4>3. [d \in Clients |-> IF d \in m.users THEN 1 ELSE 0] \in [Clients -> Nat] OBVIOUS
      <4>4. [d \in Clients |-> IF d \in m.users \ {c} THEN "impolite" ELSE "none"]
              \in [Clients -> Roles] BY DEF Roles
      <4>5. page' \in [Clients -> Pages] /\ manager' \in [Clients -> Manager]
        BY <3>1, <2>3, <1>0 DEF OnRoom, PageTypes, Pages
      <4>6. list' \in [Clients -> [Clients -> Nat]]
        BY <3>1, <2>3, <1>0, <4>3 DEF OnRoom, PageTypes
      <4>7. role' \in [Clients -> [Clients -> Roles]]
        BY <3>1, <2>3, <1>0, <4>4 DEF OnRoom, PageTypes
      <4>8. lockView' \in [Clients -> BOOLEAN]
        BY <3>1, <2>3, <1>0, <4>2 DEF OnRoom, PageTypes
      <4>9. QED BY <4>5, <4>6, <4>7, <4>8, <1>5 DEF PageTypes
    <3>2. CASE page[c] # "entering"
      BY <3>2, <2>3, <1>0, <1>5 DEF OnRoom, PageTypes
    <3>3. QED BY <3>1, <3>2
  <2>4. CASE OnUserConnected(c) \/ OnUserDisconnected(c)
    <3>1. m.user \in Clients
      <4>1. m.type \in {"connected", "disconnected"}
        BY <2>4, HearsTyped DEF OnUserConnected, OnUserDisconnected
      <4>2. QED BY <4>1, <1>2, PushesRead
    <3>2. Renewed(c) => manager' \in [Clients -> Manager]
      BY RenewedTyped
    <3>3. page' \in [Clients -> Pages] /\ lockView' \in [Clients -> BOOLEAN]
          /\ manager' \in [Clients -> Manager]
      BY <3>2, <2>4, <1>0 DEF OnUserConnected, OnUserDisconnected, PageTypes
    <3>4. list' \in [Clients -> [Clients -> Nat]]
      BY <3>1, <2>4, <1>0 DEF OnUserConnected, OnUserDisconnected, PageTypes
    <3>5. role' \in [Clients -> [Clients -> Roles]]
      BY <3>1, <2>4, <1>0 DEF OnUserConnected, OnUserDisconnected, PageTypes, Roles
    <3>6. QED BY <3>3, <3>4, <3>5, <1>5 DEF PageTypes
  <2>5. CASE OnPushLock(c)
    <3>1. m.locked \in BOOLEAN
      <4>1. m.type = "lock" BY <2>5, HearsTyped DEF OnPushLock
      <4>2. QED BY <4>1, <1>2, PushesRead
    <3>2. Renewed(c) => manager' \in [Clients -> Manager]
      BY RenewedTyped
    <3>3. manager' \in [Clients -> Manager] BY <3>2, <2>5, <1>0 DEF OnPushLock, PageTypes
    <3>4. lockView' \in [Clients -> BOOLEAN] BY <3>1, <2>5, <1>0 DEF OnPushLock, PageTypes
    <3>5. QED BY <3>3, <3>4, <2>5, <1>0, <1>5 DEF OnPushLock, PageTypes
  <2>6. CASE OnLockReply(c)
    <3>1. m.locked \in BOOLEAN
      <4>1. m.type = "lockReply" BY <2>6, HearsTyped DEF OnLockReply
      <4>2. QED BY <4>1, <1>2, PushesRead
    <3>2. manager' \in [Clients -> Manager]
      <4>1. manager[c] \in Manager BY <1>0 DEF PageTypes
      <4>2. [manager[c] EXCEPT !.pending = FALSE, !.locked = m.locked] \in Manager
        BY <3>1, <4>1, ManagerTyped
      <4>3. QED BY <4>2, <2>6, <1>0 DEF OnLockReply, PageTypes
    <3>3. lockView' \in [Clients -> BOOLEAN] BY <3>1, <2>6, <1>0 DEF OnLockReply, PageTypes
    <3>4. QED BY <3>2, <3>3, <2>6, <1>0, <1>5 DEF OnLockReply, PageTypes
  <2>7. CASE OnLockRefused(c)
    BY <2>7, <1>0, <1>5 DEF OnLockRefused, PageTypes, Manager
  <2>8. QED BY <2>1, <2>2, <2>3, <2>4, <2>5, <2>6, <2>7 DEF HearStep
<1>7. QED BY <1>4, <1>6 DEF SessionTypeOK, ServerTypes, PageTypes

LEMMA UserStepTyped ==
  ASSUME SessionTypeOK, NEW c \in Clients, UserStep(c)
  PROVE  SessionTypeOK'
<1>0. ServerTypes /\ PageTypes BY TypesSplit
<1> DEFINE Goal == ServerTypes /\ PageTypes
<1> SUFFICES Goal'
  BY DEF SessionTypeOK, ServerTypes, PageTypes
<1>1. Destroyed(c) =>
        /\ list' \in [Clients -> [Clients -> Nat]]
        /\ role' \in [Clients -> [Clients -> Roles]]
        /\ lockView' \in [Clients -> BOOLEAN]
        /\ manager' \in [Clients -> Manager]
  <2>1. NoOne \in [Clients -> Nat] /\ NoPeers \in [Clients -> Roles]
    BY DEF NoOne, NoPeers, Roles
  <2>2. ClosedManager \in Manager BY DEF ClosedManager, Manager
  <2>3. QED BY <2>1, <2>2, <1>0 DEF Destroyed, PageTypes
<1>2. CASE Join(c)
  <2>1. [type |-> "join"] \in Request BY DEF Request
  <2>2. requests' \in [Clients -> Seq(Request)] BY <2>1, <1>2, AsksTyped DEF Join
  <2>3. stays' \in [Clients -> 0 .. MaxStays]
    <3>1. stays[c] + 1 \in 0 .. MaxStays
      BY <1>2, <1>0, BoundsAssumption DEF Join, PageTypes
    <3>2. QED BY <3>1, <1>2, <1>0 DEF Join, PageTypes
  <2>4. QED BY <2>2, <2>3, <1>2, <1>0
        DEF Join, ServerTypes, PageTypes, serverVars, viewVars, Pages
<1>3. CASE Leave(c)
  <2>1. [type |-> "leave"] \in Request BY DEF Request
  <2>2. requests' \in [Clients -> Seq(Request)] BY <2>1, <1>3, AsksTyped DEF Leave
  <2>3. QED BY <2>2, <1>1, <1>3, <1>0
        DEF Leave, ServerTypes, PageTypes, serverVars, Pages
<1>4. CASE Quit(c)
  BY <1>1, <1>4, <1>0 DEF Quit, ServerTypes, PageTypes, Pages
<1>5. CASE OpenManager(c)
  <2>1. [open |-> TRUE, pending |-> FALSE, locked |-> lockView[c], own |-> TRUE] \in Manager
    BY <1>0 DEF PageTypes, Manager
  <2>2. manager' \in [Clients -> Manager] BY <2>1, <1>5, <1>0 DEF OpenManager, PageTypes
  <2>3. QED BY <2>2, <1>5, <1>0 DEF OpenManager, ServerTypes, PageTypes, serverVars
<1>6. CASE CloseManager(c)
  <2>1. ClosedManager \in Manager BY DEF ClosedManager, Manager
  <2>2. manager' \in [Clients -> Manager] BY <2>1, <1>6, <1>0 DEF CloseManager, PageTypes
  <2>3. QED BY <2>2, <1>6, <1>0 DEF CloseManager, ServerTypes, PageTypes, serverVars
<1>7. CASE ToggleLock(c)
  <2>1. manager[c].locked \in BOOLEAN BY <1>0 DEF PageTypes, Manager
  <2>2. [type |-> "lock", locked |-> ~manager[c].locked] \in Request
    BY <2>1, Zenon DEF Request
  <2>3. requests' \in [Clients -> Seq(Request)] BY <2>2, <1>7, AsksTyped DEF ToggleLock
  <2>4. manager' \in [Clients -> Manager] BY <1>7, <1>0 DEF ToggleLock, PageTypes, Manager
  <2>5. QED BY <2>3, <2>4, <1>7, <1>0 DEF ToggleLock, ServerTypes, PageTypes, serverVars
<1>8. QED BY <1>2, <1>3, <1>4, <1>5, <1>6, <1>7 DEF UserStep

\* The types of the server, the queues and the pages.
THEOREM SessionTypeCorrect == Spec => []SessionTypeOK
<1>1. Init => SessionTypeOK BY InitTyped
<1>2. SessionTypeOK /\ [Next]_sessionVars => SessionTypeOK'
  <2> SUFFICES ASSUME SessionTypeOK, [Next]_sessionVars PROVE SessionTypeOK' OBVIOUS
  <2>1. CASE Next BY <2>1, ServerStepTyped, HearStepTyped, UserStepTyped DEF Next
  <2>2. CASE UNCHANGED sessionVars
    BY <2>2 DEF sessionVars, serverVars, viewVars, SessionTypeOK
  <2>3. QED BY <2>1, <2>2
<1>3. QED BY <1>1, <1>2, PTL DEF Spec
-----------------------------------------------------------------------------
(* How a client and the server take turns: a client asks again only when it *)
(* has been answered, and whoever is being added has nothing else under way *)

IsAnswer(m) == m.type \in {"joined", "refused", "room"}
Unanswered(c) == \A i \in DOMAIN pushes[c] : ~IsAnswer(pushes[c][i])
Leaves(c) == \E i \in DOMAIN requests[c] : requests[c][i].type = "leave"

AddingApart(c) ==
  c \in adding =>
    /\ c \notin members /\ requests[c] = <<>>
    /\ page[c] \in {"joining", "gone"}
    /\ page[c] = "joining" => Unanswered(c)
MembersPoint(c) == c \in members \cup adding => c \in pointing
JoinsLast(c) ==
  \A k \in DOMAIN requests[c] : requests[c][k].type = "join" =>
    /\ k = Len(requests[c])
    /\ page[c] \in {"joining", "gone"}
    /\ page[c] = "joining" => Unanswered(c)
    /\ c \in members => Leaves(c)
GetsAlone(c) ==
  \A k \in DOMAIN requests[c] : requests[c][k].type = "get" =>
    /\ Len(requests[c]) = 1
    /\ page[c] \in {"entering", "gone"}
    /\ page[c] = "entering" => Unanswered(c)
RequestsOfPage(c) ==
  \A k \in DOMAIN requests[c] :
    /\ page[c] = "home" => requests[c][k].type \in {"lock", "leave"}
    /\ page[c] = "entering" => requests[c][k].type = "get"
    /\ page[c] = "room" => requests[c][k].type = "lock"
AnswersOfPage(c) ==
  \A i \in DOMAIN pushes[c] : IsAnswer(pushes[c][i]) =>
    /\ page[c] \in {"joining", "entering", "gone"}
    /\ page[c] = "joining" => pushes[c][i].type # "room" /\ requests[c] = <<>>
    /\ page[c] = "entering" => pushes[c][i].type = "room"
    /\ page[c] # "gone" =>
         \A j \in DOMAIN pushes[c] : IsAnswer(pushes[c][j]) => j = i
Belongs(c) ==
  sock[c] = "open" =>
    /\ page[c] # "gone"
    /\ page[c] \in {"entering", "room"} => c \in members
    /\ page[c] = "home" /\ c \in members => Leaves(c)
    /\ \A i \in DOMAIN pushes[c] : page[c] = "joining" =>
         /\ pushes[c][i].type = "joined" => c \in members
         /\ pushes[c][i].type = "refused" => c \notin members
Turns(c) ==
  /\ AddingApart(c) /\ MembersPoint(c) /\ JoinsLast(c) /\ GetsAlone(c)
  /\ RequestsOfPage(c) /\ AnswersOfPage(c) /\ Belongs(c)
TurnsInv == \A c \in Clients : Turns(c)

\* r is q without its first message, and q with m behind it.
Rest(q, r) ==
  /\ 1 \in DOMAIN q /\ Len(q) \in Nat /\ Len(r) = Len(q) - 1
  /\ DOMAIN r = 1 .. Len(r) /\ DOMAIN q = 1 .. Len(q)
  /\ r = <<>> <=> Len(r) = 0
  /\ \A i \in DOMAIN r : i + 1 \in DOMAIN q /\ r[i] = q[i + 1]
  /\ \A i \in DOMAIN q : i > 1 => i - 1 \in DOMAIN r /\ r[i - 1] = q[i]
More(q, r, m) ==
  /\ Len(q) \in Nat /\ Len(r) = Len(q) + 1
  /\ DOMAIN r = 1 .. Len(r) /\ DOMAIN q = 1 .. Len(q)
  /\ r # <<>> /\ r[Len(r)] = m
  /\ \A i \in DOMAIN q : r[i] = q[i]

LEMMA RestIs ==
  ASSUME NEW S, NEW q \in Seq(S), q # <<>>
  PROVE  Rest(q, Tail(q)) /\ Head(q) = q[1]
<1>0. PICK r : r = Tail(q) OBVIOUS
<1>1. /\ r \in Seq(S) /\ Len(r) = Len(q) - 1 /\ Len(q) \in Nat \ {0}
      /\ \A i \in 1 .. Len(r) : r[i] = q[i + 1]
  BY <1>0, HeadTailProperties, EmptySeq
<1>2. r = <<>> <=> Len(r) = 0 BY <1>1, EmptySeq
<1>3. Head(q) = q[1] OBVIOUS
<1>4. DOMAIN q = 1 .. Len(q) /\ DOMAIN r = 1 .. Len(r) BY <1>1, LenProperties
<1>5. Rest(q, r) BY <1>1, <1>2, <1>4 DEF Rest
<1>6. QED BY <1>0, <1>3, <1>5
LEMMA MoreIs ==
  ASSUME NEW S, NEW q \in Seq(S), NEW m \in S
  PROVE  More(q, Append(q, m), m)
BY DEF More

LEMMA ServesRest ==
  ASSUME SessionTypeOK, NEW c \in Clients, NEW t, Serves(c, t)
  PROVE  /\ Rest(requests[c], requests'[c]) /\ requests[c][1].type = t
         /\ \A e \in Clients : e # c => requests'[e] = requests[e]
<1>1. requests[c] \in Seq(Request) /\ requests[c] # <<>> BY DEF Serves, SessionTypeOK
<1>2. requests'[c] = Tail(requests[c]) /\ Head(requests[c]).type = t
  BY DEF Serves, SessionTypeOK
<1>3. \A e \in Clients : e # c => requests'[e] = requests[e]
  BY DEF Serves, SessionTypeOK
<1>4. QED BY <1>1, <1>2, <1>3, RestIs

LEMMA AsksMore ==
  ASSUME SessionTypeOK, NEW c \in Clients, NEW r \in Request, Asks(c, r)
  PROVE  /\ More(requests[c], requests'[c], r)
         /\ \A e \in Clients : e # c => requests'[e] = requests[e]
<1>1. requests[c] \in Seq(Request) BY DEF SessionTypeOK
<1>2. requests'[c] = Append(requests[c], r) BY DEF Asks, SessionTypeOK
<1>3. \A e \in Clients : e # c => requests'[e] = requests[e]
  BY DEF Asks, SessionTypeOK
<1>4. QED BY <1>1, <1>2, <1>3, MoreIs

LEMMA HearsRest ==
  ASSUME SessionTypeOK, NEW c \in Clients, NEW t, Hears(c, t)
  PROVE  /\ Rest(pushes[c], pushes'[c]) /\ Head(pushes[c]) = pushes[c][1]
         /\ pushes[c][1].type = t /\ pushes[c][1] \in Push
         /\ \A e \in Clients : e # c => pushes'[e] = pushes[e]
<1>1. pushes[c] \in Seq(Push) /\ pushes[c] # <<>> BY DEF Hears, SessionTypeOK
<1>2. pushes'[c] = Tail(pushes[c]) BY DEF Hears, SessionTypeOK
<1>3. \A e \in Clients : e # c => pushes'[e] = pushes[e]
  BY DEF Hears, SessionTypeOK
<1>4. Head(pushes[c]) \in Push /\ Head(pushes[c]).type = t BY HearsTyped
<1>5. QED BY <1>1, <1>2, <1>3, <1>4, RestIs

\* Taking the first request leaves what is said of the others.
LEMMA RestTurns ==
  ASSUME NEW c \in Clients, Turns(c), Rest(requests[c], requests'[c]), UNCHANGED page,
         Unanswered(c) => Unanswered(c)',
         c \in members' => c \in members /\ (Leaves(c) => Leaves(c)')
  PROVE  JoinsLast(c)' /\ GetsAlone(c)' /\ RequestsOfPage(c)'
<1>1. /\ \A k \in DOMAIN requests'[c] :
           k + 1 \in DOMAIN requests[c] /\ requests'[c][k] = requests[c][k + 1]
      /\ \A k \in DOMAIN requests'[c] : k \in Nat \ {0}
      /\ Len(requests'[c]) = Len(requests[c]) - 1 /\ Len(requests[c]) \in Nat
      /\ \A k \in DOMAIN requests[c] : k \in 1 .. Len(requests[c])
  BY DEF Rest
<1>2. JoinsLast(c)'
  <2> SUFFICES ASSUME NEW k \in DOMAIN requests'[c], requests'[c][k].type = "join"
               PROVE  /\ k = Len(requests'[c])
                      /\ page'[c] \in {"joining", "gone"}
                      /\ page'[c] = "joining" => Unanswered(c)'
                      /\ c \in members' => Leaves(c)'
    BY DEF JoinsLast
  <2>1. k + 1 \in DOMAIN requests[c] /\ requests[c][k + 1].type = "join" BY <1>1
  <2>2. /\ k + 1 = Len(requests[c])
        /\ page[c] \in {"joining", "gone"}
        /\ page[c] = "joining" => Unanswered(c)
        /\ c \in members => Leaves(c)
    BY <2>1 DEF Turns, JoinsLast
  <2>3. QED BY <2>2, <1>1
<1>3. GetsAlone(c)'
  <2> SUFFICES ASSUME NEW k \in DOMAIN requests'[c], requests'[c][k].type = "get"
               PROVE  FALSE
    BY DEF GetsAlone
  <2>1. k + 1 \in DOMAIN requests[c] /\ requests[c][k + 1].type = "get" BY <1>1
  <2>2. Len(requests[c]) = 1 BY <2>1 DEF Turns, GetsAlone
  <2>3. QED BY <2>1, <2>2, <1>1
<1>4. RequestsOfPage(c)' BY <1>1 DEF Turns, RequestsOfPage
<1>5. QED BY <1>2, <1>3, <1>4

\* One more message for e, or none.
Gets(e, m) == More(pushes[e], pushes'[e], m)
Same(e) == pushes'[e] = pushes[e]

LEMMA SentGets ==
  ASSUME SessionTypeOK, NEW e \in Clients, NEW m \in Push, pushes'[e] = Sent(e, <<m>>)
  PROVE  IF sock[e] = "open" THEN Gets(e, m) ELSE Same(e)
<1>1. pushes[e] \in Seq(Push) BY DEF SessionTypeOK
<1>2. QED BY <1>1, MoreIs, SentIs DEF Gets, Same

LEMMA ReplyGets ==
  ASSUME SessionTypeOK, NEW c \in Clients, NEW m \in Push, Reply(c, m)
  PROVE  /\ IF sock[c] = "open" THEN Gets(c, m) ELSE Same(c)
         /\ \A e \in Clients : e # c => Same(e)
<1>1. pushes'[c] = Sent(c, <<m>>) BY DEF Reply, SessionTypeOK
<1>2. \A e \in Clients : e # c => Same(e) BY DEF Reply, SessionTypeOK, Same
<1>3. QED BY <1>1, <1>2, SentGets

LEMMA AnnounceGets ==
  ASSUME SessionTypeOK, NEW c \in Clients, NEW room, NEW m \in Push, NEW reply,
         Announce(c, reply, room, m)
  PROVE  /\ \A e \in Clients : e # c =>
              IF e \in room /\ sock[e] = "open" THEN Gets(e, m) ELSE Same(e)
         /\ reply = <<>> => Same(c)
         /\ \A r \in Push : reply = <<r>> =>
              IF sock[c] = "open" THEN Gets(c, r) ELSE Same(c)
<1>1. \A e \in Clients : e # c =>
        pushes'[e] = IF e \in room THEN Sent(e, <<m>>) ELSE pushes[e]
  BY DEF Announce
<1>2. ASSUME NEW e \in Clients, e # c
      PROVE  IF e \in room /\ sock[e] = "open" THEN Gets(e, m) ELSE Same(e)
  <2>1. CASE e \in room
    <3>1. pushes'[e] = Sent(e, <<m>>) BY <1>1, <1>2, <2>1
    <3>2. QED BY <3>1, <2>1, SentGets
  <2>2. CASE e \notin room BY <1>1, <1>2, <2>2 DEF Same
  <2>3. QED BY <2>1, <2>2
<1>3. pushes'[c] = Sent(c, reply) BY DEF Announce
<1>4. reply = <<>> => Same(c) BY <1>3, SentIs DEF Same
<1>5. ASSUME NEW r \in Push, reply = <<r>>
      PROVE  IF sock[c] = "open" THEN Gets(c, r) ELSE Same(c)
  BY <1>3, <1>5, SentGets
<1>6. QED BY <1>2, <1>4, <1>5

\* Whoever only hears of others keeps its turn.
Bystander(e) ==
  /\ page'[e] = page[e] /\ sock'[e] = sock[e] /\ requests'[e] = requests[e]
  /\ e \in members' <=> e \in members
  /\ e \in adding' <=> e \in adding
  /\ e \in pointing' <=> e \in pointing

LEMMA BystanderTurns ==
  ASSUME NEW e \in Clients, Turns(e), Bystander(e),
         Same(e) \/ \E m \in Push : ~IsAnswer(m) /\ Gets(e, m)
  PROVE  Turns(e)'
<1>1. CASE Same(e)
  BY <1>1 DEF Same, Bystander, Turns, AddingApart, MembersPoint, JoinsLast, GetsAlone,
     RequestsOfPage, AnswersOfPage, Belongs, Unanswered, Leaves, IsAnswer
<1>2. ASSUME NEW m \in Push, ~IsAnswer(m), Gets(e, m) PROVE Turns(e)'
  <2>1. Unanswered(e) => Unanswered(e)'
    BY <1>2 DEF Gets, More, Unanswered, IsAnswer
  <2>2. \A i \in DOMAIN pushes'[e] : IsAnswer(pushes'[e][i]) =>
          i \in DOMAIN pushes[e] /\ pushes'[e][i] = pushes[e][i]
    BY <1>2 DEF Gets, More, IsAnswer
  <2>3. Leaves(e) <=> Leaves(e)' BY DEF Leaves, Bystander
  <2>4. AddingApart(e)' /\ MembersPoint(e)' /\ JoinsLast(e)' /\ GetsAlone(e)'
        /\ RequestsOfPage(e)'
    BY <2>1, <2>3 DEF Bystander, Turns, AddingApart, MembersPoint, JoinsLast, GetsAlone,
       RequestsOfPage
  <2>5. AnswersOfPage(e)' BY <2>2 DEF Bystander, Turns, AnswersOfPage
  <2>6. Belongs(e)'
    BY <2>2, <2>3 DEF Bystander, Turns, Belongs, IsAnswer
  <2>7. QED BY <2>4, <2>5, <2>6 DEF Turns
<1>3. QED BY <1>1, <1>2
-----------------------------------------------------------------------------
(* The server's steps *)

\* The others in the room get m, or nobody gets anything.
Tells(c, m) ==
  \A e \in Clients : e # c =>
    IF e \in members /\ sock[e] = "open" THEN Gets(e, m) ELSE Same(e)
Silence(c) == \A e \in Clients : e # c => Same(e)

\* What a step of the server for c means for everybody else.
Enters(c) ==
  /\ Tells(c, [type |-> "connected", user |-> c])
  /\ members' = members \cup {c} /\ locked' = locked /\ c \in adding
Exits(c) ==
  /\ Tells(c, [type |-> "disconnected", user |-> c])
  /\ members' = members \ {c} /\ locked' = locked
Locks(c) ==
  \E b \in BOOLEAN :
    /\ Tells(c, [type |-> "lock", locked |-> b])
    /\ members' = members /\ locked' = b
Unnoticed(c) == Silence(c) /\ members' = members /\ locked' = locked
News(c) == Enters(c) \/ Exits(c) \/ Locks(c) \/ Unnoticed(c)

LEMMA ServeLockIs ==
  ASSUME SessionTypeOK, NEW c \in Clients, ServeLock(c)
  PROVE  \E b \in BOOLEAN :
           /\ locked' = b
           /\ Announce(c, <<[type |-> "lockReply", locked |-> b]>>, members,
                       [type |-> "lock", locked |-> b])
<1>1. Head(requests[c]) \in Request /\ Head(requests[c]).type = "lock"
  BY ServesTyped DEF ServeLock, Serves
<1>2. Head(requests[c]).locked \in BOOLEAN BY <1>1, RequestsRead
<1>3. QED BY <1>2 DEF ServeLock

LEMMA ServerNews ==
  ASSUME SessionTypeOK, NEW c \in Clients, ServerStep(c)
  PROVE  News(c)
<1> USE PushesMade
<1>1. CASE ServeJoin(c)
  BY <1>1 DEF ServeJoin, News, Unnoticed, Silence, Same
<1>2. CASE RefuseJoin(c)
  BY <1>2, ReplyGets DEF RefuseJoin, News, Unnoticed, Silence
<1>3. CASE JoinDone(c)
  <2>1. Tells(c, [type |-> "connected", user |-> c])
    BY <1>3, AnnounceGets DEF JoinDone, Tells
  <2>2. QED BY <2>1, <1>3 DEF JoinDone, News, Enters
<1>4. CASE JoinFailed(c)
  BY <1>4, ReplyGets DEF JoinFailed, News, Unnoticed, Silence
<1>5. CASE ServeGetRoom(c)
  <2>1. [type |-> "room", users |-> members, locked |-> locked] \in Push
    BY DEF SessionTypeOK
  <2>2. QED BY <2>1, <1>5, ReplyGets DEF ServeGetRoom, News, Unnoticed, Silence
<1>6. CASE ServeLeave(c)
  <2>1. CASE c \in pointing
    <3>1. Tells(c, [type |-> "disconnected", user |-> c])
      BY <2>1, <1>6, AnnounceGets DEF ServeLeave, Tells
    <3>2. QED BY <3>1, <2>1, <1>6 DEF ServeLeave, News, Exits
  <2>2. CASE c \notin pointing
    BY <2>2, <1>6 DEF ServeLeave, News, Unnoticed, Silence, Same
  <2>3. QED BY <2>1, <2>2
<1>7. CASE ServeLock(c)
  <2>1. PICK b \in BOOLEAN :
          /\ locked' = b
          /\ Announce(c, <<[type |-> "lockReply", locked |-> b]>>, members,
                      [type |-> "lock", locked |-> b])
    BY <1>7, ServeLockIs
  <2>2. Tells(c, [type |-> "lock", locked |-> b]) BY <2>1, AnnounceGets DEF Tells
  <2>3. QED BY <2>1, <2>2, <1>7 DEF ServeLock, News, Locks
<1>8. CASE RefuseLock(c)
  BY <1>8, ReplyGets DEF RefuseLock, News, Unnoticed, Silence
<1>9. CASE OnClose(c)
  <2>1. CASE c \in pointing
    <3>1. Tells(c, [type |-> "disconnected", user |-> c])
      BY <2>1, <1>9, AnnounceGets DEF OnClose, Tells
    <3>2. QED BY <3>1, <2>1, <1>9 DEF OnClose, News, Exits
  <2>2. CASE c \notin pointing
    BY <2>2, <1>9 DEF OnClose, News, Unnoticed, Silence, Same
  <2>3. QED BY <2>1, <2>2
<1>10. QED BY <1>1, <1>2, <1>3, <1>4, <1>5, <1>6, <1>7, <1>8, <1>9 DEF ServerStep

LEMMA ServerBystanders ==
  ASSUME SessionTypeOK, NEW c \in Clients, ServerStep(c), NEW e \in Clients, e # c
  PROVE  Bystander(e)
<1>1. UNCHANGED page
  BY DEF ServerStep, ServeJoin, RefuseJoin, JoinDone, JoinFailed, ServeGetRoom, ServeLeave,
         ServeLock, RefuseLock, OnClose, Serves
<1>2. sock'[e] = sock[e] /\ requests'[e] = requests[e]
  BY DEF ServerStep, ServeJoin, RefuseJoin, JoinDone, JoinFailed, ServeGetRoom, ServeLeave,
         ServeLock, RefuseLock, OnClose, Serves, SessionTypeOK
<1>3. /\ e \in members' <=> e \in members
      /\ e \in adding' <=> e \in adding
      /\ e \in pointing' <=> e \in pointing
  BY DEF ServerStep, ServeJoin, RefuseJoin, JoinDone, JoinFailed, ServeGetRoom, ServeLeave,
         ServeLock, RefuseLock, OnClose
<1>4. QED BY <1>1, <1>2, <1>3 DEF Bystander

LEMMA ServerOthersTurns ==
  ASSUME SessionTypeOK, NEW c \in Clients, ServerStep(c), NEW e \in Clients, e # c, Turns(e)
  PROVE  Turns(e)'
<1>1. Bystander(e) BY ServerBystanders
<1>2. Same(e) \/ \E m \in Push : ~IsAnswer(m) /\ Gets(e, m)
  <2>1. News(c) BY ServerNews
  <2>2. CASE Unnoticed(c) BY <2>2 DEF Unnoticed, Silence
  <2>3. CASE Enters(c) \/ Exits(c)
    <3>1. \A m \in Push : Tells(c, m) => Same(e) \/ Gets(e, m) BY DEF Tells
    <3>2. QED BY <2>3, <3>1, PushesMade DEF Enters, Exits, IsAnswer
  <2>4. CASE Locks(c)
    <3>1. \A m \in Push : Tells(c, m) => Same(e) \/ Gets(e, m) BY DEF Tells
    <3>2. QED BY <2>4, <3>1, PushesMade DEF Locks, IsAnswer
  <2>5. QED BY <2>1, <2>2, <2>3, <2>4 DEF News
<1>3. QED BY <1>1, <1>2, BystanderTurns

\* What the server says to the client it serves is no join, and a lock only when asked for it.
OwnWord(c, m) == m.type # "connected" /\ (m.type = "lockReply" => ServeLock(c))
LEMMA OwnMessage ==
  ASSUME SessionTypeOK, NEW c \in Clients, ServerStep(c)
  PROVE  Same(c) \/ \E m \in Push : OwnWord(c, m) /\ Gets(c, m)
<1> USE PushesMade DEF OwnWord
<1>1. CASE ServeJoin(c) BY <1>1 DEF ServeJoin, Same
<1>2. CASE RefuseJoin(c) \/ JoinFailed(c)
  <2>1. PICK m \in Push : m = [type |-> "refused"] OBVIOUS
  <2>2. Reply(c, m) BY <1>2, <2>1 DEF RefuseJoin, JoinFailed
  <2>3. QED BY <2>1, <2>2, ReplyGets
<1>3. CASE JoinDone(c)
  <2>1. PICK m \in Push : m = [type |-> "joined"] OBVIOUS
  <2>2. QED BY <1>3, <2>1, AnnounceGets DEF JoinDone
<1>4. CASE ServeGetRoom(c)
  <2>1. PICK m \in Push : m = [type |-> "room", users |-> members, locked |-> locked]
    BY DEF SessionTypeOK
  <2>2. Reply(c, m) BY <1>4, <2>1 DEF ServeGetRoom
  <2>3. QED BY <2>1, <2>2, ReplyGets
<1>5. CASE ServeLeave(c) BY <1>5, AnnounceGets DEF ServeLeave, Same
<1>6. CASE ServeLock(c)
  <2>1. PICK b \in BOOLEAN :
          Announce(c, <<[type |-> "lockReply", locked |-> b]>>, members,
                   [type |-> "lock", locked |-> b])
    BY <1>6, ServeLockIs
  <2>2. PICK m \in Push : m = [type |-> "lockReply", locked |-> b] OBVIOUS
  <2>3. Same(c) \/ Gets(c, m) BY <2>1, <2>2, AnnounceGets
  <2>4. OwnWord(c, m) BY <1>6, <2>2
  <2>5. QED BY <2>3, <2>4
<1>7. CASE RefuseLock(c)
  <2>1. PICK m \in Push : m = [type |-> "lockRefused"] OBVIOUS
  <2>2. Reply(c, m) BY <1>7, <2>1 DEF RefuseLock
  <2>3. QED BY <2>1, <2>2, ReplyGets
<1>8. CASE OnClose(c) BY <1>8, AnnounceGets DEF OnClose, Same
<1>9. QED BY <1>1, <1>2, <1>3, <1>4, <1>5, <1>6, <1>7, <1>8 DEF ServerStep

\* The one request under way is answered.
LEMMA AnsweredTurns ==
  ASSUME NEW c \in Clients, Turns(c), UNCHANGED <<page, sock, members, adding, pointing>>,
         requests'[c] = <<>>, c \notin adding, NEW m \in Push,
         IF sock[c] = "open" THEN Gets(c, m) ELSE Same(c),
         page[c] \in {"joining", "entering"} => Unanswered(c),
         \/ page[c] \in {"joining", "gone"} /\ m.type = "refused" /\ c \notin members
         \/ page[c] \in {"entering", "gone"} /\ m.type = "room" /\ c \in members
  PROVE  Turns(c)'
<1>1. AddingApart(c)' /\ MembersPoint(c)' /\ JoinsLast(c)' /\ GetsAlone(c)' /\ RequestsOfPage(c)'
  BY DEF Turns, AddingApart, MembersPoint, JoinsLast, GetsAlone, RequestsOfPage
<1>2. CASE sock[c] = "open"
  <2>1. More(pushes[c], pushes'[c], m) BY <1>2 DEF Gets
  <2>2. page[c] # "gone" BY <1>2 DEF Turns, Belongs
  <2>3. \A i \in DOMAIN pushes'[c] : IsAnswer(pushes'[c][i]) =>
          i = Len(pushes'[c]) /\ pushes'[c][i] = m
    <3>1. \A i \in DOMAIN pushes[c] : ~IsAnswer(pushes[c][i]) BY <2>2 DEF Unanswered
    <3>2. QED BY <2>1, <3>1 DEF More
  <2>4. AnswersOfPage(c)' BY <2>2, <2>3 DEF AnswersOfPage
  <2>5. Belongs(c)' BY <1>2, <2>2, <2>3 DEF Belongs, IsAnswer
  <2>6. QED BY <1>1, <2>4, <2>5 DEF Turns
<1>3. CASE sock[c] # "open"
  <2>1. AnswersOfPage(c)' BY <1>3 DEF Same, Turns, AnswersOfPage
  <2>2. Belongs(c)' BY <1>3 DEF Belongs
  <2>3. QED BY <1>1, <2>1, <2>2 DEF Turns
<1>4. QED BY <1>2, <1>3

LEMMA ServerOwnTurns ==
  ASSUME SessionTypeOK, NEW c \in Clients, ServerStep(c), Turns(c)
  PROVE  Turns(c)'
<1> USE PushesMade
<1>0. UNCHANGED page
  BY DEF ServerStep, ServeJoin, RefuseJoin, JoinDone, JoinFailed, ServeGetRoom, ServeLeave,
         ServeLock, RefuseLock, OnClose, Serves
<1>1. CASE ServeJoin(c)
  <2>1. Rest(requests[c], requests'[c]) /\ requests[c][1].type = "join"
    BY <1>1, ServesRest DEF ServeJoin
  <2>2. Len(requests[c]) = 1 /\ requests'[c] = <<>> BY <2>1 DEF Rest, Turns, JoinsLast
  <2>3. c \notin members /\ page[c] \in {"joining", "gone"}
        /\ (page[c] = "joining" => Unanswered(c))
    BY <2>1, <2>2 DEF Rest, Turns, JoinsLast, Leaves
  <2>4. QED
    BY <1>1, <1>0, <2>2, <2>3 DEF ServeJoin, Serves, Turns, AddingApart, MembersPoint, JoinsLast,
       GetsAlone, RequestsOfPage, AnswersOfPage, Belongs, Unanswered, IsAnswer
<1>2. CASE RefuseJoin(c)
  <2>1. Rest(requests[c], requests'[c]) /\ requests[c][1].type = "join"
    BY <1>2, ServesRest DEF RefuseJoin
  <2>2. Len(requests[c]) = 1 /\ requests'[c] = <<>> BY <2>1 DEF Rest, Turns, JoinsLast
  <2>3. c \notin members /\ page[c] \in {"joining", "gone"}
        /\ (page[c] = "joining" => Unanswered(c))
    BY <2>1, <2>2 DEF Rest, Turns, JoinsLast, Leaves
  <2>4. requests[c] # <<>> BY <1>2 DEF RefuseJoin, Serves
  <2>5. IF sock[c] = "open" THEN Gets(c, [type |-> "refused"]) ELSE Same(c)
    BY <1>2, ReplyGets DEF RefuseJoin
  <2>6. c \notin adding BY <2>4 DEF Turns, AddingApart
  <2>7. UNCHANGED <<sock, members, adding, pointing>> BY <1>2 DEF RefuseJoin, Serves
  <2>8. QED BY <1>0, <2>2, <2>3, <2>5, <2>6, <2>7, AnsweredTurns
<1>3. CASE JoinDone(c)
  <2>1. IF sock[c] = "open" THEN Gets(c, [type |-> "joined"]) ELSE Same(c)
    BY <1>3, AnnounceGets DEF JoinDone
  <2>2. /\ c \in members' /\ c \notin adding' /\ c \in pointing'
        /\ sock'[c] = sock[c] /\ page'[c] = page[c]
        /\ requests'[c] = <<>> /\ DOMAIN requests'[c] = {}
        /\ page[c] \in {"joining", "gone"} /\ (page[c] = "joining" => Unanswered(c))
    BY <1>3, <1>0 DEF JoinDone, Turns, AddingApart, MembersPoint
  <2>3. /\ AddingApart(c)' /\ MembersPoint(c)' /\ JoinsLast(c)' /\ GetsAlone(c)'
        /\ RequestsOfPage(c)'
    BY <2>2 DEF AddingApart, MembersPoint, JoinsLast, GetsAlone, RequestsOfPage
  <2>4. AnswersOfPage(c)'
    BY <1>0, <2>1, <2>2 DEF Turns, AnswersOfPage, Unanswered, IsAnswer, Gets, More, Same
  <2>5. Belongs(c)'
    BY <1>0, <2>1, <2>2 DEF Turns, Belongs, Unanswered, IsAnswer, Gets, More, Same
  <2>6. QED BY <2>3, <2>4, <2>5 DEF Turns
<1>4. CASE JoinFailed(c)
  <2>1. IF sock[c] = "open" THEN Gets(c, [type |-> "refused"]) ELSE Same(c)
    BY <1>4, ReplyGets DEF JoinFailed
  <2>2. QED
    BY <1>4, <1>0, <2>1 DEF JoinFailed, Turns, AddingApart,
       MembersPoint, JoinsLast, GetsAlone, RequestsOfPage, AnswersOfPage, Belongs, Unanswered,
       IsAnswer, Gets, More, Same
<1>5. CASE ServeGetRoom(c)
  <2>1. Rest(requests[c], requests'[c]) /\ requests[c][1].type = "get"
    BY <1>5, ServesRest DEF ServeGetRoom
  <2>2. Len(requests[c]) = 1 /\ requests'[c] = <<>> BY <2>1 DEF Rest, Turns, GetsAlone
  <2>3. page[c] \in {"entering", "gone"} /\ (page[c] = "entering" => Unanswered(c))
    BY <2>1 DEF Rest, Turns, GetsAlone
  <2>4. PICK m \in Push : m.type = "room" /\ Reply(c, m)
    <3>1. [type |-> "room", users |-> members, locked |-> locked] \in Push
      BY DEF SessionTypeOK
    <3>2. QED BY <3>1, <1>5 DEF ServeGetRoom
  <2>5. IF sock[c] = "open" THEN Gets(c, m) ELSE Same(c) BY <2>4, ReplyGets
  <2>6. requests[c] # <<>> /\ c \notin adding
    BY <1>5 DEF ServeGetRoom, Serves, Turns, AddingApart
  <2>7. c \in members /\ UNCHANGED <<sock, members, adding, pointing>>
    BY <1>5 DEF ServeGetRoom, Serves
  <2>8. QED BY <1>0, <2>2, <2>3, <2>4, <2>5, <2>6, <2>7, AnsweredTurns
<1>6. CASE ServeLeave(c)
  <2>1. Rest(requests[c], requests'[c]) /\ requests[c][1].type = "leave"
    BY <1>6, ServesRest DEF ServeLeave
  <2>2. c \notin members' /\ c \notin adding /\ UNCHANGED <<adding, sock>>
    <3>1. requests[c] # <<>> BY <1>6 DEF ServeLeave, Serves
    <3>2. c \notin adding BY <3>1 DEF Turns, AddingApart
    <3>3. c \in members => c \in pointing BY DEF Turns, MembersPoint
    <3>4. QED BY <1>6, <3>2, <3>3 DEF ServeLeave, Serves
  <2>3. Same(c) BY <1>6, AnnounceGets DEF ServeLeave, Same
  <2>4. page[c] \in {"home", "joining", "gone"}
    <3>1. page[c] \notin {"entering", "room"} BY <2>1 DEF Rest, Turns, RequestsOfPage
    <3>2. QED BY <3>1 DEF SessionTypeOK, Pages
  <2>5. AddingApart(c)' /\ MembersPoint(c)' BY <2>2 DEF AddingApart, MembersPoint
  <2>6. Unanswered(c) => Unanswered(c)' BY <2>3 DEF Unanswered, Same
  <2>7. JoinsLast(c)' /\ GetsAlone(c)' /\ RequestsOfPage(c)'
    BY <1>0, <2>1, <2>2, <2>6, RestTurns
  <2>9. AnswersOfPage(c)' BY <1>0, <2>1, <2>3 DEF Rest, Same, Turns, AnswersOfPage
  <2>10. Belongs(c)'
    <3>1. \A i \in DOMAIN pushes[c] : page[c] = "joining" => ~IsAnswer(pushes[c][i])
      BY <2>1 DEF Rest, Turns, AnswersOfPage
    <3>2. QED BY <1>0, <2>2, <2>3, <2>4, <3>1 DEF Same, Turns, Belongs, IsAnswer
  <2>11. QED BY <2>5, <2>7, <2>9, <2>10 DEF Turns
<1>7. CASE ServeLock(c) \/ RefuseLock(c)
  <2>1. Rest(requests[c], requests'[c]) /\ requests[c][1].type = "lock"
    BY <1>7, ServesRest DEF ServeLock, RefuseLock
  <2>2. UNCHANGED <<sock, members, adding, pointing>> /\ c \notin adding
    BY <1>7 DEF ServeLock, RefuseLock, Serves, Turns, AddingApart
  <2>3. Same(c) \/ \E m \in Push : ~IsAnswer(m) /\ Gets(c, m)
    <3>1. CASE ServeLock(c)
      <4>1. PICK b \in BOOLEAN :
              Announce(c, <<[type |-> "lockReply", locked |-> b]>>, members,
                       [type |-> "lock", locked |-> b])
        BY <3>1, ServeLockIs
      <4>2. PICK r \in Push : r = [type |-> "lockReply", locked |-> b] OBVIOUS
      <4>3. Same(c) \/ Gets(c, r) BY <4>1, <4>2, AnnounceGets
      <4>4. ~IsAnswer(r) BY <4>2 DEF IsAnswer
      <4>5. QED BY <4>3, <4>4
    <3>2. CASE RefuseLock(c)
      <4>1. PICK r \in Push : r = [type |-> "lockRefused"] OBVIOUS
      <4>2. Same(c) \/ Gets(c, r) BY <3>2, <4>1, ReplyGets DEF RefuseLock
      <4>3. ~IsAnswer(r) BY <4>1 DEF IsAnswer
      <4>4. QED BY <4>2, <4>3
    <3>3. QED BY <1>7, <3>1, <3>2
  <2>4. (Unanswered(c) => Unanswered(c)')
    BY <2>3 DEF Same, Gets, More, Unanswered, IsAnswer
  <2>5. \A i \in DOMAIN pushes'[c] : IsAnswer(pushes'[c][i]) =>
          i \in DOMAIN pushes[c] /\ pushes'[c][i] = pushes[c][i]
    BY <2>3 DEF Same, Gets, More, IsAnswer
  <2>6. Leaves(c) => Leaves(c)'
    <3> SUFFICES ASSUME NEW i \in DOMAIN requests[c], requests[c][i].type = "leave"
                 PROVE  Leaves(c)'
      BY DEF Leaves
    <3>1. i > 1 BY <2>1 DEF Rest
    <3>2. i - 1 \in DOMAIN requests'[c] /\ requests'[c][i - 1].type = "leave"
      BY <2>1, <3>1 DEF Rest
    <3>3. QED BY <3>2 DEF Leaves
  <2>7. AddingApart(c)' /\ MembersPoint(c)'
    BY <2>2 DEF Turns, AddingApart, MembersPoint
  <2>8. JoinsLast(c)' /\ GetsAlone(c)' /\ RequestsOfPage(c)'
    BY <1>0, <2>1, <2>2, <2>4, <2>6, RestTurns
  <2>11. AnswersOfPage(c)' BY <1>0, <2>1, <2>5 DEF Rest, Turns, AnswersOfPage
  <2>12. Belongs(c)' BY <1>0, <2>2, <2>5, <2>6 DEF Turns, Belongs, IsAnswer
  <2>13. QED BY <2>7, <2>8, <2>11, <2>12 DEF Turns
<1>8. CASE OnClose(c)
  <2>1. Same(c) /\ requests'[c] = <<>> /\ sock'[c] = "closed" /\ UNCHANGED <<adding, pointing>>
    BY <1>8, AnnounceGets DEF OnClose, Same, SessionTypeOK
  <2>2. c \in members' => c \in members BY <1>8 DEF OnClose
  <2>3. AddingApart(c)' /\ MembersPoint(c)'
    BY <1>0, <2>1, <2>2 DEF Turns, AddingApart, MembersPoint, Unanswered, Same
  <2>4. JoinsLast(c)' /\ GetsAlone(c)' /\ RequestsOfPage(c)'
    BY <2>1 DEF JoinsLast, GetsAlone, RequestsOfPage
  <2>5. AnswersOfPage(c)' BY <1>0, <2>1 DEF Same, Turns, AnswersOfPage
  <2>6. Belongs(c)' BY <2>1 DEF Belongs
  <2>7. QED BY <2>3, <2>4, <2>5, <2>6 DEF Turns
<1>9. QED BY <1>1, <1>2, <1>3, <1>4, <1>5, <1>6, <1>7, <1>8 DEF ServerStep
-----------------------------------------------------------------------------
(* The pages' steps *)

TurnsServer == <<members, adding, pointing>>

LEMMA PageBystanders ==
  ASSUME SessionTypeOK, NEW c \in Clients, HearStep(c) \/ UserStep(c),
         NEW e \in Clients, e # c
  PROVE  Bystander(e) /\ Same(e)
<1>1. UNCHANGED TurnsServer
  BY DEF HearStep, OnJoined, OnRefused, OnRoom, OnUserConnected, OnUserDisconnected, OnPushLock,
         OnLockReply, OnLockRefused, Hears, UserStep, Join, Leave, Quit, OpenManager,
         CloseManager, ToggleLock, serverVars, TurnsServer
<1>2. CASE HearStep(c)
  <2>1. \E t : Hears(c, t)
    BY <1>2 DEF HearStep, OnJoined, OnRefused, OnRoom, OnUserConnected, OnUserDisconnected,
       OnPushLock, OnLockReply, OnLockRefused
  <2>2. Same(e) /\ sock'[e] = sock[e] BY <2>1, HearsRest DEF Same, Hears, serverVars
  <2>3. page'[e] = page[e] /\ requests'[e] = requests[e]
    <3>1. CASE OnJoined(c) \/ OnRefused(c)
      BY <3>1 DEF SessionTypeOK, OnJoined, OnRefused, Asks
    <3>2. CASE OnRoom(c) BY <3>2 DEF SessionTypeOK, OnRoom
    <3>3. CASE OnUserConnected(c) \/ OnUserDisconnected(c) \/ OnPushLock(c) \/ OnLockReply(c)
               \/ OnLockRefused(c)
      BY <3>3 DEF OnUserConnected, OnUserDisconnected, OnPushLock, OnLockReply, OnLockRefused
    <3>4. QED BY <1>2, <3>1, <3>2, <3>3 DEF HearStep
  <2>4. QED BY <1>1, <2>2, <2>3 DEF Bystander, TurnsServer
<1>3. CASE UserStep(c)
  <2>1. Same(e)
    BY <1>3 DEF Same, UserStep, Join, Leave, Quit, OpenManager, CloseManager, ToggleLock
  <2>2. sock'[e] = sock[e] /\ page'[e] = page[e]
    BY <1>3 DEF SessionTypeOK, UserStep, Join, Leave, Quit, OpenManager, CloseManager,
       ToggleLock, serverVars
  <2>3. requests'[e] = requests[e]
    BY <1>3 DEF SessionTypeOK, UserStep, Join, Leave, Quit, OpenManager, CloseManager,
       ToggleLock, Asks
  <2>4. QED BY <1>1, <2>1, <2>2, <2>3 DEF Bystander, TurnsServer
<1>4. QED BY <1>2, <1>3

\* Hearing what changes neither page nor requests.
LEMMA RestHeard ==
  ASSUME NEW c \in Clients, Turns(c), Rest(pushes[c], pushes'[c]),
         UNCHANGED <<page, sock, TurnsServer>>, requests'[c] = requests[c]
  PROVE  Turns(c)'
<1>1. /\ \A i \in DOMAIN pushes'[c] :
           i + 1 \in DOMAIN pushes[c] /\ pushes'[c][i] = pushes[c][i + 1]
      /\ \A i \in DOMAIN pushes'[c] : i \in Nat
  BY DEF Rest
<1>2. Unanswered(c) => Unanswered(c)' BY <1>1 DEF Unanswered, IsAnswer
<1>3. Leaves(c) <=> Leaves(c)' BY DEF Leaves
<1>4. AddingApart(c)' /\ MembersPoint(c)' /\ JoinsLast(c)' /\ GetsAlone(c)' /\ RequestsOfPage(c)'
  BY <1>2, <1>3 DEF Turns, AddingApart, MembersPoint, JoinsLast, GetsAlone, RequestsOfPage,
     TurnsServer
<1>5. AnswersOfPage(c)'
  <2> SUFFICES ASSUME NEW i \in DOMAIN pushes'[c], IsAnswer(pushes'[c][i])
               PROVE  /\ page[c] \in {"joining", "entering", "gone"}
                      /\ page[c] = "joining" => pushes'[c][i].type # "room" /\ requests[c] = <<>>
                      /\ page[c] = "entering" => pushes'[c][i].type = "room"
                      /\ page[c] # "gone" =>
                           \A j \in DOMAIN pushes'[c] : IsAnswer(pushes'[c][j]) => j = i
    BY DEF AnswersOfPage
  <2>1. i + 1 \in DOMAIN pushes[c] /\ IsAnswer(pushes[c][i + 1]) BY <1>1
  <2>2. /\ page[c] \in {"joining", "entering", "gone"}
        /\ page[c] = "joining" => pushes[c][i + 1].type # "room" /\ requests[c] = <<>>
        /\ page[c] = "entering" => pushes[c][i + 1].type = "room"
        /\ page[c] # "gone" =>
             \A j \in DOMAIN pushes[c] : IsAnswer(pushes[c][j]) => j = i + 1
    BY <2>1 DEF Turns, AnswersOfPage
  <2>3. page[c] # "gone" => \A j \in DOMAIN pushes'[c] : IsAnswer(pushes'[c][j]) => j = i
    BY <2>2, <1>1
  <2>4. QED BY <2>2, <2>3, <1>1
<1>6. Belongs(c)' BY <1>1, <1>3 DEF Turns, Belongs, TurnsServer
<1>7. QED BY <1>4, <1>5, <1>6 DEF Turns

\* The answer a page has waited for is the only one, and it has nothing else under way.
LEMMA AnswerHeard ==
  ASSUME NEW c \in Clients, Turns(c), Rest(pushes[c], pushes'[c]), IsAnswer(pushes[c][1]),
         page[c] # "gone"
  PROVE  /\ page[c] \in {"joining", "entering"} /\ c \notin adding
         /\ requests[c] = <<>> \/ DOMAIN requests[c] = {}
         /\ page[c] = "joining" => pushes[c][1].type # "room" /\ requests[c] = <<>>
         /\ page[c] = "entering" => pushes[c][1].type = "room"
         /\ \A i \in DOMAIN pushes'[c] : ~IsAnswer(pushes'[c][i])
<1>1. 1 \in DOMAIN pushes[c] BY DEF Rest
<1>2. /\ page[c] \in {"joining", "entering"}
      /\ page[c] = "joining" => pushes[c][1].type # "room" /\ requests[c] = <<>>
      /\ page[c] = "entering" => pushes[c][1].type = "room"
      /\ \A j \in DOMAIN pushes[c] : IsAnswer(pushes[c][j]) => j = 1
  BY <1>1 DEF Turns, AnswersOfPage
<1>3. ~Unanswered(c) BY <1>1 DEF Unanswered
<1>4. c \notin adding BY <1>2, <1>3 DEF Turns, AddingApart
<1>5. page[c] = "entering" => DOMAIN requests[c] = {}
  BY <1>3 DEF Turns, RequestsOfPage, GetsAlone
<1>6. \A i \in DOMAIN pushes'[c] : ~IsAnswer(pushes'[c][i])
  <2> SUFFICES ASSUME NEW i \in DOMAIN pushes'[c], IsAnswer(pushes'[c][i]) PROVE FALSE
    OBVIOUS
  <2>1. i + 1 \in DOMAIN pushes[c] /\ IsAnswer(pushes[c][i + 1]) /\ i \in Nat /\ i >= 1
    BY DEF Rest
  <2>2. QED BY <2>1, <1>2
<1>7. QED BY <1>2, <1>4, <1>5, <1>6

LEMMA HearOwnTurns ==
  ASSUME SessionTypeOK, NEW c \in Clients, HearStep(c), Turns(c)
  PROVE  Turns(c)'
<1>1. PICK t : Hears(c, t)
  BY DEF HearStep, OnJoined, OnRefused, OnRoom, OnUserConnected, OnUserDisconnected,
         OnPushLock, OnLockReply, OnLockRefused
<1>2. /\ Rest(pushes[c], pushes'[c]) /\ pushes[c][1].type = t /\ 1 \in DOMAIN pushes[c]
      /\ UNCHANGED <<sock, TurnsServer>>
  BY <1>1, HearsRest DEF Hears, serverVars, TurnsServer, Rest
<1>3. CASE UNCHANGED page /\ requests'[c] = requests[c] BY <1>2, <1>3, RestHeard
<1>4. CASE OnJoined(c) /\ page[c] = "joining"
  <2>1. pushes[c][1].type = "joined" BY <1>4, HearsRest DEF OnJoined
  <2>2. /\ c \notin adding /\ requests[c] = <<>>
        /\ \A i \in DOMAIN pushes'[c] : ~IsAnswer(pushes'[c][i])
    BY <1>2, <1>4, <2>1, AnswerHeard DEF IsAnswer
  <2>3. page'[c] = "entering" BY <1>4 DEF OnJoined, SessionTypeOK
  <2>4. sock[c] = "open" => c \in members BY <1>2, <1>4, <2>1 DEF Turns, Belongs
  <2>5. PICK r \in Request : r = [type |-> "get"] BY DEF Request
  <2>6. More(requests[c], requests'[c], r) BY <1>4, <2>5, AsksMore DEF OnJoined
  <2>7. Len(requests'[c]) = 1 /\ \A k \in DOMAIN requests'[c] : requests'[c][k].type = "get"
    <3>1. Len(requests[c]) = 0 BY <2>2
    <3>2. QED BY <2>5, <2>6, <3>1 DEF More
  <2>8. AddingApart(c)' /\ MembersPoint(c)'
    BY <1>2, <2>2 DEF Turns, AddingApart, MembersPoint, TurnsServer
  <2>9. JoinsLast(c)' /\ GetsAlone(c)' /\ RequestsOfPage(c)'
    BY <2>2, <2>3, <2>7 DEF JoinsLast, GetsAlone, RequestsOfPage, Unanswered
  <2>10. AnswersOfPage(c)' BY <2>2 DEF AnswersOfPage
  <2>11. Belongs(c)' BY <1>2, <2>3, <2>4 DEF Belongs, TurnsServer
  <2>12. QED BY <2>8, <2>9, <2>10, <2>11 DEF Turns
<1>5. CASE OnRefused(c) /\ page[c] = "joining"
  <2>1. pushes[c][1].type = "refused" BY <1>5, HearsRest DEF OnRefused
  <2>2. /\ c \notin adding /\ requests[c] = <<>>
        /\ \A i \in DOMAIN pushes'[c] : ~IsAnswer(pushes'[c][i])
    BY <1>2, <1>5, <2>1, AnswerHeard DEF IsAnswer
  <2>3. page'[c] = "home" /\ requests'[c] = <<>> BY <1>5, <2>2 DEF OnRefused, SessionTypeOK
  <2>4. sock[c] = "open" => c \notin members BY <1>2, <1>5, <2>1 DEF Turns, Belongs
  <2>5. AddingApart(c)' /\ MembersPoint(c)'
    BY <1>2, <2>2 DEF Turns, AddingApart, MembersPoint, TurnsServer
  <2>6. JoinsLast(c)' /\ GetsAlone(c)' /\ RequestsOfPage(c)'
    BY <2>3 DEF JoinsLast, GetsAlone, RequestsOfPage
  <2>7. AnswersOfPage(c)' BY <2>2 DEF AnswersOfPage
  <2>8. Belongs(c)' BY <1>2, <2>3, <2>4 DEF Belongs, TurnsServer
  <2>9. QED BY <2>5, <2>6, <2>7, <2>8 DEF Turns
<1>6. CASE OnRoom(c) /\ page[c] = "entering"
  <2>1. pushes[c][1].type = "room" BY <1>6, HearsRest DEF OnRoom
  <2>2. /\ c \notin adding
        /\ requests[c] = <<>> \/ DOMAIN requests[c] = {}
        /\ \A i \in DOMAIN pushes'[c] : ~IsAnswer(pushes'[c][i])
    BY <1>2, <1>6, <2>1, AnswerHeard DEF IsAnswer
  <2>3. page'[c] = "room" /\ requests'[c] = requests[c] BY <1>6 DEF OnRoom, SessionTypeOK
  <2>4. DOMAIN requests'[c] = {} BY <2>2, <2>3
  <2>5. sock[c] = "open" => c \in members BY <1>6 DEF Turns, Belongs
  <2>6. AddingApart(c)' /\ MembersPoint(c)'
    BY <1>2, <2>2 DEF Turns, AddingApart, MembersPoint, TurnsServer
  <2>7. JoinsLast(c)' /\ GetsAlone(c)' /\ RequestsOfPage(c)'
    BY <2>4 DEF JoinsLast, GetsAlone, RequestsOfPage
  <2>8. AnswersOfPage(c)' BY <2>2 DEF AnswersOfPage
  <2>9. Belongs(c)' BY <1>2, <2>3, <2>5 DEF Belongs, TurnsServer
  <2>10. QED BY <2>6, <2>7, <2>8, <2>9 DEF Turns
<1>7. QED
  BY <1>3, <1>4, <1>5, <1>6 DEF HearStep, OnJoined, OnRefused, OnRoom, OnUserConnected,
     OnUserDisconnected, OnPushLock, OnLockReply, OnLockRefused, SessionTypeOK

LEMMA UserOwnTurns ==
  ASSUME SessionTypeOK, NEW c \in Clients, UserStep(c), Turns(c)
  PROVE  Turns(c)'
<1>1. UNCHANGED TurnsServer /\ Same(c)
  BY DEF UserStep, Join, Leave, Quit, OpenManager, CloseManager, ToggleLock, serverVars,
     TurnsServer, Same
<1>2. page[c] \in {"home", "room"} =>
        /\ c \notin adding
        /\ \A i \in DOMAIN pushes[c] : ~IsAnswer(pushes[c][i])
  BY DEF Turns, AddingApart, AnswersOfPage
<1>3. CASE Join(c)
  <2>1. page[c] = "home" /\ page'[c] = "joining" /\ sock[c] = "open" /\ UNCHANGED sock
    BY <1>3 DEF Join, SessionTypeOK, serverVars
  <2>2. PICK r \in Request : r = [type |-> "join"] BY DEF Request
  <2>3. More(requests[c], requests'[c], r) BY <1>3, <2>2, AsksMore DEF Join
  <2>4. Leaves(c) => Leaves(c)' BY <2>3 DEF More, Leaves
  <2>5. AddingApart(c)' /\ MembersPoint(c)'
    BY <1>1, <1>2, <2>1 DEF Turns, AddingApart, MembersPoint, TurnsServer
  <2>6. Unanswered(c)' BY <1>1, <1>2, <2>1 DEF Same, Unanswered
  <2>7. \A k \in DOMAIN requests'[c] :
          \/ k \in DOMAIN requests[c] /\ requests'[c][k].type \in {"lock", "leave"}
          \/ k = Len(requests'[c]) /\ requests'[c][k].type = "join"
    BY <2>1, <2>2, <2>3 DEF More, Turns, RequestsOfPage
  <2>8. c \in members => Leaves(c) BY <2>1 DEF Turns, Belongs
  <2>9. JoinsLast(c)' /\ GetsAlone(c)' /\ RequestsOfPage(c)'
    BY <1>1, <2>1, <2>4, <2>6, <2>7, <2>8 DEF JoinsLast, GetsAlone, RequestsOfPage, TurnsServer
  <2>10. AnswersOfPage(c)' BY <2>6 DEF AnswersOfPage, Unanswered
  <2>11. Belongs(c)' BY <2>1, <2>6 DEF Belongs, Unanswered, IsAnswer
  <2>12. QED BY <2>5, <2>9, <2>10, <2>11 DEF Turns
<1>4. CASE Leave(c)
  <2>1. page[c] = "room" /\ page'[c] = "home" /\ UNCHANGED sock
    BY <1>4 DEF Leave, SessionTypeOK, serverVars
  <2>2. PICK r \in Request : r = [type |-> "leave"] BY DEF Request
  <2>3. More(requests[c], requests'[c], r) BY <1>4, <2>2, AsksMore DEF Leave
  <2>4. Len(requests'[c]) \in DOMAIN requests'[c] /\ requests'[c][Len(requests'[c])] = r
    BY <2>3 DEF More
  <2>5. Leaves(c)' BY <2>2, <2>4 DEF Leaves
  <2>6. AddingApart(c)' /\ MembersPoint(c)'
    BY <1>1, <1>2, <2>1 DEF Turns, AddingApart, MembersPoint, TurnsServer
  <2>7. \A k \in DOMAIN requests'[c] : requests'[c][k].type \in {"lock", "leave"}
    BY <2>1, <2>2, <2>3 DEF More, Turns, RequestsOfPage
  <2>8. JoinsLast(c)' /\ GetsAlone(c)' /\ RequestsOfPage(c)'
    BY <2>1, <2>7 DEF JoinsLast, GetsAlone, RequestsOfPage
  <2>9. AnswersOfPage(c)' BY <1>1, <1>2, <2>1 DEF AnswersOfPage, Same
  <2>10. Belongs(c)' BY <2>1, <2>5 DEF Belongs
  <2>11. QED BY <2>6, <2>8, <2>9, <2>10 DEF Turns
<1>5. CASE Quit(c)
  <2>1. page'[c] = "gone" /\ sock'[c] # "open" /\ requests'[c] = requests[c]
    BY <1>5 DEF Quit, SessionTypeOK
  <2>2. Leaves(c) => Leaves(c)' BY <2>1 DEF Leaves
  <2>3. AddingApart(c)' /\ MembersPoint(c)' /\ JoinsLast(c)' /\ GetsAlone(c)' /\ RequestsOfPage(c)'
    BY <1>1, <2>1, <2>2 DEF Turns, AddingApart, MembersPoint, JoinsLast, GetsAlone,
       RequestsOfPage, TurnsServer
  <2>4. AnswersOfPage(c)' BY <2>1 DEF AnswersOfPage
  <2>5. Belongs(c)' BY <2>1 DEF Belongs
  <2>6. QED BY <2>3, <2>4, <2>5 DEF Turns
<1>6. CASE OpenManager(c) \/ CloseManager(c)
  <2>1. Bystander(c)
    BY <1>1, <1>6 DEF OpenManager, CloseManager, Bystander, TurnsServer, serverVars
  <2>2. QED BY <1>1, <2>1, BystanderTurns
<1>7. CASE ToggleLock(c)
  <2>1. page[c] = "room" /\ UNCHANGED <<page, sock>>
    BY <1>7 DEF ToggleLock, serverVars
  <2>2. PICK r \in Request : r.type = "lock" /\ Asks(c, r)
    <3>1. manager[c].locked \in BOOLEAN BY DEF SessionTypeOK, Manager
    <3>2. [type |-> "lock", locked |-> ~manager[c].locked] \in Request
      BY <3>1, Zenon DEF Request
    <3>3. QED BY <1>7, <3>2 DEF ToggleLock
  <2>3. More(requests[c], requests'[c], r) BY <2>2, AsksMore
  <2>4. \A k \in DOMAIN requests'[c] : requests'[c][k].type = "lock"
    BY <2>1, <2>2, <2>3 DEF More, Turns, RequestsOfPage
  <2>5. AddingApart(c)' /\ MembersPoint(c)'
    BY <1>1, <1>2, <2>1 DEF Turns, AddingApart, MembersPoint, TurnsServer
  <2>6. JoinsLast(c)' /\ GetsAlone(c)' /\ RequestsOfPage(c)'
    BY <2>1, <2>4 DEF JoinsLast, GetsAlone, RequestsOfPage
  <2>7. AnswersOfPage(c)' BY <1>1, <1>2, <2>1 DEF AnswersOfPage, Same
  <2>8. Belongs(c)' BY <1>1, <2>1 DEF Turns, Belongs, TurnsServer
  <2>9. QED BY <2>5, <2>6, <2>7, <2>8 DEF Turns
<1>8. QED BY <1>3, <1>4, <1>5, <1>6, <1>7 DEF UserStep

LEMMA InitTurns == Init => TurnsInv
<1> SUFFICES ASSUME Init, NEW c \in Clients PROVE Turns(c) BY DEF TurnsInv
<1>1. /\ requests[c] = <<>> /\ pushes[c] = <<>> /\ page[c] = "home"
      /\ members = {} /\ adding = {}
  BY DEF Init
<1>2. AddingApart(c) /\ MembersPoint(c) BY <1>1 DEF AddingApart, MembersPoint
<1>3. JoinsLast(c) /\ GetsAlone(c) /\ RequestsOfPage(c)
  BY <1>1 DEF JoinsLast, GetsAlone, RequestsOfPage
<1>4. AnswersOfPage(c) BY <1>1 DEF AnswersOfPage
<1>5. Belongs(c) BY <1>1 DEF Belongs
<1>6. QED BY <1>2, <1>3, <1>4, <1>5 DEF Turns

LEMMA NextTurns ==
  ASSUME SessionTypeOK, TurnsInv, NEW c \in Clients,
         ServerStep(c) \/ HearStep(c) \/ UserStep(c)
  PROVE  TurnsInv'
<1> SUFFICES ASSUME NEW e \in Clients PROVE Turns(e)' BY DEF TurnsInv
<1>1. Turns(e) BY DEF TurnsInv
<1>2. CASE e = c BY <1>1, <1>2, ServerOwnTurns, HearOwnTurns, UserOwnTurns
<1>3. CASE e # c BY <1>1, <1>3, ServerOthersTurns, PageBystanders, BystanderTurns
<1>4. QED BY <1>2, <1>3
-----------------------------------------------------------------------------
(* Who waits for whose offer *)

\* What a page shows, or will from the reply it waits for.
IsRoom(m) == m.type = "room"
IsJoinOf(m, d) == m.type = "connected" /\ m.user = d
Told(c) ==
  \/ page[c] = "room"
  \/ page[c] = "entering" /\ \E i \in DOMAIN pushes[c] : IsRoom(pushes[c][i])
\* The i-th message is heard by the room page.
FollowsReply(c, i) == page[c] = "room" \/ \E k \in 1 .. i : IsRoom(pushes[c][k])

\* c waits for d's offer, or will once it has heard of d.
WillHear(c, d) ==
  Told(c) /\ \E i \in DOMAIN pushes[c] : FollowsReply(c, i) /\ IsJoinOf(pushes[c][i], d)
Awaits(c, d) == role[c][d] = "polite" \/ WillHear(c, d)
NeverBoth == \A c, d \in Clients : ~(Awaits(c, d) /\ Awaits(d, c))
\* Only the room's page has controllers and a list.
OnlyInRoom(c) == page[c] # "room" => \A d \in Clients : role[c][d] = "none" /\ list[c][d] = 0
RolesInv == \A c \in Clients : OnlyInRoom(c)

\* Only the actor's own page changes its view.
SameView(e) ==
  /\ list'[e] = list[e] /\ role'[e] = role[e] /\ lockView'[e] = lockView[e]
  /\ manager'[e] = manager[e]
LEMMA OthersView ==
  ASSUME SessionTypeOK, NEW c \in Clients, ServerStep(c) \/ HearStep(c) \/ UserStep(c),
         NEW e \in Clients, e # c \/ ServerStep(c)
  PROVE  SameView(e)
<1>1. CASE ServerStep(c)
  <2>1. UNCHANGED viewVars
    BY <1>1 DEF ServerStep, ServeJoin, RefuseJoin, JoinDone, JoinFailed, ServeGetRoom, ServeLeave,
           ServeLock, RefuseLock, OnClose, Serves
  <2>2. QED BY <2>1 DEF viewVars, SameView
<1>2. CASE HearStep(c) /\ e # c
  <2> USE <1>2 DEF SessionTypeOK, viewVars, SameView, Renewed
  <2>1. CASE OnJoined(c) \/ OnRefused(c) BY <2>1 DEF OnJoined, OnRefused
  <2>2. CASE OnRoom(c) BY <2>2 DEF OnRoom
  <2>3. CASE OnUserConnected(c) BY <2>3 DEF OnUserConnected
  <2>4. CASE OnUserDisconnected(c) BY <2>4 DEF OnUserDisconnected
  <2>5. CASE OnPushLock(c) \/ OnLockReply(c) \/ OnLockRefused(c)
    BY <2>5 DEF OnPushLock, OnLockReply, OnLockRefused
  <2>6. QED BY <2>1, <2>2, <2>3, <2>4, <2>5 DEF HearStep
<1>3. CASE UserStep(c) /\ e # c
  BY <1>3 DEF SessionTypeOK, UserStep, Join, Leave, Quit, OpenManager, CloseManager,
     ToggleLock, Destroyed, viewVars, SameView
<1>4. QED BY <1>1, <1>2, <1>3

LEMMA RolesStep ==
  ASSUME SessionTypeOK, RolesInv, NEW c \in Clients,
         ServerStep(c) \/ HearStep(c) \/ UserStep(c)
  PROVE  RolesInv'
<1> SUFFICES ASSUME NEW e \in Clients PROVE OnlyInRoom(e)' BY DEF RolesInv
<1>1. OnlyInRoom(e) BY DEF RolesInv
<1>2. CASE e # c \/ ServerStep(c)
  <2>1. SameView(e) BY <1>2, OthersView
  <2>2. page'[e] = page[e]
    <3>1. CASE e # c BY <3>1, ServerBystanders, PageBystanders DEF Bystander
    <3>2. CASE ServerStep(c)
      BY <3>2 DEF ServerStep, ServeJoin, RefuseJoin, JoinDone, JoinFailed, ServeGetRoom,
         ServeLeave, ServeLock, RefuseLock, OnClose, Serves
    <3>3. QED BY <1>2, <3>1, <3>2
  <2>3. QED BY <1>1, <2>1, <2>2 DEF OnlyInRoom, SameView
<1>3. CASE e = c /\ HearStep(c)
  <2>1. CASE OnUserConnected(c) \/ OnUserDisconnected(c)
    BY <1>1, <1>3, <2>1 DEF OnUserConnected, OnUserDisconnected, OnlyInRoom
  <2>2. CASE OnRoom(c)
    BY <1>1, <1>3, <2>2 DEF OnRoom, OnlyInRoom, SessionTypeOK
  <2>3. CASE OnJoined(c) \/ OnRefused(c)
    BY <1>1, <1>3, <2>3 DEF OnJoined, OnRefused, OnlyInRoom, viewVars, SessionTypeOK
  <2>4. CASE OnPushLock(c) \/ OnLockReply(c) \/ OnLockRefused(c)
    BY <1>1, <1>3, <2>4 DEF OnPushLock, OnLockReply, OnLockRefused, OnlyInRoom
  <2>5. QED BY <1>3, <2>1, <2>2, <2>3, <2>4 DEF HearStep
<1>4. CASE e = c /\ UserStep(c)
  <2>1. CASE Leave(c) \/ Quit(c)
    <3>1. list'[c] = NoOne /\ role'[c] = NoPeers
      BY <2>1 DEF Leave, Quit, Destroyed, SessionTypeOK
    <3>2. QED BY <1>4, <3>1 DEF OnlyInRoom, NoOne, NoPeers
  <2>2. CASE Join(c)
    BY <1>1, <1>4, <2>2 DEF Join, OnlyInRoom, viewVars
  <2>3. CASE OpenManager(c) \/ CloseManager(c) \/ ToggleLock(c)
    BY <1>1, <1>4, <2>3 DEF OpenManager, CloseManager, ToggleLock, OnlyInRoom
  <2>4. QED BY <1>4, <2>1, <2>2, <2>3 DEF UserStep
<1>5. QED BY <1>2, <1>3, <1>4

\* One more message that is no join of d's makes c expect nothing new of d.
LEMMA MoreHears ==
  ASSUME NEW c \in Clients, NEW d \in Clients, NEW m \in Push, Gets(c, m),
         page'[c] = page[c], ~IsJoinOf(m, d), WillHear(c, d)'
  PROVE  WillHear(c, d)
<1>1. PICK i \in DOMAIN pushes'[c] : FollowsReply(c, i)' /\ IsJoinOf(pushes'[c][i], d)
  BY DEF WillHear
<1>2. /\ i \in DOMAIN pushes[c] /\ pushes'[c][i] = pushes[c][i]
      /\ \A k \in 1 .. i : k \in DOMAIN pushes[c] /\ pushes'[c][k] = pushes[c][k]
  BY <1>1 DEF Gets, More
<1>3. FollowsReply(c, i) BY <1>1, <1>2 DEF FollowsReply
<1>4. Told(c)
  <2>1. page[c] \in {"room", "entering"} BY DEF WillHear, Told
  <2>2. QED BY <2>1, <1>2, <1>3 DEF FollowsReply, Told
<1>5. QED BY <1>1, <1>2, <1>3, <1>4 DEF WillHear

\* Nor does hearing the first message.
LEMMA RestHears ==
  ASSUME NEW c \in Clients, NEW d \in Clients, Rest(pushes[c], pushes'[c]),
         \/ page'[c] = page[c]
         \/ page[c] = "entering" /\ page'[c] = "room" /\ IsRoom(pushes[c][1]),
         WillHear(c, d)'
  PROVE  WillHear(c, d)
<1>1. PICK i \in DOMAIN pushes'[c] : FollowsReply(c, i)' /\ IsJoinOf(pushes'[c][i], d)
  BY DEF WillHear
<1>2. /\ i + 1 \in DOMAIN pushes[c] /\ pushes'[c][i] = pushes[c][i + 1] /\ 1 \in DOMAIN pushes[c]
      /\ i \in Nat /\ i >= 1
      /\ \A k \in 1 .. i : k \in DOMAIN pushes'[c] /\ k + 1 \in DOMAIN pushes[c]
                           /\ pushes'[c][k] = pushes[c][k + 1]
  <2>1. /\ 1 \in DOMAIN pushes[c] /\ DOMAIN pushes'[c] = 1 .. Len(pushes'[c])
        /\ Len(pushes'[c]) \in Int
        /\ \A k \in DOMAIN pushes'[c] :
             k + 1 \in DOMAIN pushes[c] /\ pushes'[c][k] = pushes[c][k + 1]
    BY DEF Rest
  <2>2. i \in 1 .. Len(pushes'[c]) BY <2>1
  <2>3. i \in Nat /\ i >= 1 BY <2>1, <2>2
  <2>4. i + 1 \in DOMAIN pushes[c] /\ pushes'[c][i] = pushes[c][i + 1] BY <2>1
  <2>5. ASSUME NEW k \in 1 .. i
        PROVE  k \in DOMAIN pushes'[c] /\ k + 1 \in DOMAIN pushes[c]
               /\ pushes'[c][k] = pushes[c][k + 1]
    <3>1. k \in 1 .. Len(pushes'[c]) BY <2>1, <2>2
    <3>2. k \in DOMAIN pushes'[c] BY <2>1, <3>1
    <3>3. QED BY <2>1, <3>2
  <2>6. QED BY <2>1, <2>3, <2>4, <2>5
<1>3. FollowsReply(c, i + 1)
  <2>1. CASE page'[c] # page[c]
    <3>1. 1 \in 1 .. i + 1 BY <1>2
    <3>2. QED BY <2>1, <3>1 DEF FollowsReply
  <2>2. CASE page'[c] = page[c]
    <3>1. CASE page[c] = "room" BY <3>1 DEF FollowsReply
    <3>2. CASE page[c] # "room"
      <4>1. PICK k \in 1 .. i : IsRoom(pushes'[c][k]) BY <1>1, <2>2, <3>2 DEF FollowsReply
      <4>2. k + 1 \in 1 .. i + 1 /\ IsRoom(pushes[c][k + 1]) BY <4>1, <1>2
      <4>3. QED BY <4>2 DEF FollowsReply
    <3>3. QED BY <3>1, <3>2
  <2>3. QED BY <2>1, <2>2
<1>4. Told(c)
  <2>1. CASE page[c] = "room" BY <2>1 DEF Told
  <2>2. CASE page[c] # "room"
    <3>1. page[c] = "entering" BY <2>2 DEF WillHear, Told
    <3>2. PICK k \in 1 .. i + 1 : IsRoom(pushes[c][k]) BY <1>3, <2>2 DEF FollowsReply
    <3>3. k \in DOMAIN pushes[c] BY <1>2, <3>2 DEF Rest
    <3>4. QED BY <3>1, <3>2, <3>3 DEF Told
  <2>3. QED BY <2>1, <2>2
<1>5. QED BY <1>1, <1>2, <1>3, <1>4 DEF WillHear

LEMMA SameHears ==
  ASSUME NEW c \in Clients, NEW d \in Clients, Same(c), page'[c] = page[c], WillHear(c, d)'
  PROVE  WillHear(c, d)
BY DEF Same, WillHear, Told, FollowsReply

LEMMA InitRoles == Init => RolesInv /\ NeverBoth
<1> SUFFICES ASSUME Init PROVE RolesInv /\ NeverBoth OBVIOUS
<1>1. \A c, d \in Clients : role[c][d] = "none" /\ list[c][d] = 0
  BY DEF Init, NoPeers, NoOne
<1>2. \A c, d \in Clients : ~Told(c) BY DEF Init, Told
<1>3. QED BY <1>1, <1>2 DEF RolesInv, OnlyInRoom, NeverBoth, Awaits, WillHear
\* Who is whose peer after a push has been heard.
LEMMA RoleChanges ==
  ASSUME SessionTypeOK, NEW c \in Clients, NEW d \in Clients
  PROVE  /\ OnUserConnected(c) /\ d # Head(pushes[c]).user => role'[c][d] = role[c][d]
         /\ OnUserDisconnected(c) => role'[c][d] \in {role[c][d], "none"}
         /\ OnRoom(c) /\ page[c] = "entering" => role'[c][d] \in {"impolite", "none"}
<1>1. ASSUME NEW u, NEW v
      PROVE  LET r == [role EXCEPT ![c][u] = v] IN
               /\ d # u => r[c][d] = role[c][d]
               /\ d = u => r[c][d] = v
  BY DEF SessionTypeOK
<1>2. ASSUME OnUserConnected(c), d # Head(pushes[c]).user
      PROVE  role'[c][d] = role[c][d]
  <2>1. PICK u, v : UNCHANGED role \/ (u = Head(pushes[c]).user /\ role' = [role EXCEPT ![c][u] = v])
    BY <1>2 DEF OnUserConnected
  <2>2. QED BY <1>1, <1>2, <2>1
<1>3. ASSUME OnUserDisconnected(c) PROVE role'[c][d] \in {role[c][d], "none"}
  <2>1. PICK u : UNCHANGED role \/ (\E v \in {role[c][u], "none"} : role' = [role EXCEPT ![c][u] = v])
    BY <1>3 DEF OnUserDisconnected
  <2>2. QED BY <1>1, <2>1
<1>4. ASSUME OnRoom(c), page[c] = "entering" PROVE role'[c][d] \in {"impolite", "none"}
  <2>1. PICK us : role' = [role EXCEPT ![c] =
                    [x \in Clients |-> IF x \in us THEN "impolite" ELSE "none"]]
    BY <1>4 DEF OnRoom
  <2>2. QED BY <2>1 DEF SessionTypeOK
<1>5. QED BY <1>2, <1>3, <1>4

\* Someone new is waited for only by those in the room when it enters.
LEMMA AwaitsNew ==
  ASSUME SessionTypeOK, TurnsInv, TurnsInv', RolesInv, RolesInv', NEW a \in Clients,
         ServerStep(a) \/ HearStep(a) \/ UserStep(a),
         NEW c \in Clients, NEW d \in Clients, Awaits(c, d)', ~Awaits(c, d)
  PROVE  d = a /\ c # a /\ Enters(a)
<1>1. Turns(c) /\ Turns(c)' /\ OnlyInRoom(c)' BY DEF TurnsInv, RolesInv
<1>2. CASE c # a \/ ServerStep(a)
  <2>1. SameView(c) BY <1>2, OthersView
  <2>2. page'[c] = page[c]
    <3>1. CASE c # a BY <3>1, ServerBystanders, PageBystanders DEF Bystander
    <3>2. CASE ServerStep(a)
      BY <3>2 DEF ServerStep, ServeJoin, RefuseJoin, JoinDone, JoinFailed, ServeGetRoom,
         ServeLeave, ServeLock, RefuseLock, OnClose, Serves
    <3>3. QED BY <1>2, <3>1, <3>2
  <2>3. WillHear(c, d)' /\ ~WillHear(c, d) BY <2>1 DEF SameView, Awaits
  <2>4. ~Same(c) /\ \A m \in Push : Gets(c, m) => IsJoinOf(m, d)
    BY <2>2, <2>3, SameHears, MoreHears
  <2>5. CASE c # a
    <3>1. ServerStep(a) BY <2>4, <2>5, PageBystanders
    <3>2. News(a) BY <3>1, ServerNews
    <3>3. CASE Enters(a)
      <4>1. PICK m \in Push : m = [type |-> "connected", user |-> a] BY PushesMade
      <4>2. Gets(c, m) BY <2>4, <2>5, <3>3, <4>1 DEF Enters, Tells
      <4>3. QED BY <2>4, <2>5, <3>3, <4>1, <4>2 DEF IsJoinOf
    <3>4. CASE Exits(a)
      <4>1. PICK m \in Push : m = [type |-> "disconnected", user |-> a] BY PushesMade
      <4>2. Gets(c, m) BY <2>4, <2>5, <3>4, <4>1 DEF Exits, Tells
      <4>3. QED BY <2>4, <4>1, <4>2 DEF IsJoinOf
    <3>5. CASE Locks(a)
      <4>1. PICK b \in BOOLEAN : Tells(a, [type |-> "lock", locked |-> b]) BY <3>5 DEF Locks
      <4>2. PICK m \in Push : m = [type |-> "lock", locked |-> b] BY PushesMade
      <4>3. Gets(c, m) BY <2>4, <2>5, <4>1, <4>2 DEF Tells
      <4>4. QED BY <2>4, <4>2, <4>3 DEF IsJoinOf
    <3>6. CASE Unnoticed(a) BY <2>4, <2>5, <3>6 DEF Unnoticed, Silence
    <3>7. QED BY <3>2, <3>3, <3>4, <3>5, <3>6 DEF News
  <2>6. CASE c = a
    <3>1. ServerStep(c) BY <1>2, <2>6
    <3>2. Same(c) \/ \E m \in Push : m.type # "connected" /\ Gets(c, m)
      BY <3>1, OwnMessage DEF OwnWord
    <3>3. QED BY <2>4, <3>2 DEF IsJoinOf
  <2>7. QED BY <2>5, <2>6
<1>3. CASE c = a /\ HearStep(c)
  <2>1. PICK t : Hears(c, t)
    BY <1>3 DEF HearStep, OnJoined, OnRefused, OnRoom, OnUserConnected, OnUserDisconnected,
       OnPushLock, OnLockReply, OnLockRefused
  <2>2. /\ Rest(pushes[c], pushes'[c]) /\ pushes[c][1].type = t /\ 1 \in DOMAIN pushes[c]
        /\ Head(pushes[c]) = pushes[c][1]
    BY <2>1, HearsRest DEF Rest
  <2>3. CASE page'[c] = page[c] /\ (role'[c][d] = "polite" => role[c][d] = "polite")
    BY <2>2, <2>3, RestHears DEF Awaits
  <2>4. CASE OnUserConnected(c) /\ page[c] = "room"
    <3>1. pushes[c][1].type = "connected" BY <2>4, HearsRest DEF OnUserConnected
    <3>2. page'[c] = page[c] BY <2>4 DEF OnUserConnected
    <3>3. \A x \in Clients : x # pushes[c][1].user => role'[c][x] = role[c][x]
      BY <2>2, <2>4, RoleChanges
    <3>4. CASE d = pushes[c][1].user
      <4>1. FollowsReply(c, 1) /\ Told(c) /\ IsJoinOf(pushes[c][1], d)
        BY <2>4, <3>1, <3>4 DEF FollowsReply, Told, IsJoinOf
      <4>2. QED BY <2>2, <4>1 DEF WillHear, Awaits
    <3>5. CASE d # pushes[c][1].user BY <2>2, <3>2, <3>3, <3>5, RestHears DEF Awaits
    <3>6. QED BY <3>4, <3>5
  <2>5. CASE OnRoom(c) /\ page[c] = "entering"
    <3>1. page'[c] = "room" /\ role'[c][d] # "polite"
      <4>1. page'[c] = "room" BY <2>5 DEF OnRoom, SessionTypeOK
      <4>2. QED BY <2>5, <4>1, RoleChanges
    <3>2. IsRoom(pushes[c][1]) BY <2>5, HearsRest DEF OnRoom, IsRoom
    <3>3. QED BY <2>2, <2>5, <3>1, <3>2, RestHears DEF Awaits
  <2>6. CASE (OnJoined(c) \/ OnRefused(c)) /\ page[c] = "joining"
    <3>1. IsAnswer(pushes[c][1]) BY <2>6, HearsRest DEF OnJoined, OnRefused, IsAnswer
    <3>2. \A i \in DOMAIN pushes'[c] : ~IsAnswer(pushes'[c][i])
      BY <1>1, <2>2, <2>6, <3>1, AnswerHeard
    <3>3. page'[c] # "room" BY <2>6 DEF OnJoined, OnRefused, SessionTypeOK
    <3>4. ~Told(c)' BY <3>2, <3>3 DEF Told, IsRoom, IsAnswer
    <3>5. QED BY <1>1, <3>3, <3>4 DEF Awaits, WillHear, OnlyInRoom
  <2>7. CASE OnUserDisconnected(c)
    <3>1. page'[c] = page[c] BY <2>7 DEF OnUserDisconnected
    <3>2. role'[c][d] = "polite" => role[c][d] = "polite" BY <2>7, RoleChanges
    <3>3. QED BY <2>3, <3>1, <3>2
  <2>8. QED
    BY <1>3, <2>3, <2>4, <2>5, <2>6, <2>7 DEF HearStep, OnJoined, OnRefused, OnRoom,
       OnUserConnected, OnPushLock, OnLockReply, OnLockRefused, viewVars, SessionTypeOK
<1>4. CASE c = a /\ UserStep(c)
  <2>1. CASE Join(c) \/ Leave(c) \/ Quit(c)
    <3>1. page'[c] \in {"joining", "home", "gone"} BY <2>1 DEF Join, Leave, Quit, SessionTypeOK
    <3>2. QED BY <1>1, <3>1 DEF Awaits, WillHear, Told, OnlyInRoom
  <2>2. CASE OpenManager(c) \/ CloseManager(c) \/ ToggleLock(c)
    <3>1. page'[c] = page[c] /\ role'[c] = role[c] /\ Same(c)
      BY <2>2 DEF OpenManager, CloseManager, ToggleLock, Same
    <3>2. QED BY <3>1, SameHears DEF Awaits
  <2>3. QED BY <1>4, <2>1, <2>2 DEF UserStep
<1>5. QED BY <1>2, <1>3, <1>4

LEMMA NeverBothStep ==
  ASSUME SessionTypeOK, TurnsInv, TurnsInv', RolesInv, RolesInv', NeverBoth,
         NEW a \in Clients, ServerStep(a) \/ HearStep(a) \/ UserStep(a)
  PROVE  NeverBoth'
<1> SUFFICES ASSUME NEW c \in Clients, NEW d \in Clients, Awaits(c, d)', Awaits(d, c)'
             PROVE  FALSE
  BY DEF NeverBoth
<1>1. \A x \in Clients : Enters(a) => ~Awaits(a, x)'
  <2> SUFFICES ASSUME NEW x \in Clients, Enters(a) PROVE ~Awaits(a, x)' OBVIOUS
  <2>1. a \in adding /\ a \in members' BY DEF Enters
  <2>2. page[a] \in {"joining", "gone"} BY <2>1 DEF TurnsInv, Turns, AddingApart
  <2>3. page'[a] \in {"joining", "gone"}
    <3>1. members' # members BY <2>1 DEF TurnsInv, Turns, AddingApart
    <3>2. ServerStep(a)
      BY <3>1 DEF HearStep, OnJoined, OnRefused, OnRoom, OnUserConnected, OnUserDisconnected,
         OnPushLock, OnLockReply, OnLockRefused, Hears, UserStep, Join, Leave, Quit,
         OpenManager, CloseManager, ToggleLock, serverVars
    <3>3. UNCHANGED page
      BY <3>2 DEF ServerStep, ServeJoin, RefuseJoin, JoinDone, JoinFailed, ServeGetRoom,
         ServeLeave, ServeLock, RefuseLock, OnClose, Serves
    <3>4. QED BY <2>2, <3>3
  <2>4. QED BY <2>3 DEF RolesInv, OnlyInRoom, Awaits, WillHear, Told
<1>2. Awaits(c, d)
  <2>1. SUFFICES ASSUME ~Awaits(c, d) PROVE FALSE OBVIOUS
  <2>2. d = a /\ Enters(a) BY <2>1, AwaitsNew
  <2>3. QED BY <1>1, <2>2
<1>3. Awaits(d, c)
  <2>1. SUFFICES ASSUME ~Awaits(d, c) PROVE FALSE OBVIOUS
  <2>2. c = a /\ Enters(a) BY <2>1, AwaitsNew
  <2>3. QED BY <1>1, <2>2
<1>4. QED BY <1>2, <1>3 DEF NeverBoth
-----------------------------------------------------------------------------
(* What a page has been told, and will be *)

\* A message that says whether d is there, and that it is.
About(m, d) == IsRoom(m) \/ (m.type \in {"connected", "disconnected"} /\ m.user = d)
Says(m, d) == (IsRoom(m) /\ d \in m.users) \/ m.type = "connected"
Mute(q, d) == \A j \in DOMAIN q : ~About(q[j], d)
\* The last message about d puts it in s, or not, as it is.
LastTrue(q, d, s) ==
  \A i \in DOMAIN q :
    About(q[i], d) /\ (\A j \in DOMAIN q : j > i => ~About(q[j], d)) =>
      (Says(q[i], d) <=> d \in s)

\* Having heard everything, c lists d if and only if d is in the room.
WordsTrue(c, d) ==
  sock[c] = "open" /\ Told(c) =>
    /\ LastTrue(pushes[c], d, members)
    /\ page[c] = "room" /\ Mute(pushes[c], d) => (list[c][d] > 0 <=> d \in members)

\* From the reply on, comings and goings alternate: d only comes when it is not there.
Between(q, d, i, k) == \A j \in DOMAIN q : i < j /\ j < k => ~About(q[j], d)
Alternates(c, d) ==
  Told(c) =>
    \A i, k \in DOMAIN pushes[c] :
      /\ i < k /\ FollowsReply(c, i) /\ About(pushes[c][i], d)
      /\ Between(pushes[c], d, i, k) /\ IsJoinOf(pushes[c][k], d)
      => ~Says(pushes[c][i], d)
FirstComes(c, d) ==
  page[c] = "room" =>
    \A k \in DOMAIN pushes[c] :
      Between(pushes[c], d, 0, k) /\ IsJoinOf(pushes[c][k], d) => list[c][d] = 0
ListedOnce(c, d) == list[c][d] <= 1
ViewOf(c, d) == WordsTrue(c, d) /\ Alternates(c, d) /\ FirstComes(c, d) /\ ListedOnce(c, d)
ViewsInv == \A c, d \in Clients : ViewOf(c, d)

LEMMA MoreLast ==
  ASSUME NEW q, NEW r, NEW m, More(q, r, m), NEW d, NEW s
  PROVE  /\ About(m, d) => ~Mute(r, d)
         /\ About(m, d) /\ (Says(m, d) <=> d \in s) => LastTrue(r, d, s)
         /\ ~About(m, d) => (LastTrue(q, d, s) => LastTrue(r, d, s))
                            /\ (Mute(r, d) => Mute(q, d))
<1>1. /\ Len(r) \in DOMAIN r /\ r[Len(r)] = m /\ Len(r) \in Nat
      /\ \A i \in DOMAIN r : i = Len(r) \/ (i \in DOMAIN q /\ r[i] = q[i] /\ i < Len(r))
      /\ \A i \in DOMAIN q : i \in DOMAIN r /\ r[i] = q[i]
  BY DEF More
<1>2. About(m, d) => ~Mute(r, d) BY <1>1 DEF Mute
<1>3. ASSUME About(m, d), Says(m, d) <=> d \in s PROVE LastTrue(r, d, s)
  <2>1. SUFFICES ASSUME NEW i \in DOMAIN r, \A j \in DOMAIN r : j > i => ~About(r[j], d)
                 PROVE  Says(r[i], d) <=> d \in s
    BY DEF LastTrue
  <2>2. i = Len(r) BY <1>1, <1>3, <2>1
  <2>3. QED BY <1>1, <1>3, <2>2
<1>4. ASSUME ~About(m, d), LastTrue(q, d, s) PROVE LastTrue(r, d, s)
  <2>1. SUFFICES ASSUME NEW i \in DOMAIN r, About(r[i], d),
                        \A j \in DOMAIN r : j > i => ~About(r[j], d)
                 PROVE  Says(r[i], d) <=> d \in s
    BY DEF LastTrue
  <2>2. i \in DOMAIN q /\ r[i] = q[i] BY <1>1, <1>4, <2>1
  <2>3. \A j \in DOMAIN q : j > i => ~About(q[j], d) BY <1>1, <2>1
  <2>4. QED BY <1>4, <2>1, <2>2, <2>3 DEF LastTrue
<1>5. Mute(r, d) => Mute(q, d) BY <1>1 DEF Mute
<1>6. QED BY <1>2, <1>3, <1>4, <1>5

LEMMA RestIndices ==
  ASSUME NEW q, NEW r, Rest(q, r)
  PROVE  /\ 1 \in DOMAIN q
         /\ \A i \in DOMAIN r : i \in Nat /\ i >= 1 /\ i + 1 \in DOMAIN q /\ r[i] = q[i + 1]
         /\ \A i \in DOMAIN q : i = 1 \/ (i > 1 /\ i - 1 \in DOMAIN r /\ r[i - 1] = q[i])
         /\ \A i \in DOMAIN q : i \in Nat
         /\ \A i \in DOMAIN r : \A k \in 1 .. i : k \in DOMAIN r
BY DEF Rest

LEMMA RestLast ==
  ASSUME NEW q, NEW r, Rest(q, r), NEW d, NEW s
  PROVE  /\ LastTrue(q, d, s) => LastTrue(r, d, s)
         /\ LastTrue(q, d, s) /\ About(q[1], d) /\ Mute(r, d) => (Says(q[1], d) <=> d \in s)
         /\ ~About(q[1], d) /\ Mute(r, d) => Mute(q, d)
<1>1. /\ 1 \in DOMAIN q
      /\ \A i \in DOMAIN r : i \in Nat /\ i >= 1 /\ i + 1 \in DOMAIN q /\ r[i] = q[i + 1]
      /\ \A i \in DOMAIN q : i = 1 \/ (i > 1 /\ i - 1 \in DOMAIN r /\ r[i - 1] = q[i])
      /\ \A i \in DOMAIN q : i \in Nat
  BY RestIndices
<1>2. ASSUME LastTrue(q, d, s) PROVE LastTrue(r, d, s)
  <2>1. SUFFICES ASSUME NEW i \in DOMAIN r, About(r[i], d),
                        \A j \in DOMAIN r : j > i => ~About(r[j], d)
                 PROVE  Says(r[i], d) <=> d \in s
    BY DEF LastTrue
  <2>2. i + 1 \in DOMAIN q /\ r[i] = q[i + 1] BY <1>1
  <2>3. ASSUME NEW j \in DOMAIN q, j > i + 1 PROVE ~About(q[j], d)
    <3>1. j - 1 \in DOMAIN r /\ r[j - 1] = q[j] /\ j - 1 > i BY <1>1, <2>3
    <3>2. QED BY <2>1, <3>1
  <2>4. QED BY <1>2, <2>1, <2>2, <2>3 DEF LastTrue
<1>3. ASSUME LastTrue(q, d, s), About(q[1], d), Mute(r, d) PROVE Says(q[1], d) <=> d \in s
  <2>1. \A j \in DOMAIN q : j > 1 => ~About(q[j], d) BY <1>1, <1>3 DEF Mute
  <2>2. QED BY <1>1, <1>3, <2>1 DEF LastTrue
<1>4. ASSUME ~About(q[1], d), Mute(r, d) PROVE Mute(q, d) BY <1>1, <1>4 DEF Mute
<1>5. QED BY <1>2, <1>3, <1>4

\* A message that announces nothing of d changes nothing between c and d.
LEMMA MoreAlternates ==
  ASSUME NEW c \in Clients, NEW d \in Clients, NEW m \in Push, Gets(c, m), ~IsJoinOf(m, d),
         page'[c] = page[c], list'[c] = list[c], Alternates(c, d), FirstComes(c, d)
  PROVE  Alternates(c, d)' /\ FirstComes(c, d)'
<1>1. /\ \A i \in DOMAIN pushes'[c] : \/ i = Len(pushes'[c]) /\ pushes'[c][i] = m
                                      \/ i \in DOMAIN pushes[c] /\ pushes'[c][i] = pushes[c][i]
      /\ \A i \in DOMAIN pushes[c] : i \in DOMAIN pushes'[c] /\ pushes'[c][i] = pushes[c][i]
      /\ \A i \in DOMAIN pushes[c] : \A k \in 1 .. i : k \in DOMAIN pushes[c]
      /\ \A i \in DOMAIN pushes'[c] : \A k \in DOMAIN pushes[c] : i < k => i \in DOMAIN pushes[c]
  BY DEF Gets, More
<1>2. Alternates(c, d)'
  <2>1. SUFFICES ASSUME Told(c)', NEW i \in DOMAIN pushes'[c], NEW k \in DOMAIN pushes'[c],
                        i < k, FollowsReply(c, i)', About(pushes'[c][i], d),
                        Between(pushes'[c], d, i, k), IsJoinOf(pushes'[c][k], d)
                 PROVE  ~Says(pushes'[c][i], d)
    BY DEF Alternates
  <2>2. /\ k \in DOMAIN pushes[c] /\ pushes'[c][k] = pushes[c][k]
        /\ i \in DOMAIN pushes[c] /\ pushes'[c][i] = pushes[c][i]
    BY <1>1, <2>1
  <2>3. Between(pushes[c], d, i, k) BY <1>1, <2>1 DEF Between
  <2>4. FollowsReply(c, i) BY <1>1, <2>1, <2>2 DEF FollowsReply
  <2>5. Told(c) BY <1>1, <2>1, <2>2, <2>4 DEF Told, FollowsReply
  <2>6. QED BY <2>1, <2>2, <2>3, <2>4, <2>5 DEF Alternates
<1>3. FirstComes(c, d)'
  <2>1. SUFFICES ASSUME page[c] = "room", NEW k \in DOMAIN pushes'[c],
                        Between(pushes'[c], d, 0, k), IsJoinOf(pushes'[c][k], d)
                 PROVE  list[c][d] = 0
    BY DEF FirstComes
  <2>2. k \in DOMAIN pushes[c] /\ pushes'[c][k] = pushes[c][k] BY <1>1, <2>1
  <2>3. Between(pushes[c], d, 0, k) BY <1>1, <2>1 DEF Between
  <2>4. QED BY <2>1, <2>2, <2>3 DEF FirstComes
<1>4. QED BY <1>2, <1>3

\* d comes, was not there, and c knows it.
LEMMA JoinAlternates ==
  ASSUME SessionTypeOK, NEW c \in Clients, NEW d \in Clients, NEW m \in Push, Gets(c, m),
         IsJoinOf(m, d), d \notin members, sock[c] = "open",
         page'[c] = page[c], list'[c] = list[c], ViewOf(c, d)
  PROVE  Alternates(c, d)' /\ FirstComes(c, d)'
<1>1. /\ \A i \in DOMAIN pushes'[c] : \/ i = Len(pushes'[c]) /\ pushes'[c][i] = m
                                      \/ i \in DOMAIN pushes[c] /\ pushes'[c][i] = pushes[c][i]
      /\ \A i \in DOMAIN pushes[c] : i \in DOMAIN pushes'[c] /\ pushes'[c][i] = pushes[c][i]
      /\ \A i \in DOMAIN pushes[c] : \A k \in 1 .. i : k \in DOMAIN pushes[c]
      /\ \A i \in DOMAIN pushes'[c] : \A k \in DOMAIN pushes'[c] : i < k => i \in DOMAIN pushes[c]
      /\ \A i \in DOMAIN pushes[c] : i < Len(pushes'[c]) /\ i > 0
  BY DEF Gets, More
<1>2. Alternates(c, d)'
  <2>1. SUFFICES ASSUME Told(c)', NEW i \in DOMAIN pushes'[c], NEW k \in DOMAIN pushes'[c],
                        i < k, FollowsReply(c, i)', About(pushes'[c][i], d),
                        Between(pushes'[c], d, i, k), IsJoinOf(pushes'[c][k], d)
                 PROVE  ~Says(pushes'[c][i], d)
    BY DEF Alternates
  <2>2. i \in DOMAIN pushes[c] /\ pushes'[c][i] = pushes[c][i] BY <1>1, <2>1
  <2>3. FollowsReply(c, i) BY <1>1, <2>1, <2>2 DEF FollowsReply
  <2>4. Told(c) BY <1>1, <2>1, <2>2, <2>3 DEF Told, FollowsReply
  <2>5. CASE k \in DOMAIN pushes[c]
    <3>1. Between(pushes[c], d, i, k) BY <1>1, <2>1 DEF Between
    <3>2. IsJoinOf(pushes[c][k], d) BY <1>1, <2>1, <2>5
    <3>3. QED BY <2>1, <2>2, <2>3, <2>4, <2>5, <3>1, <3>2 DEF ViewOf, Alternates
  <2>6. CASE k = Len(pushes'[c])
    <3>1. \A j \in DOMAIN pushes[c] : j > i => ~About(pushes[c][j], d)
      BY <1>1, <2>1, <2>6 DEF Between
    <3>2. LastTrue(pushes[c], d, members) BY <2>4 DEF ViewOf, WordsTrue
    <3>3. QED BY <2>1, <2>2, <3>1, <3>2 DEF LastTrue
  <2>7. QED BY <1>1, <2>5, <2>6
<1>3. FirstComes(c, d)'
  <2>1. SUFFICES ASSUME page[c] = "room", NEW k \in DOMAIN pushes'[c],
                        Between(pushes'[c], d, 0, k), IsJoinOf(pushes'[c][k], d)
                 PROVE  list[c][d] = 0
    BY DEF FirstComes
  <2>2. CASE k \in DOMAIN pushes[c]
    <3>1. Between(pushes[c], d, 0, k) BY <1>1, <2>1 DEF Between
    <3>2. IsJoinOf(pushes[c][k], d) BY <1>1, <2>1, <2>2
    <3>3. QED BY <2>1, <2>2, <3>1, <3>2 DEF ViewOf, FirstComes
  <2>3. CASE k = Len(pushes'[c])
    <3>1. Mute(pushes[c], d) BY <1>1, <2>1, <2>3 DEF Between, Mute
    <3>2. ~(list[c][d] > 0) BY <2>1, <3>1 DEF ViewOf, WordsTrue, Told
    <3>3. QED BY <3>2 DEF SessionTypeOK
  <2>4. QED BY <1>1, <2>2, <2>3
<1>4. QED BY <1>2, <1>3
-----------------------------------------------------------------------------
(* The server's steps keep the views true *)

\* What the server may say to a page that is in the room or on its way into it.
LEMMA OwnNews ==
  ASSUME SessionTypeOK, TurnsInv, NEW c \in Clients, ServerStep(c),
         page[c] \in {"entering", "room"}
  PROVE  \/ sock'[c] # "open" /\ Same(c)
         \/ /\ members' = members /\ sock' = sock
            /\ locked' = locked \/ (1 \in DOMAIN requests[c] /\ requests[c][1].type = "lock")
            /\ \/ Same(c)
               \/ \E m \in Push : /\ m.type \in {"lockReply", "lockRefused"}
                                  /\ 1 \in DOMAIN requests[c] /\ requests[c][1].type = "lock"
                                  /\ Gets(c, m)
               \/ \E m \in Push : /\ m.type = "room" /\ m.users = members /\ m.locked = locked
                                  /\ locked' = locked
                                  /\ Gets(c, m)
<1> USE PushesMade
<1>0. Turns(c) BY DEF TurnsInv
<1>1. ~JoinDone(c) /\ ~JoinFailed(c) BY <1>0 DEF JoinDone, JoinFailed, Turns, AddingApart
<1>2. ASSUME NEW t, Serves(c, t)
      PROVE  t \notin {"join", "leave"} /\ 1 \in DOMAIN requests[c] /\ requests[c][1].type = t
  <2>1. 1 \in DOMAIN requests[c] /\ requests[c][1].type = t BY <1>2, ServesRest DEF Rest
  <2>2. QED BY <1>0, <2>1 DEF Turns, RequestsOfPage
<1>3. ~ServeJoin(c) /\ ~RefuseJoin(c) /\ ~ServeLeave(c)
  BY <1>2 DEF ServeJoin, RefuseJoin, ServeLeave
<1>4. CASE ServeGetRoom(c)
  <2>1. PICK m \in Push : m = [type |-> "room", users |-> members, locked |-> locked]
    BY DEF SessionTypeOK
  <2>2. Reply(c, m) BY <1>4, <2>1 DEF ServeGetRoom
  <2>3. Same(c) \/ Gets(c, m) BY <2>2, ReplyGets
  <2>4. members' = members /\ sock' = sock /\ locked' = locked
    BY <1>4 DEF ServeGetRoom, Serves
  <2>5. QED BY <2>1, <2>3, <2>4
<1>5. CASE ServeLock(c)
  <2>1. PICK b \in BOOLEAN :
          Announce(c, <<[type |-> "lockReply", locked |-> b]>>, members,
                   [type |-> "lock", locked |-> b])
    BY <1>5, ServeLockIs
  <2>2. PICK m \in Push : m = [type |-> "lockReply", locked |-> b] OBVIOUS
  <2>3. Same(c) \/ Gets(c, m) BY <2>1, <2>2, AnnounceGets
  <2>4. members' = members /\ sock' = sock BY <1>5 DEF ServeLock, Serves
  <2>5. 1 \in DOMAIN requests[c] /\ requests[c][1].type = "lock" BY <1>2, <1>5 DEF ServeLock
  <2>6. QED BY <2>2, <2>3, <2>4, <2>5
<1>6. CASE RefuseLock(c)
  <2>1. PICK m \in Push : m = [type |-> "lockRefused"] OBVIOUS
  <2>2. Reply(c, m) BY <1>6, <2>1 DEF RefuseLock
  <2>3. Same(c) \/ Gets(c, m) BY <2>2, ReplyGets
  <2>4. members' = members /\ sock' = sock /\ locked' = locked BY <1>6 DEF RefuseLock, Serves
  <2>5. 1 \in DOMAIN requests[c] /\ requests[c][1].type = "lock" BY <1>2, <1>6 DEF RefuseLock
  <2>6. QED BY <2>1, <2>3, <2>4, <2>5
<1>7. CASE OnClose(c)
  BY <1>7, AnnounceGets DEF OnClose, Same, SessionTypeOK
<1>8. QED BY <1>1, <1>3, <1>4, <1>5, <1>6, <1>7 DEF ServerStep

\* A page that is told nothing.
LEMMA SameViews ==
  ASSUME NEW c \in Clients, NEW d \in Clients, ViewOf(c, d), Same(c), page'[c] = page[c],
         list'[c] = list[c],
         sock'[c] = "open" /\ Told(c) => sock[c] = "open" /\ (d \in members' <=> d \in members)
  PROVE  ViewOf(c, d)'
<1>1. Told(c)' <=> Told(c) BY DEF Told, Same
<1>2. WordsTrue(c, d)' BY <1>1 DEF ViewOf, WordsTrue, LastTrue, Same
<1>3. Alternates(c, d)' BY <1>1 DEF ViewOf, Alternates, FollowsReply, Same, Between
<1>4. FirstComes(c, d)' BY DEF ViewOf, FirstComes, Same, Between
<1>5. QED BY <1>2, <1>3, <1>4 DEF ViewOf, ListedOnce

\* A page that is told of nobody, or whose room does not change.
LEMMA OtherViews ==
  ASSUME NEW c \in Clients, NEW d \in Clients, NEW m \in Push, ViewOf(c, d), Gets(c, m),
         ~About(m, d), page'[c] = page[c], list'[c] = list[c], sock'[c] = sock[c],
         d \in members' <=> d \in members
  PROVE  ViewOf(c, d)'
<1>1. ~IsJoinOf(m, d) /\ ~IsRoom(m) BY DEF About, IsJoinOf
<1>2. Told(c)' => Told(c) BY <1>1 DEF Told, Gets, More
<1>3. /\ LastTrue(pushes[c], d, members) => LastTrue(pushes[c], d, members')
      /\ LastTrue(pushes[c], d, members') => LastTrue(pushes'[c], d, members')
      /\ Mute(pushes'[c], d) => Mute(pushes[c], d)
  BY MoreLast DEF Gets, LastTrue
<1>4. WordsTrue(c, d)' BY <1>2, <1>3 DEF ViewOf, WordsTrue
<1>5. Alternates(c, d)' /\ FirstComes(c, d)' BY <1>1, MoreAlternates DEF ViewOf
<1>6. QED BY <1>4, <1>5 DEF ViewOf, ListedOnce

LEMMA ServerOthersViews ==
  ASSUME SessionTypeOK, TurnsInv, NEW a \in Clients, ServerStep(a),
         NEW c \in Clients, c # a, NEW d \in Clients, ViewOf(c, d)
  PROVE  ViewOf(c, d)'
<1>1. Bystander(c) /\ SameView(c) /\ Turns(c) BY ServerBystanders, OthersView DEF TurnsInv
<1>2. page'[c] = page[c] /\ list'[c] = list[c] /\ sock'[c] = sock[c]
  BY <1>1 DEF Bystander, SameView
<1>3. Told(c) /\ sock[c] = "open" => c \in members BY <1>1 DEF Told, Turns, Belongs
<1>4. News(a) BY ServerNews
<1>5. CASE Unnoticed(a) BY <1>2, <1>5, SameViews DEF Unnoticed, Silence
<1>6. CASE ~(c \in members /\ sock[c] = "open") /\ ~Unnoticed(a)
  <2>1. Same(c) BY <1>4, <1>6 DEF News, Enters, Exits, Locks, Tells
  <2>2. QED BY <1>2, <1>3, <1>6, <2>1, SameViews
<1>7. CASE c \in members /\ sock[c] = "open" /\ Enters(a)
  <2>1. PICK m \in Push : m = [type |-> "connected", user |-> a] BY PushesMade
  <2>2. Gets(c, m) BY <1>7, <2>1 DEF Enters, Tells
  <2>3. CASE d # a
    <3>1. ~About(m, d) BY <2>1, <2>3 DEF About, IsRoom
    <3>2. d \in members' <=> d \in members BY <1>7, <2>3 DEF Enters
    <3>3. QED BY <1>2, <2>2, <3>1, <3>2, OtherViews
  <2>4. CASE d = a
    <3>1. About(m, d) /\ Says(m, d) /\ IsJoinOf(m, d) BY <2>1, <2>4 DEF About, Says, IsJoinOf
    <3>2. d \in members' /\ d \notin members
      BY <1>7, <2>4 DEF Enters, TurnsInv, Turns, AddingApart
    <3>3. LastTrue(pushes'[c], d, members') /\ ~Mute(pushes'[c], d)
      BY <2>2, <3>1, <3>2, MoreLast DEF Gets
    <3>4. WordsTrue(c, d)' BY <3>3 DEF WordsTrue
    <3>5. Alternates(c, d)' /\ FirstComes(c, d)'
      BY <1>2, <1>7, <2>2, <3>1, <3>2, JoinAlternates
    <3>6. QED BY <1>2, <3>4, <3>5 DEF ViewOf, ListedOnce
  <2>5. QED BY <2>3, <2>4
<1>8. CASE c \in members /\ sock[c] = "open" /\ Exits(a)
  <2>1. PICK m \in Push : m = [type |-> "disconnected", user |-> a] BY PushesMade
  <2>2. Gets(c, m) BY <1>8, <2>1 DEF Exits, Tells
  <2>3. CASE d # a
    <3>1. ~About(m, d) BY <2>1, <2>3 DEF About, IsRoom
    <3>2. d \in members' <=> d \in members BY <1>8, <2>3 DEF Exits
    <3>3. QED BY <1>2, <2>2, <3>1, <3>2, OtherViews
  <2>4. CASE d = a
    <3>1. About(m, d) /\ ~Says(m, d) /\ ~IsJoinOf(m, d)
      BY <2>1, <2>4 DEF About, Says, IsJoinOf, IsRoom
    <3>2. d \notin members' BY <1>8, <2>4 DEF Exits
    <3>3. LastTrue(pushes'[c], d, members') /\ ~Mute(pushes'[c], d)
      BY <2>2, <3>1, <3>2, MoreLast DEF Gets
    <3>4. WordsTrue(c, d)' BY <3>3 DEF WordsTrue
    <3>5. Alternates(c, d)' /\ FirstComes(c, d)'
      BY <1>2, <2>2, <3>1, MoreAlternates DEF ViewOf
    <3>6. QED BY <1>2, <3>4, <3>5 DEF ViewOf, ListedOnce
  <2>5. QED BY <2>3, <2>4
<1>9. CASE c \in members /\ sock[c] = "open" /\ Locks(a)
  <2>1. PICK b \in BOOLEAN : Tells(a, [type |-> "lock", locked |-> b]) BY <1>9 DEF Locks
  <2>2. PICK m \in Push : m = [type |-> "lock", locked |-> b] BY PushesMade
  <2>3. Gets(c, m) BY <1>9, <2>1, <2>2 DEF Tells
  <2>4. ~About(m, d) BY <2>2 DEF About, IsRoom
  <2>5. QED BY <1>2, <1>9, <2>3, <2>4, OtherViews DEF Locks
<1>10. QED BY <1>4, <1>5, <1>6, <1>7, <1>8, <1>9 DEF News

LEMMA ServerOwnViews ==
  ASSUME SessionTypeOK, TurnsInv, NEW c \in Clients, ServerStep(c),
         NEW d \in Clients, ViewOf(c, d)
  PROVE  ViewOf(c, d)'
<1>1. page'[c] = page[c] /\ list'[c] = list[c]
  <2>1. SameView(c) BY OthersView
  <2>2. UNCHANGED page
    BY DEF ServerStep, ServeJoin, RefuseJoin, JoinDone, JoinFailed, ServeGetRoom, ServeLeave,
           ServeLock, RefuseLock, OnClose, Serves
  <2>3. QED BY <2>1, <2>2 DEF SameView
<1>2. CASE page[c] \notin {"entering", "room"}
  BY <1>1, <1>2 DEF ViewOf, WordsTrue, Alternates, FirstComes, ListedOnce, Told
<1>3. CASE page[c] \in {"entering", "room"}
  <2>1. CASE sock'[c] # "open" /\ Same(c) BY <1>1, <2>1, SameViews
  <2>2. CASE members' = members /\ sock' = sock /\ Same(c) BY <1>1, <2>2, SameViews
  <2>3. ASSUME members' = members, sock' = sock, NEW m \in Push, Gets(c, m),
               m.type \in {"lockReply", "lockRefused"}
        PROVE  ViewOf(c, d)'
    <3>1. ~About(m, d) BY <2>3 DEF About, IsRoom
    <3>2. QED BY <1>1, <2>3, <3>1, OtherViews
  <2>4. ASSUME members' = members, sock' = sock, NEW m \in Push, Gets(c, m),
               m.type = "room", m.users = members
        PROVE  ViewOf(c, d)'
    <3>1. About(m, d) /\ ~IsJoinOf(m, d) /\ (Says(m, d) <=> d \in members')
      BY <2>4 DEF About, IsJoinOf, Says, IsRoom
    <3>2. LastTrue(pushes'[c], d, members') /\ ~Mute(pushes'[c], d)
      BY <2>4, <3>1, MoreLast DEF Gets
    <3>3. WordsTrue(c, d)' BY <3>2 DEF WordsTrue
    <3>4. Alternates(c, d)' /\ FirstComes(c, d)'
      BY <1>1, <2>4, <3>1, MoreAlternates DEF ViewOf
    <3>5. QED BY <1>1, <3>3, <3>4 DEF ViewOf, ListedOnce
  <2>5. QED BY <1>3, <2>1, <2>2, <2>3, <2>4, OwnNews
<1>4. QED BY <1>2, <1>3
-----------------------------------------------------------------------------
(* A page that hears what it is told *)

\* What becomes of d in c's list when c hears m.
NotShown(c, d, m) ==
  page'[c] = page[c] /\ list'[c][d] = list[c][d] /\ (page[c] = "room" => ~About(m, d))
Comes(c, d, m) ==
  /\ page[c] = "room" /\ page'[c] = "room"
  /\ IsJoinOf(m, d) /\ list'[c][d] = list[c][d] + 1
Goes(c, d, m) ==
  /\ page[c] = "room" /\ page'[c] = "room"
  /\ m.type = "disconnected" /\ m.user = d /\ list'[c][d] = 0
Shown(c, d, m) ==
  /\ page[c] = "entering" /\ page'[c] = "room"
  /\ IsRoom(m) /\ list'[c][d] = IF d \in m.users THEN 1 ELSE 0
Elsewhere(c, d) == page'[c] # "room" /\ ~Told(c)' /\ list'[c][d] = 0

LEMMA ListChanges ==
  ASSUME SessionTypeOK, NEW c \in Clients, NEW d \in Clients
  PROVE  /\ OnUserConnected(c) /\ page[c] = "room" =>
              list'[c][d] = IF d = Head(pushes[c]).user THEN list[c][d] + 1 ELSE list[c][d]
         /\ OnUserDisconnected(c) /\ page[c] = "room" =>
              list'[c][d] = IF d = Head(pushes[c]).user THEN 0 ELSE list[c][d]
         /\ OnRoom(c) /\ page[c] = "entering" =>
              list'[c][d] = IF d \in Head(pushes[c]).users THEN 1 ELSE 0
<1>1. ASSUME NEW u, NEW v
      PROVE  LET r == [list EXCEPT ![c][u] = v] IN
               /\ d # u => r[c][d] = list[c][d]
               /\ d = u => r[c][d] = v
  BY DEF SessionTypeOK
<1>2. ASSUME OnUserConnected(c), page[c] = "room"
      PROVE  list'[c][d] = IF d = Head(pushes[c]).user THEN list[c][d] + 1 ELSE list[c][d]
  <2>1. PICK u, v : u = Head(pushes[c]).user /\ v = list[c][u] + 1
                    /\ list' = [list EXCEPT ![c][u] = v]
    BY <1>2 DEF OnUserConnected
  <2>2. (d # u => list'[c][d] = list[c][d]) /\ (d = u => list'[c][d] = v) BY <1>1, <2>1
  <2>3. QED BY <2>1, <2>2
<1>3. ASSUME OnUserDisconnected(c), page[c] = "room"
      PROVE  list'[c][d] = IF d = Head(pushes[c]).user THEN 0 ELSE list[c][d]
  <2>1. PICK u : u = Head(pushes[c]).user /\ list' = [list EXCEPT ![c][u] = 0]
    BY <1>3 DEF OnUserDisconnected
  <2>2. QED BY <1>1, <2>1
<1>4. ASSUME OnRoom(c), page[c] = "entering"
      PROVE  list'[c][d] = IF d \in Head(pushes[c]).users THEN 1 ELSE 0
  <2>1. PICK us : us = Head(pushes[c]).users /\ list' = [list EXCEPT ![c] =
                    [x \in Clients |-> IF x \in us THEN 1 ELSE 0]]
    BY <1>4 DEF OnRoom
  <2>2. QED BY <2>1 DEF SessionTypeOK
<1>5. QED BY <1>2, <1>3, <1>4

LEMMA HearViews ==
  ASSUME SessionTypeOK, TurnsInv, RolesInv', NEW c \in Clients, HearStep(c), NEW d \in Clients
  PROVE  LET m == pushes[c][1] IN
         NotShown(c, d, m) \/ Comes(c, d, m) \/ Goes(c, d, m) \/ Shown(c, d, m) \/ Elsewhere(c, d)
<1> DEFINE m == pushes[c][1]
           Goal == NotShown(c, d, m) \/ Comes(c, d, m) \/ Goes(c, d, m) \/ Shown(c, d, m)
                   \/ Elsewhere(c, d)
<1> SUFFICES Goal OBVIOUS
<1>1. PICK t : Hears(c, t)
  BY DEF HearStep, OnJoined, OnRefused, OnRoom, OnUserConnected, OnUserDisconnected,
         OnPushLock, OnLockReply, OnLockRefused
<1>2. /\ Rest(pushes[c], pushes'[c]) /\ m.type = t /\ Head(pushes[c]) = m /\ m \in Push
      /\ 1 \in DOMAIN pushes[c]
  BY <1>1, HearsRest DEF Rest
<1>3. Turns(c) /\ OnlyInRoom(c)' BY DEF TurnsInv, RolesInv
<1>4. CASE UNCHANGED <<page, list>> /\ m.type \notin {"room", "connected", "disconnected"}
  BY <1>4 DEF NotShown, About, IsRoom
<1>5. CASE OnJoined(c) \/ OnRefused(c)
  <2>1. IsAnswer(m) /\ m.type # "room" BY <1>5, HearsRest DEF OnJoined, OnRefused, IsAnswer
  <2>2. CASE page[c] = "joining"
    <3>1. \A i \in DOMAIN pushes'[c] : ~IsAnswer(pushes'[c][i])
      BY <1>2, <1>3, <2>1, <2>2, AnswerHeard
    <3>2. page'[c] # "room" BY <1>5, <2>2 DEF OnJoined, OnRefused, SessionTypeOK
    <3>3. ~Told(c)' BY <3>1, <3>2 DEF Told, IsRoom, IsAnswer
    <3>4. list'[c][d] = 0 BY <1>3, <3>2 DEF OnlyInRoom
    <3>5. QED BY <3>2, <3>3, <3>4 DEF Elsewhere
  <2>3. CASE page[c] # "joining"
    <3>1. page'[c] = page[c] /\ list' = list
      BY <1>5, <2>3 DEF OnJoined, OnRefused, viewVars, SessionTypeOK
    <3>2. m.type \notin {"room", "connected", "disconnected"}
      BY <1>5, HearsRest DEF OnJoined, OnRefused
    <3>3. QED BY <3>1, <3>2 DEF NotShown, About, IsRoom
  <2>4. QED BY <2>2, <2>3
<1>6. CASE OnRoom(c)
  <2>1. IsRoom(m) /\ IsAnswer(m) BY <1>6, HearsRest DEF OnRoom, IsAnswer, IsRoom
  <2>2. CASE page[c] = "entering"
    <3>1. page'[c] = "room" BY <1>6, <2>2 DEF OnRoom, SessionTypeOK
    <3>2. list'[c][d] = IF d \in m.users THEN 1 ELSE 0 BY <1>2, <1>6, <2>2, ListChanges
    <3>3. QED BY <2>1, <2>2, <3>1, <3>2 DEF Shown
  <2>3. CASE page[c] # "entering"
    <3>1. page'[c] = page[c] /\ list' = list BY <1>6, <2>3 DEF OnRoom
    <3>2. page[c] # "room" BY <1>2, <1>3, <2>1 DEF Turns, AnswersOfPage
    <3>3. QED BY <3>1, <3>2 DEF NotShown
  <2>4. QED BY <2>2, <2>3
<1>7. CASE OnUserConnected(c)
  <2>1. m.type = "connected" /\ page' = page BY <1>7, HearsRest DEF OnUserConnected
  <2>2. CASE page[c] = "room"
    <3>1. list'[c][d] = IF d = m.user THEN list[c][d] + 1 ELSE list[c][d]
      BY <1>2, <1>7, <2>2, ListChanges
    <3>2. QED BY <2>1, <2>2, <3>1 DEF NotShown, Comes, IsJoinOf, About, IsRoom
  <2>3. CASE page[c] # "room"
    BY <1>7, <2>1, <2>3 DEF OnUserConnected, NotShown
  <2>4. QED BY <2>2, <2>3
<1>8. CASE OnUserDisconnected(c)
  <2>1. m.type = "disconnected" /\ page' = page BY <1>8, HearsRest DEF OnUserDisconnected
  <2>2. CASE page[c] = "room"
    <3>1. list'[c][d] = IF d = m.user THEN 0 ELSE list[c][d]
      BY <1>2, <1>8, <2>2, ListChanges
    <3>2. QED BY <2>1, <2>2, <3>1 DEF NotShown, Goes, About, IsRoom
  <2>3. CASE page[c] # "room"
    BY <1>8, <2>1, <2>3 DEF OnUserDisconnected, NotShown
  <2>4. QED BY <2>2, <2>3
<1>9. CASE OnPushLock(c)
  BY <1>4, <1>9, HearsRest DEF OnPushLock
<1>10. CASE OnLockReply(c)
  BY <1>4, <1>10, HearsRest DEF OnLockReply
<1>11. CASE OnLockRefused(c)
  BY <1>4, <1>11, HearsRest DEF OnLockRefused
<1>12. QED BY <1>5, <1>6, <1>7, <1>8, <1>9, <1>10, <1>11 DEF HearStep

\* What follows the first message alternates as it did.
LEMMA RestAlternates ==
  ASSUME NEW c \in Clients, NEW d \in Clients, Rest(pushes[c], pushes'[c]), Alternates(c, d),
         \/ page'[c] = page[c]
         \/ page[c] = "entering" /\ page'[c] = "room" /\ IsRoom(pushes[c][1])
  PROVE  /\ Alternates(c, d)'
         /\ \A k \in DOMAIN pushes'[c] :
              /\ Told(c) /\ FollowsReply(c, 1) /\ About(pushes[c][1], d)
              /\ Between(pushes'[c], d, 0, k) /\ IsJoinOf(pushes'[c][k], d)
              => ~Says(pushes[c][1], d)
         /\ \A k \in DOMAIN pushes'[c] :
              /\ ~About(pushes[c][1], d)
              /\ Between(pushes'[c], d, 0, k) /\ IsJoinOf(pushes'[c][k], d)
              => k + 1 \in DOMAIN pushes[c] /\ Between(pushes[c], d, 0, k + 1)
                 /\ IsJoinOf(pushes[c][k + 1], d)
<1>1. /\ 1 \in DOMAIN pushes[c]
      /\ \A i \in DOMAIN pushes'[c] : i \in Nat /\ i >= 1 /\ i + 1 \in DOMAIN pushes[c]
                                      /\ pushes'[c][i] = pushes[c][i + 1]
      /\ \A i \in DOMAIN pushes[c] :
           i = 1 \/ (i > 1 /\ i - 1 \in DOMAIN pushes'[c] /\ pushes'[c][i - 1] = pushes[c][i])
      /\ \A i \in DOMAIN pushes[c] : i \in Nat
      /\ \A i \in DOMAIN pushes'[c] : \A k \in 1 .. i : k \in DOMAIN pushes'[c]
  BY RestIndices
<1>2. Alternates(c, d)'
  <2>1. SUFFICES ASSUME Told(c)', NEW i \in DOMAIN pushes'[c], NEW k \in DOMAIN pushes'[c],
                        i < k, FollowsReply(c, i)', About(pushes'[c][i], d),
                        Between(pushes'[c], d, i, k), IsJoinOf(pushes'[c][k], d)
                 PROVE  ~Says(pushes'[c][i], d)
    BY DEF Alternates
  <2>2. /\ i + 1 \in DOMAIN pushes[c] /\ pushes'[c][i] = pushes[c][i + 1]
        /\ k + 1 \in DOMAIN pushes[c] /\ pushes'[c][k] = pushes[c][k + 1]
        /\ i \in Nat /\ i >= 1 /\ k \in Nat
    BY <1>1
  <2>3. Between(pushes[c], d, i + 1, k + 1)
    <3>1. SUFFICES ASSUME NEW j \in DOMAIN pushes[c], i + 1 < j, j < k + 1
                   PROVE  ~About(pushes[c][j], d)
      BY DEF Between
    <3>2. j - 1 \in DOMAIN pushes'[c] /\ pushes'[c][j - 1] = pushes[c][j] /\ j \in Nat
      BY <1>1, <2>2, <3>1
    <3>3. i < j - 1 /\ j - 1 < k BY <2>2, <3>1, <3>2
    <3>4. QED BY <2>1, <3>2, <3>3 DEF Between
  <2>4. FollowsReply(c, i + 1)
    <3>1. CASE page'[c] # page[c]
      <4>1. 1 \in 1 .. i + 1 BY <2>2
      <4>2. QED BY <3>1, <4>1 DEF FollowsReply
    <3>2. CASE page'[c] = page[c] /\ page[c] # "room"
      <4>1. PICK n \in 1 .. i : IsRoom(pushes'[c][n]) BY <2>1, <3>2 DEF FollowsReply
      <4>2. n \in DOMAIN pushes'[c] BY <1>1, <4>1
      <4>3. n + 1 \in 1 .. i + 1 /\ IsRoom(pushes[c][n + 1]) BY <1>1, <2>2, <4>1, <4>2
      <4>4. QED BY <4>3 DEF FollowsReply
    <3>3. CASE page[c] = "room" BY <3>3 DEF FollowsReply
    <3>4. QED BY <3>1, <3>2, <3>3
  <2>5. Told(c)
    <3>1. CASE page'[c] # page[c] BY <1>1, <3>1 DEF Told
    <3>2. CASE page'[c] = page[c] BY <1>1, <2>1, <3>2 DEF Told
    <3>3. QED BY <3>1, <3>2
  <2>6. i + 1 < k + 1 BY <2>1, <2>2
  <2>7. QED BY <2>1, <2>2, <2>3, <2>4, <2>5, <2>6 DEF Alternates
<1>3. ASSUME NEW k \in DOMAIN pushes'[c], Told(c), FollowsReply(c, 1), About(pushes[c][1], d),
             Between(pushes'[c], d, 0, k), IsJoinOf(pushes'[c][k], d)
      PROVE  ~Says(pushes[c][1], d)
  <2>1. k + 1 \in DOMAIN pushes[c] /\ pushes'[c][k] = pushes[c][k + 1] /\ 1 < k + 1 BY <1>1
  <2>2. Between(pushes[c], d, 1, k + 1)
    <3>1. SUFFICES ASSUME NEW j \in DOMAIN pushes[c], 1 < j, j < k + 1
                   PROVE  ~About(pushes[c][j], d)
      BY DEF Between
    <3>2. j - 1 \in DOMAIN pushes'[c] /\ pushes'[c][j - 1] = pushes[c][j] /\ j \in Nat /\ k \in Nat
      BY <1>1, <3>1
    <3>3. 0 < j - 1 /\ j - 1 < k BY <3>1, <3>2
    <3>4. QED BY <1>3, <3>2, <3>3 DEF Between
  <2>3. QED BY <1>1, <1>3, <2>1, <2>2 DEF Alternates
<1>4. ASSUME NEW k \in DOMAIN pushes'[c], ~About(pushes[c][1], d),
             Between(pushes'[c], d, 0, k), IsJoinOf(pushes'[c][k], d)
      PROVE  k + 1 \in DOMAIN pushes[c] /\ Between(pushes[c], d, 0, k + 1)
             /\ IsJoinOf(pushes[c][k + 1], d)
  <2>1. k + 1 \in DOMAIN pushes[c] /\ pushes'[c][k] = pushes[c][k + 1] BY <1>1
  <2>2. Between(pushes[c], d, 0, k + 1)
    <3>1. SUFFICES ASSUME NEW j \in DOMAIN pushes[c], 0 < j, j < k + 1, j # 1
                   PROVE  ~About(pushes[c][j], d)
      BY <1>4 DEF Between
    <3>2. j - 1 \in DOMAIN pushes'[c] /\ pushes'[c][j - 1] = pushes[c][j] /\ j \in Nat /\ k \in Nat
          /\ j > 1
      BY <1>1, <3>1
    <3>3. 0 < j - 1 /\ j - 1 < k BY <3>1, <3>2
    <3>4. QED BY <1>4, <3>2, <3>3 DEF Between
  <2>3. QED BY <1>4, <2>1, <2>2
<1>5. QED BY <1>2, <1>3, <1>4
LEMMA HearOwnViews ==
  ASSUME SessionTypeOK, TurnsInv, RolesInv', NEW c \in Clients, HearStep(c),
         NEW d \in Clients, ViewOf(c, d)
  PROVE  ViewOf(c, d)'
<1> DEFINE m == pushes[c][1]
<1>1. PICK t : Hears(c, t)
  BY DEF HearStep, OnJoined, OnRefused, OnRoom, OnUserConnected, OnUserDisconnected,
         OnPushLock, OnLockReply, OnLockRefused
<1>2. /\ Rest(pushes[c], pushes'[c]) /\ 1 \in DOMAIN pushes[c]
      /\ sock' = sock /\ members' = members
  BY <1>1, HearsRest DEF Rest, Hears, serverVars
<1>3. /\ LastTrue(pushes[c], d, members) => LastTrue(pushes'[c], d, members)
      /\ LastTrue(pushes[c], d, members) /\ About(m, d) /\ Mute(pushes'[c], d) =>
           (Says(m, d) <=> d \in members)
      /\ ~About(m, d) /\ Mute(pushes'[c], d) => Mute(pushes[c], d)
  BY <1>2, RestLast
<1>4. list[c][d] \in Nat BY DEF SessionTypeOK
<1>5. CASE NotShown(c, d, m)
  <2>1. page'[c] = page[c] /\ list'[c][d] = list[c][d] BY <1>5 DEF NotShown
  <2>2. Told(c)' => Told(c)
    <3>1. \A i \in DOMAIN pushes'[c] : i + 1 \in DOMAIN pushes[c] /\ pushes'[c][i] = pushes[c][i + 1]
      BY <1>2, RestIndices
    <3>2. QED BY <2>1, <3>1 DEF Told
  <2>3. WordsTrue(c, d)' BY <1>2, <1>3, <1>5, <2>1, <2>2 DEF ViewOf, WordsTrue, NotShown
  <2>4. Alternates(c, d)' BY <1>2, <2>1, RestAlternates DEF ViewOf
  <2>5. FirstComes(c, d)'
    <3>1. SUFFICES ASSUME page[c] = "room", NEW k \in DOMAIN pushes'[c],
                          Between(pushes'[c], d, 0, k), IsJoinOf(pushes'[c][k], d)
                   PROVE  list[c][d] = 0
      BY <2>1 DEF FirstComes
    <3>2. ~About(m, d) BY <1>5, <3>1 DEF NotShown
    <3>3. k + 1 \in DOMAIN pushes[c] /\ Between(pushes[c], d, 0, k + 1)
          /\ IsJoinOf(pushes[c][k + 1], d)
      BY <1>2, <2>1, <3>1, <3>2, RestAlternates DEF ViewOf
    <3>4. QED BY <3>1, <3>3 DEF ViewOf, FirstComes
  <2>6. QED BY <2>1, <2>3, <2>4, <2>5 DEF ViewOf, ListedOnce
<1>6. ASSUME Told(c), FollowsReply(c, 1), About(m, d), page'[c] = "room",
             \/ page'[c] = page[c]
             \/ page[c] = "entering" /\ IsRoom(m),
             list'[c][d] > 0 <=> Says(m, d), ~Says(m, d) => list'[c][d] = 0
      PROVE  WordsTrue(c, d)' /\ Alternates(c, d)' /\ FirstComes(c, d)'
  <2>1. WordsTrue(c, d)' BY <1>2, <1>3, <1>6 DEF ViewOf, WordsTrue
  <2>2. Alternates(c, d)' BY <1>2, <1>6, RestAlternates DEF ViewOf
  <2>3. FirstComes(c, d)'
    <3>1. SUFFICES ASSUME NEW k \in DOMAIN pushes'[c],
                          Between(pushes'[c], d, 0, k), IsJoinOf(pushes'[c][k], d)
                   PROVE  list'[c][d] = 0
      BY DEF FirstComes
    <3>2. ~Says(m, d) BY <1>2, <1>6, <3>1, RestAlternates DEF ViewOf
    <3>3. QED BY <1>6, <3>2
  <2>4. QED BY <2>1, <2>2, <2>3
<1>7. CASE Comes(c, d, m)
  <2>1. Told(c) /\ FollowsReply(c, 1) /\ About(m, d) /\ Says(m, d)
    BY <1>7 DEF Comes, Told, FollowsReply, About, Says, IsJoinOf
  <2>2. list'[c][d] > 0 BY <1>4, <1>7 DEF Comes
  <2>3. WordsTrue(c, d)' /\ Alternates(c, d)' /\ FirstComes(c, d)'
    BY <1>6, <1>7, <2>1, <2>2 DEF Comes
  <2>4. list[c][d] = 0
    <3>1. Between(pushes[c], d, 0, 1)
      <4>1. \A j \in DOMAIN pushes[c] : ~(0 < j /\ j < 1) BY <1>2 DEF Rest
      <4>2. QED BY <4>1 DEF Between
    <3>2. QED BY <1>2, <1>7, <3>1 DEF Comes, ViewOf, FirstComes
  <2>5. QED BY <1>7, <2>3, <2>4 DEF Comes, ViewOf, ListedOnce
<1>8. CASE Goes(c, d, m)
  <2>1. Told(c) /\ FollowsReply(c, 1) /\ About(m, d) /\ ~Says(m, d)
    BY <1>8 DEF Goes, Told, FollowsReply, About, Says, IsRoom
  <2>2. WordsTrue(c, d)' /\ Alternates(c, d)' /\ FirstComes(c, d)'
    BY <1>6, <1>8, <2>1 DEF Goes
  <2>3. QED BY <1>8, <2>2 DEF Goes, ViewOf, ListedOnce
<1>9. CASE Shown(c, d, m)
  <2>1. Told(c) /\ FollowsReply(c, 1) /\ About(m, d) /\ (Says(m, d) <=> d \in m.users)
    BY <1>2, <1>9 DEF Shown, Told, FollowsReply, About, Says, IsRoom
  <2>2. list'[c][d] \in {0, 1} /\ (list'[c][d] = 1 <=> d \in m.users) BY <1>9 DEF Shown
  <2>3. WordsTrue(c, d)' /\ Alternates(c, d)' /\ FirstComes(c, d)'
    BY <1>6, <1>9, <2>1, <2>2 DEF Shown
  <2>4. QED BY <2>2, <2>3 DEF ViewOf, ListedOnce
<1>10. CASE Elsewhere(c, d)
  BY <1>10 DEF Elsewhere, ViewOf, WordsTrue, Alternates, FirstComes, ListedOnce
<1>11. QED BY <1>5, <1>7, <1>8, <1>9, <1>10, HearViews

LEMMA UserOwnViews ==
  ASSUME SessionTypeOK, RolesInv', NEW c \in Clients, UserStep(c), NEW d \in Clients, ViewOf(c, d)
  PROVE  ViewOf(c, d)'
<1>1. CASE Join(c) \/ Leave(c) \/ Quit(c)
  <2>1. page'[c] \in {"joining", "home", "gone"} BY <1>1 DEF Join, Leave, Quit, SessionTypeOK
  <2>2. list'[c][d] = 0 BY <2>1 DEF RolesInv, OnlyInRoom
  <2>3. QED BY <2>1, <2>2 DEF ViewOf, WordsTrue, Alternates, FirstComes, ListedOnce, Told
<1>2. CASE OpenManager(c) \/ CloseManager(c) \/ ToggleLock(c)
  <2>1. page' = page /\ list' = list /\ Same(c) /\ sock' = sock /\ members' = members
    BY <1>2 DEF OpenManager, CloseManager, ToggleLock, Same, serverVars
  <2>2. QED BY <2>1, SameViews
<1>3. QED BY <1>1, <1>2 DEF UserStep

LEMMA ViewsStep ==
  ASSUME SessionTypeOK, TurnsInv, RolesInv', ViewsInv, NEW a \in Clients,
         ServerStep(a) \/ HearStep(a) \/ UserStep(a)
  PROVE  ViewsInv'
<1> SUFFICES ASSUME NEW c \in Clients, NEW d \in Clients PROVE ViewOf(c, d)' BY DEF ViewsInv
<1>1. ViewOf(c, d) BY DEF ViewsInv
<1>2. CASE c = a BY <1>1, <1>2, ServerOwnViews, HearOwnViews, UserOwnViews
<1>3. CASE c # a /\ ServerStep(a) BY <1>1, <1>3, ServerOthersViews
<1>4. CASE c # a /\ (HearStep(a) \/ UserStep(a))
  <2>1. Bystander(c) /\ Same(c) /\ SameView(c) BY <1>4, PageBystanders, OthersView
  <2>2. members' = members
    BY <1>4 DEF HearStep, OnJoined, OnRefused, OnRoom, OnUserConnected, OnUserDisconnected,
       OnPushLock, OnLockReply, OnLockRefused, Hears, UserStep, Join, Leave, Quit, OpenManager,
       CloseManager, ToggleLock, serverVars
  <2>3. QED BY <1>1, <2>1, <2>2, SameViews DEF Bystander, SameView
<1>5. QED BY <1>2, <1>3, <1>4

LEMMA InitViews == Init => ViewsInv
<1> SUFFICES ASSUME Init, NEW c \in Clients, NEW d \in Clients PROVE ViewOf(c, d)
  BY DEF ViewsInv
<1>1. page[c] = "home" /\ list[c][d] = 0 BY DEF Init, NoOne
<1>2. QED BY <1>1 DEF ViewOf, WordsTrue, Alternates, FirstComes, ListedOnce, Told

-----------------------------------------------------------------------------
(* The lock *)

\* Only the owner's page asks for the lock and is answered.
GuestAsksNothing(c) ==
  c # Owner =>
    /\ manager[c].open = FALSE
    /\ \A i \in DOMAIN requests[c] : requests[c][i].type # "lock"
    /\ \A i \in DOMAIN pushes[c] : pushes[c][i].type # "lockReply"
OfLock(m) == m.type \in {"room", "lock"}
NoLock(q) == \A i \in DOMAIN q : ~OfLock(q[i])
\* The last message about the lock says v.
LockSays(q, v) ==
  \A i \in DOMAIN q :
    OfLock(q[i]) /\ (\A j \in DOMAIN q : j > i => ~OfLock(q[j])) => q[i].locked = v
\* Having heard everything, a guest's page shows the lock.
LockTrue(c) ==
  c # Owner /\ sock[c] = "open" /\ Told(c) =>
    /\ LockSays(pushes[c], locked)
    /\ page[c] = "room" /\ NoLock(pushes[c]) => lockView[c] = locked
LockInv == \A c \in Clients : GuestAsksNothing(c) /\ LockTrue(c)

LEMMA ServesOfQueue ==
  ASSUME SessionTypeOK, NEW a \in Clients, ServerStep(a),
         \A i \in DOMAIN requests[a] : requests[a][i].type # "lock"
  PROVE  ~ServeLock(a) /\ ~RefuseLock(a)
<1>1. \A t : Serves(a, t) => 1 \in DOMAIN requests[a] /\ requests[a][1].type = t
  BY ServesRest DEF Rest
<1>2. QED BY <1>1 DEF ServeLock, RefuseLock

\* A push neither opens nor closes the popup.
LEMMA PopupStays ==
  ASSUME SessionTypeOK, NEW c \in Clients, HearStep(c)
  PROVE  manager'[c].open = manager[c].open
<1>1. ASSUME NEW g \in Manager, NEW b
      PROVE  /\ [g EXCEPT !.own = FALSE].open = g.open
             /\ [g EXCEPT !.pending = FALSE].open = g.open
             /\ [g EXCEPT !.pending = FALSE, !.locked = b].open = g.open
  BY DEF Manager
<1>2. manager \in [Clients -> Manager] /\ manager[c] \in Manager BY DEF SessionTypeOK
<1>3. \/ manager' = manager
      \/ manager' = [manager EXCEPT ![c].own = FALSE]
      \/ manager' = [manager EXCEPT ![c].pending = FALSE]
      \/ \E b : manager' = [manager EXCEPT ![c].pending = FALSE, ![c].locked = b]
  BY DEF HearStep, OnJoined, OnRefused, OnRoom, OnUserConnected, OnUserDisconnected, OnPushLock,
     OnLockReply, OnLockRefused, Renewed, viewVars
<1>4. PICK b :
        \/ manager'[c] = manager[c]
        \/ manager'[c] = [manager[c] EXCEPT !.own = FALSE]
        \/ manager'[c] = [manager[c] EXCEPT !.pending = FALSE]
        \/ manager'[c] = [manager[c] EXCEPT !.pending = FALSE, !.locked = b]
  BY <1>2, <1>3
<1>5. PICK g \in Manager : g = manager[c] BY <1>2
<1>6. /\ [g EXCEPT !.own = FALSE].open = g.open
      /\ [g EXCEPT !.pending = FALSE].open = g.open
      /\ [g EXCEPT !.pending = FALSE, !.locked = b].open = g.open
  BY <1>1
<1>7. \/ manager'[c] = g
      \/ manager'[c] = [g EXCEPT !.own = FALSE]
      \/ manager'[c] = [g EXCEPT !.pending = FALSE]
      \/ manager'[c] = [g EXCEPT !.pending = FALSE, !.locked = b]
  BY <1>4, <1>5
<1>8. QED BY <1>5, <1>6, <1>7

LEMMA GuestAsks ==
  ASSUME SessionTypeOK, NEW a \in Clients, ServerStep(a) \/ HearStep(a) \/ UserStep(a),
         NEW c \in Clients, GuestAsksNothing(c)
  PROVE  GuestAsksNothing(c)'
<1> SUFFICES ASSUME c # Owner
             PROVE  /\ manager'[c].open = FALSE
                    /\ \A i \in DOMAIN requests'[c] : requests'[c][i].type # "lock"
                    /\ \A i \in DOMAIN pushes'[c] : pushes'[c][i].type # "lockReply"
  BY DEF GuestAsksNothing
<1>1. /\ manager[c].open = FALSE
      /\ \A i \in DOMAIN requests[c] : requests[c][i].type # "lock"
      /\ \A i \in DOMAIN pushes[c] : pushes[c][i].type # "lockReply"
  BY DEF GuestAsksNothing
<1>2. CASE c # a /\ ~ServerStep(a)
  <2>1. Bystander(c) /\ Same(c) /\ SameView(c) BY <1>2, PageBystanders, OthersView
  <2>2. QED BY <1>1, <2>1 DEF Bystander, Same, SameView
<1>3. CASE ServerStep(a)
  <2>1. manager'[c] = manager[c] BY <1>3, OthersView DEF SameView
  <2>2. \A i \in DOMAIN requests'[c] : requests'[c][i].type # "lock"
    <3>1. CASE c # a BY <1>1, <1>3, <3>1, ServerBystanders DEF Bystander
    <3>2. CASE c = a
      <4>1. \/ requests'[c] = requests[c] \/ requests'[c] = <<>>
            \/ Rest(requests[c], requests'[c])
        <5>1. CASE JoinDone(a) \/ JoinFailed(a) BY <3>2, <5>1 DEF JoinDone, JoinFailed
        <5>2. CASE OnClose(a) BY <3>2, <5>2 DEF OnClose, SessionTypeOK
        <5>3. CASE \E t : Serves(a, t) BY <3>2, <5>3, ServesRest
        <5>4. QED BY <1>3, <5>1, <5>2, <5>3
              DEF ServerStep, ServeJoin, RefuseJoin, ServeGetRoom, ServeLeave, ServeLock, RefuseLock
      <4>2. QED BY <1>1, <4>1 DEF Rest
    <3>3. QED BY <3>1, <3>2
  <2>3. Same(c) \/ \E m \in Push : m.type # "lockReply" /\ Gets(c, m)
    <3>1. CASE c # a
      <4>1. News(a) BY <1>3, ServerNews
      <4>2. CASE Unnoticed(a) BY <3>1, <4>2 DEF Unnoticed, Silence
      <4>3. CASE Enters(a) \/ Exits(a) \/ Locks(a)
        <5>1. PICK m \in Push : m.type # "lockReply" /\ Tells(a, m)
          BY <4>3, PushesMade DEF Enters, Exits, Locks
        <5>2. QED BY <3>1, <5>1 DEF Tells
      <4>4. QED BY <4>1, <4>2, <4>3 DEF News
    <3>2. CASE c = a
      <4>1. ~ServeLock(a) BY <1>1, <1>3, <3>2, ServesOfQueue
      <4>2. QED BY <1>3, <3>2, <4>1, OwnMessage DEF OwnWord
    <3>3. QED BY <3>1, <3>2
  <2>4. \A i \in DOMAIN pushes'[c] : pushes'[c][i].type # "lockReply"
    BY <1>1, <2>3 DEF Same, Gets, More
  <2>5. QED BY <1>1, <2>1, <2>2, <2>4
<1>4. CASE c = a /\ HearStep(a)
  <2>1. PICK t : Hears(c, t)
    BY <1>4 DEF HearStep, OnJoined, OnRefused, OnRoom, OnUserConnected, OnUserDisconnected,
       OnPushLock, OnLockReply, OnLockRefused
  <2>2. Rest(pushes[c], pushes'[c]) BY <2>1, HearsRest
  <2>3. \A i \in DOMAIN pushes'[c] : pushes'[c][i].type # "lockReply" BY <1>1, <2>2 DEF Rest
  <2>4. manager'[c].open = FALSE
    BY <1>1, <1>4, PopupStays
  <2>5. CASE requests'[c] = requests[c] BY <1>1, <2>3, <2>4, <2>5
  <2>6. CASE Asks(c, [type |-> "get"])
    <3>1. PICK r \in Request : r = [type |-> "get"] BY DEF Request
    <3>2. More(requests[c], requests'[c], r) BY <2>6, <3>1, AsksMore
    <3>3. \A i \in DOMAIN requests'[c] : requests'[c][i].type # "lock" BY <1>1, <3>1, <3>2 DEF More
    <3>4. QED BY <2>3, <2>4, <3>3
  <2>7. QED
    BY <1>4, <2>5, <2>6 DEF HearStep, OnJoined, OnRefused, OnRoom, OnUserConnected,
       OnUserDisconnected, OnPushLock, OnLockReply, OnLockRefused
<1>5. CASE c = a /\ UserStep(a)
  <2>1. Same(c)
    BY <1>5 DEF Same, UserStep, Join, Leave, Quit, OpenManager, CloseManager, ToggleLock
  <2>2. ~OpenManager(c) /\ ~CloseManager(c) /\ ~ToggleLock(c)
    BY <1>1 DEF OpenManager, CloseManager, ToggleLock
  <2>3. manager'[c].open = FALSE
    BY <1>1, <1>5, <2>2 DEF SessionTypeOK, UserStep, Join, Leave, Quit, Destroyed, ClosedManager,
       viewVars
  <2>4. CASE requests'[c] = requests[c] BY <1>1, <2>1, <2>3, <2>4 DEF Same
  <2>5. ASSUME NEW r \in Request, r.type # "lock", Asks(c, r)
        PROVE  \A i \in DOMAIN requests'[c] : requests'[c][i].type # "lock"
    <3>1. More(requests[c], requests'[c], r) BY <2>5, AsksMore
    <3>2. QED BY <1>1, <2>5, <3>1 DEF More
  <2>6. CASE Join(c) \/ Leave(c)
    <3>1. \E r \in Request : r.type # "lock" /\ Asks(c, r)
      <4>1. [type |-> "join"] \in Request /\ [type |-> "leave"] \in Request BY DEF Request
      <4>2. QED BY <2>6, <4>1 DEF Join, Leave
    <3>2. QED BY <1>1, <2>1, <2>3, <2>5, <3>1 DEF Same
  <2>7. QED BY <1>5, <2>2, <2>4, <2>6 DEF UserStep, Quit
<1>6. QED BY <1>2, <1>3, <1>4, <1>5
LEMMA MoreLock ==
  ASSUME NEW q, NEW r, NEW m, More(q, r, m), NEW v
  PROVE  /\ OfLock(m) => ~NoLock(r)
         /\ OfLock(m) /\ m.locked = v => LockSays(r, v)
         /\ ~OfLock(m) => (LockSays(q, v) => LockSays(r, v)) /\ (NoLock(r) => NoLock(q))
<1>1. /\ Len(r) \in DOMAIN r /\ r[Len(r)] = m /\ Len(r) \in Nat
      /\ \A i \in DOMAIN r : i = Len(r) \/ (i \in DOMAIN q /\ r[i] = q[i] /\ i < Len(r))
      /\ \A i \in DOMAIN q : i \in DOMAIN r /\ r[i] = q[i]
  BY DEF More
<1>2. OfLock(m) => ~NoLock(r) BY <1>1 DEF NoLock
<1>3. ASSUME OfLock(m), m.locked = v PROVE LockSays(r, v)
  <2>1. SUFFICES ASSUME NEW i \in DOMAIN r, \A j \in DOMAIN r : j > i => ~OfLock(r[j])
                 PROVE  r[i].locked = v
    BY DEF LockSays
  <2>2. i = Len(r) BY <1>1, <1>3, <2>1
  <2>3. QED BY <1>1, <1>3, <2>2
<1>4. ASSUME ~OfLock(m), LockSays(q, v) PROVE LockSays(r, v)
  <2>1. SUFFICES ASSUME NEW i \in DOMAIN r, OfLock(r[i]),
                        \A j \in DOMAIN r : j > i => ~OfLock(r[j])
                 PROVE  r[i].locked = v
    BY DEF LockSays
  <2>2. i \in DOMAIN q /\ r[i] = q[i] BY <1>1, <1>4, <2>1
  <2>3. \A j \in DOMAIN q : j > i => ~OfLock(q[j]) BY <1>1, <2>1
  <2>4. QED BY <1>4, <2>1, <2>2, <2>3 DEF LockSays
<1>5. NoLock(r) => NoLock(q) BY <1>1 DEF NoLock
<1>6. QED BY <1>2, <1>3, <1>4, <1>5

LEMMA RestLock ==
  ASSUME NEW q, NEW r, Rest(q, r), NEW v
  PROVE  /\ LockSays(q, v) => LockSays(r, v)
         /\ LockSays(q, v) /\ OfLock(q[1]) /\ NoLock(r) => q[1].locked = v
         /\ ~OfLock(q[1]) /\ NoLock(r) => NoLock(q)
<1>1. /\ 1 \in DOMAIN q
      /\ \A i \in DOMAIN r : i \in Nat /\ i >= 1 /\ i + 1 \in DOMAIN q /\ r[i] = q[i + 1]
      /\ \A i \in DOMAIN q : i = 1 \/ (i > 1 /\ i - 1 \in DOMAIN r /\ r[i - 1] = q[i])
      /\ \A i \in DOMAIN q : i \in Nat
  BY RestIndices
<1>2. ASSUME LockSays(q, v) PROVE LockSays(r, v)
  <2>1. SUFFICES ASSUME NEW i \in DOMAIN r, OfLock(r[i]),
                        \A j \in DOMAIN r : j > i => ~OfLock(r[j])
                 PROVE  r[i].locked = v
    BY DEF LockSays
  <2>2. i + 1 \in DOMAIN q /\ r[i] = q[i + 1] BY <1>1
  <2>3. ASSUME NEW j \in DOMAIN q, j > i + 1 PROVE ~OfLock(q[j])
    <3>1. j - 1 \in DOMAIN r /\ r[j - 1] = q[j] /\ j - 1 > i BY <1>1, <2>3
    <3>2. QED BY <2>1, <3>1
  <2>4. QED BY <1>2, <2>1, <2>2, <2>3 DEF LockSays
<1>3. ASSUME LockSays(q, v), OfLock(q[1]), NoLock(r) PROVE q[1].locked = v
  <2>1. \A j \in DOMAIN q : j > 1 => ~OfLock(q[j]) BY <1>1, <1>3 DEF NoLock
  <2>2. QED BY <1>1, <1>3, <2>1 DEF LockSays
<1>4. ASSUME ~OfLock(q[1]), NoLock(r) PROVE NoLock(q) BY <1>1, <1>4 DEF NoLock
<1>5. QED BY <1>2, <1>3, <1>4

\* A page that is told nothing, or nothing of the lock, while the lock stays.
LEMMA LockKept ==
  ASSUME NEW c \in Clients, LockTrue(c), page'[c] = page[c], lockView'[c] = lockView[c],
         sock'[c] = "open" /\ Told(c) => sock[c] = "open" /\ locked' = locked,
         Same(c) \/ \E m \in Push : ~OfLock(m) /\ Gets(c, m)
  PROVE  LockTrue(c)'
<1>1. Told(c)' => Told(c) BY DEF Told, Same, Gets, More, IsRoom, OfLock
<1>2. LockSays(pushes[c], locked) => LockSays(pushes'[c], locked)
  BY MoreLock DEF Same, Gets
<1>3. NoLock(pushes'[c]) => NoLock(pushes[c]) BY MoreLock DEF Same, Gets
<1>4. QED BY <1>1, <1>2, <1>3 DEF LockTrue

LEMMA LockHeard ==
  ASSUME NEW c \in Clients, NEW m \in Push, Gets(c, m), OfLock(m), m.locked = locked',
         page'[c] = page[c]
  PROVE  LockTrue(c)'
<1>1. LockSays(pushes'[c], locked') /\ ~NoLock(pushes'[c]) BY MoreLock DEF Gets
<1>2. QED BY <1>1 DEF LockTrue

LEMMA ServerLocks ==
  ASSUME SessionTypeOK, TurnsInv, NEW a \in Clients, ServerStep(a),
         NEW c \in Clients, c # Owner, GuestAsksNothing(c), LockTrue(c)
  PROVE  LockTrue(c)'
<1>1. page'[c] = page[c] /\ lockView'[c] = lockView[c] /\ Turns(c)
  <2>1. SameView(c) BY OthersView
  <2>2. UNCHANGED page
    BY DEF ServerStep, ServeJoin, RefuseJoin, JoinDone, JoinFailed, ServeGetRoom, ServeLeave,
           ServeLock, RefuseLock, OnClose, Serves
  <2>3. QED BY <2>1, <2>2 DEF SameView, TurnsInv
<1>2. CASE page[c] \notin {"entering", "room"} BY <1>1, <1>2 DEF LockTrue, Told
<1>3. CASE page[c] \in {"entering", "room"} /\ c # a
  <2>1. sock'[c] = sock[c] BY <1>3, ServerBystanders DEF Bystander
  <2>2. sock[c] = "open" => c \in members BY <1>1, <1>3 DEF Turns, Belongs
  <2>3. News(a) BY ServerNews
  <2>4. CASE sock[c] # "open" BY <2>1, <2>4 DEF LockTrue
  <2>5. CASE sock[c] = "open" /\ Unnoticed(a)
    BY <1>1, <1>3, <2>1, <2>5, LockKept DEF Unnoticed, Silence
  <2>6. CASE sock[c] = "open" /\ (Enters(a) \/ Exits(a))
    <3>1. PICK m \in Push : ~OfLock(m) /\ Tells(a, m)
      BY <2>6, PushesMade DEF Enters, Exits, OfLock
    <3>2. Gets(c, m) BY <1>3, <2>2, <2>6, <3>1 DEF Tells
    <3>3. QED BY <1>1, <2>1, <2>6, <3>1, <3>2, LockKept DEF Enters, Exits
  <2>7. CASE sock[c] = "open" /\ Locks(a)
    <3>1. PICK b \in BOOLEAN : Tells(a, [type |-> "lock", locked |-> b]) /\ locked' = b
      BY <2>7 DEF Locks
    <3>2. PICK m \in Push : m = [type |-> "lock", locked |-> b] BY PushesMade
    <3>3. Gets(c, m) BY <1>3, <2>2, <2>7, <3>1, <3>2 DEF Tells
    <3>4. OfLock(m) /\ m.locked = locked' BY <3>1, <3>2 DEF OfLock
    <3>5. QED BY <1>1, <3>3, <3>4, LockHeard
  <2>8. QED BY <2>3, <2>4, <2>5, <2>6, <2>7 DEF News
<1>4. CASE page[c] \in {"entering", "room"} /\ c = a
  <2>1. ~(1 \in DOMAIN requests[c] /\ requests[c][1].type = "lock") BY DEF GuestAsksNothing
  <2>2. CASE sock'[c] # "open" BY <2>2 DEF LockTrue
  <2>3. CASE Same(c) /\ sock' = sock /\ locked' = locked BY <1>1, <2>3, LockKept
  <2>4. ASSUME NEW m \in Push, m.type = "room", m.locked = locked, locked' = locked, Gets(c, m)
        PROVE  LockTrue(c)'
    BY <1>1, <2>4, LockHeard DEF OfLock
  <2>5. QED BY <1>4, <2>1, <2>2, <2>3, <2>4, OwnNews
<1>5. QED BY <1>2, <1>3, <1>4

LEMMA HearLocks ==
  ASSUME SessionTypeOK, TurnsInv, NEW c \in Clients, HearStep(c), c # Owner,
         GuestAsksNothing(c), LockTrue(c)
  PROVE  LockTrue(c)'
<1> DEFINE m == pushes[c][1]
<1>1. PICK t : Hears(c, t)
  BY DEF HearStep, OnJoined, OnRefused, OnRoom, OnUserConnected, OnUserDisconnected,
         OnPushLock, OnLockReply, OnLockRefused
<1>2. /\ Rest(pushes[c], pushes'[c]) /\ 1 \in DOMAIN pushes[c] /\ Head(pushes[c]) = m
      /\ sock' = sock /\ locked' = locked
  BY <1>1, HearsRest DEF Rest, Hears, serverVars
<1>3. Turns(c) BY DEF TurnsInv
<1>4. /\ LockSays(pushes[c], locked) => LockSays(pushes'[c], locked)
      /\ LockSays(pushes[c], locked) /\ OfLock(m) /\ NoLock(pushes'[c]) => m.locked = locked
      /\ ~OfLock(m) /\ NoLock(pushes'[c]) => NoLock(pushes[c])
  BY <1>2, RestLock
<1>5. page'[c] = page[c] => (Told(c)' => Told(c))
  <2>1. \A i \in DOMAIN pushes'[c] : i + 1 \in DOMAIN pushes[c] /\ pushes'[c][i] = pushes[c][i + 1]
    BY <1>2, RestIndices
  <2>2. QED BY <2>1 DEF Told
<1>6. CASE page'[c] = page[c] /\ lockView'[c] = lockView[c] /\ (page[c] = "room" => ~OfLock(m))
  BY <1>2, <1>4, <1>5, <1>6 DEF LockTrue
<1>7. CASE OnJoined(c) \/ OnRefused(c)
  <2>1. IsAnswer(m) BY <1>7, HearsRest DEF OnJoined, OnRefused, IsAnswer
  <2>2. CASE page[c] = "joining"
    <3>1. \A i \in DOMAIN pushes'[c] : ~IsAnswer(pushes'[c][i])
      BY <1>2, <1>3, <2>1, <2>2, AnswerHeard
    <3>2. page'[c] # "room" BY <1>7, <2>2 DEF OnJoined, OnRefused, SessionTypeOK
    <3>3. ~Told(c)' BY <3>1, <3>2 DEF Told, IsRoom, IsAnswer
    <3>4. QED BY <3>3 DEF LockTrue
  <2>3. CASE page[c] # "joining"
    <3>1. page'[c] = page[c] /\ lockView'[c] = lockView[c]
      BY <1>7, <2>3 DEF OnJoined, OnRefused, viewVars, SessionTypeOK
    <3>2. ~OfLock(m) BY <1>7, HearsRest DEF OnJoined, OnRefused, OfLock
    <3>3. QED BY <1>6, <3>1, <3>2
  <2>4. QED BY <2>2, <2>3
<1>8. CASE OnRoom(c)
  <2>1. OfLock(m) /\ IsRoom(m) /\ IsAnswer(m) BY <1>8, HearsRest DEF OnRoom, OfLock, IsRoom, IsAnswer
  <2>2. CASE page[c] = "entering"
    <3>1. Told(c) BY <1>2, <2>1, <2>2 DEF Told
    <3>2. lockView'[c] = m.locked BY <1>2, <1>8, <2>2 DEF OnRoom, SessionTypeOK
    <3>3. QED BY <1>2, <1>4, <2>1, <3>1, <3>2 DEF LockTrue
  <2>3. CASE page[c] # "entering"
    <3>1. page'[c] = page[c] /\ lockView'[c] = lockView[c] BY <1>8, <2>3 DEF OnRoom
    <3>2. page[c] # "room" BY <1>2, <1>3, <2>1 DEF Turns, AnswersOfPage
    <3>3. QED BY <1>6, <3>1, <3>2
  <2>4. QED BY <2>2, <2>3
<1>9. CASE OnUserConnected(c) \/ OnUserDisconnected(c)
  <2>1. ~OfLock(m) BY <1>9, HearsRest DEF OnUserConnected, OnUserDisconnected, OfLock
  <2>2. page' = page /\ lockView' = lockView BY <1>9 DEF OnUserConnected, OnUserDisconnected
  <2>3. QED BY <1>6, <2>1, <2>2
<1>10. CASE OnPushLock(c)
  <2>1. m.type = "lock" /\ OfLock(m) BY <1>10, HearsRest DEF OnPushLock, OfLock
  <2>2. page' = page BY <1>10 DEF OnPushLock
  <2>3. CASE page[c] = "room"
    <3>1. lockView'[c] = m.locked BY <1>2, <1>10, <2>3 DEF OnPushLock, SessionTypeOK
    <3>2. Told(c) BY <2>3 DEF Told
    <3>3. QED BY <1>2, <1>4, <2>1, <3>1, <3>2 DEF LockTrue
  <2>4. CASE page[c] # "room"
    <3>1. lockView' = lockView BY <1>10, <2>4 DEF OnPushLock
    <3>2. QED BY <1>6, <2>2, <2>4, <3>1
  <2>5. QED BY <2>3, <2>4
<1>11. CASE OnLockReply(c)
  <2>1. m.type = "lockReply" BY <1>11, HearsRest DEF OnLockReply
  <2>2. QED BY <1>2, <2>1 DEF GuestAsksNothing
<1>12. CASE OnLockRefused(c)
  <2>1. ~OfLock(m) BY <1>12, HearsRest DEF OnLockRefused, OfLock
  <2>2. QED BY <1>6, <1>12, <2>1 DEF OnLockRefused
<1>13. QED BY <1>7, <1>8, <1>9, <1>10, <1>11, <1>12 DEF HearStep

LEMMA LockStep ==
  ASSUME SessionTypeOK, TurnsInv, LockInv, NEW a \in Clients,
         ServerStep(a) \/ HearStep(a) \/ UserStep(a)
  PROVE  LockInv'
<1> SUFFICES ASSUME NEW c \in Clients PROVE GuestAsksNothing(c)' /\ LockTrue(c)' BY DEF LockInv
<1>1. GuestAsksNothing(c) /\ LockTrue(c) BY DEF LockInv
<1>2. GuestAsksNothing(c)' BY <1>1, GuestAsks
<1>3. LockTrue(c)'
  <2>1. CASE c = Owner BY <2>1 DEF LockTrue
  <2>2. CASE c # Owner /\ ServerStep(a) BY <1>1, <2>2, ServerLocks
  <2>3. CASE c # Owner /\ c = a /\ HearStep(a) BY <1>1, <2>3, HearLocks
  <2>4. CASE c # Owner /\ c = a /\ UserStep(a)
    <3>1. CASE Join(c) \/ Leave(c) \/ Quit(c)
      <4>1. page'[c] \in {"joining", "home", "gone"} BY <3>1 DEF Join, Leave, Quit, SessionTypeOK
      <4>2. QED BY <4>1 DEF LockTrue, Told
    <3>2. CASE OpenManager(c) \/ CloseManager(c) \/ ToggleLock(c)
      <4>1. page' = page /\ lockView' = lockView /\ Same(c) /\ sock' = sock /\ locked' = locked
        BY <3>2 DEF OpenManager, CloseManager, ToggleLock, Same, serverVars
      <4>2. QED BY <1>1, <4>1, LockKept
    <3>3. QED BY <2>4, <3>1, <3>2 DEF UserStep
  <2>5. CASE c # a /\ (HearStep(a) \/ UserStep(a))
    <3>1. Bystander(c) /\ Same(c) /\ SameView(c) BY <2>5, PageBystanders, OthersView
    <3>2. locked' = locked
      BY <2>5 DEF HearStep, OnJoined, OnRefused, OnRoom, OnUserConnected, OnUserDisconnected,
         OnPushLock, OnLockReply, OnLockRefused, Hears, UserStep, Join, Leave, Quit, OpenManager,
         CloseManager, ToggleLock, serverVars
    <3>3. QED BY <1>1, <3>1, <3>2, LockKept DEF Bystander, SameView
  <2>6. QED BY <2>1, <2>2, <2>3, <2>4, <2>5
<1>4. QED BY <1>2, <1>3

LEMMA InitLock == Init => LockInv
<1> SUFFICES ASSUME Init, NEW c \in Clients PROVE GuestAsksNothing(c) /\ LockTrue(c)
  BY DEF LockInv
<1>1. requests[c] = <<>> /\ pushes[c] = <<>> /\ page[c] = "home" /\ manager[c] = ClosedManager
  BY DEF Init
<1>2. QED BY <1>1 DEF GuestAsksNothing, LockTrue, Told, ClosedManager

-----------------------------------------------------------------------------
(* The theorems *)

SessionInv == SessionTypeOK /\ TurnsInv /\ RolesInv /\ NeverBoth /\ ViewsInv /\ LockInv

LEMMA InitSession == Init => SessionInv
BY InitTyped, InitTurns, InitRoles, InitViews, InitLock DEF SessionInv

LEMMA NextSession == SessionInv /\ [Next]_sessionVars => SessionInv'
<1> SUFFICES ASSUME SessionInv, [Next]_sessionVars PROVE SessionInv' OBVIOUS
<1>1. CASE Next
  <2>1. PICK a \in Clients : ServerStep(a) \/ HearStep(a) \/ UserStep(a) BY <1>1 DEF Next
  <2>2. SessionTypeOK' BY <2>1, ServerStepTyped, HearStepTyped, UserStepTyped DEF SessionInv
  <2>3. TurnsInv' BY <2>1, NextTurns DEF SessionInv
  <2>4. RolesInv' BY <2>1, RolesStep DEF SessionInv
  <2>5. NeverBoth' BY <2>1, <2>3, <2>4, NeverBothStep DEF SessionInv
  <2>6. ViewsInv' BY <2>1, <2>4, ViewsStep DEF SessionInv
  <2>7. LockInv' BY <2>1, LockStep DEF SessionInv
  <2>8. QED BY <2>2, <2>3, <2>4, <2>5, <2>6, <2>7 DEF SessionInv
<1>2. CASE UNCHANGED sessionVars
  <2>1. SessionTypeOK' BY <1>2 DEF sessionVars, serverVars, viewVars, SessionTypeOK, SessionInv
  <2>2. \A c \in Clients : Same(c) /\ Bystander(c) /\ SameView(c)
    BY <1>2 DEF sessionVars, serverVars, viewVars, Same, Bystander, SameView
  <2>3. TurnsInv' BY <2>2, BystanderTurns DEF SessionInv, TurnsInv
  <2>4. RolesInv' BY <2>2 DEF SessionInv, RolesInv, OnlyInRoom, Bystander, SameView
  <2>5. NeverBoth'
    <3>1. \A c, d \in Clients : Awaits(c, d)' => Awaits(c, d)
      BY <2>2, SameHears DEF Awaits, Bystander, SameView
    <3>2. QED BY <3>1 DEF SessionInv, NeverBoth
  <2>6. ViewsInv'
    <3>1. \A c, d \in Clients : ViewOf(c, d) => ViewOf(c, d)'
      BY <2>2, SameViews DEF Bystander, SameView
    <3>2. QED BY <3>1 DEF SessionInv, ViewsInv
  <2>7. LockInv'
    <3>1. locked' = locked BY <1>2 DEF sessionVars, serverVars
    <3>2. \A c \in Clients : GuestAsksNothing(c) => GuestAsksNothing(c)'
      BY <2>2 DEF GuestAsksNothing, Same, Bystander, SameView
    <3>3. \A c \in Clients : LockTrue(c) => LockTrue(c)'
      BY <2>2, <3>1, LockKept DEF Bystander, SameView
    <3>4. QED BY <3>2, <3>3 DEF SessionInv, LockInv
  <2>8. QED BY <2>1, <2>3, <2>4, <2>5, <2>6, <2>7 DEF SessionInv
<1>3. QED BY <1>1, <1>2

\* A page that has heard everything the server had to say lists exactly the members of
\* the room, whatever comes between its GET_ROOM request, the reply and the pushes.
THEOREM ViewsTrue == Spec => []ViewsCurrent
<1>1. SessionInv => ViewsCurrent
  <2> SUFFICES ASSUME SessionInv, NEW c \in Clients, InRoom(c), Drained(c)
               PROVE  Listed(c) = members
    BY DEF ViewsCurrent
  <2>1. \A d \in Clients : list[c][d] > 0 <=> d \in members
    <3> SUFFICES ASSUME NEW d \in Clients PROVE list[c][d] > 0 <=> d \in members OBVIOUS
    <3>1. WordsTrue(c, d) BY DEF SessionInv, ViewsInv, ViewOf
    <3>2. Mute(pushes[c], d) BY DEF Drained, Mute
    <3>3. Told(c) BY DEF InRoom, Told
    <3>4. QED BY <3>1, <3>2, <3>3 DEF WordsTrue, InRoom
  <2>2. members \subseteq Clients BY DEF SessionInv, SessionTypeOK
  <2>3. QED BY <2>1, <2>2 DEF Listed
<1>2. QED BY <1>1, InitSession, NextSession, PTL DEF Spec

\* No page lists anybody twice, although it appends what it is told of without looking.
THEOREM ListsAreSets == Spec => []NobodyListedTwice
<1>1. SessionInv => NobodyListedTwice
  BY DEF SessionInv, ViewsInv, ViewOf, ListedOnce, NobodyListedTwice
<1>2. QED BY <1>1, InitSession, NextSession, PTL DEF Spec

\* Two pages never both wait for the other's offer.
THEOREM OneInitiates == Spec => []SomebodyInitiates
<1>1. SessionInv => SomebodyInitiates
  BY DEF SessionInv, NeverBoth, Awaits, SomebodyInitiates
<1>2. QED BY <1>1, InitSession, NextSession, PTL DEF Spec

\* A guest's page that has heard everything shows the lock as it is.
THEOREM GuestsSeeLock == Spec => []LockShownToGuests
<1>1. SessionInv => LockShownToGuests
  <2> SUFFICES ASSUME SessionInv, NEW c \in Clients \ {Owner}, InRoom(c), Drained(c)
               PROVE  lockView[c] = locked
    BY DEF LockShownToGuests
  <2>1. LockTrue(c) BY DEF SessionInv, LockInv
  <2>2. NoLock(pushes[c]) BY DEF Drained, NoLock
  <2>3. QED BY <2>1, <2>2 DEF LockTrue, InRoom, Told
<1>2. QED BY <1>1, InitSession, NextSession, PTL DEF Spec
=============================================================================
