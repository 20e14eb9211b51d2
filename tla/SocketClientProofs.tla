-------------------------- MODULE SocketClientProofs --------------------------
(***************************************************************************)
(* For any number of sockets and requests: losses of the connection are    *)
(* noticed and the page they interrupt is found again; requests are what   *)
(* Requests promises; and the open socket is kept alive.                   *)
(***************************************************************************)
EXTENDS SocketClient, SequenceTheorems, TLAPS

SocketsMade == socket \in Seq({"CONNECTING", "OPEN", "CLOSED"}) /\ Len(socket) > 0
\* connect() waits for the socket it made, before anything else is to be seen.
OpeningPends ==
  opening => State = "CONNECTING" /\ ~listens /\ status = "PENDING" /\ restoring = Nowhere
\* A page in use, or on its way back, hears of losses.
UsedListens == status = "SUCCESS" \/ restoring # Nowhere => listens
\* Nothing but a loss during the restoring navigation is ever overlooked.
UsedConnected ==
  (status = "SUCCESS" \/ restoring # Nowhere) /\ ~slipped => State # "CLOSED"
\* While there is a page to go back to, the user is nowhere else than on it, at
\* home to reconnect, or on the way.
GoalPends ==
  goal # Nowhere =>
    /\ status # "SUCCESS"
    /\ restoring # Nowhere => status = "PENDING"
    /\ listens /\ restoring = Nowhere => route = goal

LossInv ==
  SocketsMade /\ OpeningPends /\ UsedListens /\ UsedConnected /\ GoalPends /\ PlaceKept

-----------------------------------------------------------------------------
(* Sockets *)

\* One socket changes its state.
LEMMA SocketChanges ==
  ASSUME SocketsMade, NEW i \in Made, NEW s \in {"CONNECTING", "OPEN", "CLOSED"},
         socket' = [socket EXCEPT ![i] = s]
  PROVE  /\ SocketsMade' /\ Len(socket') = Len(socket)
         /\ State' = IF i = Len(socket) THEN s ELSE State
BY DEF SocketsMade, Made, State, Last

\* Another one is made.
LEMMA SocketAdded ==
  ASSUME SocketsMade, socket' = Connects
  PROVE  SocketsMade' /\ State' = "CONNECTING"
BY DEF SocketsMade, Connects, State, Last

\* Steps that neither a socket nor the application takes part in.
LEMMA LossUnchanged ==
  ASSUME LossInv, UNCHANGED <<socket, opening, appVars>>
  PROVE  LossInv'
BY DEF LossInv, SocketsMade, OpeningPends, UsedListens, UsedConnected, GoalPends,
       PlaceKept, State, appVars

-----------------------------------------------------------------------------
(* Events of a socket *)

LEMMA OnOpenKeeps ==
  ASSUME LossInv, NEW i \in Made, OnOpen(i)
  PROVE  LossInv'
<1>1. SocketsMade' /\ (State' # "CLOSED" \/ State' = State)
  BY SocketChanges DEF OnOpen, LossInv
<1>2. CASE opening
  <2>1. Connected /\ ~opening' /\ State' # "CLOSED"
    BY <1>1, <1>2 DEF OnOpen, LossInv, OpeningPends
  <2>2. CASE restoreRoute = Nowhere
    BY <1>1, <1>2, <2>1, <2>2
    DEF Connected, LossInv, OpeningPends, UsedListens, UsedConnected, GoalPends, PlaceKept
  <2>3. CASE restoreRoute # Nowhere
    BY <1>1, <1>2, <2>1, <2>3
    DEF Connected, LossInv, OpeningPends, UsedListens, UsedConnected, GoalPends, PlaceKept
  <2>4. QED BY <2>2, <2>3
<1>3. CASE ~opening
  <2>1. ~opening' /\ UNCHANGED appVars BY <1>3 DEF OnOpen
  <2>2. QED
    BY <1>1, <2>1
    DEF LossInv, OpeningPends, UsedListens, UsedConnected, GoalPends, PlaceKept, appVars
<1>4. QED BY <1>2, <1>3

\* What connect() failing, at any time and for whatever reason, leaves behind.
LEMMA RefusedKeeps ==
  ASSUME LossInv, SocketsMade', opening, ~opening', Refused
  PROVE  LossInv'
BY DEF Refused, LossInv, OpeningPends, UsedListens, UsedConnected, GoalPends, PlaceKept

LEMMA LostKeeps ==
  ASSUME LossInv, SocketsMade', ~opening, ~opening', listens, Lost, route # Nowhere
  PROVE  LossInv'
<1>1. CASE restoring # Nowhere
  <2>1. slipped' BY <1>1, Zenon DEF Lost
  <2>2. goal' = Nowhere /\ restoring' = restoring /\ listens' = listens /\ status' = "ERROR"
    BY <1>1 DEF Lost
  <2>3. UsedConnected' BY <2>1, Zenon DEF UsedConnected
  <2>4. QED
    BY <2>2, <2>3 DEF LossInv, OpeningPends, UsedListens, GoalPends, PlaceKept
<1>2. CASE restoring = Nowhere /\ status = "SUCCESS"
  BY <1>2 DEF Lost, LossInv, OpeningPends, UsedListens, UsedConnected, GoalPends, PlaceKept
<1>3. CASE restoring = Nowhere /\ status # "SUCCESS"
  BY <1>3 DEF Lost, LossInv, OpeningPends, UsedListens, UsedConnected, GoalPends, PlaceKept
<1>4. QED BY <1>1, <1>2, <1>3

LEMMA OnCloseKeeps ==
  ASSUME LossInv, route # Nowhere, NEW i \in Made, NEW failed \in BOOLEAN, OnClose(i, failed)
  PROVE  LossInv'
<1>1. SocketsMade' /\ State' \in {"CLOSED", State} /\ (i # Len(socket) => State' = State)
  BY SocketChanges DEF OnClose, LossInv
<1>2. CASE opening /\ failed
  BY <1>1, <1>2, RefusedKeeps DEF OnClose
<1>3. CASE ~opening /\ listens
  BY <1>1, <1>3, LostKeeps DEF OnClose
<1>4. CASE opening /\ ~failed
  <2>1. State = "CONNECTING" /\ socket[i] # "CONNECTING"
    BY <1>4 DEF OnClose, LossInv, OpeningPends
  <2>2. i # Len(socket) BY <2>1 DEF State, Last
  <2>3. opening' /\ UNCHANGED appVars BY <1>4 DEF OnClose
  <2>4. QED
    BY <1>1, <1>4, <2>2, <2>3
    DEF LossInv, OpeningPends, UsedListens, UsedConnected, GoalPends, PlaceKept, appVars
<1>5. CASE ~opening /\ ~listens
  <2>1. ~opening' /\ UNCHANGED appVars BY <1>5 DEF OnClose
  <2>2. QED
    BY <1>1, <1>5, <2>1
    DEF LossInv, OpeningPends, UsedListens, UsedConnected, GoalPends, PlaceKept, appVars
<1>6. QED BY <1>2, <1>3, <1>4, <1>5

-----------------------------------------------------------------------------
(* The application *)

LEMMA ReconnectKeeps ==
  ASSUME LossInv, reconnect
  PROVE  LossInv'
<1>1. SocketsMade' /\ State' = "CONNECTING" BY SocketAdded DEF reconnect, LossInv
<1>2. QED
  BY <1>1 DEF reconnect, LossInv, OpeningPends, UsedListens, UsedConnected, GoalPends, PlaceKept

LEMMA VisitKeeps ==
  ASSUME LossInv, NEW p \in Places, Visit(p)
  PROVE  LossInv'
BY DEF Visit, waitVars, LossInv, SocketsMade, OpeningPends, UsedListens, UsedConnected,
       GoalPends, PlaceKept, State

LEMMA RestoreEndsKeeps ==
  ASSUME LossInv, NEW p \in Places, RestoreEnds(p)
  PROVE  LossInv'
BY DEF RestoreEnds, waitVars, LossInv, SocketsMade, OpeningPends, UsedListens, UsedConnected,
       GoalPends, PlaceKept, State

-----------------------------------------------------------------------------
\* The router is always at one of its urls, the one to restore included.
RoutesKnown == {route, restoreRoute, restoring} \subseteq Places \cup {Nowhere} /\ route \in Places

LEMMA RoutesStayKnown ==
  ASSUME RoutesKnown, [Next]_socketVars
  PROVE  RoutesKnown'
<1>1. CASE \E p \in Places : Visit(p) \/ RestoreEnds(p)
  BY <1>1 DEF Visit, RestoreEnds, RoutesKnown
<1>2. CASE reconnect
  BY <1>2, PlacesAssumption DEF reconnect, RoutesKnown
<1>3. CASE \E i \in Made : Fires(i)
  BY <1>3 DEF Fires, OnOpen, OnClose, OnPing, OnMessage, Arrives, Connected, Refused, Lost,
              appVars, RoutesKnown
<1>4. CASE ServerStep \/ RequestStep \/ ConnectTimeout \/ Elapse \/ UNCHANGED socketVars
  BY <1>4 DEF ServerStep, Serve, Pushes, RequestStep, send, ReplyTimeout, OpenTimeout,
              ConnectTimeout, Refused, Elapse, socketVars, appVars, RoutesKnown
<1>5. QED BY <1>1, <1>2, <1>3, <1>4 DEF Next, AppStep

LEMMA LossInductive ==
  ASSUME LossInv, RoutesKnown, [Next]_socketVars
  PROVE  LossInv'
<1> route # Nowhere BY PlacesAssumption DEF RoutesKnown
<1>1. ASSUME NEW i \in Made, Fires(i)
      PROVE  LossInv'
  <2>1. CASE OnOpen(i) BY <2>1, OnOpenKeeps
  <2>2. CASE OnPing(i) \/ OnMessage(i)
    BY <2>2, LossUnchanged DEF OnPing, OnMessage, Arrives
  <2>3. CASE \E failed \in BOOLEAN : OnClose(i, failed) BY <2>3, OnCloseKeeps
  <2>4. QED BY <1>1, <2>1, <2>2, <2>3 DEF Fires
<1>2. CASE ServerStep
  BY <1>2, LossUnchanged DEF ServerStep, Serve, Pushes, waitVars
<1>3. CASE RequestStep
  BY <1>3, LossUnchanged DEF RequestStep, send, ReplyTimeout, OpenTimeout
<1>4. CASE reconnect BY <1>4, ReconnectKeeps
<1>5. CASE \E p \in Places : Visit(p) \/ RestoreEnds(p)
  BY <1>5, VisitKeeps, RestoreEndsKeeps
<1>6. CASE ConnectTimeout
  <2>1. SocketsMade' BY <1>6 DEF ConnectTimeout, LossInv, SocketsMade
  <2>2. QED BY <1>6, <2>1, RefusedKeeps DEF ConnectTimeout
<1>7. CASE Elapse BY <1>7, LossUnchanged DEF Elapse
<1>8. CASE UNCHANGED socketVars
  BY <1>8, LossUnchanged DEF socketVars, waitVars
<1>9. QED BY <1>1, <1>2, <1>3, <1>4, <1>5, <1>6, <1>7, <1>8 DEF Next, AppStep

LEMMA LossInvariant == Spec => [](LossInv /\ RoutesKnown)
<1>1. Init => LossInv /\ RoutesKnown
  BY PlacesAssumption
  DEF Init, LossInv, RoutesKnown, SocketsMade, OpeningPends, UsedListens, UsedConnected,
      GoalPends, PlaceKept, State, Last
<1>2. LossInv /\ RoutesKnown /\ [Next]_socketVars => (LossInv /\ RoutesKnown)'
  BY LossInductive, RoutesStayKnown
<1>3. QED BY <1>1, <1>2, PTL DEF Spec

\* A loss is noticed whenever it comes, over however many sockets, unless it
\* comes during the restoring navigation (AppComponent._connect).
THEOREM LossNoticed == Spec => []LossShown
<1>1. LossInv => LossShown BY DEF LossInv, UsedConnected, LossShown
<1>2. QED BY <1>1, LossInvariant, PTL

\* The page a loss took the user from stays the one to restore, through any
\* number of failed attempts and of losses reported by older sockets.
THEOREM PlaceFound == Spec => []PlaceKept
<1>1. LossInv => PlaceKept BY DEF LossInv
<1>2. QED BY <1>1, LossInvariant, PTL

-----------------------------------------------------------------------------
(* What is under way *)

\* A queue without its k-th element.
LEMMA QueueWithout ==
  ASSUME NEW S, NEW q \in Seq(S), NEW k \in DOMAIN q
  PROVE  /\ RemoveAt(q, k) \in Seq(S) /\ Len(RemoveAt(q, k)) = Len(q) - 1
         /\ \A j \in 1 .. Len(q) - 1 :
              RemoveAt(q, k)[j] = IF j < k THEN q[j] ELSE q[j + 1]
<1> DEFINE front == SubSeq(q, 1, k - 1)
           rest == SubSeq(q, k + 1, Len(q))
<1>1. k \in 1 .. Len(q) /\ Len(q) \in Nat
  OBVIOUS
<1>2. front \in Seq(S) /\ Len(front) = k - 1 /\ \A j \in 1 .. k - 1 : front[j] = q[j]
  BY <1>1
<1>3. rest \in Seq(S) /\ Len(rest) = Len(q) - k /\ \A j \in 1 .. Len(q) - k : rest[j] = q[k + j]
  BY <1>1
<1> HIDE DEF front, rest
<1>4. front \o rest \in Seq(S) /\ Len(front \o rest) = Len(q) - 1
  BY <1>1, <1>2, <1>3
<1>5. ASSUME NEW j \in 1 .. Len(q) - 1
      PROVE  (front \o rest)[j] = IF j < k THEN q[j] ELSE q[j + 1]
  <2>1. CASE j < k
    <3>1. j \in 1 .. k - 1 /\ j \in 1 .. Len(front)
      BY <1>1, <1>2, <2>1
    <3>2. (front \o rest)[j] = front[j]
      BY <1>2, <1>3, <3>1
    <3> QED
      BY <1>2, <2>1, <3>1, <3>2
  <2>2. CASE ~(j < k)
    <3>1. (front \o rest)[j] = rest[j - (k - 1)]
      <4>1. j \in 1 .. Len(front) + Len(rest) /\ ~(j <= Len(front))
            /\ j - Len(front) = j - (k - 1)
        BY <1>1, <1>2, <1>3, <2>2
      <4>2. \A x \in 1 .. Len(front) + Len(rest) :
              (front \o rest)[x] = IF x <= Len(front) THEN front[x] ELSE rest[x - Len(front)]
        BY <1>2, <1>3, ConcatProperties
      <4> QED
        BY <4>1, <4>2
    <3>2. j - (k - 1) \in 1 .. Len(q) - k /\ k + (j - (k - 1)) = j + 1
      BY <1>1, <2>2
    <3> QED
      BY <1>1, <1>3, <2>2, <3>1, <3>2
  <2> QED
    BY <2>1, <2>2
<1> QED
  BY <1>4, <1>5 DEF RemoveAt, front, rest

LEMMA QueueLonger ==
  ASSUME NEW S, NEW q \in Seq(S), NEW e \in S
  PROVE  /\ Append(q, e) \in Seq(S) /\ Len(Append(q, e)) = Len(q) + 1
         /\ \A j \in DOMAIN Append(q, e) : Append(q, e)[j] = IF j <= Len(q) THEN q[j] ELSE e
OBVIOUS

LEMMA QueueShorter ==
  ASSUME NEW S, NEW q \in Seq(S), q # <<>>
  PROVE  /\ Tail(q) \in Seq(S) /\ Head(q) = q[1] /\ 1 \in DOMAIN q
         /\ DOMAIN Tail(q) = 1 .. Len(q) - 1
         /\ \A j \in DOMAIN Tail(q) : j + 1 \in DOMAIN q /\ Tail(q)[j] = q[j + 1]
OBVIOUS

LEMMA QueueJoined ==
  ASSUME NEW S, NEW q \in Seq(S), NEW p \in Seq(S)
  PROVE  /\ q \o p \in Seq(S) /\ DOMAIN (q \o p) = 1 .. Len(q) + Len(p)
         /\ \A j \in DOMAIN (q \o p) :
              (q \o p)[j] = IF j <= Len(q) THEN q[j] ELSE p[j - Len(q)]
OBVIOUS

\* A queue more, and another queue in one place.
LEMMA ArrayGrows ==
  ASSUME NEW S, NEW n \in Nat, NEW f \in [1 .. n -> S], NEW e \in S
  PROVE  /\ Append(f, e) \in [1 .. n + 1 -> S]
         /\ Append(f, e)[n + 1] = e /\ \A i \in 1 .. n : Append(f, e)[i] = f[i]
<1>1. f \in Seq(S) /\ Len(f) = n
  OBVIOUS
<1>2. Append(f, e) \in Seq(S) /\ Len(Append(f, e)) = n + 1
  BY <1>1
<1>3. Append(f, e)[n + 1] = e /\ \A i \in 1 .. n : Append(f, e)[i] = f[i]
  BY <1>1
<1>4. Append(f, e) \in [1 .. Len(Append(f, e)) -> S]
  BY <1>2, LenProperties
<1> QED
  BY <1>2, <1>3, <1>4

LEMMA ArrayChanges ==
  ASSUME NEW D, NEW S, NEW f \in [D -> S], NEW i \in D, NEW e \in S
  PROVE  /\ [f EXCEPT ![i] = e] \in [D -> S]
         /\ \A j \in D : [f EXCEPT ![i] = e][j] = IF j = i THEN e ELSE f[j]
OBVIOUS

\* What is under way has its type, and only requests that wait can be due.
Asked == Ask \cup {KeepAlive}
Told == Ask \cup {KeepAlive, Push}
WireTypes ==
  /\ socket \in Seq({"CONNECTING", "OPEN", "CLOSED"}) /\ Len(socket) \in 1 .. MaxSockets
  /\ sent \in [Made -> Seq(Asked)] /\ back \in [Made -> Seq(Told)]
  /\ unsent \in Seq(Ask)
  /\ request \in [Ask -> {"idle", "waiting", "answered", "failed"}]
  /\ due \subseteq Waiting /\ served \subseteq Ask

\* A step that leaves the sockets as many as they are.
LEMMA WireTypesChange ==
  ASSUME WireTypes, socket' \in Seq({"CONNECTING", "OPEN", "CLOSED"}), Len(socket') = Len(socket),
         sent' \in [Made -> Seq(Asked)], back' \in [Made -> Seq(Told)], unsent' \in Seq(Ask),
         request' \in [Ask -> {"idle", "waiting", "answered", "failed"}],
         due' \subseteq Waiting', served' \subseteq Ask
  PROVE  WireTypes'
<1>1. Made' = Made
  BY DEF WireTypes, Made
<1> QED
  BY <1>1 DEF WireTypes

LEMMA WireTypesKept ==
  ASSUME WireTypes, [Next]_socketVars
  PROVE  WireTypes'
<1>0. /\ Len(socket) \in Nat \ {0} /\ Made = 1 .. Len(socket) /\ Len(socket) \in Made
      /\ sent \in [Made -> Seq(Asked)] /\ back \in [Made -> Seq(Told)] /\ unsent \in Seq(Ask)
      /\ socket \in Seq({"CONNECTING", "OPEN", "CLOSED"})
      /\ request \in [Ask -> {"idle", "waiting", "answered", "failed"}]
      /\ due \subseteq Waiting /\ served \subseteq Ask
      /\ Ask \subseteq Asked /\ Asked \subseteq Told /\ KeepAlive \in Asked /\ Push \in Told
  BY DEF WireTypes, Made, Asked, Told
<1>a. ASSUME NEW i \in Made, NEW s \in {"CONNECTING", "OPEN", "CLOSED"},
             socket' = [socket EXCEPT ![i] = s]
      PROVE  socket' \in Seq({"CONNECTING", "OPEN", "CLOSED"}) /\ Len(socket') = Len(socket)
  BY <1>0, <1>a
<1>b. ASSUME NEW S, NEW q \in Seq(S), NEW e \in S
      PROVE  Append(q, e) \in Seq(S)
  BY QueueLonger
<1>1. ASSUME NEW i \in Made, OnOpen(i)
      PROVE  WireTypes'
  <2>1. sent[Len(socket)] \o unsent \in Seq(Asked)
    <3>1. sent[Len(socket)] \in Seq(Asked) /\ unsent \in Seq(Asked)
      BY <1>0
    <3> QED
      BY <3>1, QueueJoined
  <2>2. sent' \in [Made -> Seq(Asked)]
    BY <1>0, <1>1, <2>1, ArrayChanges DEF OnOpen
  <2>3. <<KeepAlive>> \in Seq(Told)
    BY <1>0
  <2>4. back' \in [Made -> Seq(Told)]
    BY <1>0, <1>1, <2>3, ArrayChanges DEF OnOpen
  <2> QED
    BY <1>0, <1>1, <1>a, <2>2, <2>4, WireTypesChange DEF OnOpen, Waiting
<1>2. ASSUME NEW i \in Made, NEW failed \in BOOLEAN, OnClose(i, failed)
      PROVE  WireTypes'
  <2>1. <<>> \in Seq(Asked) /\ <<>> \in Seq(Told)
    OBVIOUS
  <2>2. /\ sent' = [sent EXCEPT ![i] = <<>>] /\ back' = [back EXCEPT ![i] = <<>>]
        /\ socket' = [socket EXCEPT ![i] = "CLOSED"]
        /\ UNCHANGED <<unsent, request, due, served>>
    BY <1>2 DEF OnClose
  <2>3. sent' \in [Made -> Seq(Asked)] /\ back' \in [Made -> Seq(Told)]
    BY <1>0, <2>1, <2>2, ArrayChanges
  <2> QED
    BY <1>0, <1>a, <2>2, <2>3, WireTypesChange DEF Waiting
<1>c. ASSUME NEW i \in Made, Arrives(i)
      PROVE  back' \in [Made -> Seq(Told)]
  <2>1. Tail(back[i]) \in Seq(Told)
    BY <1>0, <1>c, QueueShorter DEF Arrives
  <2> QED
    BY <1>0, <1>c, <2>1, ArrayChanges DEF Arrives
<1>3. ASSUME NEW i \in Made, OnPing(i)
      PROVE  WireTypes'
  <2>1. Append(sent[Len(socket)], KeepAlive) \in Seq(Asked)
    BY <1>0, <1>b
  <2>2. sent' \in [Made -> Seq(Asked)]
    BY <1>0, <1>3, <2>1, ArrayChanges DEF OnPing
  <2> QED
    BY <1>0, <1>3, <1>c, <2>2, WireTypesChange DEF OnPing, Arrives, Waiting
<1>4. ASSUME NEW i \in Made, OnMessage(i)
      PROVE  WireTypes'
  <2>1. request' \in [Ask -> {"idle", "waiting", "answered", "failed"}]
    BY <1>0, <1>4 DEF OnMessage
  <2> QED
    BY <1>0, <1>4, <1>c, <2>1, WireTypesChange DEF OnMessage, Arrives, Waiting
<1>5. ASSUME NEW i \in Made, Serve(i)
      PROVE  WireTypes'
  <2>1. sent[i] \in Seq(Asked) /\ sent[i] # <<>> /\ back[i] \in Seq(Told)
    BY <1>0, <1>5 DEF Serve
  <2>2. Tail(sent[i]) \in Seq(Asked) /\ Head(sent[i]) \in Asked
    BY <2>1, QueueShorter
  <2>3. Append(back[i], Head(sent[i])) \in Seq(Told)
    BY <1>0, <1>b, <2>1, <2>2
  <2>4. sent' \in [Made -> Seq(Asked)]
    BY <1>0, <1>5, <2>2, ArrayChanges DEF Serve
  <2>5. back' = back \/ back' = [back EXCEPT ![i] = Append(back[i], Head(sent[i]))]
    BY <1>5 DEF Serve
  <2>6. back' \in [Made -> Seq(Told)]
    <3>1. [back EXCEPT ![i] = Append(back[i], Head(sent[i]))] \in [Made -> Seq(Told)]
      BY <1>0, <2>3, ArrayChanges
    <3> QED
      BY <1>0, <2>5, <3>1
  <2>7. served' \subseteq Ask
    BY <1>0, <1>5, <2>2 DEF Serve, Asked
  <2> QED
    BY <1>0, <1>5, <2>4, <2>6, <2>7, WireTypesChange DEF Serve, waitVars, Waiting
<1>6. ASSUME NEW i \in Made, Pushes(i)
      PROVE  WireTypes'
  <2>1. Append(back[i], Push) \in Seq(Told)
    BY <1>0, <1>b
  <2>2. back' = [back EXCEPT ![i] = Append(back[i], Push)]
    BY <1>6 DEF Pushes
  <2>3. back' \in [Made -> Seq(Told)]
    BY <1>0, <2>1, <2>2, ArrayChanges
  <2> QED
    BY <1>0, <1>6, <2>3, WireTypesChange DEF Pushes, waitVars, Waiting
<1>7. ASSUME NEW r \in Ask, send(r)
      PROVE  WireTypes'
  <2>1. Append(sent[Len(socket)], r) \in Seq(Asked) /\ Append(unsent, r) \in Seq(Ask)
    BY <1>0, <1>b
  <2>2. \/ sent' = [sent EXCEPT ![Len(socket)] = Append(sent[Len(socket)], r)]
           /\ unsent' = unsent
        \/ sent' = sent /\ unsent' = Append(unsent, r)
    BY <1>7 DEF send
  <2>3. sent' \in [Made -> Seq(Asked)] /\ unsent' \in Seq(Ask)
    <3>1. [sent EXCEPT ![Len(socket)] = Append(sent[Len(socket)], r)] \in [Made -> Seq(Asked)]
      BY <1>0, <2>1, ArrayChanges
    <3> QED
      BY <1>0, <2>1, <2>2, <3>1
  <2> QED
    BY <1>0, <1>7, <2>3, WireTypesChange DEF send, Waiting
<1>8. ASSUME NEW r \in Ask, ReplyTimeout(r)
      PROVE  WireTypes'
  BY <1>0, <1>8, WireTypesChange DEF ReplyTimeout, wireVars, Waiting
<1>9. ASSUME NEW r \in Ask, OpenTimeout(r)
      PROVE  WireTypes'
  <2>1. unsent' \in Seq(Ask)
    BY <1>0, <1>9, QueueWithout DEF OpenTimeout
  <2> QED
    BY <1>0, <1>9, <2>1, WireTypesChange DEF OpenTimeout, wireVars, Waiting
<1>10. CASE reconnect
  <2>1. socket' \in Seq({"CONNECTING", "OPEN", "CLOSED"}) /\ Len(socket') = Len(socket) + 1
    BY <1>0, <1>10 DEF reconnect, Connects
  <2>2. Made' = 1 .. Len(socket) + 1
    BY <1>0, <2>1 DEF Made
  <2>3. <<>> \in Seq(Asked) /\ <<>> \in Seq(Told)
    OBVIOUS
  <2>4. sent' \in [Made' -> Seq(Asked)] /\ back' \in [Made' -> Seq(Told)]
    BY <1>0, <1>10, <2>2, <2>3, ArrayGrows DEF reconnect
  <2>5. Len(socket') \in 1 .. MaxSockets
    BY <1>0, <1>10, <2>1, SocketBoundsAssumption DEF reconnect
  <2>6. UNCHANGED <<unsent, request, due, served>>
    BY <1>10 DEF reconnect
  <2> QED
    BY <1>0, <2>1, <2>4, <2>5, <2>6 DEF WireTypes, Waiting
<1>11. CASE \E p \in Places : Visit(p) \/ RestoreEnds(p)
  BY <1>0, <1>11, WireTypesChange DEF Visit, RestoreEnds, wireVars, waitVars, Waiting
<1>12. CASE ConnectTimeout
  BY <1>0, <1>12, WireTypesChange DEF ConnectTimeout, wireVars, Waiting
<1>13. CASE Elapse
  BY <1>0, <1>13, WireTypesChange DEF Elapse, wireVars, Waiting
<1>14. CASE UNCHANGED socketVars
  BY <1>0, <1>14, WireTypesChange DEF socketVars, wireVars, waitVars, Waiting
<1> QED
  BY <1>1, <1>2, <1>3, <1>4, <1>5, <1>6, <1>7, <1>8, <1>9, <1>10, <1>11, <1>12,
     <1>13, <1>14 DEF Next, Fires, ServerStep, RequestStep, AppStep

-----------------------------------------------------------------------------
(* Requests under way *)

\* A request is once under way at most: in the queue of those who wait for a
\* socket, or at one place on one socket; and then it was made and not yet served.
UnsentOnce ==
  \A k, l \in DOMAIN unsent : unsent[k] = unsent[l] => k = l
SentOnce ==
  \A i, j \in Made : \A k \in DOMAIN sent[i], l \in DOMAIN sent[j] :
    sent[i][k] = sent[j][l] /\ sent[i][k] # KeepAlive => i = j /\ k = l
UnsentApart ==
  \A i \in Made : \A k \in DOMAIN sent[i], l \in DOMAIN unsent : sent[i][k] # unsent[l]
Pending(r) == request[r] # "idle" /\ r \notin served
PendingNext(r) == request'[r] # "idle" /\ r \notin served'
UnsentPending == \A l \in DOMAIN unsent : Pending(unsent[l])
SentPending ==
  \A i \in Made : \A k \in DOMAIN sent[i] : sent[i][k] # KeepAlive => Pending(sent[i][k])
ServedMade == \A r \in served : request[r] # "idle"
OnceInv ==
  UnsentOnce /\ SentOnce /\ UnsentApart /\ UnsentPending /\ SentPending /\ ServedMade

\* The socket and the requests, as the invariant sees them.
LEMMA WireFacts ==
  ASSUME WireTypes
  PROVE  /\ Len(socket) \in Nat \ {0} /\ Made = 1 .. Len(socket) /\ Len(socket) \in Made
         /\ sent \in [Made -> Seq(Asked)] /\ back \in [Made -> Seq(Told)] /\ unsent \in Seq(Ask)
         /\ socket \in Seq({"CONNECTING", "OPEN", "CLOSED"})
         /\ request \in [Ask -> {"idle", "waiting", "answered", "failed"}]
         /\ due \subseteq Waiting /\ served \subseteq Ask
         /\ Ask \subseteq Asked /\ Asked \subseteq Told /\ KeepAlive \in Asked /\ Push \in Told
         /\ KeepAlive \notin Ask /\ Push \notin Ask /\ KeepAlive # Push
BY AskAssumption DEF WireTypes, Made, Asked, Told

\* Queues that only lose elements, or are given keep-alives, keep it: Same is
\* where an element of the new queue was in the old one.
LEMMA QueueThins ==
  ASSUME OnceInv, WireTypes, NEW i \in Made, NEW q \in Seq(Asked), NEW d \in Nat,
         Made' = Made, sent' = [sent EXCEPT ![i] = q], unsent' = unsent,
         \A k \in DOMAIN q :
           q[k] # KeepAlive => k + d \in DOMAIN sent[i] /\ q[k] = sent[i][k + d],
         \A k \in DOMAIN q : q[k] # KeepAlive => PendingNext(q[k]),
         \A l \in DOMAIN unsent : PendingNext(unsent[l]),
         \A j \in Made \ {i} : \A k \in DOMAIN sent[j] :
           sent[j][k] # KeepAlive => PendingNext(sent[j][k]),
         ServedMade'
  PROVE  OnceInv'
<1>1. \A j \in Made : sent'[j] = IF j = i THEN q ELSE sent[j]
  BY WireFacts
<1>2. q \in Seq(Asked) /\ \A k \in DOMAIN q : k \in Nat
  OBVIOUS
<1>3. UnsentOnce'
  BY DEF OnceInv, UnsentOnce
<1>4. SentOnce'
  <2> SUFFICES ASSUME NEW j1 \in Made, NEW j2 \in Made,
                      NEW k \in DOMAIN sent'[j1], NEW l \in DOMAIN sent'[j2],
                      sent'[j1][k] = sent'[j2][l], sent'[j1][k] # KeepAlive
               PROVE  j1 = j2 /\ k = l
    BY DEF SentOnce
  <2>1. CASE j1 = i /\ j2 = i
    <3>1. /\ k \in DOMAIN q /\ l \in DOMAIN q /\ q[k] = q[l] /\ q[k] # KeepAlive
      BY <1>1, <2>1
    <3>2. /\ k + d \in DOMAIN sent[i] /\ l + d \in DOMAIN sent[i]
          /\ sent[i][k + d] = sent[i][l + d] /\ sent[i][k + d] # KeepAlive
      BY <3>1
    <3>3. k + d = l + d
      BY <3>2 DEF OnceInv, SentOnce
    <3> QED
      BY <1>2, <2>1, <3>1, <3>3
  <2>2. CASE j1 = i /\ j2 # i
    <3>1. k \in DOMAIN q /\ q[k] # KeepAlive /\ q[k] = sent[j2][l] /\ l \in DOMAIN sent[j2]
      BY <1>1, <2>2
    <3>2. k + d \in DOMAIN sent[i] /\ sent[i][k + d] = sent[j2][l] /\ sent[i][k + d] # KeepAlive
      BY <3>1
    <3> QED
      BY <2>2, <3>1, <3>2 DEF OnceInv, SentOnce
  <2>3. CASE j1 # i /\ j2 = i
    <3>1. l \in DOMAIN q /\ q[l] # KeepAlive /\ q[l] = sent[j1][k] /\ k \in DOMAIN sent[j1]
      BY <1>1, <2>3
    <3>2. l + d \in DOMAIN sent[i] /\ sent[i][l + d] = sent[j1][k] /\ sent[i][l + d] # KeepAlive
      BY <3>1
    <3> QED
      BY <2>3, <3>1, <3>2 DEF OnceInv, SentOnce
  <2>4. CASE j1 # i /\ j2 # i
    BY <1>1, <2>4 DEF OnceInv, SentOnce
  <2> QED
    BY <2>1, <2>2, <2>3, <2>4
<1>5. UnsentApart'
  <2> SUFFICES ASSUME NEW j \in Made, NEW k \in DOMAIN sent'[j], NEW l \in DOMAIN unsent
               PROVE  sent'[j][k] # unsent[l]
    BY DEF UnsentApart
  <2>1. unsent[l] # KeepAlive
    BY WireFacts
  <2> QED
    BY <1>1, <2>1 DEF OnceInv, UnsentApart
<1>6. UnsentPending' /\ ServedMade'
  BY DEF UnsentPending, Pending, PendingNext
<1>7. SentPending'
  <2>1. \A j \in Made : \A k \in DOMAIN sent'[j] : sent'[j][k] # KeepAlive => PendingNext(sent'[j][k])
    BY <1>1
  <2> QED
    BY <2>1 DEF SentPending, Pending, PendingNext
<1> QED
  BY <1>3, <1>4, <1>5, <1>6, <1>7 DEF OnceInv

\* Steps that change no queue to the server.
LEMMA QueuesStay ==
  ASSUME OnceInv, WireTypes, Made' = Made, UNCHANGED <<sent, unsent, served>>,
         \A r \in Ask : request[r] # "idle" => request'[r] # "idle"
  PROVE  OnceInv'
<1>1. SentPending'
  <2> SUFFICES ASSUME NEW j \in Made, NEW k \in DOMAIN sent[j], sent[j][k] # KeepAlive
               PROVE  request'[sent[j][k]] # "idle" /\ sent[j][k] \notin served
    BY DEF SentPending, Pending
  <2>1. sent[j][k] \in Ask
    BY WireFacts DEF Asked
  <2> QED
    BY <2>1 DEF OnceInv, SentPending, Pending
<1>2. UnsentPending'
  <2>1. \A l \in DOMAIN unsent : unsent[l] \in Ask
    BY WireFacts
  <2> QED
    BY <2>1 DEF OnceInv, UnsentPending, Pending
<1>3. ServedMade'
  BY WireFacts DEF OnceInv, ServedMade
<1>4. UnsentOnce' /\ SentOnce' /\ UnsentApart'
  BY DEF OnceInv, UnsentOnce, SentOnce, UnsentApart
<1> QED
  BY <1>1, <1>2, <1>3, <1>4 DEF OnceInv

\* A request is given up before it was written.
LEMMA UnsentThins ==
  ASSUME OnceInv, WireTypes, Made' = Made, UNCHANGED <<sent, request, served>>,
         NEW m \in Nat, unsent' \in Seq(Ask),
         \A l \in DOMAIN unsent' :
           /\ l \in Nat
           /\ l < m => l \in DOMAIN unsent /\ unsent'[l] = unsent[l]
           /\ l >= m => l + 1 \in DOMAIN unsent /\ unsent'[l] = unsent[l + 1]
  PROVE  OnceInv'
<1>1. UnsentOnce'
  <2> SUFFICES ASSUME NEW k \in DOMAIN unsent', NEW l \in DOMAIN unsent', unsent'[k] = unsent'[l]
               PROVE  k = l
    BY DEF UnsentOnce
  <2>1. PICK k0 \in {k, k + 1} : k0 \in DOMAIN unsent /\ unsent'[k] = unsent[k0]
                                 /\ (k0 = k <=> k < m)
    BY SMTT(20)
  <2>2. PICK l0 \in {l, l + 1} : l0 \in DOMAIN unsent /\ unsent'[l] = unsent[l0]
                                 /\ (l0 = l <=> l < m)
    BY SMTT(20)
  <2>3. k0 = l0
    BY <2>1, <2>2 DEF OnceInv, UnsentOnce
  <2> QED
    BY <2>1, <2>2, <2>3
<1>2. UnsentApart' /\ UnsentPending'
  BY DEF OnceInv, UnsentApart, UnsentPending, Pending
<1>3. SentOnce' /\ SentPending' /\ ServedMade'
  BY DEF OnceInv, SentOnce, SentPending, ServedMade, Pending
<1> QED
  BY <1>1, <1>2, <1>3 DEF OnceInv

\* The queue of those who wait is written to the current socket.
LEMMA QueueWritten ==
  ASSUME OnceInv, WireTypes, Made' = Made, UNCHANGED <<request, served>>, unsent' = <<>>,
         sent' = [sent EXCEPT ![Len(socket)] = sent[Len(socket)] \o unsent]
  PROVE  OnceInv'
<1> DEFINE c == Len(socket)
           n == Len(sent[c])
<1>1. c \in Made /\ sent[c] \in Seq(Asked) /\ n \in Nat /\ unsent \in Seq(Ask)
  <2>1. c \in Made /\ sent[c] \in Seq(Asked) /\ unsent \in Seq(Ask)
    BY WireFacts
  <2> QED
    BY <2>1
<1>2. \A j \in Made : sent'[j] = IF j = c THEN sent[c] \o unsent ELSE sent[j]
  BY WireFacts
<1> HIDE DEF c, n
<1>3. \A j \in Made : \A k \in DOMAIN sent'[j] :
        \/ k \in DOMAIN sent[j] /\ sent'[j][k] = sent[j][k] /\ (j = c => k <= n)
        \/ /\ j = c /\ k > n /\ k \in Nat /\ k - n \in DOMAIN unsent
           /\ sent'[j][k] = unsent[k - n]
  <2> SUFFICES ASSUME NEW k \in DOMAIN (sent[c] \o unsent)
               PROVE  \/ k \in DOMAIN sent[c] /\ (sent[c] \o unsent)[k] = sent[c][k] /\ k <= n
                      \/ /\ k > n /\ k \in Nat /\ k - n \in DOMAIN unsent
                         /\ (sent[c] \o unsent)[k] = unsent[k - n]
    BY <1>2
  <2>1. sent[c] \in Seq(Asked) /\ unsent \in Seq(Asked)
    BY <1>1, WireFacts
  <2> QED
    BY <2>1, QueueJoined DEF n
<1>4. SentOnce'
  <2> SUFFICES ASSUME NEW i \in Made, NEW j \in Made,
                      NEW k \in DOMAIN sent'[i], NEW l \in DOMAIN sent'[j],
                      sent'[i][k] = sent'[j][l], sent'[i][k] # KeepAlive
               PROVE  i = j /\ k = l
    BY DEF SentOnce
  <2>1. CASE k \in DOMAIN sent[i] /\ sent'[i][k] = sent[i][k]
    <3>1. CASE l \in DOMAIN sent[j] /\ sent'[j][l] = sent[j][l]
      BY <2>1, <3>1 DEF OnceInv, SentOnce
    <3>2. CASE l - n \in DOMAIN unsent /\ sent'[j][l] = unsent[l - n]
      BY <2>1, <3>2 DEF OnceInv, UnsentApart
    <3> QED
      BY <1>3, <3>1, <3>2
  <2>2. CASE i = c /\ k > n /\ k \in Nat /\ k - n \in DOMAIN unsent /\ sent'[i][k] = unsent[k - n]
    <3>1. CASE l \in DOMAIN sent[j] /\ sent'[j][l] = sent[j][l]
      BY <2>2, <3>1 DEF OnceInv, UnsentApart
    <3>2. CASE j = c /\ l > n /\ l \in Nat /\ l - n \in DOMAIN unsent /\ sent'[j][l] = unsent[l - n]
      <4>1. k - n = l - n
        BY <2>2, <3>2 DEF OnceInv, UnsentOnce
      <4> QED
        BY <1>1, <2>2, <3>2, <4>1
    <3> QED
      BY <1>3, <3>1, <3>2
  <2> QED
    BY <1>3, <2>1, <2>2
<1>5. SentPending'
  BY <1>3 DEF OnceInv, SentPending, UnsentPending, Pending
<1>6. UnsentOnce' /\ UnsentApart' /\ UnsentPending' /\ ServedMade'
  BY DEF OnceInv, UnsentOnce, UnsentApart, UnsentPending, ServedMade
<1> QED
  BY <1>4, <1>5, <1>6 DEF OnceInv

\* A request is made: it was nowhere before.
LEMMA RequestMade ==
  ASSUME OnceInv, WireTypes, NEW r \in Ask, send(r)
  PROVE  OnceInv'
<1> DEFINE c == Len(socket)
<1>1. /\ Made' = Made /\ served' = served /\ r \notin served
      /\ request' = [request EXCEPT ![r] = "waiting"]
  BY DEF send, OnceInv, ServedMade, Made
<1>2. /\ c \in Made /\ sent[c] \in Seq(Asked) /\ unsent \in Seq(Ask) /\ r # KeepAlive
      /\ r \in Asked /\ request \in [Ask -> {"idle", "waiting", "answered", "failed"}]
      /\ sent \in [Made -> Seq(Asked)] /\ served \subseteq Ask
  BY WireFacts
<1> HIDE DEF c
<1>3. \A x \in Ask : request'[x] = IF x = r THEN "waiting" ELSE request[x]
  BY <1>1, <1>2
<1>4. \A x \in Ask : Pending(x) => PendingNext(x) /\ x # r
  BY <1>1, <1>3 DEF send, Pending, PendingNext
<1>5. \A j \in Made : \A k \in DOMAIN sent[j] :
        sent[j][k] # KeepAlive => PendingNext(sent[j][k]) /\ sent[j][k] # r
  <2> SUFFICES ASSUME NEW j \in Made, NEW k \in DOMAIN sent[j], sent[j][k] # KeepAlive
               PROVE  PendingNext(sent[j][k]) /\ sent[j][k] # r
    OBVIOUS
  <2>1. sent[j][k] \in Ask /\ Pending(sent[j][k])
    BY <1>2 DEF Asked, OnceInv, SentPending
  <2> QED
    BY <1>4, <2>1
<1>6. \A l \in DOMAIN unsent : PendingNext(unsent[l]) /\ unsent[l] # r
  <2> SUFFICES ASSUME NEW l \in DOMAIN unsent
               PROVE  PendingNext(unsent[l]) /\ unsent[l] # r
    OBVIOUS
  <2>1. unsent[l] \in Ask /\ Pending(unsent[l])
    BY <1>2 DEF OnceInv, UnsentPending
  <2> QED
    BY <1>4, <2>1
<1>7. PendingNext(r) /\ ServedMade'
  BY <1>1, <1>2, <1>3 DEF PendingNext, OnceInv, ServedMade
<1>8. CASE sent' = [sent EXCEPT ![c] = Append(sent[c], r)] /\ unsent' = unsent
  <2>1. \A j \in Made : \A k \in DOMAIN sent'[j] :
          \/ k \in DOMAIN sent[j] /\ sent'[j][k] = sent[j][k]
          \/ j = c /\ k = Len(sent[c]) + 1 /\ sent'[j][k] = r
    <3>1. \A j \in Made : sent'[j] = IF j = c THEN Append(sent[c], r) ELSE sent[j]
      BY <1>2, <1>8
    <3>2. \A k \in DOMAIN Append(sent[c], r) :
            \/ k \in DOMAIN sent[c] /\ Append(sent[c], r)[k] = sent[c][k]
            \/ k = Len(sent[c]) + 1 /\ Append(sent[c], r)[k] = r
      BY <1>2
    <3> QED
      BY <3>1, <3>2
  <2>2. SentOnce'
    <3> SUFFICES ASSUME NEW i \in Made, NEW j \in Made,
                        NEW k \in DOMAIN sent'[i], NEW l \in DOMAIN sent'[j],
                        sent'[i][k] = sent'[j][l], sent'[i][k] # KeepAlive
                 PROVE  i = j /\ k = l
      BY <1>1 DEF SentOnce
    <3>1. CASE k \in DOMAIN sent[i] /\ sent'[i][k] = sent[i][k]
      <4>1. sent[i][k] # r /\ sent[i][k] # KeepAlive
        BY <1>5, <3>1
      <4>2. l \in DOMAIN sent[j] /\ sent'[j][l] = sent[j][l]
        BY <2>1, <3>1, <4>1
      <4>3. sent[i][k] = sent[j][l] /\ k \in DOMAIN sent[i] /\ l \in DOMAIN sent[j]
        BY <3>1, <4>2
      <4> QED
        BY <4>1, <4>3 DEF OnceInv, SentOnce
    <3>2. CASE i = c /\ k = Len(sent[c]) + 1 /\ sent'[i][k] = r
      BY <1>2, <1>5, <2>1, <3>2
    <3> QED
      BY <2>1, <3>1, <3>2
  <2>3. UnsentApart'
    BY <1>1, <1>6, <1>8, <2>1 DEF OnceInv, UnsentApart
  <2>4. SentPending'
    BY <1>1, <1>5, <1>7, <2>1 DEF SentPending, Pending, PendingNext
  <2>5. UnsentOnce' /\ UnsentPending'
    BY <1>6, <1>8 DEF OnceInv, UnsentOnce, UnsentPending, Pending, PendingNext
  <2> QED
    BY <1>7, <2>2, <2>3, <2>4, <2>5 DEF OnceInv
<1>9. CASE sent' = sent /\ unsent' = Append(unsent, r)
  <2>1. \A l \in DOMAIN unsent' :
          \/ l \in DOMAIN unsent /\ unsent'[l] = unsent[l]
          \/ l = Len(unsent) + 1 /\ unsent'[l] = r
    BY <1>2, <1>9
  <2>2. UnsentOnce'
    <3> SUFFICES ASSUME NEW k \in DOMAIN unsent', NEW l \in DOMAIN unsent', unsent'[k] = unsent'[l]
                 PROVE  k = l
      BY DEF UnsentOnce
    <3>1. CASE k \in DOMAIN unsent /\ unsent'[k] = unsent[k]
      BY <1>6, <2>1, <3>1 DEF OnceInv, UnsentOnce
    <3>2. CASE k = Len(unsent) + 1 /\ unsent'[k] = r
      BY <1>6, <2>1, <3>2
    <3> QED
      BY <2>1, <3>1, <3>2
  <2>3. UnsentApart'
    <3> SUFFICES ASSUME NEW i \in Made, NEW k \in DOMAIN sent[i], NEW l \in DOMAIN unsent'
                 PROVE  sent[i][k] # unsent'[l]
      BY <1>1, <1>9 DEF UnsentApart
    <3>1. sent[i][k] # r
      BY <1>2, <1>5
    <3> QED
      BY <2>1, <3>1 DEF OnceInv, UnsentApart
  <2>4. SentPending'
    BY <1>1, <1>5, <1>9 DEF SentPending, Pending, PendingNext
  <2>5. UnsentPending'
    BY <1>6, <1>7, <2>1 DEF UnsentPending, Pending, PendingNext
  <2>6. SentOnce'
    BY <1>1, <1>9 DEF OnceInv, SentOnce
  <2> QED
    BY <1>7, <2>2, <2>3, <2>4, <2>5, <2>6 DEF OnceInv
<1> QED
  BY <1>8, <1>9 DEF send, c

\* The server handles what is first on a socket.
LEMMA RequestServed ==
  ASSUME OnceInv, WireTypes, NEW i \in Made, Serve(i)
  PROVE  OnceInv'
<1> DEFINE m == Head(sent[i])
           q == Tail(sent[i])
<1>1. /\ sent[i] \in Seq(Asked) /\ sent[i] # <<>> /\ Made' = Made /\ unsent' = unsent
      /\ request' = request /\ sent' = [sent EXCEPT ![i] = q]
      /\ served' = IF m = KeepAlive THEN served ELSE served \cup {m}
  BY WireFacts DEF Serve, waitVars, Made
<1>2. /\ q \in Seq(Asked) /\ m = sent[i][1] /\ 1 \in DOMAIN sent[i]
      /\ \A k \in DOMAIN q : k + 1 \in DOMAIN sent[i] /\ q[k] = sent[i][k + 1] /\ k + 1 # 1
  BY <1>1, QueueShorter
<1> HIDE DEF m, q
<1>3. \A x : Pending(x) /\ x # m => PendingNext(x)
  BY <1>1 DEF Pending, PendingNext
<1>4. \A k \in DOMAIN q : q[k] # KeepAlive => PendingNext(q[k])
  BY <1>2, <1>3 DEF OnceInv, SentOnce, SentPending
<1>5. \A l \in DOMAIN unsent : PendingNext(unsent[l])
  BY <1>2, <1>3 DEF OnceInv, UnsentApart, UnsentPending
<1>6. \A j \in Made \ {i} : \A k \in DOMAIN sent[j] :
        sent[j][k] # KeepAlive => PendingNext(sent[j][k])
  BY <1>2, <1>3 DEF OnceInv, SentOnce, SentPending
<1>7. ServedMade'
  BY <1>1, <1>2 DEF OnceInv, ServedMade, SentPending, Pending
<1> QED
  BY <1>1, <1>2, <1>4, <1>5, <1>6, <1>7, QueueThins

LEMMA OnceInductive ==
  ASSUME OnceInv, WireTypes, [Next]_socketVars
  PROVE  OnceInv'
<1>1. ASSUME NEW i \in Made, OnOpen(i)
      PROVE  OnceInv'
  <2>1. Made' = Made /\ UNCHANGED <<request, served>> /\ unsent' = <<>>
    BY <1>1, WireFacts DEF OnOpen, Made
  <2>2. CASE sent' = [sent EXCEPT ![Len(socket)] = sent[Len(socket)] \o unsent]
    BY <2>1, <2>2, QueueWritten
  <2>3. CASE sent' = sent
    <3>1. unsent' \in Seq(Ask) /\ DOMAIN unsent' = {}
      BY <2>1
    <3> QED
      BY <2>1, <2>3, <3>1, UnsentThins
  <2> QED
    BY <1>1, <2>2, <2>3 DEF OnOpen
<1>2. ASSUME NEW i \in Made, NEW q \in Seq(Asked), Made' = Made,
             UNCHANGED <<unsent, request, served>>, sent' = [sent EXCEPT ![i] = q],
             \A k \in DOMAIN q :
               q[k] # KeepAlive => k + 0 \in DOMAIN sent[i] /\ q[k] = sent[i][k + 0]
      PROVE  OnceInv'
  <2>1. \A k \in DOMAIN q : q[k] # KeepAlive => PendingNext(q[k])
    BY <1>2 DEF OnceInv, SentPending, Pending, PendingNext
  <2>2. \A l \in DOMAIN unsent : PendingNext(unsent[l])
    BY <1>2 DEF OnceInv, UnsentPending, Pending, PendingNext
  <2>3. \A j \in Made \ {i} : \A k \in DOMAIN sent[j] :
          sent[j][k] # KeepAlive => PendingNext(sent[j][k])
    BY <1>2 DEF OnceInv, SentPending, Pending, PendingNext
  <2>4. ServedMade'
    BY <1>2 DEF OnceInv, ServedMade
  <2> QED
    BY <1>2, <2>1, <2>2, <2>3, <2>4, QueueThins
<1>3. ASSUME NEW i \in Made, NEW failed \in BOOLEAN, OnClose(i, failed)
      PROVE  OnceInv'
  <2>1. /\ Made' = Made /\ UNCHANGED <<unsent, request, served>>
        /\ sent' = [sent EXCEPT ![i] = <<>>]
    BY <1>3, WireFacts DEF OnClose, Made
  <2>2. <<>> \in Seq(Asked) /\ DOMAIN <<>> = {}
    OBVIOUS
  <2> QED
    BY <1>2, <2>1, <2>2
<1>4. ASSUME NEW i \in Made, OnPing(i)
      PROVE  OnceInv'
  <2> DEFINE c == Len(socket)
             q == Append(sent[c], KeepAlive)
  <2>1. Made' = Made /\ UNCHANGED <<unsent, request, served>>
    BY <1>4 DEF OnPing, Arrives, Made
  <2>2. CASE sent' = sent
    BY <2>1, <2>2, QueuesStay
  <2>3. CASE sent' = [sent EXCEPT ![c] = q]
    <3>1. c \in Made /\ sent[c] \in Seq(Asked) /\ KeepAlive \in Asked
      BY WireFacts
    <3>2. q \in Seq(Asked) /\ \A k \in DOMAIN q :
            q[k] # KeepAlive => k + 0 \in DOMAIN sent[c] /\ q[k] = sent[c][k + 0]
      BY <3>1
    <3> HIDE DEF c, q
    <3> QED
      BY <1>2, <2>1, <2>3, <3>1, <3>2
  <2> QED
    BY <1>4, <2>2, <2>3 DEF OnPing
<1>5. ASSUME NEW i \in Made, OnMessage(i)
      PROVE  OnceInv'
  <2>1. Made' = Made /\ UNCHANGED <<sent, unsent, served>>
    BY <1>5 DEF OnMessage, Arrives, Made
  <2>2. \A r \in Ask : request[r] # "idle" => request'[r] # "idle"
    BY <1>5 DEF OnMessage
  <2> QED
    BY <2>1, <2>2, QueuesStay
<1>6. ASSUME NEW r \in Ask, ReplyTimeout(r)
      PROVE  OnceInv'
  <2>1. Made' = Made /\ UNCHANGED <<sent, unsent, served>>
    BY <1>6 DEF ReplyTimeout, wireVars, Made
  <2>2. \A x \in Ask : request[x] # "idle" => request'[x] # "idle"
    BY <1>6, WireFacts DEF ReplyTimeout
  <2> QED
    BY <2>1, <2>2, QueuesStay
<1>7. ASSUME NEW r \in Ask, OpenTimeout(r)
      PROVE  OnceInv'
  <2>1. Made' = Made /\ UNCHANGED <<sent, request, served>> /\ unsent \in Seq(Ask)
    BY <1>7, WireFacts DEF OpenTimeout, wireVars, Made
  <2>2. PICK m \in DOMAIN unsent : unsent' = RemoveAt(unsent, m)
    BY <1>7 DEF OpenTimeout
  <2>3. m \in Nat /\ DOMAIN unsent = 1 .. Len(unsent) /\ Len(unsent) \in Nat
    BY <2>1, <2>2
  <2>4. /\ unsent' \in Seq(Ask) /\ Len(unsent') = Len(unsent) - 1
        /\ \A j \in 1 .. Len(unsent) - 1 :
             unsent'[j] = IF j < m THEN unsent[j] ELSE unsent[j + 1]
    BY <2>1, <2>2, QueueWithout
  <2>5. \A l \in DOMAIN unsent' :
          /\ l \in Nat
          /\ l < m => l \in DOMAIN unsent /\ unsent'[l] = unsent[l]
          /\ l >= m => l + 1 \in DOMAIN unsent /\ unsent'[l] = unsent[l + 1]
    <3> SUFFICES ASSUME NEW l \in DOMAIN unsent'
                 PROVE  /\ l \in Nat
                        /\ l < m => l \in DOMAIN unsent /\ unsent'[l] = unsent[l]
                        /\ l >= m => l + 1 \in DOMAIN unsent /\ unsent'[l] = unsent[l + 1]
      OBVIOUS
    <3>1. l \in 1 .. Len(unsent) - 1
      BY <2>3, <2>4
    <3> QED
      BY <2>3, <2>4, <3>1
  <2> QED
    BY <2>1, <2>3, <2>4, <2>5, UnsentThins
<1>8. CASE reconnect
  <2> DEFINE n == Len(socket)
  <2>1. UNCHANGED <<unsent, request, served>> /\ sent' = Append(sent, <<>>)
    BY <1>8 DEF reconnect
  <2>2. n \in Nat /\ Made = 1 .. n /\ Made' = 1 .. n + 1
    BY <1>8, WireFacts DEF reconnect, Connects, Made
  <2>3. sent \in [1 .. n -> Seq(Asked)] /\ <<>> \in Seq(Asked)
    BY <2>2, WireFacts
  <2> HIDE DEF n
  <2>4. sent'[n + 1] = <<>> /\ \A i \in Made : sent'[i] = sent[i]
    BY <2>1, <2>2, <2>3, ArrayGrows
  <2>5. \A i \in Made' : \A k \in DOMAIN sent'[i] :
          i \in Made /\ k \in DOMAIN sent[i] /\ sent'[i][k] = sent[i][k]
    <3> SUFFICES ASSUME NEW i \in Made', NEW k \in DOMAIN sent'[i]
                 PROVE  i \in Made /\ k \in DOMAIN sent[i] /\ sent'[i][k] = sent[i][k]
      OBVIOUS
    <3>1. i # n + 1
      BY <2>4
    <3>2. i \in Made
      BY <2>2, <3>1
    <3> QED
      BY <2>4, <3>2
  <2>6. SentOnce'
    BY <2>5 DEF OnceInv, SentOnce
  <2>7. UnsentApart'
    <3> SUFFICES ASSUME NEW i \in Made', NEW k \in DOMAIN sent'[i], NEW l \in DOMAIN unsent
                 PROVE  sent'[i][k] # unsent[l]
      BY <2>1 DEF UnsentApart
    <3>1. i \in Made /\ k \in DOMAIN sent[i] /\ sent'[i][k] = sent[i][k]
      BY <2>5
    <3> QED
      BY <3>1 DEF OnceInv, UnsentApart
  <2>8. SentPending'
    <3> SUFFICES ASSUME NEW i \in Made', NEW k \in DOMAIN sent'[i], sent'[i][k] # KeepAlive
                 PROVE  request[sent'[i][k]] # "idle" /\ sent'[i][k] \notin served
      BY <2>1 DEF SentPending, Pending
    <3>1. i \in Made /\ k \in DOMAIN sent[i] /\ sent'[i][k] = sent[i][k]
      BY <2>5
    <3> QED
      BY <3>1 DEF OnceInv, SentPending, Pending
  <2> QED
    BY <2>1, <2>6, <2>7, <2>8 DEF OnceInv, UnsentOnce, UnsentPending, Pending, ServedMade
<1>9. CASE \/ \E i \in Made : Pushes(i)
           \/ \E p \in Places : Visit(p) \/ RestoreEnds(p)
           \/ ConnectTimeout \/ Elapse \/ UNCHANGED socketVars
  <2>1. Made' = Made /\ UNCHANGED <<sent, unsent, request, served>>
    BY <1>9 DEF Pushes, Visit, RestoreEnds, ConnectTimeout, Elapse, socketVars, wireVars,
                waitVars, Made
  <2> QED
    BY <2>1, QueuesStay
<1> QED
  BY <1>1, <1>3, <1>4, <1>5, <1>6, <1>7, <1>8, <1>9, RequestMade, RequestServed
  DEF Next, Fires, ServerStep, RequestStep, AppStep

LEMMA OnceInvariant == Spec => [](WireTypes /\ OnceInv)
<1>1. Init => WireTypes /\ OnceInv
  <2> SUFFICES ASSUME Init
               PROVE  WireTypes /\ OnceInv
    OBVIOUS
  <2>1. WireTypes
    <3>1. socket = <<"CONNECTING">> /\ Made = 1 .. 1 /\ MaxSockets \in Nat \ {0}
      BY SocketBoundsAssumption DEF Init, Made
    <3>2. sent = <<(<<>>)>> /\ back = <<(<<>>)>>
      BY DEF Init
    <3>3. ASSUME NEW S
          PROVE  <<(<<>>)>> \in [Made -> Seq(S)]
      <4>1. <<>> \in Seq(S)
        OBVIOUS
      <4>2. ASSUME NEW e \in Seq(S)
            PROVE  <<e>> \in [1 .. 1 -> Seq(S)]
        BY <4>2
      <4>3. <<(<<>>)>> \in [1 .. 1 -> Seq(S)]
        BY <4>1, <4>2
      <4> QED
        BY <3>1, <4>3
    <3> QED
      BY <3>1, <3>2, <3>3 DEF Init, WireTypes, Waiting
  <2>2. Made = {1} /\ sent[1] = <<>> /\ unsent = <<>> /\ served = {}
    BY DEF Init, Made
  <2>3. OnceInv
    BY <2>2
    DEF OnceInv, UnsentOnce, SentOnce, UnsentApart, UnsentPending, SentPending, ServedMade
  <2> QED
    BY <2>1, <2>3
<1>2. WireTypes /\ OnceInv /\ [Next]_socketVars => (WireTypes /\ OnceInv)'
  BY WireTypesKept, OnceInductive
<1>3. QED
  BY <1>1, <1>2, PTL DEF Spec

\* The flags of the page, and the page a loss took it from.
Flags ==
  /\ opening \in BOOLEAN /\ listens \in BOOLEAN /\ slipped \in BOOLEAN
  /\ status \in {"PENDING", "SUCCESS", "ERROR"}
  /\ goal \in Places \cup {Nowhere}

LEMMA FlagsKept ==
  ASSUME Flags, RoutesKnown, [Next]_socketVars
  PROVE  Flags'
<1>1. Connected => listens' \in BOOLEAN /\ status' \in {"PENDING", "SUCCESS", "ERROR"}
                   /\ slipped' = slipped /\ goal' = goal
  BY DEF Connected, Flags
<1>2. Refused => listens' = listens /\ status' = "ERROR" /\ slipped' = slipped /\ goal' = goal
  BY DEF Refused
<1>3. Lost => listens' = listens /\ status' = "ERROR" /\ slipped' \in BOOLEAN
              /\ goal' \in Places \cup {Nowhere}
  <2>1. Lost => slipped' \in BOOLEAN
    BY Zenon DEF Lost
  <2>2. Lost => listens' = listens /\ status' = "ERROR" /\ goal' \in Places \cup {Nowhere}
    BY DEF Lost, Flags, RoutesKnown
  <2> QED
    BY <2>1, <2>2
<1>4. ASSUME NEW i \in Made, OnOpen(i)
      PROVE  Flags'
  <2>1. opening' \in BOOLEAN
    BY <1>4 DEF OnOpen
  <2>2. Connected \/ UNCHANGED appVars
    BY <1>4 DEF OnOpen
  <2> QED
    BY <1>1, <2>1, <2>2 DEF Flags, appVars
<1>5. ASSUME NEW i \in Made, NEW failed \in BOOLEAN, OnClose(i, failed)
      PROVE  Flags'
  <2>1. opening' \in BOOLEAN
    BY <1>5, Zenon DEF OnClose
  <2>2. Refused \/ Lost \/ UNCHANGED appVars
    <3>1. CASE opening /\ failed
      BY <1>5, <3>1 DEF OnClose
    <3>2. CASE ~opening /\ listens
      BY <1>5, <3>2 DEF OnClose
    <3>3. CASE ~(opening /\ failed) /\ ~(~opening /\ listens)
      BY <1>5, <3>3 DEF OnClose
    <3> QED
      BY <3>1, <3>2, <3>3
  <2> QED
    BY <1>2, <1>3, <2>1, <2>2 DEF Flags, appVars
<1>6. CASE \E i \in Made : OnPing(i) \/ OnMessage(i) \/ Serve(i) \/ Pushes(i)
  BY <1>6 DEF OnPing, OnMessage, Arrives, Serve, Pushes, waitVars, appVars, Flags
<1>7. CASE RequestStep
  BY <1>7 DEF RequestStep, send, ReplyTimeout, OpenTimeout, appVars, Flags
<1>8. CASE reconnect \/ \E p \in Places : Visit(p) \/ RestoreEnds(p)
  BY <1>8 DEF reconnect, Visit, RestoreEnds, waitVars, Flags
<1>9. CASE ConnectTimeout
  BY <1>2, <1>9 DEF ConnectTimeout, Flags
<1>10. CASE Elapse \/ UNCHANGED socketVars
  BY <1>10 DEF Elapse, socketVars, waitVars, appVars, Flags
<1> QED
  BY <1>4, <1>5, <1>6, <1>7, <1>8, <1>9, <1>10 DEF Next, Fires, ServerStep, AppStep

\* No variable leaves its type; above all, no queue of those who wait for a
\* socket holds a request twice (SocketService.send, WebSocketProxy).
THEOREM SocketTypeCorrect == Spec => []SocketTypeOK
<1>1. Init => RoutesKnown /\ Flags
  BY PlacesAssumption DEF Init, RoutesKnown, Flags
<1>2. RoutesKnown /\ Flags /\ [Next]_socketVars => (RoutesKnown /\ Flags)'
  BY FlagsKept, RoutesStayKnown
<1>3. WireTypes /\ OnceInv /\ RoutesKnown /\ Flags => SocketTypeOK
  <2> SUFFICES ASSUME WireTypes, OnceInv, RoutesKnown, Flags
               PROVE  SocketTypeOK
    OBVIOUS
  <2>1. IsInjective(unsent)
    BY DEF OnceInv, UnsentOnce, IsInjective
  <2>2. {route, restoreRoute, restoring, goal} \subseteq Places \cup {Nowhere}
    BY DEF RoutesKnown, Flags
  <2>3. opening \in BOOLEAN /\ listens \in BOOLEAN /\ slipped \in BOOLEAN
        /\ status \in {"PENDING", "SUCCESS", "ERROR"}
    BY DEF Flags
  <2> QED
    BY <2>1, <2>2, <2>3 DEF SocketTypeOK, WireTypes, Asked, Told
<1>4. QED
  BY <1>1, <1>2, <1>3, OnceInvariant, PTL DEF Spec

-----------------------------------------------------------------------------
(* What SocketService.send promises *)

\* A reply under way is to a request the server has handled.
Replied ==
  \A i \in Made : \A k \in DOMAIN back[i] :
    back[i][k] \in Ask => back[i][k] \in served

\* At most one queue from the server changes; what is new in it is no reply, or
\* one to what the server has just handled.
LEMMA RepliesChange ==
  ASSUME Replied, WireTypes, Made' = Made, served \subseteq served',
         NEW i \in Made, NEW q \in Seq(Told), back' = [back EXCEPT ![i] = q],
         \A k \in DOMAIN q : q[k] \in Ask =>
           \/ q[k] \in served'
           \/ \E l \in DOMAIN back[i] : q[k] = back[i][l]
  PROVE  Replied'
<1>1. \A j \in Made : back'[j] = IF j = i THEN q ELSE back[j]
  BY WireFacts
<1> QED
  BY <1>1 DEF Replied

LEMMA RepliesArrive ==
  ASSUME Replied, WireTypes, NEW i \in Made, Arrives(i)
  PROVE  Replied'
<1> DEFINE q == Tail(back[i])
<1>1. Made' = Made /\ back' = [back EXCEPT ![i] = q]
  BY DEF Arrives, Made
<1>2. \A k \in DOMAIN q : q[k] \in Ask =>
        \/ q[k] \in served'
        \/ \E l \in DOMAIN back[i] : q[k] = back[i][l]
  BY WireFacts, QueueShorter DEF Arrives
<1>3. served \subseteq served'
  BY DEF Arrives
<1>4. q \in Seq(Told)
  BY WireFacts, QueueShorter DEF Arrives
<1> HIDE DEF q
<1> QED
  BY <1>1, <1>2, <1>3, <1>4, RepliesChange

LEMMA RepliesAppended ==
  ASSUME Replied, WireTypes, NEW i \in Made, NEW m \in Told, Made' = Made,
         served \subseteq served', back' = [back EXCEPT ![i] = Append(back[i], m)],
         m \in Ask => m \in served'
  PROVE  Replied'
<1> DEFINE q == Append(back[i], m)
<1>1. back[i] \in Seq(Told)
  BY WireFacts
<1>2. \A k \in DOMAIN q : q[k] \in Ask =>
        \/ q[k] \in served'
        \/ \E l \in DOMAIN back[i] : q[k] = back[i][l]
  <2> SUFFICES ASSUME NEW k \in DOMAIN q, q[k] \in Ask
               PROVE  \/ q[k] \in served'
                      \/ \E l \in DOMAIN back[i] : q[k] = back[i][l]
    OBVIOUS
  <2>1. q[k] = m \/ (k \in DOMAIN back[i] /\ q[k] = back[i][k])
    BY <1>1
  <2> HIDE DEF q
  <2> QED
    BY <2>1
<1>3. back' = [back EXCEPT ![i] = q]
  OBVIOUS
<1>4. q \in Seq(Told)
  BY <1>1
<1> HIDE DEF q
<1> QED
  BY ONLY Replied, WireTypes, Made' = Made, served \subseteq served', i \in Made,
     <1>2, <1>3, <1>4, RepliesChange

LEMMA RepliedKept ==
  ASSUME Replied, WireTypes, [Next]_socketVars
  PROVE  Replied'
<1>1. ASSUME NEW i \in Made, NEW q \in {<<>>, <<KeepAlive>>}, Made' = Made, served' = served,
             back' = [back EXCEPT ![i] = q]
      PROVE  Replied'
  <2>1. q \in Seq(Told) /\ \A k \in DOMAIN q : q[k] \notin Ask
    <3>1. KeepAlive \in Told /\ KeepAlive \notin Ask
      BY WireFacts
    <3>2. CASE q = <<>>
      BY <3>2
    <3>3. CASE q = <<KeepAlive>>
      BY <3>1, <3>3
    <3> QED
      BY <3>2, <3>3
  <2> QED
    BY <1>1, <2>1, RepliesChange
<1>2. ASSUME NEW i \in Made, OnOpen(i) \/ \E failed \in BOOLEAN : OnClose(i, failed)
      PROVE  Replied'
  <2>1. Made' = Made /\ served' = served
    BY <1>2, WireFacts DEF OnOpen, OnClose, Made
  <2>2. back' = [back EXCEPT ![i] = <<>>] \/ back' = [back EXCEPT ![i] = <<KeepAlive>>]
    BY <1>2 DEF OnOpen, OnClose
  <2> QED
    BY <1>1, <2>1, <2>2
<1>3. ASSUME NEW i \in Made, OnPing(i) \/ OnMessage(i)
      PROVE  Replied'
  BY <1>3, RepliesArrive DEF OnPing, OnMessage
<1>4. ASSUME NEW i \in Made, Serve(i)
      PROVE  Replied'
  <2>1. PICK m \in Told :
          /\ m = KeepAlive \/ m \in Ask
          /\ back' = IF m \in Invalid THEN back ELSE [back EXCEPT ![i] = Append(back[i], m)]
          /\ served' = IF m = KeepAlive THEN served ELSE served \cup {m}
    <3>1. Head(sent[i]) \in Asked
      BY <1>4, WireFacts, QueueShorter DEF Serve
    <3> QED
      BY <1>4, <3>1, WireFacts DEF Serve, Asked
  <2>2. Made' = Made /\ served \subseteq served'
    BY <1>4, <2>1 DEF Serve, Made
  <2>3. CASE m \in Invalid
    BY <2>1, <2>2, <2>3 DEF Replied
  <2>4. CASE m \notin Invalid
    <3>1. m \in Ask => m \in served'
      BY <2>1, WireFacts
    <3>2. back' = [back EXCEPT ![i] = Append(back[i], m)]
      BY <2>1, <2>4
    <3> QED
      BY <1>4, <2>2, <3>1, <3>2, RepliesAppended
  <2> QED
    BY <2>3, <2>4
<1>5. ASSUME NEW i \in Made, Pushes(i)
      PROVE  Replied'
  <2>1. /\ Made' = Made /\ served \subseteq served'
        /\ back' = [back EXCEPT ![i] = Append(back[i], Push)]
    BY <1>5 DEF Pushes, Made
  <2>2. Push \in Told /\ Push \notin Ask
    BY WireFacts
  <2> QED
    BY <1>5, <2>1, <2>2, RepliesAppended
<1>6. CASE reconnect
  <2> DEFINE n == Len(socket)
  <2>1. served' = served /\ back' = Append(back, <<>>)
    BY <1>6 DEF reconnect
  <2>2. n \in Nat /\ Made = 1 .. n /\ Made' = 1 .. n + 1
    BY <1>6, WireFacts DEF reconnect, Connects, Made
  <2>3. back \in [1 .. n -> Seq(Told)] /\ <<>> \in Seq(Told)
    BY <2>2, WireFacts
  <2> HIDE DEF n
  <2>4. back'[n + 1] = <<>> /\ \A i \in Made : back'[i] = back[i]
    BY <2>1, <2>2, <2>3, ArrayGrows
  <2> SUFFICES ASSUME NEW i \in Made', NEW k \in DOMAIN back'[i], back'[i][k] \in Ask
               PROVE  back'[i][k] \in served
    BY <2>1 DEF Replied
  <2>5. i # n + 1
    BY <2>4
  <2>6. i \in Made
    BY <2>2, <2>5
  <2> QED
    BY <2>4, <2>6 DEF Replied
<1>7. CASE RequestStep \/ ConnectTimeout \/ Elapse \/ UNCHANGED socketVars
           \/ \E p \in Places : Visit(p) \/ RestoreEnds(p)
  <2>1. Made' = Made /\ UNCHANGED <<back, served>>
    BY <1>7 DEF RequestStep, send, ReplyTimeout, OpenTimeout, ConnectTimeout, Elapse, Visit,
                RestoreEnds, socketVars, wireVars, waitVars, Made
  <2> QED
    BY <2>1 DEF Replied
<1> QED
  BY <1>2, <1>3, <1>4, <1>5, <1>6, <1>7 DEF Next, Fires, ServerStep, AppStep

\* Every step of the page and of the server is a step of Requests, or none.
LEMMA PromiseStep ==
  ASSUME WireTypes, OnceInv, Replied, [Next]_socketVars
  PROVE  [Promised!Next]_(Promised!requestsVars)
<1> USE DEF Promised!requestsVars
<1>1. ASSUME NEW i \in Made, OnMessage(i)
      PROVE  [Promised!Next]_(Promised!requestsVars)
  <2>1. PICK m : m = Head(back[i])
    OBVIOUS
  <2>2. /\ served' = served
        /\ request' = [r \in Ask |-> IF r \in Waiting /\ r = m THEN "answered" ELSE request[r]]
    BY <1>1, <2>1 DEF OnMessage, Arrives
  <2>3. request \in [Ask -> {"idle", "waiting", "answered", "failed"}]
    BY WireFacts
  <2>4. CASE m \in Waiting
    <3>1. m \in Ask /\ request[m] = "waiting"
      BY <2>4 DEF Waiting
    <3>2. m \in served
      BY <1>1, <2>1, <3>1, WireFacts, QueueShorter DEF OnMessage, Arrives, Replied
    <3>3. request' = [request EXCEPT ![m] = "answered"]
      BY <2>2, <2>3, <2>4
    <3> QED
      BY <2>2, <3>1, <3>2, <3>3 DEF Promised!Next, Promised!Answer
  <2>5. CASE m \notin Waiting
    BY <2>2, <2>3, <2>5
  <2> QED
    BY <2>4, <2>5
<1>2. ASSUME NEW i \in Made, Serve(i)
      PROVE  [Promised!Next]_(Promised!requestsVars)
  <2>1. PICK m : m = Head(sent[i])
    OBVIOUS
  <2>2. request' = request /\ served' = IF m = KeepAlive THEN served ELSE served \cup {m}
    BY <1>2, <2>1 DEF Serve, waitVars
  <2>3. m \in Asked /\ 1 \in DOMAIN sent[i] /\ m = sent[i][1]
    BY <1>2, <2>1, WireFacts, QueueShorter DEF Serve
  <2>4. CASE m # KeepAlive
    <3>1. m \in Ask /\ request[m] # "idle" /\ m \notin served
      BY <2>3, <2>4 DEF Asked, OnceInv, SentPending, Pending
    <3> QED
      BY <2>2, <2>4, <3>1 DEF Promised!Next, Promised!Serve
  <2> QED
    BY <2>2, <2>4
<1>3. ASSUME NEW r \in Ask, send(r)
      PROVE  [Promised!Next]_(Promised!requestsVars)
  BY <1>3 DEF send, Promised!Next, Promised!Make
<1>4. ASSUME NEW r \in Ask, ReplyTimeout(r)
      PROVE  [Promised!Next]_(Promised!requestsVars)
  BY <1>4, WireFacts DEF ReplyTimeout, Waiting, Promised!Next, Promised!Fail
<1>5. CASE \/ \E i \in Made : Pushes(i) \/ OnOpen(i) \/ OnPing(i)
           \/ \E i \in Made : \E failed \in BOOLEAN : OnClose(i, failed)
           \/ \E r \in Ask : OpenTimeout(r)
           \/ AppStep \/ ConnectTimeout \/ Elapse \/ UNCHANGED socketVars
  BY <1>5 DEF Pushes, OnOpen, OnPing, Arrives, OnClose, OpenTimeout, AppStep, reconnect, Visit,
              RestoreEnds, ConnectTimeout, Elapse, waitVars, socketVars
<1> QED
  BY <1>1, <1>2, <1>3, <1>4, <1>5 DEF Next, Fires, ServerStep, RequestStep

\* Over any number of sockets, a request ends at most once, with the server's
\* answer to it or with a failure, and is served at most once
\* (SocketService.send, WebSocketProxy.send, handleWebsocket's onmessage).
THEOREM RequestsPromised == Spec => ImplementsRequests
<1>1. Init => Replied /\ Promised!Init
  <2>1. Init => Promised!Init
    BY DEF Init, Promised!Init
  <2>2. Init => Made = {1} /\ back[1] = <<>>
    BY DEF Init, Made
  <2> QED
    BY <2>1, <2>2 DEF Replied
<1>2. Replied /\ WireTypes /\ [Next]_socketVars => Replied'
  BY RepliedKept
<1>3. WireTypes /\ OnceInv /\ Replied /\ [Next]_socketVars
      => [Promised!Next]_(Promised!requestsVars)
  BY PromiseStep
<1>4. QED
  BY <1>1, <1>2, <1>3, OnceInvariant, PTL DEF Spec, ImplementsRequests, Promised!Spec

-----------------------------------------------------------------------------
(* Keep-alives *)

Holds(q) == \E k \in DOMAIN q : q[k] = KeepAlive

LEMMA HoldsFacts ==
  ASSUME NEW q \in Seq(Told)
  PROVE  /\ Holds(q) <=> KeepAlive \in Range(q)
         /\ \A m \in Told : Holds(q) \/ m = KeepAlive => Holds(Append(q, m))
         /\ \A p \in Seq(Told) : Holds(q) => Holds(q \o p)
         /\ q # <<>> /\ Head(q) # KeepAlive /\ Holds(q) => Holds(Tail(q))
<1>1. Holds(q) <=> KeepAlive \in Range(q)
  BY DEF Holds, Range
<1>2. ASSUME NEW m \in Told, Holds(q) \/ m = KeepAlive
      PROVE  Holds(Append(q, m))
  <2>1. /\ \A k \in DOMAIN q : k \in DOMAIN Append(q, m) /\ Append(q, m)[k] = q[k]
        /\ Len(q) + 1 \in DOMAIN Append(q, m) /\ Append(q, m)[Len(q) + 1] = m
    OBVIOUS
  <2> QED
    BY <1>2, <2>1 DEF Holds
<1>3. ASSUME NEW p \in Seq(Told), Holds(q)
      PROVE  Holds(q \o p)
  <2>1. \A k \in DOMAIN q : k \in DOMAIN (q \o p) /\ (q \o p)[k] = q[k]
    OBVIOUS
  <2> QED
    BY <1>3, <2>1 DEF Holds
<1>4. ASSUME q # <<>>, Head(q) # KeepAlive, Holds(q)
      PROVE  Holds(Tail(q))
  <2>1. PICK k \in DOMAIN q : q[k] = KeepAlive
    BY <1>4 DEF Holds
  <2>2. k - 1 \in DOMAIN Tail(q) /\ Tail(q)[k - 1] = q[k]
    BY <1>4, <2>1
  <2> QED
    BY <2>1, <2>2 DEF Holds
<1> QED
  BY <1>1, <1>2, <1>3, <1>4

AliveInv == State = "OPEN" => Holds(sent[Len(socket)]) \/ Holds(back[Len(socket)])

LEMMA AliveKept ==
  ASSUME AliveInv, WireTypes, [Next]_socketVars
  PROVE  AliveInv'
<1> DEFINE c == Len(socket)
<1>1. /\ c \in Made /\ State = socket[c] /\ socket \in Seq({"CONNECTING", "OPEN", "CLOSED"})
      /\ sent \in [Made -> Seq(Asked)] /\ back \in [Made -> Seq(Told)] /\ unsent \in Seq(Ask)
      /\ sent[c] \in Seq(Told) /\ back[c] \in Seq(Told) /\ unsent \in Seq(Told)
      /\ Ask \subseteq Told /\ KeepAlive \in Told /\ Push \in Told /\ KeepAlive \notin Invalid
  <2>1. sent[c] \in Seq(Asked) /\ unsent \in Seq(Ask) /\ c \in Made /\ back[c] \in Seq(Told)
    BY WireFacts
  <2>2. sent[c] \in Seq(Told) /\ unsent \in Seq(Told)
    BY <2>1, WireFacts
  <2> QED
    BY <2>1, <2>2, WireFacts, AskAssumption DEF State, Last
<1>2. ASSUME NEW i \in Made, NEW s \in {"CONNECTING", "OPEN", "CLOSED"},
             socket' = [socket EXCEPT ![i] = s]
      PROVE  Len(socket') = c /\ State' = IF i = c THEN s ELSE State
  <2>1. SocketsMade
    BY WireFacts DEF SocketsMade
  <2> QED
    BY <1>2, <2>1, SocketChanges
<1>3. ASSUME NEW i \in Made, OnOpen(i)
      PROVE  AliveInv'
  <2>1. Len(socket') = c /\ State' = IF i = c THEN "OPEN" ELSE State
    BY <1>2, <1>3 DEF OnOpen
  <2>2. CASE i = c
    <3>1. back'[c] = <<KeepAlive>>
      BY <1>1, <1>3, <2>2 DEF OnOpen
    <3>2. Holds(<<KeepAlive>>)
      BY DEF Holds
    <3> QED
      BY <2>1, <3>1, <3>2 DEF AliveInv
  <2>3. CASE i # c
    <3>1. back'[c] = back[c]
      BY <1>1, <1>3, <2>3 DEF OnOpen
    <3>2. sent'[c] = sent[c] \/ sent'[c] = sent[c] \o unsent
      BY <1>1, <1>3 DEF OnOpen
    <3>3. Holds(sent[c]) => Holds(sent'[c])
      BY <1>1, <3>2, HoldsFacts
    <3> QED
      BY <2>1, <2>3, <3>1, <3>3 DEF AliveInv
  <2> QED
    BY <2>2, <2>3
<1>4. ASSUME NEW i \in Made, NEW failed \in BOOLEAN, OnClose(i, failed)
      PROVE  AliveInv'
  <2>1. Len(socket') = c /\ State' = IF i = c THEN "CLOSED" ELSE State
    BY <1>2, <1>4 DEF OnClose
  <2>2. i # c => sent'[c] = sent[c] /\ back'[c] = back[c]
    BY <1>1, <1>4 DEF OnClose
  <2> QED
    BY <2>1, <2>2 DEF AliveInv
<1>5. ASSUME NEW i \in Made, OnPing(i)
      PROVE  AliveInv'
  <2>1. socket' = socket /\ State' = State
    BY <1>5 DEF OnPing, Arrives, State
  <2>2. State = "OPEN" => sent'[c] = Append(sent[c], KeepAlive)
    BY <1>1, <1>5 DEF OnPing
  <2>3. Holds(Append(sent[c], KeepAlive))
    BY <1>1, HoldsFacts
  <2> QED
    BY <2>1, <2>2, <2>3 DEF AliveInv
<1>6. ASSUME NEW i \in Made, OnMessage(i)
      PROVE  AliveInv'
  <2>1. socket' = socket /\ sent' = sent /\ State' = State
    BY <1>6 DEF OnMessage, Arrives, State
  <2>2. CASE i = c
    <3>1. back'[c] = Tail(back[c]) /\ back[c] # <<>> /\ Head(back[c]) # KeepAlive
      BY <1>1, <1>6, <2>2 DEF OnMessage, Arrives
    <3>2. Holds(back[c]) => Holds(back'[c])
      BY <1>1, <3>1, HoldsFacts
    <3> QED
      BY <2>1, <3>2 DEF AliveInv
  <2>3. CASE i # c
    <3>1. back'[c] = back[c]
      BY <1>1, <1>6, <2>3 DEF OnMessage, Arrives
    <3> QED
      BY <2>1, <3>1 DEF AliveInv
  <2> QED
    BY <2>2, <2>3
<1>7. ASSUME NEW i \in Made, Serve(i)
      PROVE  AliveInv'
  <2>1. socket' = socket /\ State' = State
    BY <1>7 DEF Serve, State
  <2>2. CASE i # c
    <3>1. back'[c] = back[c] /\ sent'[c] = sent[c]
      BY <1>1, <1>7, <2>2 DEF Serve
    <3> QED
      BY <2>1, <3>1 DEF AliveInv
  <2>3. CASE i = c /\ Head(sent[c]) = KeepAlive
    <3>1. back'[c] = Append(back[c], KeepAlive)
      BY <1>1, <1>7, <2>3 DEF Serve
    <3>2. Holds(Append(back[c], KeepAlive))
      BY <1>1, HoldsFacts
    <3> QED
      BY <2>1, <3>1, <3>2 DEF AliveInv
  <2>4. CASE i = c /\ Head(sent[c]) # KeepAlive
    <3>1. sent'[c] = Tail(sent[c]) /\ sent[c] # <<>>
      BY <1>1, <1>7, <2>4 DEF Serve
    <3>2. Holds(sent[c]) => Holds(sent'[c])
      BY <1>1, <2>4, <3>1, HoldsFacts
    <3>3. Head(sent[c]) \in Told
      BY <1>1, <3>1, QueueShorter
    <3>4. back'[c] = back[c] \/ back'[c] = Append(back[c], Head(sent[c]))
      BY <1>1, <1>7, <2>4 DEF Serve
    <3>5. Holds(back[c]) => Holds(back'[c])
      BY <1>1, <3>3, <3>4, HoldsFacts
    <3> QED
      BY <2>1, <3>2, <3>5 DEF AliveInv
  <2> QED
    BY <2>2, <2>3, <2>4
<1>8. ASSUME NEW i \in Made, Pushes(i)
      PROVE  AliveInv'
  <2>1. socket' = socket /\ sent' = sent /\ State' = State
    BY <1>8 DEF Pushes, State
  <2>2. back'[c] = back[c] \/ back'[c] = Append(back[c], Push)
    BY <1>1, <1>8 DEF Pushes
  <2>3. Holds(back[c]) => Holds(back'[c])
    BY <1>1, <2>2, HoldsFacts
  <2> QED
    BY <2>1, <2>3 DEF AliveInv
<1>9. ASSUME NEW r \in Ask, send(r)
      PROVE  AliveInv'
  <2>1. socket' = socket /\ back' = back /\ State' = State
    BY <1>9 DEF send, State
  <2>2. sent'[c] = sent[c] \/ sent'[c] = Append(sent[c], r)
    BY <1>1, <1>9 DEF send
  <2>3. Holds(sent[c]) => Holds(sent'[c])
    BY <1>1, <2>2, HoldsFacts
  <2> QED
    BY <2>1, <2>3 DEF AliveInv
<1>10. CASE reconnect
  <2>1. State' = "CONNECTING"
    BY <1>1, <1>10 DEF reconnect, Connects, State, Last
  <2> QED
    BY <2>1 DEF AliveInv
<1>11. CASE \/ \E r \in Ask : ReplyTimeout(r) \/ OpenTimeout(r)
            \/ \E p \in Places : Visit(p) \/ RestoreEnds(p)
            \/ ConnectTimeout \/ Elapse \/ UNCHANGED socketVars
  <2>1. UNCHANGED <<socket, sent, back>>
    BY <1>11 DEF ReplyTimeout, OpenTimeout, Visit, RestoreEnds, ConnectTimeout, Elapse,
                 wireVars, waitVars, socketVars
  <2> QED
    BY <2>1 DEF AliveInv, State
<1> QED
  BY <1>3, <1>4, <1>5, <1>6, <1>7, <1>8, <1>9, <1>10, <1>11
  DEF Next, Fires, ServerStep, RequestStep, AppStep

\* The current socket, once open, always has a ping or a pong under way, so that
\* the server keeps it (onPing, the server's ping on every pong).
THEOREM SocketKeptAlive == Spec => []KeptAlive
<1>1. Init => AliveInv
  BY DEF Init, AliveInv, State, Last
<1>2. WireTypes /\ AliveInv /\ [Next]_socketVars => AliveInv'
  BY AliveKept
<1>3. WireTypes /\ AliveInv => KeptAlive
  <2> SUFFICES ASSUME WireTypes, AliveInv
               PROVE  KeptAlive
    OBVIOUS
  <2>1. sent[Len(socket)] \in Seq(Told) /\ back[Len(socket)] \in Seq(Told)
    <3>1. sent[Len(socket)] \in Seq(Asked) /\ back[Len(socket)] \in Seq(Told)
      BY WireFacts
    <3> QED
      BY <3>1, WireFacts
  <2> QED
    BY <2>1, HoldsFacts DEF AliveInv, KeptAlive
<1>4. QED
  BY <1>1, <1>2, <1>3, OnceInvariant, PTL DEF Spec
=============================================================================
