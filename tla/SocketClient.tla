----------------------------- MODULE SocketClient -----------------------------
(***************************************************************************)
(* One page's connection to the server: WebSocketProxy and SocketService   *)
(* (requests and their replies over whatever socket is current), and the   *)
(* AppComponent that connects, notices a loss and restores the page.       *)
(*                                                                         *)
(* All sockets ever made feed one subject of events and one of messages.   *)
(* rxjs' timeout counts from the last emission of the subject it is put    *)
(* on: a wait for a reply is due when time has passed since the last       *)
(* message (Elapse).  The waits for a socket to open run out at any time.  *)
(***************************************************************************)
EXTENDS Naturals, Sequences, FiniteSets, SequencesExt, Functions

CONSTANTS
  Ask, Invalid,    \* requests, and those that do not pass the server's validation
  KeepAlive, Push, \* messages that are no request: "ping" or "pong"; a push
  Places, Home,    \* the router's urls
  Nowhere,         \* null, in place of a url
  MaxSockets,      \* bound: sockets made
  MaxMade,         \* bound: sockets and requests made in all
  MaxBack          \* bound: messages under way for a push to be added to them

ASSUME AskAssumption ==
  Invalid \subseteq Ask /\ {KeepAlive, Push} \cap Ask = {} /\ KeepAlive # Push
ASSUME PlacesAssumption == Home \in Places /\ Nowhere \notin Places
ASSUME SocketBoundsAssumption == MaxSockets \in Nat \ {0} /\ {MaxMade, MaxBack} \subseteq Nat

VARIABLES
  socket,        \* readyState of the sockets made; WebSocketProxy._socket is the last
  sent, back,    \* under way on each socket to the server, and from it
  opening,       \* whether connect() waits
  unsent,        \* the requests whose send() waits for an open socket, in order
  request,       \* "idle", "waiting" (for its reply), "answered" or "failed"
  due,           \* the requests whose wait times out next
  status,        \* AppComponent.connectionState
  listens,       \* whether the app is subscribed to the events
  route,         \* Router.url
  restoreRoute,  \* AppComponent._restoreRoute
  restoring,     \* where the restoring navigation under way leads
  served,        \* history: the requests the server has handled
  goal,          \* history: the page a noticed loss took the user from
  slipped        \* history: a loss was noticed during the restoring navigation

wireVars == <<sent, back>>
waitVars == <<opening, unsent, request, due>>
appVars == <<status, listens, route, restoreRoute, restoring, goal, slipped>>
socketVars == <<socket, wireVars, waitVars, appVars, served>>

Made == DOMAIN socket
State == Last(socket)
Bounded == Len(socket) + Cardinality({r \in Ask : request[r] # "idle"}) < MaxMade
Waiting == {r \in Ask : request[r] = "waiting"}

SocketTypeOK ==
  /\ socket \in Seq({"CONNECTING", "OPEN", "CLOSED"}) /\ Len(socket) \in 1 .. MaxSockets
  /\ sent \in [Made -> Seq(Ask \cup {KeepAlive})]
  /\ back \in [Made -> Seq(Ask \cup {KeepAlive, Push})]
  /\ opening \in BOOLEAN /\ listens \in BOOLEAN /\ slipped \in BOOLEAN
  /\ unsent \in Seq(Ask) /\ IsInjective(unsent)
  /\ request \in [Ask -> {"idle", "waiting", "answered", "failed"}]
  /\ due \subseteq Waiting
  /\ status \in {"PENDING", "SUCCESS", "ERROR"}
  /\ {route, restoreRoute, restoring, goal} \subseteq Places \cup {Nowhere}
  /\ served \subseteq Ask

-----------------------------------------------------------------------------
(* The application's part in an event of a socket *)

\* After connect(): the page is restored first if one was lost.
Connected ==
  /\ listens' = TRUE
  /\ IF restoreRoute = Nowhere
     THEN status' = "SUCCESS" /\ UNCHANGED restoring
     ELSE restoring' = restoreRoute /\ UNCHANGED status
  /\ UNCHANGED <<route, restoreRoute, goal, slipped>>
Refused ==
  /\ status' = "ERROR"
  /\ UNCHANGED <<listens, route, restoreRoute, restoring, goal, slipped>>
\* CLOSE or ERROR, of whichever socket.
Lost ==
  /\ status' = "ERROR"
  /\ restoreRoute' = route
  /\ goal' = IF restoring # Nowhere THEN Nowhere ELSE IF status = "SUCCESS" THEN route ELSE goal
  /\ slipped' = (slipped \/ restoring # Nowhere)
  /\ UNCHANGED <<listens, route, restoring>>

-----------------------------------------------------------------------------
(* Events of a socket *)

\* Whoever waits for an open socket writes to the current one, which may be
\* another that still connects: then the write throws.
OnOpen(i) ==
  /\ socket[i] = "CONNECTING"
  /\ socket' = [socket EXCEPT ![i] = "OPEN"]
  /\ back' = [back EXCEPT ![i] = <<KeepAlive>>]
  /\ sent' = IF Last(socket') = "OPEN" THEN [sent EXCEPT ![Len(socket)] = @ \o unsent] ELSE sent
  /\ unsent' = <<>> /\ opening' = FALSE
  /\ IF opening THEN Connected ELSE UNCHANGED appVars
  /\ UNCHANGED <<request, due, served>>

\* Mutant of OnClose: a plain CLOSE goes unnoticed.
OnCloseSilent(i, failed) ==
  /\ socket[i] # "CLOSED" /\ (socket[i] = "CONNECTING" => failed)
  /\ socket' = [socket EXCEPT ![i] = "CLOSED"]
  /\ sent' = [sent EXCEPT ![i] = <<>>] /\ back' = [back EXCEPT ![i] = <<>>]
  /\ opening' = (opening /\ ~failed)
  /\ CASE opening /\ failed -> Refused
       [] ~opening /\ listens /\ failed -> Lost
       [] OTHER -> UNCHANGED appVars
  /\ UNCHANGED <<unsent, request, due, served>>
\* onerror (if the connection failed) and onclose; CLOSE does not end connect().
OnClose(i, failed) ==
  /\ socket[i] # "CLOSED" /\ (socket[i] = "CONNECTING" => failed)
  /\ socket' = [socket EXCEPT ![i] = "CLOSED"]
  /\ sent' = [sent EXCEPT ![i] = <<>>] /\ back' = [back EXCEPT ![i] = <<>>]
  /\ opening' = (opening /\ ~failed)
  /\ CASE opening /\ failed -> Refused
       [] ~opening /\ listens -> Lost
       [] OTHER -> UNCHANGED appVars
  /\ UNCHANGED <<unsent, request, due, served>>

Arrives(i) ==
  /\ socket[i] = "OPEN" /\ back[i] # <<>>
  /\ back' = [back EXCEPT ![i] = Tail(@)]
  /\ UNCHANGED <<socket, opening, unsent, appVars, served>>
\* Mutant of OnPing: a ping is a message like the others to those who wait.
OnPingEmitted(i) ==
  /\ Arrives(i) /\ Head(back[i]) = KeepAlive
  /\ sent' = IF State = "OPEN" THEN [sent EXCEPT ![Len(socket)] = Append(@, KeepAlive)] ELSE sent
  /\ due' = {}
  /\ UNCHANGED request
\* Mutant of OnPing: the first socket answers.
OnPingFirst(i) ==
  /\ Arrives(i) /\ Head(back[i]) = KeepAlive
  /\ sent' = IF socket[1] = "OPEN" THEN [sent EXCEPT ![1] = Append(@, KeepAlive)] ELSE sent
  /\ UNCHANGED <<request, due>>
\* The current socket answers, whichever was pinged.
OnPing(i) ==
  /\ Arrives(i) /\ Head(back[i]) = KeepAlive
  /\ sent' = IF State = "OPEN" THEN [sent EXCEPT ![Len(socket)] = Append(@, KeepAlive)] ELSE sent
  /\ UNCHANGED <<request, due>>
\* Mutant of OnMessage: any reply answers whoever waits.
OnMessageAny(i) ==
  /\ Arrives(i) /\ Head(back[i]) # KeepAlive
  /\ due' = {}
  /\ request' = [r \in Ask |-> IF r \in Waiting /\ Head(back[i]) \in Ask
                               THEN "answered" ELSE request[r]]
  /\ UNCHANGED sent
\* A reply (by its refClient), or a message nobody waits for.
OnMessage(i) ==
  /\ Arrives(i) /\ Head(back[i]) # KeepAlive
  /\ due' = {}
  /\ request' = [r \in Ask |-> IF r \in Waiting /\ r = Head(back[i])
                               THEN "answered" ELSE request[r]]
  /\ UNCHANGED sent

-----------------------------------------------------------------------------
(* Requests and timeouts *)

send(r) ==
  /\ request[r] = "idle" /\ Bounded
  /\ request' = [request EXCEPT ![r] = "waiting"]
  /\ IF State = "OPEN"
     THEN sent' = [sent EXCEPT ![Len(socket)] = Append(@, r)] /\ UNCHANGED unsent
     ELSE unsent' = Append(unsent, r) /\ UNCHANGED sent
  /\ UNCHANGED <<socket, back, opening, due, appVars, served>>

Elapse ==
  /\ due' = Waiting
  /\ UNCHANGED <<socket, wireVars, opening, unsent, request, appVars, served>>
\* Mutant of ReplyTimeout: the timer of an ended wait stays.
ReplyTimeoutKept(r) ==
  /\ r \in due
  /\ request' = [request EXCEPT ![r] = "failed"]
  /\ UNCHANGED <<socket, wireVars, opening, unsent, due, appVars, served>>
ReplyTimeout(r) ==
  /\ r \in due
  /\ request' = [request EXCEPT ![r] = "failed"]
  /\ due' = due \ {r}
  /\ UNCHANGED <<socket, wireVars, opening, unsent, appVars, served>>
OpenTimeout(r) ==
  /\ \E k \in DOMAIN unsent : unsent[k] = r /\ unsent' = RemoveAt(unsent, k)
  /\ UNCHANGED <<socket, wireVars, opening, request, due, appVars, served>>
ConnectTimeout ==
  /\ opening /\ opening' = FALSE
  /\ Refused
  /\ UNCHANGED <<socket, wireVars, unsent, request, due, served>>

-----------------------------------------------------------------------------
(* The application *)

Visit(p) ==
  /\ status = "SUCCESS" /\ restoring = Nowhere /\ p # route
  /\ route' = p
  /\ UNCHANGED <<socket, wireVars, waitVars, served>>
  /\ UNCHANGED <<status, listens, restoreRoute, restoring, goal, slipped>>
\* The navigation arrives, or a guard sends it home.
RestoreEnds(p) ==
  /\ restoring # Nowhere /\ p \in {restoring, Home}
  /\ route' = p
  /\ restoring' = Nowhere /\ restoreRoute' = Nowhere /\ goal' = Nowhere
  /\ status' = "SUCCESS"
  /\ UNCHANGED <<socket, wireVars, waitVars, served, listens, slipped>>

Connects == Append(socket, "CONNECTING")
\* Mutant of reconnect: the subscription of the lost connection stays.
reconnectListening ==
  /\ status = "ERROR" /\ Len(socket) < MaxSockets /\ Bounded
  /\ socket' = Connects
  /\ sent' = Append(sent, <<>>) /\ back' = Append(back, <<>>)
  /\ opening' = TRUE
  /\ route' = Home
  /\ restoring' = Nowhere
  /\ restoreRoute' = IF restoring = Nowhere THEN restoreRoute ELSE Nowhere
  /\ status' = "PENDING" /\ slipped' = FALSE
  /\ UNCHANGED <<listens, unsent, request, due, goal, served>>
\* The page is left (for "/", without a prompt: its component is gone with the
\* outlet), which ends a restoring navigation; then a new socket.
reconnect ==
  /\ status = "ERROR" /\ Len(socket) < MaxSockets /\ Bounded
  /\ socket' = Connects
  /\ sent' = Append(sent, <<>>) /\ back' = Append(back, <<>>)
  /\ opening' = TRUE /\ listens' = FALSE
  /\ route' = Home
  /\ restoring' = Nowhere
  /\ restoreRoute' = IF restoring = Nowhere THEN restoreRoute ELSE Nowhere
  /\ status' = "PENDING" /\ slipped' = FALSE
  /\ UNCHANGED <<unsent, request, due, goal, served>>

-----------------------------------------------------------------------------
(* The server *)

\* handleWebsocket onmessage: a pong is followed by the next ping, a request
\* that passes validation by its reply.
Serve(i) ==
  /\ socket[i] = "OPEN" /\ sent[i] # <<>>
  /\ LET m == Head(sent[i]) IN
     /\ back' = IF m \in Invalid THEN back ELSE [back EXCEPT ![i] = Append(@, m)]
     /\ served' = IF m = KeepAlive THEN served ELSE served \cup {m}
  /\ sent' = [sent EXCEPT ![i] = Tail(@)]
  /\ UNCHANGED <<socket, waitVars, appVars>>
Pushes(i) ==
  /\ socket[i] = "OPEN" /\ Len(back[i]) < MaxBack
  /\ back' = [back EXCEPT ![i] = Append(@, Push)]
  /\ UNCHANGED <<socket, sent, waitVars, appVars, served>>

-----------------------------------------------------------------------------
\* ngOnInit has made the first socket.
Init ==
  /\ socket = <<"CONNECTING">> /\ sent = <<(<<>>)>> /\ back = <<(<<>>)>>
  /\ opening = TRUE /\ unsent = <<>>
  /\ request = [r \in Ask |-> "idle"]
  /\ due = {}
  /\ status = "PENDING" /\ listens = FALSE
  /\ route \in Places
  /\ restoreRoute = Nowhere /\ restoring = Nowhere
  /\ served = {} /\ goal = Nowhere /\ slipped = FALSE

Fires(i) ==
  OnOpen(i) \/ OnPing(i) \/ OnMessage(i) \/ \E failed \in BOOLEAN : OnClose(i, failed)
ServerStep == \E i \in Made : Serve(i) \/ Pushes(i)
RequestStep == \E r \in Ask : send(r) \/ ReplyTimeout(r) \/ OpenTimeout(r)
AppStep == reconnect \/ \E p \in Places : Visit(p) \/ RestoreEnds(p)
Next ==
  \/ \E i \in Made : Fires(i)
  \/ ServerStep \/ RequestStep \/ AppStep \/ ConnectTimeout \/ Elapse
Spec == Init /\ [][Next]_socketVars

\* Time passes, and a timer that is due fires.
FairSpec ==
  /\ Spec /\ WF_socketVars(Elapse)
  /\ \A r \in Ask : WF_socketVars(ReplyTimeout(r))
-----------------------------------------------------------------------------
(* Properties *)

\* The app says it is connected only while its socket may still be: a loss is
\* noticed whenever it comes, on the events of an older socket included, unless
\* it came during the restoring navigation, whose end overwrites it.
LossShown == status = "SUCCESS" /\ ~slipped => State # "CLOSED"

\* The page a loss took the user from is asked for again, however many attempts
\* to reconnect fail and whatever older sockets report meanwhile, unless the
\* connection is lost again on the way back.
PlaceKept == goal # Nowhere => restoreRoute = goal /\ restoring \in {Nowhere, goal}

\* An open current socket has a ping or a pong under way, so that the server
\* keeps it: pings that reach the page over older sockets do not stop that.
KeptAlive ==
  State = "OPEN" => KeepAlive \in Range(sent[Len(socket)]) \cup Range(back[Len(socket)])

\* Over all the sockets of a page, requests are what Requests promises: one end
\* at most, their own answer or a failure, handled once at most, never answered
\* before.
Promised == INSTANCE Requests
ImplementsRequests == Promised!Spec

\* A request ends, also one that was never written or that the server did not
\* answer, once other messages no longer keep restarting its timeout.
Quiet == ~[]<><<\E i \in Made : Pushes(i)>>_socketVars
EndsWhenQuiet ==
  Quiet => \A r \in Ask : request[r] = "waiting" ~> request[r] # "waiting"

\* README.md:88: whatever the server receives, it replies to.  A claim that the
\* code does not keep: handleMessage only logs a message that fails validation.
HandledIsAnswered == [][served' # served => back' # back]_socketVars
=============================================================================
