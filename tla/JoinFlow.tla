------------------------------- MODULE JoinFlow -------------------------------
(***************************************************************************)
(* How one browser tab gets into one room and back: the rooms it remembers *)
(* (CacheManagerService, in memory and in localStorage), the home page     *)
(* that checks them, the join page with its validators, its timer and its  *)
(* automatic join, the guards of the routes, and the server's answers.     *)
(*                                                                         *)
(* The participant uses one name.  Of the server's room only what concerns *)
(* that name is kept; RoomServer has the rest.  Tokens are numbered in the *)
(* order of their issue, and expire in that order.                         *)
(***************************************************************************)
EXTENDS Naturals, Sequences, FiniteSets, SequencesExt, Functions

CONSTANTS
  MaxTokens,  \* bound: tokens issued
  MaxForms,   \* bound: join pages opened between two loads of the tab
  MaxMade,    \* bound: those and tokens issued, for another to be opened
  MaxUnderWay \* bound: requests and replies under way for another to be asked

ASSUME JoinBoundsAssumption == {MaxTokens, MaxForms, MaxMade, MaxUnderWay} \subseteq Nat

None == 0
Tokens == 1 .. MaxTokens
Entry == [kept : {TRUE}, token : {None} \cup Tokens, prompt : BOOLEAN]
NoEntry == [kept |-> FALSE, token |-> None, prompt |-> FALSE]

\* A JoinRoomComponent.  link: an invitation in the url, until it is read; by: what
\* it joins with; name: what its validator makes of the name; timer: the delay
\* before the automatic join with the token.
Form == [link : BOOLEAN, by : {"", "token", "link"}, token : {None} \cup Tokens,
         old : BOOLEAN, enabled : BOOLEAN,
         name : {"", "given", "asked", "free", "taken", "unchecked"},
         timer : {"off", "on", "done"}]
Kinds == {"create", "cached", "exists", "valid", "join", "guard", "leave"}
Asked == Kinds \X (0 .. MaxForms)
Request == [kind : Kinds, form : 0 .. MaxForms, token : {None} \cup Tokens]
Reply == [kind : Kinds, form : 0 .. MaxForms, token : {None} \cup Tokens,
          is : {"ok", "no", "taken", "stranger", "invalid"}]

VARIABLES
  room,           \* server: "none", "open" or "gone"
  memory,         \* server: the token it remembers for the name
  member,         \* server: who is in the room under the name: "no", "this"
                  \* connection or an "old" one whose end it has not noticed
  issued, lapsed, \* server: the number of tokens, and of those expired
  wire, replies,  \* under way to the server, and back
  asked,          \* requests whose promise is pending, with their form (0: none)
  cache, stored,  \* the entry of the room in memory, and in localStorage
  page,           \* "home" (or the page to create a room), "join" or "room"
  forms,          \* join pages made since the tab was loaded
  missed          \* history: the latest token may never have reached the tab

serverVars == <<room, memory, member, issued, lapsed>>
cacheVars == <<cache, stored>>
pageVars == <<page, forms>>
joinVars == <<serverVars, wire, replies, asked, cacheVars, pageVars, missed>>

JoinTypeOK ==
  /\ room \in {"none", "open", "gone"} /\ member \in {"no", "this", "old"}
  /\ issued \in 0 .. MaxTokens /\ lapsed \in 0 .. issued /\ memory \in 0 .. issued
  /\ wire \in Seq(Request) /\ replies \in Seq(Reply) /\ asked \subseteq Asked
  /\ cache \in Entry \cup {NoEntry} /\ stored \in Entry \cup {NoEntry}
  /\ page \in {"home", "join", "room"} /\ forms \in Seq(Form) /\ missed \in BOOLEAN
  /\ \A f \in DOMAIN forms : <<"join", f>> \in asked => ~forms[f].enabled

-----------------------------------------------------------------------------
(* CacheManagerService *)

\* compareRoomEntries
Differs(a, b) == a.kept # b.kept \/ a.prompt # b.prompt \/ a.token # b.token
\* Mutant of Saves: persisted before the map is set.
SavesBefore(entry) ==
  IF Differs(cache, entry) THEN cache' = entry /\ stored' = cache ELSE UNCHANGED cacheVars
\* saveRoom
Saves(entry) ==
  IF Differs(cache, entry) THEN cache' = entry /\ stored' = entry ELSE UNCHANGED cacheVars
\* deleteRoom, deleteAllRooms
Deletes == cache' = NoEntry /\ stored' = NoEntry
\* The token goes from the object in the map, which saveRoom then finds equal.
ForgetsToken == cache' = [cache EXCEPT !.token = None] /\ UNCHANGED stored
\* _getCachedRooms
Loaded == IF stored.token = None THEN NoEntry ELSE stored

-----------------------------------------------------------------------------
(* Requests *)

UnderWay(kind, f) ==
  \E m \in Range(wire) \cup Range(replies) : m.kind = kind /\ m.form = f
\* Bound: a request is asked again once the former is no longer under way.
Asks(kind, f, token) ==
  /\ ~UnderWay(kind, f) /\ Len(wire) + Len(replies) < MaxUnderWay
  /\ wire' = Append(wire, [kind |-> kind, form |-> f, token |-> token])
Pends(kind, f) == asked' = asked \cup {<<kind, f>>}
Unguarded == asked \ {<<"guard", 0>>}

Hears(kind) ==
  /\ replies # <<>> /\ Head(replies).kind = kind
  /\ replies' = Tail(replies)
  /\ UNCHANGED serverVars
Answer == Head(replies)
Awaited == <<Answer.kind, Answer.form>> \in asked
Heard == asked \ {<<Answer.kind, Answer.form>>}

\* A reply after its request's timeout.
HearsLate ==
  /\ replies # <<>> /\ ~Awaited
  /\ replies' = Tail(replies)
  /\ UNCHANGED <<serverVars, wire, asked, cacheVars, pageVars, missed>>

-----------------------------------------------------------------------------
(* The server.  Requests are served in order; a token's check is awaited, *)
(* which RoomServer interleaves and here is one step.                     *)

Expired(token) == token <= lapsed
Grants == issued < MaxTokens /\ issued' = issued + 1 /\ memory' = issued + 1 /\ member' = "this"
\* A reply nobody waits for any more is left out.
Replies(m, is, token) ==
  replies' = IF <<m.kind, m.form>> \notin asked THEN replies
             ELSE Append(replies, [kind |-> m.kind, form |-> m.form, is |-> is, token |-> token])
Refuses(m, is) == Replies(m, is, None) /\ UNCHANGED <<memory, member, issued>>
MayUse(token) == memory = None \/ (member = "no" /\ memory = token)

createRoom(m) ==
  /\ room' = "open" /\ Grants
  /\ Replies(m, "ok", issued')
roomExists(m) == Refuses(m, IF room = "open" THEN "ok" ELSE "no") /\ UNCHANGED room
usernameValid(m) ==
  /\ Refuses(m, IF room # "open" THEN "no"
                ELSE IF memory = None \/ (m.token # None /\ ~Expired(m.token) /\ MayUse(m.token))
                THEN "ok"
                ELSE IF m.token # None /\ Expired(m.token) THEN "invalid" ELSE "taken")
  /\ UNCHANGED room
\* By token, or by a link that may be refused.
Admits(m) ==
  IF m.token # None THEN ~Expired(m.token) /\ room = "open" /\ MayUse(m.token)
  ELSE room = "open" /\ member # "this" /\ memory = None
joinRoom(m) ==
  /\ IF Admits(m)
     THEN \/ Grants /\ Replies(m, "ok", issued')
          \/ m.token = None /\ Refuses(m, "no")
     ELSE Refuses(m, "no")
  /\ UNCHANGED room
\* Mutant of guard: a valid token is enough.
guardByToken(m) ==
  Refuses(m, IF Expired(m.token) THEN "invalid" ELSE "ok") /\ UNCHANGED room
guard(m) ==
  /\ Refuses(m, IF Expired(m.token) THEN "invalid"
                ELSE IF member = "this" THEN "ok" ELSE "stranger")
  /\ UNCHANGED room
\* The page has gone when the reply comes.
leaveRoom(m) ==
  /\ member' = IF member = "this" THEN "no" ELSE member
  /\ UNCHANGED <<room, memory, issued, replies>>

Handles(m) ==
  CASE m.kind = "create" -> createRoom(m)
    [] m.kind \in {"cached", "exists"} -> roomExists(m)
    [] m.kind = "valid" -> usernameValid(m)
    [] m.kind = "join" -> joinRoom(m)
    [] m.kind = "guard" -> guard(m)
    [] m.kind = "leave" -> leaveRoom(m)
Serve ==
  /\ wire # <<>> /\ Handles(Head(wire))
  /\ wire' = Tail(wire)
  /\ UNCHANGED <<lapsed, asked, cacheVars, pageVars, missed>>

Lapse ==
  /\ lapsed < issued /\ lapsed' = lapsed + 1
  /\ UNCHANGED <<room, memory, member, issued, wire, replies, asked, cacheVars, pageVars, missed>>
cleanExpiredRoomMemory ==
  /\ memory # None /\ Expired(memory) /\ memory' = None
  /\ UNCHANGED <<room, member, issued, lapsed, wire, replies, asked, cacheVars, pageVars, missed>>
cleanupUser ==
  /\ member = "old" /\ member' = "no"
  /\ UNCHANGED <<room, memory, issued, lapsed, wire, replies, asked, cacheVars, pageVars, missed>>
cleanEmptyRooms ==
  /\ room = "open" /\ member = "no" /\ room' = "gone"
  /\ UNCHANGED <<memory, member, issued, lapsed, wire, replies, asked, cacheVars, pageVars, missed>>

-----------------------------------------------------------------------------
(* Home, and the way into the room's page *)

\* CachedRoomsComponent.ngOnInit, each time the home page is shown.
ShowsHome(pending) ==
  /\ page' = "home"
  /\ IF cache.kept /\ ~UnderWay("cached", 0)
     THEN Asks("cached", 0, None) /\ asked' = pending \cup {<<"cached", 0>>}
     ELSE asked' = pending /\ UNCHANGED wire
OnCached ==
  /\ Hears("cached") /\ Awaited /\ asked' = Heard
  /\ IF Answer.is = "ok" THEN UNCHANGED cacheVars ELSE Deletes
  /\ UNCHANGED <<wire, pageVars, missed>>
onClearCachedRooms ==
  /\ page = "home" /\ cache.kept /\ Deletes
  /\ UNCHANGED <<serverVars, wire, replies, asked, pageVars, missed>>

onCreateRoom ==
  /\ page = "home" /\ room = "none" /\ <<"create", 0>> \notin asked
  /\ Asks("create", 0, None) /\ Pends("create", 0)
  /\ UNCHANGED <<serverVars, replies, cacheVars, pageVars, missed>>
\* RoomGuard.canActivate asks the server with the token just saved.
OnCreated ==
  /\ Hears("create") /\ Awaited
  /\ Saves([kept |-> TRUE, token |-> Answer.token, prompt |-> FALSE])
  /\ Asks("guard", 0, Answer.token)
  /\ asked' = Heard \cup {<<"guard", 0>>}
  /\ missed' = FALSE
  /\ UNCHANGED pageVars

OpenRoom ==
  /\ page = "home" /\ cache.token # None
  /\ Asks("guard", 0, cache.token) /\ Pends("guard", 0)
  /\ UNCHANGED <<serverVars, replies, cacheVars, pageVars, missed>>
NewForm(link) ==
  [link |-> link, by |-> "", token |-> None, old |-> FALSE, enabled |-> FALSE,
   name |-> "", timer |-> "off"]
\* JoinRoomComponent.ngOnInit
ShowsJoin(link, pending) ==
  LET f == Len(forms) + 1 IN
  /\ f <= MaxForms /\ f + issued <= MaxMade
  /\ page' = "join" /\ forms' = Append(forms, NewForm(link))
  /\ Asks("exists", f, None) /\ asked' = pending \cup {<<"exists", f>>}
OnGuard ==
  /\ Hears("guard") /\ Awaited
  /\ CASE Answer.is = "ok" ->
            /\ page' = "room" /\ asked' = Heard /\ UNCHANGED <<wire, forms>>
       [] Answer.is = "stranger" ->
            IF cache.kept THEN ShowsJoin(FALSE, Heard) ELSE asked' = Heard /\ UNCHANGED <<wire, pageVars>>
       [] OTHER -> ShowsHome(Heard) /\ UNCHANGED forms
  /\ UNCHANGED <<cacheVars, missed>>
\* JoinGuard.canActivate
OpenJoin(link) ==
  /\ page = "home" /\ room # "none" /\ (cache.kept \/ link)
  /\ ShowsJoin(link, Unguarded)
  /\ UNCHANGED <<serverVars, replies, cacheVars, missed>>

-----------------------------------------------------------------------------
(* The join page *)

Current == Last(forms)
Sets(f, form) == forms' = [forms EXCEPT ![f] = form]

\* The form goes by the token of the entry, else by the link, else home.  A
\* remembered name is filled in, which starts the validators and, with a token,
\* the delay of the automatic join.
OnExists ==
  /\ Hears("exists") /\ Awaited
  /\ LET f == Answer.form
         by == IF cache.token # None THEN "token" ELSE IF forms[f].link THEN "link" ELSE "" IN
     IF Answer.is # "ok" THEN asked' = Heard /\ UNCHANGED <<wire, pageVars>>
     ELSE /\ Sets(f, [forms[f] EXCEPT !.link = FALSE, !.by = by, !.token = cache.token, !.old = cache.kept,
                                      !.enabled = TRUE,
                                      !.name = IF cache.kept THEN "given" ELSE "",
                                      !.timer = IF by = "token" THEN "on" ELSE "off"])
          /\ IF by = "" THEN ShowsHome(Heard \ {<<"guard", 0>>})
             ELSE asked' = Heard /\ UNCHANGED <<wire, page>>
  /\ UNCHANGED <<cacheVars, missed>>
\* The form is shown if no name is remembered.
Types ==
  /\ page = "join" /\ Current.by = "link" /\ ~Current.old /\ Current.enabled
  /\ Current.name # "given" /\ <<"valid", Len(forms)>> \notin asked
  /\ Sets(Len(forms), [Current EXCEPT !.name = "given"])
  /\ UNCHANGED <<serverVars, wire, replies, asked, cacheVars, page, missed>>
\* usernameAvailable, after its debounce; the token is read at that time.
Validates(f) ==
  /\ forms[f].name = "given"
  /\ Asks("valid", f, cache.token) /\ Pends("valid", f)
  /\ Sets(f, [forms[f] EXCEPT !.name = "asked"])
  /\ UNCHANGED <<serverVars, replies, cacheVars, page, missed>>
OnValid ==
  /\ Hears("valid") /\ Awaited /\ asked' = Heard
  /\ Sets(Answer.form, [forms[Answer.form] EXCEPT
       !.name = IF Answer.is = "ok" THEN "free" ELSE "taken"])
  /\ IF Answer.is = "invalid" /\ cache.kept THEN ForgetsToken ELSE UNCHANGED cacheVars
  /\ UNCHANGED <<wire, page, missed>>

\* The delay is over: joins if the form is valid by now, on the page or not.
TimerFires(f) ==
  /\ forms[f].timer = "on"
  /\ IF forms[f].name = "free"
     THEN /\ Asks("join", f, forms[f].token) /\ Pends("join", f)
          /\ Sets(f, [forms[f] EXCEPT !.timer = "done", !.enabled = FALSE])
     ELSE Sets(f, [forms[f] EXCEPT !.timer = "done"]) /\ UNCHANGED <<wire, asked>>
  /\ UNCHANGED <<serverVars, replies, cacheVars, page, missed>>
\* Mutant of onJoinRoom: the form stays enabled.
onJoinRoomEnabled ==
  /\ page = "join" /\ Current.by = "link" /\ ~Current.old
  /\ Current.enabled /\ Current.name = "free"
  /\ Asks("join", Len(forms), None) /\ Pends("join", Len(forms))
  /\ UNCHANGED <<serverVars, replies, cacheVars, pageVars, missed>>
onJoinRoom ==
  /\ page = "join" /\ Current.by = "link" /\ ~Current.old
  /\ Current.enabled /\ Current.name = "free"
  /\ Asks("join", Len(forms), None) /\ Pends("join", Len(forms))
  /\ Sets(Len(forms), [Current EXCEPT !.enabled = FALSE])
  /\ UNCHANGED <<serverVars, replies, cacheVars, page, missed>>

\* Mutant of Joined: the old entry is spread over the reply.
JoinedUnder(token) ==
  [kept |-> TRUE, token |-> IF cache.token # None THEN cache.token ELSE token,
   prompt |-> cache.prompt]
\* _joinRoom: the reply over what is remembered.
Joined(token) == [kept |-> TRUE, token |-> token, prompt |-> cache.prompt]
OnJoined ==
  /\ Hears("join") /\ Awaited /\ Answer.is = "ok"
  /\ Saves(Joined(Answer.token))
  /\ IF page = "room" THEN asked' = Heard /\ UNCHANGED wire
     ELSE Asks("guard", 0, cache'.token) /\ asked' = Heard \cup {<<"guard", 0>>}
  /\ missed' = FALSE
  /\ UNCHANGED pageVars
\* The form is enabled again without an event: its validators stay pending.
OnJoinRefused ==
  /\ Hears("join") /\ Awaited /\ Answer.is # "ok" /\ asked' = Heard
  /\ Sets(Answer.form, [forms[Answer.form] EXCEPT
       !.enabled = TRUE, !.name = "unchecked"])
  /\ UNCHANGED <<wire, cacheVars, page, missed>>

-----------------------------------------------------------------------------
(* Leaving, timeouts, and the end of a connection *)

\* RoomComponent.canDeactivate and ngOnDestroy.
LeaveRoom(prevent) ==
  /\ page = "room" /\ cache.kept
  /\ IF cache.prompt THEN UNCHANGED cacheVars ELSE Saves([cache EXCEPT !.prompt = prevent])
  /\ page' = "home"
  /\ ~UnderWay("leave", 0) /\ ~UnderWay("cached", 0)
  /\ wire' = wire \o <<[kind |-> "leave", form |-> 0, token |-> None],
                       [kind |-> "cached", form |-> 0, token |-> None]>>
  /\ Pends("cached", 0)
  /\ UNCHANGED <<serverVars, replies, forms, missed>>
LeaveJoin ==
  /\ page = "join" /\ ShowsHome(Unguarded)
  /\ UNCHANGED <<serverVars, replies, cacheVars, forms, missed>>

\* The handlers of a SocketError fail on err.error.type, except RoomGuard's.
Timeout(kind, f) ==
  /\ <<kind, f>> \in asked
  /\ IF kind = "guard" THEN ShowsHome(asked \ {<<kind, f>>})
     ELSE asked' = asked \ {<<kind, f>>} /\ UNCHANGED <<wire, page>>
  /\ missed' = (missed \/ kind \in {"create", "join"})
  /\ UNCHANGED <<serverVars, replies, cacheVars, forms>>

Lost(kind) == \E f \in 0 .. MaxForms : <<kind, f>> \in asked \/ UnderWay(kind, f)
\* Another connection: the requests of the last are left to their timeouts.
NewSocket ==
  /\ wire' = <<>> /\ replies' = <<>> /\ asked' = {}
  /\ member' = IF member = "this" THEN "old" ELSE member
  /\ page' = "home"
  /\ missed' = (missed \/ Lost("create") \/ Lost("join"))
  /\ UNCHANGED <<room, memory, issued, lapsed>>
\* AppComponent.reconnect, after a loss that destroyed the page.
reconnect == NewSocket /\ UNCHANGED <<cacheVars, forms>>
\* The page is loaded anew, with what localStorage holds.
Reload == NewSocket /\ cache' = Loaded /\ stored' = Loaded /\ forms' = <<>>

-----------------------------------------------------------------------------
Init ==
  /\ room \in {"none", "open"} /\ memory = None /\ member = "no"
  /\ issued = 0 /\ lapsed = 0
  /\ wire = <<>> /\ replies = <<>> /\ asked = {}
  /\ cache = NoEntry /\ stored = NoEntry
  /\ page = "home" /\ forms = <<>> /\ missed = FALSE

ServerStep == Serve \/ Lapse \/ cleanExpiredRoomMemory \/ cleanupUser \/ cleanEmptyRooms
HomeStep == onCreateRoom \/ onClearCachedRooms \/ OpenRoom \/ \E link \in BOOLEAN : OpenJoin(link)
JoinStep == Types \/ onJoinRoom \/ \E f \in DOMAIN forms : Validates(f) \/ TimerFires(f)
HearStep ==
  \/ OnCached \/ OnCreated \/ OnGuard \/ OnExists \/ OnValid
  \/ OnJoined \/ OnJoinRefused \/ HearsLate
LeaveStep == LeaveJoin \/ reconnect \/ Reload \/ \E prevent \in BOOLEAN : LeaveRoom(prevent)
Next ==
  \/ ServerStep \/ HomeStep \/ JoinStep \/ HearStep \/ LeaveStep
  \/ \E a \in asked : Timeout(a[1], a[2])
Spec == Init /\ [][Next]_joinVars

\* Requests are served and answered, and timers fire.
FairSpec ==
  /\ Spec /\ WF_joinVars(Serve) /\ WF_joinVars(HearStep)
  /\ \A f \in 1 .. MaxForms :
       WF_joinVars(f \in DOMAIN forms /\ (Validates(f) \/ TimerFires(f)))
-----------------------------------------------------------------------------
(* Properties *)

\* The token a tab remembers, and the one a reload would bring back, is the one
\* the server remembers for its name, so that it opens the room again, as long
\* as it has not expired, whatever joins, leaves and reloads came before: unless
\* the reply to a join was lost, until the next one that is not.
TokenRemembered ==
  (/\ room = "open" /\ ~missed
   /\ \A m \in Range(replies) : m.kind \in {"create", "join"} => m.is # "ok")
  => \A entry \in {cache, stored} : entry.token > lapsed => memory = entry.token

\* localStorage never lags behind the memory but for a token that the server
\* called invalid, which a reload brings back.
StorageFollows == cache # stored => cache = [stored EXCEPT !.token = None]

\* The page of the room is shown to members only: no answer of the guard is
\* acted upon after the membership it vouched for has ended.
RoomPageToMembers == page = "room" => member = "this"

\* src/README.md:15: "a user can join back any room that is still alive": the
\* page that says it joins automatically gets the user in or finds that it cannot.
JoinsBack ==
  (page = "join" /\ Current.by = "token" /\ Current.old)
    ~> (page # "join" \/ Current.name \in {"taken", "unchecked"} \/ room # "open" \/ Expired(Current.token))
=============================================================================
